-------------------------- MODULE EngineVaultProofs -------------------------
(***************************************************************************)
(* The vault of the engine against what its books owe: that whatever       *)
(* trades, closes, liquidations and fundings follow one another, the vault *)
(* holds what it owes and nothing else, up to a rounding that grows with   *)
(* the number of transactions only.                                        *)
(***************************************************************************)
EXTENDS EngineBookProofs

-----------------------------------------------------------------------------
(* What the queued transfers bring to the vault                            *)

Flow(m) ==
    IF m.kind = "transfer"
    THEN (IF m.to = Engine THEN m.amount ELSE 0) - (IF m.from = Engine THEN m.amount ELSE 0)
    ELSE 0
FlowsOf(s) == [i \in 1 .. Len(s) |-> Flow(s[i])]
Incoming(s) == SumFunctionOnSet(FlowsOf(s), 1 .. Len(s))
Flows(s) == IsSequence(s) /\ \A i \in 1 .. Len(s) : Flow(s[i]) \in Int

LEMMA IncomingNothing == Incoming(<<>>) = 0 /\ Flows(<<>>)
<1>1. Len(<<>>) = 0 /\ <<>> \in Seq({})
  BY SMT
<1>2. 1 .. 0 = {} /\ 1 .. (1 - 1) = 1 .. 0
  BY SMT
<1>3. 1 \in Int
  BY SMT
<1>4. SumFunctionOnSet(FlowsOf(<<>>), 1 .. (1 - 1)) = 0
  BY <1>3, SumToNothing
<1>5. QED
  BY <1>1, <1>2, <1>4 DEF Incoming, Flows, IsSequence

LEMMA IncomingBoth ==
    ASSUME NEW s, NEW t, Flows(s), Flows(t)
    PROVE  Flows(s \o t) /\ Incoming(s \o t) = Incoming(s) + Incoming(t)
                         /\ Incoming(s) \in Int
<1>1. PICK S : s \in Seq(S)
  BY DEF Flows, IsSequence
<1>2. PICK T : t \in Seq(T)
  BY DEF Flows, IsSequence
<1>3. s \in Seq(S \union T) /\ t \in Seq(S \union T)
  BY <1>1, <1>2, SMT
<1> DEFINE both == s \o t
           a == Len(s)
           b == Len(t)
<1>4. /\ both \in Seq(S \union T) /\ Len(both) = a + b /\ a \in Nat /\ b \in Nat
      /\ \A i \in 1 .. a : i \in 1 .. (a + b) /\ both[i] = s[i]
      /\ \A i \in 1 .. b : a + i \in 1 .. (a + b) /\ both[a + i] = t[i]
      /\ \A i \in 1 .. (a + b) : i \in 1 .. a \/ (i - a \in 1 .. b /\ both[i] = t[i - a])
  BY <1>3, SMT
<1> HIDE DEF both
<1>5. \A i \in 1 .. Len(both) : Flow(both[i]) \in Int
  BY <1>4 DEF Flows
<1>6. Flows(both)
  BY <1>4, <1>5 DEF Flows, IsSequence
<1> DEFINE f == FlowsOf(s)
           g == FlowsOf(t)
           h == FlowsOf(both)
<1>7. /\ \A i \in 1 .. a : f[i] = h[i] /\ f[i] \in Int
      /\ \A i \in 1 .. b : h[a + i] = g[i] /\ g[i] \in Int
      /\ \A i \in 1 .. (a + b) : h[i] \in Int
  BY <1>4, <1>5 DEF Flows, FlowsOf
<1> HIDE DEF f, g, h, a, b
<1>8. \A n \in Int : IsFiniteSet(1 .. n)
  BY FS_Interval
<1>9. SumFunctionOnSet(f, 1 .. a) \in Int /\ SumFunctionOnSet(g, 1 .. b) \in Int
  <2>1. a \in Int /\ b \in Int
    BY <1>4, SMT
  <2>2. QED
    BY <1>7, <1>8, <2>1, SumType
<1> DEFINE U == {k \in 0 .. b : SumFunctionOnSet(h, 1 .. (a + k))
                                  = SumFunctionOnSet(f, 1 .. a) + SumFunctionOnSet(g, 1 .. k)}
<1>10. 0 \in U
  <2>1. SumFunctionOnSet(g, 1 .. (1 - 1)) = 0
    BY SumToNothing, SMT
  <2>2. 1 .. (1 - 1) = 1 .. 0 /\ a + 0 = a /\ 0 \in 0 .. b
    BY <1>4, SMT
  <2>3. SumFunctionOnSet(f, 1 .. a) = SumFunctionOnSet(h, 1 .. a)
    <3>1. a \in Int
      BY <1>4, SMT
    <3>2. QED
      BY <1>7, <1>8, <3>1, SumOfEqual
  <2>4. SumFunctionOnSet(g, 1 .. 0) = 0
    BY <2>1, <2>2
  <2>5. SumFunctionOnSet(f, 1 .. a) = SumFunctionOnSet(f, 1 .. a) + 0
    BY <1>9, SMT
  <2>6. QED
    BY <2>2, <2>3, <2>4, <2>5
<1>11. ASSUME NEW k \in 0 .. b, k # 0, k - 1 \in U
       PROVE  k \in U
  <2>1. /\ k \in 1 .. b /\ k \in Int /\ 1 \in Int /\ 1 <= k /\ a + k \in Int /\ 1 <= a + k
        /\ a + (k - 1) = (a + k) - 1 /\ 1 .. k \subseteq 1 .. b
        /\ 1 .. (a + k) \subseteq 1 .. (a + b)
    BY <1>4, <1>11, SMT
  <2>2. SumFunctionOnSet(g, 1 .. k) = SumFunctionOnSet(g, 1 .. (k - 1)) + g[k]
    BY <1>7, <2>1, SumToNext
  <2>3. SumFunctionOnSet(h, 1 .. (a + k))
          = SumFunctionOnSet(h, 1 .. ((a + k) - 1)) + h[a + k]
    <3>1. \A i \in 1 .. (a + k) : h[i] \in Int
      BY <1>7, <2>1
    <3>2. QED
      BY <2>1, <3>1, SumToNext, ZenonT(40)
  <2>4. SumFunctionOnSet(h, 1 .. ((a + k) - 1))
          = SumFunctionOnSet(f, 1 .. a) + SumFunctionOnSet(g, 1 .. (k - 1))
    BY <1>11, <2>1
  <2>5. SumFunctionOnSet(g, 1 .. (k - 1)) \in Int /\ g[k] \in Int /\ h[a + k] = g[k]
    <3>1. k - 1 \in Int /\ 1 .. (k - 1) \subseteq 1 .. b
      BY <2>1, SMT
    <3>2. QED
      BY <1>7, <1>8, <2>1, <3>1, SumType
  <2> PICK x, y : x = SumFunctionOnSet(f, 1 .. a) /\ y = SumFunctionOnSet(g, 1 .. (k - 1))
    OBVIOUS
  <2>6. (x + y) + g[k] = x + (y + g[k])
    BY <1>9, <2>5, SMT
  <2>7. QED
    BY <1>11, <2>2, <2>3, <2>4, <2>5, <2>6
<1>12. b \in U
  <2>1. 0 \in Int /\ b \in Int /\ b \in 0 .. b
    BY <1>4, SMT
  <2> HIDE DEF U
  <2>2. \A k \in 0 .. b : k \in U
    BY <1>10, <1>11, <2>1, IntervalInduction
  <2>3. QED
    BY <2>1, <2>2
<1>13. QED
  BY <1>4, <1>6, <1>9, <1>12 DEF Incoming, f, g, h, a, b, both

LEMMA IncomingOne ==
    ASSUME NEW m, Flow(m) \in Int
    PROVE  Flows(<<m>>) /\ Incoming(<<m>>) = Flow(m)
<1>1. Len(<<m>>) = 1 /\ <<m>>[1] = m /\ <<m>> \in Seq({m}) /\ 1 .. 1 = {1} /\ 1 \in 1 .. 1
      /\ 1 \in Int /\ 1 - 1 = 0 /\ 1 <= 1
  BY SMT
<1>2. FlowsOf(<<m>>) = [i \in 1 .. 1 |-> Flow(<<m>>[i])]
  BY <1>1 DEF FlowsOf
<1>3. FlowsOf(<<m>>)[1] = Flow(m) /\ \A i \in 1 .. 1 : FlowsOf(<<m>>)[i] \in Int
  BY <1>1, <1>2
<1>4. SumFunctionOnSet(FlowsOf(<<m>>), 1 .. 1)
        = SumFunctionOnSet(FlowsOf(<<m>>), 1 .. (1 - 1)) + FlowsOf(<<m>>)[1]
  BY <1>1, <1>3, SumToNext
<1>5. SumFunctionOnSet(FlowsOf(<<m>>), 1 .. (1 - 1)) = 0
  BY <1>1, SumToNothing
<1>6. 0 + Flow(m) = Flow(m)
  BY SMT
<1>7. QED
  BY <1>1, <1>3, <1>4, <1>5, <1>6 DEF Incoming, Flows, IsSequence

LEMMA IncomingRest ==
    ASSUME NEW s, Flows(s), s # <<>>
    PROVE  /\ Flow(Head(s)) \in Int /\ Incoming(Tail(s)) \in Int
           /\ Incoming(s) = Flow(Head(s)) + Incoming(Tail(s))
<1>1. PICK S : s \in Seq(S)
  BY DEF Flows, IsSequence
<1>2. /\ 1 \in 1 .. Len(s) /\ Head(s) = s[1] /\ Tail(s) \in Seq(S)
      /\ \A i \in 1 .. Len(Tail(s)) : i + 1 \in 1 .. Len(s) /\ Tail(s)[i] = s[i + 1]
      /\ <<s[1]>> \o Tail(s) = s
  BY <1>1, SMT
<1>3. Flow(Head(s)) \in Int /\ Flows(Tail(s))
  BY <1>2 DEF Flows, IsSequence
<1>4. Flows(<<Head(s)>>) /\ Incoming(<<Head(s)>>) = Flow(Head(s))
  BY <1>3, IncomingOne
<1>5. Incoming(Tail(s)) \in Int
  BY <1>3, IncomingBoth
<1>6. QED
  BY <1>2, <1>3, <1>4, <1>5, IncomingBoth

\* Transfers to and from the vault, and others.
LEMMA FlowOfTransfer ==
    ASSUME NEW from, NEW to, NEW n \in Nat
    PROVE  Flow(Transfer(from, to, n))
             = (IF to = Engine THEN n ELSE 0) - (IF from = Engine THEN n ELSE 0)
BY DEF Flow, Transfer

LEMMA PaidFlows ==
    ASSUME NEW trader, NEW s, Pays(s, trader)
    PROVE  Flows(s)
<1>1. ASSUME NEW i \in 1 .. Len(s)
      PROVE  Flow(s[i]) \in Int
  <2>1. CASE s[i].kind = "transfer"
    <3>1. s[i].amount \in Nat
      BY <2>1 DEF Pays
    <3>2. QED
      BY <3>1, SMT DEF Flow
  <2>2. CASE s[i].kind # "transfer"
    BY <2>2, SMT DEF Flow
  <2>3. QED
    BY <2>1, <2>2
<1>2. QED
  BY <1>1 DEF Flows, Pays


-----------------------------------------------------------------------------
(* What the books owe                                                      *)

\* What a position would get if the AMM were unwound, in coins, and what it
\* owes for the funding up to the cumulative premium c, in fractions of a coin.
Net(p) == p.margin - Signed(p.direction, p.notional)
Unpaid(p, c) == (c - p.last_updated_premium_fraction) * p.size
Claim(p, c) == Decimals * Net(p) - Unpaid(p, c)
ClaimsOf(p, c) == [trader \in Traders |-> Claim(p[trader], c)]
Claims(p, c) == SumFunctionOnSet(ClaimsOf(p, c), Traders)

\* What truncation takes off, in fractions of a unit.
LEMMA TruncationError ==
    ASSUME NEW x \in Int
    PROVE  /\ TruncDiv(x, Decimals) \in Int /\ Decimals * TruncDiv(x, Decimals) \in Int
           /\ Decimals * TruncDiv(x, Decimals) - x <= Decimals - 1
           /\ x - Decimals * TruncDiv(x, Decimals) <= Decimals - 1
           /\ x = 0 => TruncDiv(x, Decimals) = 0
<1> PICK d : d = Decimals
  OBVIOUS
<1>1. d \in Nat \ {0}
  BY DecimalsAssumption
<1>2. \A n \in Nat : n \div d \in Nat /\ d * (n \div d) \in Nat
                       /\ d * (n \div d) <= n /\ n - d * (n \div d) <= d - 1
  <2> TAKE n \in Nat
  <2>1. n \div d \in Nat /\ n % d \in 0 .. (d - 1) /\ n = d * (n \div d) + (n % d)
    BY <1>1, DivMod
  <2> PICK q, r : q = n \div d /\ r = n % d
    OBVIOUS
  <2>2. d * q \in Nat
    BY <1>1, <2>1, SMT
  <2>3. q \in Nat /\ d * q \in Nat /\ d * q <= n /\ n - d * q <= d - 1
    BY <1>1, <2>1, <2>2, SMT
  <2>4. QED
    BY <2>3
<1>3. CASE x >= 0
  <2>1. x \in Nat /\ TruncDiv(x, d) = x \div d
    BY <1>3, SMT DEF TruncDiv
  <2> PICK q : q = x \div d
    OBVIOUS
  <2>2. q \in Nat /\ d * q \in Nat /\ d * q <= x /\ x - d * q <= d - 1
    BY <1>2, <2>1
  <2>3. x = 0 => q = 0
    BY <1>1, <2>2, SMT
  <2>4. q \in Int /\ d * q \in Int /\ d * q - x <= d - 1 /\ x - d * q <= d - 1
    BY <1>1, <2>2, SMT
  <2>5. QED
    BY <2>1, <2>3, <2>4
<1>4. CASE ~(x >= 0)
  <2>1. -x \in Nat /\ TruncDiv(x, d) = -((-x) \div d)
    BY <1>4, SMT DEF TruncDiv
  <2> PICK q : q = (-x) \div d
    OBVIOUS
  <2>2. q \in Nat /\ d * q \in Nat /\ d * q <= -x /\ -x - d * q <= d - 1
    BY <1>2, <2>1
  <2>3. -q \in Int /\ d * (-q) = -(d * q)
    BY <1>1, <2>2, SMT
  <2>4. d * (-q) \in Int /\ d * (-q) - x <= d - 1 /\ x - d * (-q) <= d - 1 /\ x # 0
    BY <1>1, <1>4, <2>2, <2>3, SMT
  <2>5. QED
    BY <2>1, <2>3, <2>4
<1>5. QED
  BY <1>3, <1>4

LEMMA ClaimTypes ==
    \A p \in Position, c \in Int :
        /\ Net(p) \in Int /\ Unpaid(p, c) \in Int /\ Claim(p, c) \in Int
        /\ Decimals * Net(p) \in Int
<1> TAKE p \in Position, c \in Int
<1>1. /\ p.margin \in Nat /\ p.notional \in Nat /\ p.size \in Int
      /\ p.last_updated_premium_fraction \in Int
  BY PositionFields
<1>2. Net(p) \in Int
  BY <1>1, SMT DEF Net, Signed
<1>3. Unpaid(p, c) \in Int
  <2>1. c - p.last_updated_premium_fraction \in Int
    BY <1>1, SMT
  <2> PICK a : a = c - p.last_updated_premium_fraction
    OBVIOUS
  <2>2. a * p.size \in Int
    BY <1>1, <2>1, SMT
  <2>3. QED
    BY <2>2 DEF Unpaid
<1>4. Decimals * Net(p) \in Int
  BY <1>2, DecimalsAssumption, SMT
<1>5. Claim(p, c) \in Int
  <2> PICK a, b : a = Decimals * Net(p) /\ b = Unpaid(p, c)
    OBVIOUS
  <2>1. a - b \in Int
    BY <1>3, <1>4, SMT
  <2>2. QED
    BY <2>1 DEF Claim
<1>6. QED
  BY <1>2, <1>3, <1>4, <1>5

\* The sum of sums.
LEMMA SumOfSums ==
    ASSUME NEW S, IsFiniteSet(S), NEW f, NEW g, NEW h,
           \A x \in S : f[x] \in Int /\ g[x] \in Int /\ h[x] = f[x] + g[x]
    PROVE  SumFunctionOnSet(h, S) = SumFunctionOnSet(f, S) + SumFunctionOnSet(g, S)
<1> DEFINE Bad == {s \in SUBSET S : SumFunctionOnSet(h, s)
                                      # SumFunctionOnSet(f, s) + SumFunctionOnSet(g, s)}
<1>1. SUFFICES ASSUME Bad # {} PROVE FALSE
  OBVIOUS
<1>2. PICK x \in Bad : \A y \in Bad : ~(y \subseteq x /\ y # x)
  <2>1. Bad \subseteq SUBSET S
    OBVIOUS
  <2> HIDE DEF Bad
  <2>2. QED
    BY <1>1, <2>1, MinimalSubset
<1>3. IsFiniteSet(x) /\ x \subseteq S
  BY FS_Subset
<1>4. x # {}
  <2>1. SUFFICES ASSUME x = {} PROVE FALSE
    OBVIOUS
  <2>2. SumFunctionOnSet(h, x) = 0 /\ SumFunctionOnSet(f, x) = 0 /\ SumFunctionOnSet(g, x) = 0
    BY <1>3, <2>1, SumStep
  <2>3. 0 + 0 = 0
    BY SMT
  <2>4. QED
    BY <1>2, <2>2, <2>3
<1>5. Others(x) \in SUBSET S /\ Others(x) \notin Bad /\ AnyOf(x) \in S
  BY <1>2, <1>4, OthersSmaller
<1> DEFINE a == f[AnyOf(x)]
           b == g[AnyOf(x)]
           c == SumFunctionOnSet(f, Others(x))
           d == SumFunctionOnSet(g, Others(x))
<1>6. h[AnyOf(x)] = a + b /\ SumFunctionOnSet(h, Others(x)) = c + d
  BY <1>5
<1>7. a \in Int /\ b \in Int /\ c \in Int /\ d \in Int
  <2>1. IsFiniteSet(Others(x)) /\ \A y \in Others(x) : f[y] \in Int /\ g[y] \in Int
    BY <1>5, FS_Subset
  <2>2. QED
    BY <1>5, <2>1, SumType
<1>8. /\ SumFunctionOnSet(h, x) = h[AnyOf(x)] + SumFunctionOnSet(h, Others(x))
      /\ SumFunctionOnSet(f, x) = a + c /\ SumFunctionOnSet(g, x) = b + d
  BY <1>3, <1>4, SumStep
<1> HIDE DEF a, b, c, d
<1>9. (a + b) + (c + d) = (a + c) + (b + d)
  BY <1>7, SMT
<1>10. SumFunctionOnSet(h, x) = SumFunctionOnSet(f, x) + SumFunctionOnSet(g, x)
  BY <1>6, <1>8, <1>9, Zenon
<1>11. QED
  BY <1>2, <1>10

\* The claims as the positions and the premium change.
LEMMA ClaimsFacts ==
    /\ \A p \in [Traders -> Position], c \in Int : Claims(p, c) \in Int
    /\ \A p \in [Traders -> Position], c \in Int : \A trader \in Traders, new \in Position :
          Claims([p EXCEPT ![trader] = new], c)
            = Claims(p, c) + (Claim(new, c) - Claim(p[trader], c))
    /\ \A p \in [Traders -> Position], c \in Int, d \in Int :
          Claims(p, c + d) = Claims(p, c) - d * Total(p)
<1>1. \A p \in [Traders -> Position], c \in Int : \A trader \in Traders :
         /\ ClaimsOf(p, c)[trader] = Claim(p[trader], c) /\ ClaimsOf(p, c)[trader] \in Int
         /\ Sizes(p)[trader] = p[trader].size /\ Sizes(p)[trader] \in Int
  BY ClaimTypes, PositionFields DEF ClaimsOf, Sizes
<1>2. \A p \in [Traders -> Position], c \in Int : Claims(p, c) \in Int
  BY <1>1, TradersFinite, SumType DEF Claims
<1>3. ASSUME NEW p \in [Traders -> Position], NEW c \in Int, NEW trader \in Traders,
             NEW new \in Position
      PROVE  Claims([p EXCEPT ![trader] = new], c)
               = Claims(p, c) + (Claim(new, c) - Claim(p[trader], c))
  <2> DEFINE q == [p EXCEPT ![trader] = new]
  <2>1. /\ q \in [Traders -> Position] /\ q[trader] = new
        /\ \A other \in Traders \ {trader} : q[other] = p[other]
    OBVIOUS
  <2> HIDE DEF q
  <2>2. /\ \A x \in Traders : ClaimsOf(p, c)[x] \in Int
        /\ \A x \in Traders : ClaimsOf(q, c)[x] \in Int
        /\ \A x \in Traders : x # trader => ClaimsOf(p, c)[x] = ClaimsOf(q, c)[x]
    BY <1>1, <2>1
  <2>3. SumFollows(ClaimsOf(p, c), ClaimsOf(q, c), trader, Traders)
    BY <2>2, TradersFinite, ChangeOne
  <2>4. ClaimsOf(q, c)[trader] = Claim(new, c) /\ ClaimsOf(p, c)[trader] = Claim(p[trader], c)
    BY <1>1, <2>1
  <2>5. Claims(q, c) = Claims(p, c) + (Claim(new, c) - Claim(p[trader], c))
    BY <2>3, <2>4, Zenon DEF Claims, SumFollows
  <2>6. QED
    BY <2>5 DEF q
<1>4. ASSUME NEW p \in [Traders -> Position], NEW c \in Int, NEW d \in Int
      PROVE  Claims(p, c + d) = Claims(p, c) - d * Total(p)
  <2> DEFINE e == c + d
             k == -d
             f == [trader \in Traders |-> k * Sizes(p)[trader]]
  <2>1. e \in Int /\ k \in Int
    BY SMT
  <2>2. \A x \in Traders : f[x] = k * Sizes(p)[x] /\ f[x] \in Int
    <3> TAKE x \in Traders
    <3>1. f[x] = k * Sizes(p)[x]
      OBVIOUS
    <3> HIDE DEF f, k
    <3> PICK a : a = Sizes(p)[x]
      OBVIOUS
    <3>2. k * a \in Int
      BY <1>1, <2>1, SMT
    <3>3. QED
      BY <3>1, <3>2
  <2>3. \A x \in Traders : ClaimsOf(p, e)[x] = ClaimsOf(p, c)[x] + f[x]
    <3> TAKE x \in Traders
    <3> PICK a, s, l : a = Decimals * Net(p[x]) /\ s = p[x].size
                         /\ l = p[x].last_updated_premium_fraction
      OBVIOUS
    <3>1. a \in Int /\ s \in Int /\ l \in Int
      BY ClaimTypes, PositionFields
    <3>2. /\ ClaimsOf(p, e)[x] = a - (e - l) * s
          /\ ClaimsOf(p, c)[x] = a - (c - l) * s
          /\ f[x] = k * s
      BY <1>1, <2>1, <2>2 DEF Claim, Unpaid
    <3>3. a - (e - l) * s = (a - (c - l) * s) + k * s
      <4>1. (e - l) * s = (c - l) * s + d * s /\ k * s = -(d * s)
        BY <3>1, SMT
      <4>2. (c - l) * s \in Int /\ d * s \in Int
        BY <3>1, SMT
      <4> PICK y, z : y = (c - l) * s /\ z = d * s
        OBVIOUS
      <4>3. a - (y + z) = (a - y) + (-z)
        BY <3>1, <4>2, SMT
      <4>4. QED
        BY <4>1, <4>3
    <3>4. QED
      BY <3>2, <3>3
  <2> HIDE DEF e, f, k
  <2>4. SumFunctionOnSet(ClaimsOf(p, e), Traders)
          = SumFunctionOnSet(ClaimsOf(p, c), Traders) + SumFunctionOnSet(f, Traders)
    BY <1>1, <2>2, <2>3, TradersFinite, SumOfSums
  <2>5. SumFunctionOnSet(f, Traders) = k * SumFunctionOnSet(Sizes(p), Traders)
    <3>1. /\ \A x \in Traders : Sizes(p)[x] \in Int
          /\ \A x \in Traders : f[x] = k * Sizes(p)[x]
      BY <1>1, <2>2
    <3>2. QED
      BY <2>1, <3>1, TradersFinite, SumScaled
  <2>6. Claims(p, e) = Claims(p, c) + k * Total(p)
    BY <2>4, <2>5 DEF Claims, Total
  <2>7. Claims(p, c) \in Int /\ Total(p) \in Int
    BY <1>2, TotalFacts
  <2> PICK y, t : y = Claims(p, c) /\ t = Total(p)
    OBVIOUS
  <2>8. y + k * t = y - d * t
    BY <2>7, SMT DEF k
  <2>9. QED
    BY <2>6, <2>8 DEF e
<1>5. QED
  BY <1>2, <1>3, <1>4

-----------------------------------------------------------------------------
(* What the transfers of the engine bring to the vault                     *)

LEMMA TransferFlow ==
    ASSUME NEW from, NEW to, NEW n \in Nat
    PROVE  LET flow == (IF to = Engine THEN n ELSE 0) - (IF from = Engine THEN n ELSE 0)
           IN  /\ Flows(<<Transfer(from, to, n)>>)
               /\ Incoming(<<Transfer(from, to, n)>>) = flow
               /\ Flows(TransferUnlessZero(from, to, n))
               /\ Incoming(TransferUnlessZero(from, to, n)) = flow
<1> DEFINE flow == (IF to = Engine THEN n ELSE 0) - (IF from = Engine THEN n ELSE 0)
           m == Transfer(from, to, n)
<1>1. Flow(m) = flow /\ flow \in Int /\ (n = 0 => flow = 0)
  BY FlowOfTransfer, SMT
<1> HIDE DEF flow, m
<1>2. Flows(<<m>>) /\ Incoming(<<m>>) = flow
  BY <1>1, IncomingOne
<1>3. TransferUnlessZero(from, to, n) = IF n = 0 THEN <<>> ELSE <<m>>
  BY DEF TransferUnlessZero, m
<1>4. QED
  BY <1>1, <1>2, <1>3, IncomingNothing DEF flow, m

LEMMA WithdrawFlow ==
    ASSUME balance \in [Holders -> Nat], engine_config \in EngineConfig,
           NEW receiver, receiver # Engine, NEW amount \in Nat, NEW prepaid \in Int
    PROVE  /\ Flows(Withdraw(receiver, amount, prepaid))
           /\ Incoming(Withdraw(receiver, amount, prepaid)) = Shortfall(amount, prepaid) - amount
<1> DEFINE fund == engine_config.insurance_fund
           lacking == Shortfall(amount, prepaid)
           first == IF lacking > 0 THEN <<Transfer(fund, Engine, lacking)>> ELSE <<>>
           second == <<Transfer(Engine, receiver, amount)>>
<1>1. lacking \in Nat
  <2>1. amount \in Int
    BY SMT
  <2>2. QED
    BY <2>1, ShortfallType
<1>2. fund # Engine
  BY Payable
<1>3. Withdraw(receiver, amount, prepaid) = first \o second
  BY Zenon DEF Withdraw
<1> HIDE DEF fund, lacking
<1>4. Flows(first) /\ Incoming(first) = lacking
  <2>1. Flows(<<Transfer(fund, Engine, lacking)>>)
        /\ Incoming(<<Transfer(fund, Engine, lacking)>>) = lacking - 0
    BY <1>1, <1>2, TransferFlow, Zenon
  <2>2. lacking - 0 = lacking /\ (lacking > 0 \/ lacking = 0)
    BY <1>1, SMT
  <2>3. QED
    BY <2>1, <2>2, IncomingNothing
<1>5. Flows(second) /\ Incoming(second) = 0 - amount
  BY TransferFlow, Zenon
<1> HIDE DEF first, second
<1>6. Flows(first \o second) /\ Incoming(first \o second) = lacking + (0 - amount)
  BY <1>4, <1>5, IncomingBoth
<1>7. lacking + (0 - amount) = lacking - amount
  BY <1>1, SMT
<1>8. QED
  BY <1>3, <1>6, <1>7 DEF lacking

LEMMA FeesFlow ==
    ASSUME engine_config \in EngineConfig, NEW trader \in Traders, NEW n \in Nat
    PROVE  /\ Flows(TransferFees(trader, n))
           /\ Incoming(TransferFees(trader, n))
                = IF Native THEN -(SpreadFee(n) + TollFee(n)) ELSE 0
           /\ SpreadFee(n) + TollFee(n) \in Nat
<1> DEFINE payer == IF Native THEN Engine ELSE trader
           fund == engine_config.insurance_fund
           pool == engine_config.fee_pool
           spread == SpreadFee(n)
           toll == TollFee(n)
           first == TransferUnlessZero(payer, fund, spread)
           second == TransferUnlessZero(payer, pool, toll)
<1>1. spread \in Nat /\ toll \in Nat
  BY FeeTypes
<1>2. fund # Engine /\ pool # Engine /\ trader # Engine
  BY PartiesAssumption, SMT DEF EngineConfig
<1>3. TransferFees(trader, n) = first \o second
  BY Zenon DEF TransferFees
<1> HIDE DEF fund, pool, spread, toll
<1>4. /\ Flows(first) /\ Incoming(first) = 0 - IF payer = Engine THEN spread ELSE 0
      /\ Flows(second) /\ Incoming(second) = 0 - IF payer = Engine THEN toll ELSE 0
  BY <1>1, <1>2, TransferFlow
<1>5. payer = Engine <=> Native
  BY <1>2
<1> HIDE DEF first, second, payer
<1>6. /\ Flows(first \o second)
      /\ Incoming(first \o second) = Incoming(first) + Incoming(second)
  BY <1>4, IncomingBoth
<1>7. Incoming(first) + Incoming(second) = IF Native THEN -(spread + toll) ELSE 0
  <2>1. CASE Native
    <3>1. Incoming(first) = 0 - spread /\ Incoming(second) = 0 - toll
      BY <1>4, <1>5, <2>1
    <3>2. (0 - spread) + (0 - toll) = -(spread + toll)
      BY <1>1, SMT
    <3>3. QED
      BY <2>1, <3>1, <3>2
  <2>2. CASE ~Native
    <3>1. Incoming(first) = 0 - 0 /\ Incoming(second) = 0 - 0
      BY <1>4, <1>5, <2>2
    <3>2. (0 - 0) + (0 - 0) = 0
      BY SMT
    <3>3. QED
      BY <2>2, <3>1, <3>2
  <2>3. QED
    BY <2>1, <2>2
<1>8. spread + toll \in Nat
  BY <1>1, SMT
<1>9. QED
  BY <1>3, <1>6, <1>7, <1>8 DEF spread, toll

-----------------------------------------------------------------------------
(* The vault against the books, within a transaction                       *)

\* What comes of the coins sent with a trade: they are the vault's until its
\* reply counts them.  A reversal has settled its first swap by then: in a
\* token the trader still pays or gets the value of the old position, and in
\* native coins what is due is counted with the second swap.
MarginDue ==
    tmp_swap.margin_to_vault + (tmp_swap.open_notional * Decimals) \div tmp_swap.leverage
Expected ==
    IF AwaitedId \notin TradeIds THEN 0
    ELSE IF ~tmp_swap.fees_paid THEN -sent_funds.amount
    ELSE IF ~Native THEN tmp_swap.margin_to_vault
    ELSE (IF MarginDue > 0 THEN 0 ELSE tmp_swap.margin_to_vault)
           + sent_funds.required - sent_funds.amount

\* The quote asset that the swap to be handled has moved into the AMM.
MovedQuote ==
    IF reply.id \in {IncreasePosition, DecreasePosition, PartialClosePosition}
    THEN Signed(tmp_swap.side, tmp_swap.open_notional)
    ELSE IF reply.id \in {ReversePosition, ClosingPosition, Liquidation, PartialLiquidation}
    THEN -Signed(positions[tmp_swap.trader].direction, reply.output)
    ELSE 0
Pending == Incoming(queue) + Expected + MovedQuote

\* The collateral of the traders, but for what they have gained from the AMM,
\* and how much more that is than they may claim, in fractions of a coin.
Coins(b, e, quote, u) ==
    b[Engine] - e.prepaid_bad_debt - (InitialBalance[Engine] + u) - (quote - InitialQuote)
Excess(r) ==
    Decimals * Coins(r.balance, r.engine_state, r.quote_asset_reserve, r.unasked)
      - Claims(r.positions, r.vamm_map.cumulative_premium_fraction)
Surplus ==
    Decimals * (Coins(balance, engine_state, quote_asset_reserve, unasked) + Pending)
      - Claims(positions, vamm_map.cumulative_premium_fraction)

\* Each transaction but the first may round once, by less than a unit for each
\* trader and one for the trade: there is no position, and nothing to round,
\* before the first.
Room == Decimals * (Cardinality(Traders) + 1)
Allowed(k) == IF k = 0 THEN 0 ELSE Room * (k - 1)
Steps == IF ~Idle /\ ~Settled /\ ~tmp_swap.fees_paid THEN txs - 1 ELSE txs

Fresh(p) == \A trader \in Traders : p[trader] = NoPosition
FreshInv ==
    /\ txs = 0 => Fresh(positions)
    /\ ~Idle => txs = Start.txs + 1 /\ (Start.txs = 0 => Fresh(Start.positions))

\* What a handler recorded of a swap is about the position as it is, and, but
\* for a trade, about what the AMM will answer or has answered.
Values(id, p, s) ==
    /\ id = IncreasePosition /\ ~s.fees_paid /\ p.exists => p.direction = s.side
    /\ id \in {DecreasePosition, PartialClosePosition} =>
          p.size # 0 /\ s.unrealized_pnl = Signed(p.direction, s.position_notional - p.notional)
    /\ id \in {ClosingPosition, Liquidation} => s.open_notional = p.notional
Quoted(id, p, s, quote) ==
    /\ id = ReversePosition =>
          IF p.size = 0 THEN s.unrealized_pnl = 0 /\ quote = 0
          ELSE s.unrealized_pnl = Signed(p.direction, quote - p.notional)
    /\ id = PartialLiquidation => s.open_notional = quote
QuotedBy(m, p, s) ==
    m.kind = "swap_output" =>
        Quoted(m.id, p, s, GetOutputPrice(m.direction, m.amount,
                                          quote_asset_reserve, base_asset_reserve))
ValueInv ==
    AwaitedId \in SwapIds =>
        LET p == positions[tmp_swap.trader]
        IN  /\ Values(AwaitedId, p, tmp_swap)
            /\ CallsAmm(queue) => QuotedBy(queue[Len(queue)], p, tmp_swap)
            /\ ~CallsAmm(queue) => Quoted(AwaitedId, p, tmp_swap, reply.output)

\* Coins come with a trade only if they are the collateral, and nothing is
\* found due before the first swap is answered.
FundsInv ==
    AwaitedId \in TradeIds =>
        /\ ~Native => sent_funds.amount = 0
        /\ ~tmp_swap.fees_paid => sent_funds.required = 0 /\ tmp_swap.margin_to_vault = 0

TradeInv == FreshInv /\ ValueInv /\ FundsInv

LEMMA Begun == Request => \E sender, funds, msgs : BeginWith(sender, funds, msgs)
<1>1. ASSUME NEW trader, NEW side, NEW margin, NEW leverage, NEW limit, NEW funds,
             OpenPosition(trader, side, margin, leverage, limit, funds)
      PROVE  \E s, f, msgs : BeginWith(s, f, msgs)
  BY <1>1, Zenon DEF OpenPosition
<1>2. ASSUME NEW trader, NEW limit, NEW funds,
           ClosePosition(trader, limit, funds)
      PROVE  \E s, f, msgs : BeginWith(s, f, msgs)
  BY <1>2, Zenon DEF ClosePosition, Begin
<1>3. ASSUME NEW sender, NEW trader, NEW limit, NEW oracle, NEW funds,
             Liquidate(sender, trader, limit, oracle, funds)
      PROVE  \E s, f, msgs : BeginWith(s, f, msgs)
  BY <1>3, Zenon DEF Liquidate, Begin
<1>4. ASSUME NEW sender, NEW funds, PayFunding(sender, funds)
      PROVE  \E s, f, msgs : BeginWith(s, f, msgs)
  BY <1>4, Zenon DEF PayFunding, Begin
<1>5. ASSUME NEW trader, NEW amount, NEW funds, DepositMargin(trader, amount, funds)
      PROVE  \E s, f, msgs : BeginWith(s, f, msgs)
  BY <1>5, Zenon DEF DepositMargin
<1>6. ASSUME NEW trader, NEW amount, NEW funds,
             WithdrawMargin(trader, amount, funds)
      PROVE  \E s, f, msgs : BeginWith(s, f, msgs)
  BY <1>6, Zenon DEF WithdrawMargin, Begin
<1>7. QED
  BY <1>1, <1>2, <1>3, <1>4, <1>5, <1>6, Zenon DEF Request

LEMMA BegunFacts ==
    ASSUME RecordInv, NEW sender, NEW funds, NEW msgs, BeginWith(sender, funds, msgs)
    PROVE  /\ Idle /\ ~Idle' /\ Start' = Saved /\ txs' = txs + 1
           /\ reply = NoReply /\ reply' = NoReply /\ queue = <<>> /\ queue' = msgs
           /\ AwaitedId' = Awaits(msgs, NoReply)
           /\ balance' = Received(sender, funds) /\ funds <= balance[sender]
           /\ UNCHANGED <<vars, settings>>
           /\ tmp_swap = NoSwap /\ sent_funds = NoFunds
<1>1. /\ Idle /\ txs' = txs + 1 /\ checkpoint' = <<Saved>> /\ queue' = msgs
      /\ balance' = Received(sender, funds) /\ funds <= balance[sender]
      /\ UNCHANGED <<vars, settings, reply>>
  BY DEF BeginWith
<1>2. queue = <<>> /\ reply = NoReply /\ tmp_swap = NoSwap /\ sent_funds = NoFunds
  BY <1>1, IdleIsClean
<1>3. ~Idle' /\ Start' = Saved
  BY <1>1, HeadOfOne DEF Start, Idle
<1>4. AwaitedId' = Awaits(msgs, NoReply)
  BY <1>1, <1>2 DEF AwaitedId
<1>5. QED
  BY <1>1, <1>2, <1>3, <1>4

LEMMA Replied ==
    Handle => \E id \in SwapIds \union {Funding} : \E msgs : Reply(id, msgs)
<1>1. ASSUME NEW id \in {IncreasePosition, DecreasePosition}, NEW direction, NEW interest,
             NEW swapMargin, NEW marginDelta, NEW notional,
             UpdatePosition(id, direction, interest, swapMargin, marginDelta, notional)
      PROVE  \E msgs : Reply(id, msgs)
  BY <1>1, Zenon DEF UpdatePosition
<1>2. IncreasePositionReply => \E msgs : Reply(IncreasePosition, msgs)
  BY <1>1, Zenon DEF IncreasePositionReply
<1>3. DecreasePositionReply => \E msgs : Reply(DecreasePosition, msgs)
  BY <1>1, Zenon DEF DecreasePositionReply
<1>4. ReversePositionReply => \E msgs : Reply(ReversePosition, msgs)
  BY Zenon DEF ReversePositionReply
<1>5. ClosePositionReply => \E msgs : Reply(ClosingPosition, msgs)
  BY Zenon DEF ClosePositionReply
<1>6. PartialClosePositionReply => \E msgs : Reply(PartialClosePosition, msgs)
  BY Zenon DEF PartialClosePositionReply
<1>7. LiquidateReply => \E msgs : Reply(Liquidation, msgs)
  BY Zenon DEF LiquidateReply
<1>8. PartialLiquidationReply => \E msgs : Reply(PartialLiquidation, msgs)
  BY Zenon DEF PartialLiquidationReply
<1>9. PayFundingReply => \E msgs : Reply(Funding, msgs)
  BY Zenon DEF PayFundingReply
<1>10. {IncreasePosition, DecreasePosition, ReversePosition, ClosingPosition,
        PartialClosePosition, Liquidation, PartialLiquidation} \subseteq SwapIds
  BY DEF SwapIds, TradeIds, LiquidationIds
<1>11. QED
  BY <1>2, <1>3, <1>4, <1>5, <1>6, <1>7, <1>8, <1>9, <1>10 DEF Handle

LEMMA RepliedFacts ==
    ASSUME RecordInv, NEW id \in SwapIds \union {Funding}, NEW msgs, Reply(id, msgs)
    PROVE  /\ ~Idle /\ ~Idle' /\ Start' = Start /\ txs' = txs
           /\ queue = <<>> /\ AwaitedId = id /\ reply.id = id /\ reply' = NoReply
           /\ UNCHANGED <<vars, settings, balance, unasked>>
<1>1. /\ reply.id = id /\ reply' = NoReply
      /\ UNCHANGED <<vars, settings, balance, unasked, checkpoint, txs>>
  BY DEF Reply
<1>2. id # "none"
  BY ReplyIds
<1>3. queue = <<>> /\ ~Idle
  BY <1>1, <1>2, AnswerHandled
<1>4. AwaitedId = id
  BY <1>1, <1>3, NoTransfer, QueueOfTransfers DEF AwaitedId, Awaits
<1>5. Start' = Start /\ ~Idle'
  BY <1>1, <1>3, StartKept
<1>6. QED
  BY <1>1, <1>3, <1>4, <1>5

\* A submessage of one of the three kinds is executed.
LEMMA Delivered ==
    ASSUME RecordInv, SafetyInv, BookInv, Deliver
    PROVE  \E kind : /\ Execute(kind)
                     /\ kind = "transfer" => reply' = reply
                     /\ kind # "transfer" => reply'.id = Head(queue).id
<1>1. CASE ExecuteTransfer
  BY <1>1, Zenon DEF ExecuteTransfer
<1>2. CASE ExecuteSwap
  <2>1. PICK kind \in {"swap_input", "swap_output"} : Execute(kind)
    BY <1>2, Zenon DEF ExecuteSwap
  <2>2. reply'.id = Head(queue).id
    BY <1>2, SwapIsAnswered DEF Swapped
  <2>3. kind # "transfer"
    BY <2>1
  <2>4. QED
    BY <2>1, <2>2, <2>3
<1>3. ASSUME NEW underlying, ExecuteFunding(underlying)
      PROVE  Execute("settle_funding") /\ reply'.id = Head(queue).id
  <2>1. Execute("settle_funding") /\ reply'.id = Funding
    BY <1>3 DEF ExecuteFunding
  <2>2. Head(queue).id = Funding
    BY <2>1, RestOfQueue DEF Execute, RecordInv, RecordsAreAwaited
  <2>3. QED
    BY <2>1, <2>2
<1>4. QED
  BY <1>1, <1>2, <1>3 DEF Deliver

\* Between transactions, what nobody changes.
LEMMA OutsideFacts ==
    ASSUME BookInv, Govern \/ Surroundings
    PROVE  /\ Idle /\ Idle'
           /\ UNCHANGED <<positions, vamm_map, balance, reply, queue, checkpoint, txs, temporary,
                          quote_asset_reserve, unasked>>
           /\ engine_state'.prepaid_bad_debt = engine_state.prepaid_bad_debt
<1>1. UNCHANGED book => UNCHANGED <<positions, vamm_map, engine_state>>
  BY DEF book
<1>2. UNCHANGED vars \/ UNCHANGED state => UNCHANGED quote_asset_reserve
  BY DEF vars, state
<1>3. CASE \E sender \in Accounts, pause \in BOOLEAN : SetPause(sender, pause)
  <2>1. PICK pause : /\ engine_state' = [engine_state EXCEPT !.pause = pause]
                     /\ Idle /\ UNCHANGED <<vars, vamm_map, positions, temporary, balance,
                                            queue, reply, checkpoint, txs, unasked>>
    BY <1>3, Zenon DEF SetPause, past
  <2>2. engine_state \in EngineState
    BY DEF BookInv, TypeInv, ContractTypeOK
  <2>3. engine_state'.prepaid_bad_debt = engine_state.prepaid_bad_debt
    BY <2>1, <2>2 DEF EngineState
  <2>4. QED
    BY <1>2, <2>1, <2>3 DEF Idle
<1>4. CASE \E sender \in Accounts :
              \/ \E new : UpdateEngineConfig(sender, new)
              \/ Administer(sender)
  <2>1. /\ Idle /\ UNCHANGED <<vars, book, temporary, balance, queue, reply, checkpoint, txs, unasked>>
    BY <1>4, Zenon DEF UpdateEngineConfig, Administer, past
  <2>2. QED
    BY <1>1, <1>2, <2>1 DEF Idle
<1>5. CASE Idle /\ (Admin \/ NextBlock) /\ UNCHANGED runtime
  <2>1. UNCHANGED <<book, temporary, balance, queue, reply, checkpoint, txs, unasked>>
    BY <1>5 DEF runtime
  <2>2. UNCHANGED quote_asset_reserve \/ UNCHANGED state
    BY <1>5 DEF Admin, NextBlock, UpdateConfig, UpdateOwner, SetOpen
  <2>3. QED
    BY <1>1, <1>2, <1>5, <2>1, <2>2 DEF Idle
<1>6. CASE \E fund \in RegistryChoices : ChangeRegistry(fund)
  <2>1. Idle /\ UNCHANGED <<vars, book, temporary, balance, queue, reply, checkpoint, txs, unasked>>
    BY <1>6, Zenon DEF ChangeRegistry, past
  <2>2. QED
    BY <1>1, <1>2, <2>1 DEF Idle
<1>7. Govern => \/ \E sender \in Accounts, pause \in BOOLEAN : SetPause(sender, pause)
                \/ \E sender \in Accounts : \/ \E new : UpdateEngineConfig(sender, new)
                                            \/ Administer(sender)
  BY Zenon DEF Govern, UpdatePauser, AddWhitelist, RemoveWhitelist
<1>8. QED
  BY <1>3, <1>4, <1>5, <1>6, <1>7 DEF Surroundings

LEMMA EndedFacts ==
    ASSUME RecordInv, BookInv, Commit \/ Abort
    PROVE  /\ ~Idle /\ Idle'
           /\ Commit => /\ queue = <<>> /\ reply = NoReply
                        /\ UNCHANGED <<book, balance, queue, reply, txs, quote_asset_reserve, unasked>>
           /\ Abort => /\ positions' = Start.positions /\ vamm_map' = Start.vamm_map
                       /\ engine_state' = Start.engine_state /\ balance' = Start.balance
                       /\ quote_asset_reserve' = Start.quote_asset_reserve /\ unasked' = Start.unasked
                       /\ txs' = Start.txs /\ queue' = <<>> /\ reply' = NoReply
<1>1. CASE Commit
  <2>1. /\ ~Idle /\ checkpoint' = <<>> /\ queue = <<>> /\ reply = NoReply
        /\ UNCHANGED <<vars, book, balance, queue, reply, txs, unasked>>
    BY <1>1, Zenon DEF Commit, past
  <2>2. Idle' /\ UNCHANGED quote_asset_reserve
    BY <2>1 DEF Idle, vars, state
  <2>3. ~(Commit /\ Abort) \/ (positions' = Start.positions /\ vamm_map' = Start.vamm_map
                       /\ engine_state' = Start.engine_state /\ balance' = Start.balance
                       /\ quote_asset_reserve' = Start.quote_asset_reserve /\ unasked' = Start.unasked
                       /\ txs' = Start.txs /\ queue' = <<>> /\ reply' = NoReply)
    BY Zenon DEF Abort, Start
  <2>4. QED
    BY <1>1, <2>1, <2>2, <2>3
<1>2. CASE Abort
  <2>1. /\ ~Idle /\ checkpoint' = <<>>
        /\ positions' = Start.positions /\ vamm_map' = Start.vamm_map
        /\ engine_state' = Start.engine_state /\ balance' = Start.balance
        /\ quote_asset_reserve' = Start.quote_asset_reserve /\ unasked' = Start.unasked
        /\ txs' = Start.txs /\ queue' = <<>> /\ reply' = NoReply
    BY <1>2, Zenon DEF Abort, Start
  <2>2. Commit => /\ queue = <<>> /\ reply = NoReply
                  /\ UNCHANGED <<book, balance, queue, reply, txs, quote_asset_reserve, unasked>>
    BY DEF Commit, vars, state, past
  <2>3. QED
    BY <1>2, <2>1, <2>2 DEF Idle
<1>3. QED
  BY <1>1, <1>2

\* Before the first transaction, and when it fails, nobody has a position.
LEMMA NextFresh ==
    ASSUME RecordInv, SafetyInv, BookInv, FreshInv, [EngineNext]_allVars
    PROVE  FreshInv'
<1>1. /\ txs \in Nat /\ ~Idle => Start.txs \in Nat
      /\ txs \in Nat => txs + 1 # 0
      /\ ~Idle => Start.txs + 1 # 0
  <2>1. /\ txs \in Nat
        /\ ~Idle => Start.txs \in Nat
    BY DEF BookInv, TypeInv, ContractTypeOK, SavedTypes
  <2>2. \A n \in Nat : n + 1 # 0
    BY SMT
  <2>3. QED
    BY <2>1, <2>2
<1>2. CASE Request
  <2>1. PICK sender, funds, msgs : BeginWith(sender, funds, msgs)
    BY <1>2, Begun
  <2>2. Idle /\ ~Idle' /\ Start' = Saved /\ txs' = txs + 1
    BY <2>1, BegunFacts
  <2>3. Saved.txs = txs /\ Saved.positions = positions
    BY DEF Saved
  <2>4. txs + 1 # 0
    BY <1>1, SMT DEF BookInv, TypeInv, ContractTypeOK
  <2>5. QED
    BY <2>2, <2>3, <2>4 DEF FreshInv
<1>3. ASSUME ~Idle, ~Idle', Start' = Start, txs' = txs
      PROVE  FreshInv'
  <2>1. txs # 0
    BY <1>1, <1>3 DEF FreshInv
  <2>2. QED
    BY <1>3, <2>1 DEF FreshInv
<1>4. CASE Deliver
  <2>1. PICK kind : /\ Execute(kind)
                    /\ kind = "transfer" => reply' = reply
                    /\ kind # "transfer" => reply'.id = Head(queue).id
    BY <1>4, Delivered
  <2>2. ~Idle /\ ~Idle' /\ Start' = Start /\ txs' = txs
    BY <2>1, ExecutedFacts
  <2>3. QED
    BY <1>3, <2>2
<1>5. CASE Handle
  <2>1. PICK id \in SwapIds \union {Funding} : \E msgs : Reply(id, msgs)
    BY <1>5, Replied
  <2>2. PICK msgs : Reply(id, msgs)
    BY <2>1
  <2>3. ~Idle /\ ~Idle' /\ Start' = Start /\ txs' = txs
    BY <2>2, RepliedFacts
  <2>4. QED
    BY <1>3, <2>3
<1>6. CASE Commit
  <2>1. ~Idle /\ Idle' /\ txs' = txs /\ txs = Start.txs + 1
    BY <1>6, EndedFacts DEF FreshInv
  <2>2. txs # 0
    BY <1>1, <2>1
  <2>3. QED
    BY <2>1, <2>2 DEF FreshInv
<1>7. CASE Abort
  <2>1. ~Idle /\ Idle' /\ txs' = Start.txs /\ positions' = Start.positions
    BY <1>7, EndedFacts
  <2>2. QED
    BY <2>1 DEF FreshInv
<1>8. CASE Govern \/ Surroundings
  <2>1. Idle /\ Idle' /\ txs' = txs /\ positions' = positions
    BY <1>8, OutsideFacts
  <2>2. QED
    BY <2>1 DEF FreshInv
<1>9. CASE UNCHANGED allVars
  <2>1. Idle' = Idle /\ Start' = Start /\ txs' = txs /\ positions' = positions
    BY <1>9 DEF allVars, engineVars, runtime, book, Idle, Start
  <2>2. QED
    BY <2>1 DEF FreshInv, Fresh
<1>10. QED
  BY <1>2, <1>4, <1>5, <1>6, <1>7, <1>8, <1>9 DEF EngineNext

\* Nothing is on its way, before a step or after it.
LEMMA NothingPending ==
    /\ queue = <<>> /\ reply = NoReply => Pending = 0
    /\ queue' = <<>> /\ reply' = NoReply => Pending' = 0
    /\ AwaitedId' \notin TradeIds /\ reply' = NoReply => Pending' = Incoming(queue') + 0 + 0
    /\ AwaitedId \notin SwapIds /\ reply.id \notin SwapIds
          => Expected = 0 /\ MovedQuote = 0
<1>1. "none" \notin SwapIds /\ TradeIds \subseteq SwapIds /\ NoReply.id = "none"
  BY ReplyIds DEF NoReply, SwapIds
<1>2. /\ reply.id \notin SwapIds => MovedQuote = 0
      /\ reply'.id \notin SwapIds => MovedQuote' = 0
  BY DistinctIds DEF MovedQuote
<1>3. /\ AwaitedId \notin TradeIds => Expected = 0
      /\ AwaitedId' \notin TradeIds => Expected' = 0
  BY DEF Expected
<1>4. /\ queue = <<>> => AwaitedId = reply.id
      /\ queue' = <<>> => AwaitedId' = reply'.id
  BY NoTransfer, QueueOfTransfers DEF AwaitedId, Awaits
<1>5. Incoming(<<>>) = 0 /\ 0 + 0 + 0 = 0
  BY IncomingNothing, SMT
<1>6. QED
  BY <1>1, <1>2, <1>3, <1>4, <1>5 DEF Pending

\* What is received is in the vault.
LEMMA ReceivedCoins ==
    ASSUME balance \in [Holders -> Nat], NEW sender, sender # Engine, NEW funds \in Nat
    PROVE  Received(sender, funds)[Engine] = balance[Engine] + funds
<1>1. Engine \in Holders
  BY DEF Holders
<1>2. QED
  BY <1>1 DEF Received

LEMMA SurplusTypes ==
    ASSUME RecordInv, SafetyInv, BookInv, HistoryInv
    PROVE  /\ Flows(queue) /\ Incoming(queue) \in Int
           /\ Expected \in Int /\ MovedQuote \in Int /\ Pending \in Int
           /\ Coins(balance, engine_state, quote_asset_reserve, unasked) \in Int
           /\ Claims(positions, vamm_map.cumulative_premium_fraction) \in Int
           /\ vamm_map.cumulative_premium_fraction \in Int
           /\ Surplus \in Int
<1>1. Flows(queue) /\ Incoming(queue) \in Int
  <2>1. CASE Idle
    <3>1. queue = <<>>
      BY <2>1, IdleIsClean
    <3>2. 0 \in Int
      BY SMT
    <3>3. QED
      BY <3>1, <3>2, IncomingNothing
  <2>2. CASE ~Idle
    <3>1. PICK trader : Serves(trader)
      BY <2>2 DEF BookInv, OneTraderInv
    <3>2. Flows(queue)
      BY <3>1, PaidFlows DEF Serves
    <3>3. QED
      BY <3>2, IncomingNothing, IncomingBoth
  <2>3. QED
    BY <2>1, <2>2
<1>2. /\ tmp_swap.side \in Direction /\ tmp_swap.leverage \in Nat
      /\ tmp_swap.open_notional \in Nat /\ tmp_swap.margin_to_vault \in Int
      /\ sent_funds.amount \in Nat /\ sent_funds.required \in Nat
  BY SwapFields, SMT DEF BookInv, TypeInv, ContractTypeOK
<1>3. AwaitedId \in TradeIds => MarginDue \in Int
  <2>1. AwaitedId \in TradeIds => tmp_swap.leverage \in Nat \ {0}
    BY <1>2, DistinctIds DEF BookInv, SwapInv, Fits
  <2>2. tmp_swap.open_notional * Decimals \in Nat
    BY <1>2, ProductType, DecimalsAssumption
  <2>3. AwaitedId \in TradeIds => (tmp_swap.open_notional * Decimals) \div tmp_swap.leverage \in Nat
    BY <2>1, <2>2, DivMod
  <2> PICK q : q = (tmp_swap.open_notional * Decimals) \div tmp_swap.leverage
    OBVIOUS
  <2>4. q \in Nat => tmp_swap.margin_to_vault + q \in Int
    BY <1>2, SMT
  <2>5. QED
    BY <2>3, <2>4 DEF MarginDue
<1>4. Expected \in Int
  <2> PICK due, m, a, r : due = MarginDue /\ m = tmp_swap.margin_to_vault
                            /\ a = sent_funds.amount /\ r = sent_funds.required
    OBVIOUS
  <2>1. m \in Int /\ a \in Nat /\ r \in Nat
    BY <1>2
  <2>2. -a \in Int /\ 0 \in Int /\ 0 + r - a \in Int /\ m + r - a \in Int
    BY <2>1, SMT
  <2>3. QED
    BY <2>1, <2>2 DEF Expected
<1>5. MovedQuote \in Int
  <2>1. CASE reply.id \in SwapIds
    <3>1. /\ positions[tmp_swap.trader].direction \in Direction /\ reply.output \in Nat
      BY <2>1, AnswerFacts, PositionFields
    <3>2. /\ Signed(tmp_swap.side, tmp_swap.open_notional) \in Int
          /\ -Signed(positions[tmp_swap.trader].direction, reply.output) \in Int /\ 0 \in Int
      BY <1>2, <3>1, SMT DEF Signed
    <3>3. QED
      BY <3>2 DEF MovedQuote
  <2>2. CASE reply.id \notin SwapIds
    <3>1. MovedQuote = 0
      BY <2>2, DistinctIds DEF MovedQuote
    <3>2. QED
      BY <3>1, SMT
  <2>3. QED
    BY <2>1, <2>2
<1>6. Pending \in Int
  <2> PICK i, e, q : i = Incoming(queue) /\ e = Expected /\ q = MovedQuote
    OBVIOUS
  <2>1. i + e + q \in Int
    BY <1>1, <1>4, <1>5, SMT
  <2>2. QED
    BY <2>1 DEF Pending
<1>7. Coins(balance, engine_state, quote_asset_reserve, unasked) \in Int
  <2>1. /\ balance[Engine] \in Nat /\ InitialBalance[Engine] \in Nat
        /\ engine_state.prepaid_bad_debt \in Nat
    BY BalanceAssumption DEF BookInv, TypeInv, ContractTypeOK, Holders, EngineState
  <2>2. quote_asset_reserve \in Nat /\ InitialQuote \in Nat
    BY ReservesAssumption, MaxUintAssumption, SMT DEF SafetyInv, AmmInv, ReserveInv, TypeOK, ReservesNotEmpty, Uint
  <2>3. unasked \in Nat
    BY DEF HistoryInv, Remembers
  <2>4. QED
    BY <2>1, <2>2, <2>3, SMT DEF Coins
<1>8. vamm_map.cumulative_premium_fraction \in Int
  BY DEF BookInv, TypeInv, ContractTypeOK, VammMap
<1>9. Claims(positions, vamm_map.cumulative_premium_fraction) \in Int
  BY <1>8, BookFacts, ClaimsFacts
<1>10. Surplus \in Int
  <2> PICK x, y : x = Coins(balance, engine_state, quote_asset_reserve, unasked) + Pending
                    /\ y = Claims(positions, vamm_map.cumulative_premium_fraction)
    OBVIOUS
  <2>1. x \in Int
    BY <1>6, <1>7, SMT
  <2>2. Decimals * x - y \in Int
    BY <1>9, <2>1, DecimalsAssumption, SMT
  <2>3. QED
    BY <2>2 DEF Surplus
<1>11. QED
  BY <1>1, <1>4, <1>5, <1>6, <1>7, <1>8, <1>9, <1>10

-----------------------------------------------------------------------------
(* Steps, and how far the surplus drifts in each                           *)

\* A step moves the surplus by d: by nothing, or once in a transaction by no
\* more than its rounding, unless the vault keeps funding that it cannot pay.
Drifts(d) ==
    /\ d \in Int /\ Surplus' = Surplus + d
    /\ Steps \in Nat /\ Steps' \in Nat
    /\ \/ Steps' = Steps /\ d = 0
       \/ /\ Steps' = Steps + 1 /\ (Steps = 0 => d = 0)
          /\ -Room <= d /\ (FundingIsPaid => d <= Room)
Advances == \E d : Drifts(d)

LEMMA SurplusMoves ==
    ASSUME NEW x \in Int, x = Coins(balance, engine_state, quote_asset_reserve, unasked) + Pending,
           NEW y \in Int, y = Claims(positions, vamm_map.cumulative_premium_fraction),
           NEW k \in Int, NEW e \in Int,
           Coins(balance', engine_state', quote_asset_reserve', unasked') + Pending' = x + k,
           Claims(positions', vamm_map'.cumulative_premium_fraction) = y + e
    PROVE  Surplus' = Surplus + (Decimals * k - e)
<1>1. Surplus = Decimals * x - y
  BY DEF Surplus
<1>2. Surplus' = Decimals * (x + k) - (y + e)
  BY DEF Surplus, Coins
<1>3. Decimals * (x + k) - (y + e) = (Decimals * x - y) + (Decimals * k - e)
  BY DecimalsAssumption, SMT
<1>4. QED
  BY <1>1, <1>2, <1>3

\* Nobody's claim changes, and the coins on their way arrive.
LEMMA SurplusKept ==
    ASSUME RecordInv, SafetyInv, BookInv, HistoryInv,
           UNCHANGED <<positions, vamm_map>>,
           Coins(balance', engine_state', quote_asset_reserve', unasked') + Pending'
             = Coins(balance, engine_state, quote_asset_reserve, unasked) + Pending
    PROVE  Surplus' = Surplus
<1>1. /\ Coins(balance, engine_state, quote_asset_reserve, unasked) + Pending \in Int
      /\ Claims(positions, vamm_map.cumulative_premium_fraction) \in Int
  <2>1. \A a \in Int, b \in Int : a + b \in Int
    BY SMT
  <2>2. QED
    BY <2>1, SurplusTypes
<1>2. Claims(positions', vamm_map'.cumulative_premium_fraction)
        = Claims(positions, vamm_map.cumulative_premium_fraction)
  OBVIOUS
<1>3. QED
  BY <1>2 DEF Surplus, Coins

\* How often it has been rounded so far.
LEMMA StepTypes ==
    ASSUME RecordInv, BookInv, FreshInv
    PROVE  /\ Steps \in Nat /\ txs \in Nat
           /\ ~Idle => txs = Start.txs + 1 /\ Start.txs \in Nat
           /\ ~Idle /\ ~Settled /\ ~tmp_swap.fees_paid => Steps + 1 = txs /\ Steps = Start.txs
           /\ Idle \/ Settled \/ tmp_swap.fees_paid => Steps = txs
<1>1. txs \in Nat /\ (~Idle => Start.txs \in Nat)
  BY DEF BookInv, TypeInv, ContractTypeOK, SavedTypes
<1>2. ~Idle => txs = Start.txs + 1
  BY DEF FreshInv
<1>3. ~Idle => txs - 1 = Start.txs
  BY <1>1, <1>2, SMT
<1>4. QED
  BY <1>1, <1>2, <1>3 DEF Steps

LEMMA RoomFacts ==
    /\ Cardinality(Traders) \in Nat /\ Room \in Nat /\ Decimals <= Room
    /\ Traders # {} => 2 * Decimals <= Room
<1>1. Cardinality(Traders) \in Nat
  BY TradersFinite, FS_CardinalityType
<1>2. Traders # {} => Cardinality(Traders) # 0
  BY TradersFinite, FS_EmptySet
<1> PICK n : n = Cardinality(Traders)
  OBVIOUS
<1>3. n \in Nat /\ (Traders # {} => n # 0)
  BY <1>1, <1>2
<1>4. /\ Decimals * (n + 1) \in Nat /\ Decimals <= Decimals * (n + 1)
      /\ n # 0 => 2 * Decimals <= Decimals * (n + 1)
  <2>1. \E m \in Nat : m = Decimals * n /\ (n # 0 => Decimals <= m)
    BY <1>3, DecimalsAssumption, ProductType, ProductMonotone, SMT
  <2>2. Decimals * (n + 1) = Decimals * n + Decimals
    BY <1>3, DecimalsAssumption, SMT
  <2> PICK m \in Nat : m = Decimals * n /\ (n # 0 => Decimals <= m)
    BY <2>1
  <2>3. Decimals * (n + 1) = m + Decimals
    BY <2>2
  <2>4. QED
    BY <2>3, DecimalsAssumption, SMT
<1>5. QED
  BY <1>1, <1>3, <1>4 DEF Room

\* A transaction ends, or is undone; nothing happens to it; or there is none.
LEMMA CommitDrifts ==
    ASSUME RecordInv, SafetyInv, BookInv, HistoryInv, FreshInv, Commit
    PROVE  Drifts(0)
<1>1. /\ ~Idle /\ Idle' /\ queue = <<>> /\ reply = NoReply
      /\ UNCHANGED <<book, balance, queue, reply, txs, quote_asset_reserve, unasked>>
  BY EndedFacts
<1>2. UNCHANGED <<positions, vamm_map, engine_state>>
  BY <1>1 DEF book
<1>3. Pending = 0 /\ Pending' = 0
  BY <1>1, NothingPending
<1>4. Surplus' = Surplus
  BY <1>1, <1>2, <1>3, SurplusKept
<1>5. Settled
  BY <1>1, ReplyIds, NoTransfer, QueueOfTransfers DEF Settled, AwaitedId, Awaits, NoReply
<1>6. Steps = txs /\ txs \in Nat /\ Steps' = txs
  BY <1>1, <1>5, StepTypes DEF Steps
<1>7. Surplus \in Int /\ \A n \in Int : n = n + 0 /\ 0 \in Int
  BY SurplusTypes, SMT
<1>8. QED
  BY <1>4, <1>6, <1>7 DEF Drifts

LEMMA AbortSurplus ==
    ASSUME RecordInv, SafetyInv, BookInv, HistoryInv, Abort
    PROVE  /\ ~Idle /\ Idle' /\ Surplus' = Excess(Start) /\ Steps' = Start.txs
<1>1. /\ ~Idle /\ Idle' /\ queue' = <<>> /\ reply' = NoReply
      /\ positions' = Start.positions /\ vamm_map' = Start.vamm_map
      /\ engine_state' = Start.engine_state /\ balance' = Start.balance
      /\ quote_asset_reserve' = Start.quote_asset_reserve /\ unasked' = Start.unasked
      /\ txs' = Start.txs
  BY EndedFacts
<1>2. Pending' = 0
  BY <1>1, NothingPending
<1> DEFINE coins == Coins(Start.balance, Start.engine_state, Start.quote_asset_reserve, Start.unasked)
<1>3. coins \in Int
  <2>1. Start.balance \in [Holders -> Nat] /\ Start.engine_state \in EngineState
    BY <1>1 DEF BookInv, TypeInv, SavedTypes
  <2>2. /\ Start.balance[Engine] \in Nat /\ InitialBalance[Engine] \in Nat
        /\ Start.engine_state.prepaid_bad_debt \in Nat
    BY <2>1, BalanceAssumption DEF Holders, EngineState
  <2>3. Start.quote_asset_reserve \in Nat /\ InitialQuote \in Nat
    BY <1>1, ReservesAssumption, MaxUintAssumption, SMT DEF SafetyInv, SoundRestart, Start, Uint
  <2>4. Start.unasked \in Nat
    BY <1>1 DEF HistoryInv, Remembers
  <2>5. QED
    BY <2>2, <2>3, <2>4, SMT DEF Coins
<1>4. Coins(balance', engine_state', quote_asset_reserve', unasked') = coins
  BY <1>1
<1>5. Claims(positions', vamm_map'.cumulative_premium_fraction)
        = Claims(Start.positions, Start.vamm_map.cumulative_premium_fraction)
  BY <1>1
<1>6. Surplus' = Decimals * (coins + Pending')
                   - Claims(Start.positions, Start.vamm_map.cumulative_premium_fraction)
  BY <1>4, <1>5 DEF Surplus, Coins
<1> HIDE DEF coins
<1>7. coins + Pending' = coins
  BY <1>2, <1>3, SMT
<1>8. Surplus' = Excess(Start)
  BY <1>6, <1>7 DEF Excess, coins
<1>9. QED
  BY <1>1, <1>8 DEF Steps

LEMMA OutsideDrifts ==
    ASSUME RecordInv, SafetyInv, BookInv, HistoryInv, FreshInv, Govern \/ Surroundings
    PROVE  Drifts(0) /\ Idle /\ Idle'
<1>1. /\ Idle /\ Idle'
      /\ UNCHANGED <<positions, vamm_map, balance, reply, queue, checkpoint, txs, temporary,
                     quote_asset_reserve, unasked>>
      /\ engine_state'.prepaid_bad_debt = engine_state.prepaid_bad_debt
  BY OutsideFacts
<1>2. Pending = 0 /\ Pending' = 0
  BY <1>1, IdleIsClean, NothingPending
<1>3. Coins(balance', engine_state', quote_asset_reserve', unasked')
        = Coins(balance, engine_state, quote_asset_reserve, unasked)
  BY <1>1 DEF Coins
<1>4. Surplus' = Surplus
  BY <1>1, <1>2, <1>3, SurplusKept
<1>5. Steps = txs /\ txs \in Nat /\ Steps' = txs
  BY <1>1, StepTypes DEF Steps
<1>6. Surplus \in Int /\ \A n \in Int : n = n + 0 /\ 0 \in Int
  BY SurplusTypes, SMT
<1>7. QED
  BY <1>1, <1>4, <1>5, <1>6 DEF Drifts

LEMMA StutterDrifts ==
    ASSUME RecordInv, SafetyInv, BookInv, HistoryInv, FreshInv, UNCHANGED allVars
    PROVE  Drifts(0) /\ Idle' = Idle /\ Start' = Start
<1>1. UNCHANGED <<positions, vamm_map, engine_state, balance, reply, queue, checkpoint, txs,
                  tmp_swap, sent_funds, engine_config, quote_asset_reserve, unasked>>
  BY DEF allVars, engineVars, runtime, book, temporary, settings, vars, state, past
<1>2. Incoming(queue') = Incoming(queue) /\ AwaitedId' = AwaitedId
  BY <1>1 DEF AwaitedId
<1>3. Expected' = Expected
  BY <1>1, <1>2 DEF Expected, MarginDue, Native
<1>4. MovedQuote' = MovedQuote
  BY <1>1 DEF MovedQuote
<1>5. Pending' = Pending
  BY <1>2, <1>3, <1>4 DEF Pending
<1>6. Surplus' = Surplus
  BY <1>1, <1>5, SurplusKept
<1>7. Settled' = Settled /\ Idle' = Idle /\ Start' = Start
  BY <1>1, <1>2 DEF Settled, Idle, Start
<1>8. Steps \in Nat /\ Steps' = Steps
  BY <1>1, <1>7, StepTypes DEF Steps
<1>9. Surplus \in Int /\ \A n \in Int : n = n + 0 /\ 0 \in Int
  BY SurplusTypes, SMT
<1>10. QED
  BY <1>6, <1>7, <1>8, <1>9 DEF Drifts

\* A submessage is executed: the books and what comes of the coins sent stay.
LEMMA ExecutedSurplus ==
    ASSUME RecordInv, SafetyInv, BookInv, HistoryInv, FreshInv, NEW kind, Execute(kind),
           kind = "transfer" => reply' = reply, kind # "transfer" => reply'.id = Head(queue).id,
           Coins(balance', engine_state', quote_asset_reserve', unasked') \in Int, MovedQuote' \in Int,
           Coins(balance', engine_state', quote_asset_reserve', unasked') + MovedQuote'
             = Coins(balance, engine_state, quote_asset_reserve, unasked) + Flow(Head(queue))
    PROVE  Drifts(0) /\ ~Idle /\ ~Idle' /\ Start' = Start
<1>1. /\ ~Idle /\ ~Idle' /\ Start' = Start /\ AwaitedId' = AwaitedId
      /\ queue # <<>> /\ queue' = Tail(queue) /\ reply = NoReply
      /\ UNCHANGED <<engine_config, engine_state, vamm_map, positions, tmp_swap, sent_funds, txs>>
  BY ExecutedFacts
<1>2. Expected' = Expected
  BY <1>1 DEF Expected, MarginDue, Native
<1>3. MovedQuote = 0
  BY <1>1, ReplyIds, DistinctIds DEF MovedQuote, NoReply
<1>4. /\ Flow(Head(queue)) \in Int /\ Incoming(queue') \in Int
      /\ Incoming(queue) = Flow(Head(queue)) + Incoming(queue')
  BY <1>1, SurplusTypes, IncomingRest
<1>5. /\ Coins(balance, engine_state, quote_asset_reserve, unasked) \in Int /\ Expected \in Int
  BY SurplusTypes
<1>6. Coins(balance', engine_state', quote_asset_reserve', unasked') + Pending'
        = Coins(balance, engine_state, quote_asset_reserve, unasked) + Pending
  <2> PICK a, f, i, e : /\ a = Coins(balance, engine_state, quote_asset_reserve, unasked)
                        /\ f = Flow(Head(queue)) /\ i = Incoming(queue') /\ e = Expected
    OBVIOUS
  <2> PICK b, q : /\ b = Coins(balance', engine_state', quote_asset_reserve', unasked')
                  /\ q = MovedQuote'
    OBVIOUS
  <2>1. a \in Int /\ f \in Int /\ i \in Int /\ e \in Int /\ b \in Int /\ q \in Int
          /\ b + q = a + f
    BY <1>4, <1>5
  <2>2. b + (i + e + q) = a + ((f + i) + e + 0)
    BY <2>1, SMT
  <2>3. Pending' = i + e + q /\ Pending = (f + i) + e + 0
    BY <1>2, <1>3, <1>4 DEF Pending
  <2>4. QED
    BY <2>2, <2>3
<1>7. Surplus' = Surplus
  BY <1>1, <1>6, SurplusKept
<1>8. Settled' = Settled
  BY <1>1 DEF Settled
<1>9. Steps \in Nat /\ Steps' = Steps
  BY <1>1, <1>8, StepTypes DEF Steps
<1>10. Surplus \in Int /\ \A n \in Int : n = n + 0 /\ 0 \in Int
  BY SurplusTypes, SMT
<1>11. QED
  BY <1>1, <1>7, <1>9, <1>10 DEF Drifts

LEMMA CoinsTypes ==
    ASSUME RecordInv, SafetyInv, BookInv, HistoryInv
    PROVE  /\ balance[Engine] \in Nat /\ InitialBalance[Engine] \in Nat
           /\ unasked \in Nat /\ InitialBalance[Engine] + unasked \in Nat
           /\ engine_state.prepaid_bad_debt \in Nat
           /\ quote_asset_reserve \in Nat /\ InitialQuote \in Nat
<1>1. /\ balance[Engine] \in Nat /\ InitialBalance[Engine] \in Nat
      /\ engine_state.prepaid_bad_debt \in Nat
  BY BalanceAssumption DEF BookInv, TypeInv, ContractTypeOK, Holders, EngineState
<1>2. quote_asset_reserve \in Nat /\ InitialQuote \in Nat
  BY ReservesAssumption, MaxUintAssumption, SMT DEF SafetyInv, AmmInv, ReserveInv, TypeOK, ReservesNotEmpty, Uint
<1>3. unasked \in Nat
  BY DEF HistoryInv, Remembers
<1>4. InitialBalance[Engine] + unasked \in Nat
  BY <1>1, <1>3, SMT
<1>5. QED
  BY <1>1, <1>2, <1>3, <1>4

\* A transfer is made: what was to come has come.
LEMMA TransferDrifts ==
    ASSUME RecordInv, SafetyInv, BookInv, HistoryInv, FreshInv, ExecuteTransfer
    PROVE  Drifts(0) /\ ~Idle /\ ~Idle' /\ Start' = Start
<1> DEFINE message == Head(queue)
<1>1. /\ Execute("transfer") /\ reply' = reply /\ UNCHANGED vars
      /\ balance[message.from] >= message.amount
      /\ balance' = Paid(balance, message.from, message.to, message.amount)
  BY Zenon DEF ExecuteTransfer, Paid
<1>2. ~Idle /\ queue # <<>> /\ message.kind = "transfer" /\ reply = NoReply
      /\ UNCHANGED <<engine_state, unasked>>
  BY <1>1, ExecutedFacts
<1>3. PICK trader \in Traders \union {NoAccount} : Serves(trader)
  BY <1>2 DEF BookInv, OneTraderInv
<1>4. /\ message.amount \in Nat /\ message.from \in Holders /\ message.to \in Holders
      /\ message.from # message.to
  BY <1>2, <1>3, PaysRest DEF Serves
<1>5. balance \in [Holders -> Nat] /\ Engine \in Holders
  BY DEF BookInv, TypeInv, ContractTypeOK, Holders
<1>6. Flow(message) = (IF message.to = Engine THEN message.amount ELSE 0)
                        - (IF message.from = Engine THEN message.amount ELSE 0)
  BY <1>2 DEF Flow
<1> HIDE DEF message
<1>7. balance'[Engine] = balance[Engine] + Flow(message) /\ Flow(message) \in Int
  <2> PICK n, from, to : n = message.amount /\ from = message.from /\ to = message.to
    OBVIOUS
  <2>1. balance' = [balance EXCEPT ![from] = @ - n, ![to] = @ + n]
    BY <1>1 DEF Paid
  <2>2. n \in Nat /\ from \in Holders /\ to \in Holders /\ from # to
    BY <1>4
  <2>3. Flow(message) = (IF to = Engine THEN n ELSE 0) - (IF from = Engine THEN n ELSE 0)
    BY <1>6
  <2>4. balance[Engine] \in Nat
    BY <1>5
  <2>5. CASE to = Engine
    <3>1. Flow(message) = n - 0
      BY <2>2, <2>3, <2>5
    <3>2. balance'[Engine] = balance[Engine] + n
      BY <1>5, <2>1, <2>2, <2>5
    <3>3. n - 0 = n /\ n \in Int
      BY <2>2, SMT
    <3>4. QED
      BY <3>1, <3>2, <3>3
  <2>6. CASE from = Engine
    <3>1. Flow(message) = 0 - n
      BY <2>2, <2>3, <2>6
    <3>2. balance'[Engine] = balance[Engine] - n
      BY <1>5, <2>1, <2>2, <2>6
    <3>3. balance[Engine] - n = balance[Engine] + (0 - n) /\ 0 - n \in Int
      BY <2>2, <2>4, SMT
    <3>4. QED
      BY <3>1, <3>2, <3>3
  <2>7. CASE to # Engine /\ from # Engine
    <3>1. Flow(message) = 0 - 0
      BY <2>3, <2>7
    <3>2. balance'[Engine] = balance[Engine]
      BY <1>5, <2>1, <2>2, <2>7
    <3>3. balance[Engine] = balance[Engine] + (0 - 0) /\ 0 - 0 \in Int
      BY <2>4, SMT
    <3>4. QED
      BY <3>1, <3>2, <3>3
  <2>8. QED
    BY <2>5, <2>6, <2>7
<1>8. UNCHANGED quote_asset_reserve
  BY <1>1 DEF vars, state
<1>9. MovedQuote' = 0
  BY <1>1, <1>2, ReplyIds, DistinctIds DEF MovedQuote, NoReply
<1>10. /\ Coins(balance', engine_state', quote_asset_reserve', unasked') \in Int
       /\ Coins(balance', engine_state', quote_asset_reserve', unasked') + 0
             = Coins(balance, engine_state, quote_asset_reserve, unasked) + Flow(message)
  <2> PICK b, b0, d, q, q0, f : /\ b = balance[Engine] /\ b0 = InitialBalance[Engine] + unasked
                                /\ d = engine_state.prepaid_bad_debt
                                /\ q = quote_asset_reserve /\ q0 = InitialQuote
                                /\ f = Flow(message)
    OBVIOUS
  <2>1. b \in Nat /\ b0 \in Nat /\ d \in Nat /\ q \in Nat /\ q0 \in Nat /\ f \in Int
    BY <1>7, CoinsTypes
  <2>2. /\ (b + f) - d - b0 - (q - q0) \in Int
        /\ (b + f) - d - b0 - (q - q0) + 0 = (b - d - b0 - (q - q0)) + f
    BY <2>1, SMT
  <2>3. /\ Coins(balance', engine_state', quote_asset_reserve', unasked') = (b + f) - d - b0 - (q - q0)
        /\ Coins(balance, engine_state, quote_asset_reserve, unasked) = b - d - b0 - (q - q0)
    BY <1>2, <1>7, <1>8 DEF Coins
  <2>4. QED
    BY <2>2, <2>3
<1>11. 0 \in Int
  BY SMT
<1>12. QED
  BY <1>1, <1>9, <1>10, <1>11, ExecutedSurplus DEF message

\* What the answer of the AMM says of the quote asset it has moved.
Moving(m) ==
    \/ /\ m.kind = "swap_input"
       /\ quote_asset_reserve' = After(m.direction, m.amount, quote_asset_reserve)
    \/ /\ m.kind = "swap_output"
       /\ reply'.output = GetOutputPrice(m.direction, m.amount,
                                         quote_asset_reserve, base_asset_reserve)
       /\ quote_asset_reserve' = After(Flip(m.direction), reply'.output, quote_asset_reserve)
       /\ reply'.output \in Nat

LEMMA SwapMoves ==
    ASSUME RecordInv, SafetyInv, ExecuteSwap
    PROVE  /\ Moving(Head(queue)) /\ Execute(Head(queue).kind)
           /\ UNCHANGED balance /\ reply'.id = Head(queue).id
<1> DEFINE m == Head(queue)
           quote == GetOutputPrice(m.direction, m.amount,
                                   quote_asset_reserve, base_asset_reserve)
           base == GetInputPrice(m.direction, m.amount,
                                 quote_asset_reserve, base_asset_reserve)
<1>1. /\ UNCHANGED balance
      /\ \/ /\ m.kind = "swap_input" /\ Execute("swap_input")
            /\ SwapInput(Engine, m.direction, m.amount, m.limit, m.can_go_over)
            /\ reply' = [id |-> m.id, input |-> m.amount, output |-> base]
         \/ /\ m.kind = "swap_output" /\ Execute("swap_output")
            /\ SwapOutput(Engine, m.direction, m.amount, m.limit)
            /\ reply' = [id |-> m.id, input |-> m.amount, output |-> quote]
  BY Zenon DEF ExecuteSwap, Execute
<1>2. CASE /\ m.kind = "swap_input" /\ Execute("swap_input")
           /\ SwapInput(Engine, m.direction, m.amount, m.limit, m.can_go_over)
           /\ reply' = [id |-> m.id, input |-> m.amount, output |-> base]
  <2>1. UpdateReserve(m.direction, m.amount, base, m.can_go_over)
    BY <1>2, Zenon DEF SwapInput
  <2>2. quote_asset_reserve' = After(m.direction, m.amount, quote_asset_reserve)
    BY <2>1, Zenon DEF UpdateReserve
  <2> HIDE DEF base
  <2>3. reply'.id = m.id
    BY <1>2
  <2>4. QED
    BY <1>1, <1>2, <2>2, <2>3, Zenon DEF Moving
<1>3. CASE /\ m.kind = "swap_output" /\ Execute("swap_output")
           /\ SwapOutput(Engine, m.direction, m.amount, m.limit)
           /\ reply' = [id |-> m.id, input |-> m.amount, output |-> quote]
  <2>1. UpdateReserve(Flip(m.direction), quote, m.amount, TRUE)
    BY <1>3, Zenon DEF SwapOutput
  <2>2. quote_asset_reserve' = After(Flip(m.direction), quote, quote_asset_reserve)
    BY <2>1, Zenon DEF UpdateReserve
  <2>3. quote \in Nat
    BY <1>3, Amounts, Zenon DEF SwapOutput
  <2>4. reply'.id = m.id /\ reply'.output = quote
    BY <1>3
  <2>5. QED
    BY <1>1, <1>3, <2>2, <2>3, <2>4, Zenon DEF Moving
<1>4. QED
  BY <1>1, <1>2, <1>3

\* A swap is made: what the traders have gained from the AMM, or lost, is not
\* in their claims until it is handled.
LEMMA SwapDrifts ==
    ASSUME RecordInv, SafetyInv, BookInv, HistoryInv, FreshInv, OrdinaryMarket, ExecuteSwap
    PROVE  Drifts(0) /\ ~Idle /\ ~Idle' /\ Start' = Start
<1> DEFINE m == Head(queue)
           p == positions[tmp_swap.trader]
<1>1. /\ Moving(m) /\ Execute(m.kind) /\ SoundMessage(m)
      /\ UNCHANGED balance /\ reply'.id = m.id /\ m.kind # "transfer"
  BY SwapMoves, SwapIsAnswered DEF Moving
<1>2. /\ AwaitedId = m.id /\ CallsAmm(queue) /\ m = queue[Len(queue)] /\ queue # <<>>
      /\ IsSequence(queue)
      /\ UNCHANGED <<engine_state, positions, tmp_swap, unasked>>
  BY <1>1, ExecutedFacts
<1>3. m.id \in SwapIds
  BY <1>1 DEF Moving, SoundMessage
<1>4. p \in Position /\ tmp_swap \in TmpSwap /\ Asks(m, p, tmp_swap)
  BY <1>2, <1>3 DEF BookInv, SwapInv, TypeInv, ContractTypeOK
<1>5. p.direction \in Direction /\ tmp_swap.side \in Direction /\ tmp_swap.open_notional \in Nat
  BY <1>4, PositionFields, SwapFields
<1>6. m.kind = "swap_input" => m.id # PartialLiquidation
  <2>1. Len(queue) \in 1 .. Len(queue)
    <3>1. PICK S : queue \in Seq(S)
      BY <1>2 DEF IsSequence
    <3>2. QED
      BY <1>2, <3>1, SMT
  <2>2. QED
    BY <1>2, <2>1 DEF OrdinaryMarket
<1> HIDE DEF m
<1>7. /\ m.kind = "swap_input" =>
            /\ m.id \in {IncreasePosition, DecreasePosition, PartialClosePosition}
            /\ m.direction = tmp_swap.side /\ m.amount = tmp_swap.open_notional
      /\ m.kind = "swap_output" =>
            /\ m.id \in {ReversePosition, ClosingPosition, Liquidation, PartialLiquidation}
            /\ m.direction = p.direction
  <2>1. \/ m.id \in {IncreasePosition, DecreasePosition, PartialClosePosition}
        \/ m.id \in {ReversePosition, ClosingPosition, Liquidation}
        \/ m.id = PartialLiquidation
    BY <1>3 DEF SwapIds, LiquidationIds
  <2>2. QED
    BY <1>4, <1>6, <2>1 DEF Asks
<1>8. quote_asset_reserve' = quote_asset_reserve + MovedQuote' /\ MovedQuote' \in Int
  <2>1. CASE m.kind = "swap_input"
    <3>1. quote_asset_reserve' = After(tmp_swap.side, tmp_swap.open_notional, quote_asset_reserve)
      BY <1>1, <1>7, <2>1 DEF Moving
    <3>2. MovedQuote' = Signed(tmp_swap.side, tmp_swap.open_notional)
      BY <1>1, <1>2, <1>7, <2>1 DEF MovedQuote
    <3> PICK n, q, d : n = tmp_swap.open_notional /\ q = quote_asset_reserve /\ d = tmp_swap.side
      OBVIOUS
    <3>3. n \in Nat /\ q \in Nat
      BY <1>5, CoinsTypes
    <3>4. After(d, n, q) = q + Signed(d, n) /\ Signed(d, n) \in Int
      BY <3>3, SMT DEF After, Signed
    <3>5. QED
      BY <3>1, <3>2, <3>4
  <2>2. CASE m.kind = "swap_output"
    <3>1. /\ quote_asset_reserve' = After(Flip(p.direction), reply'.output, quote_asset_reserve)
          /\ reply'.output \in Nat
      BY <1>1, <1>7, <2>2 DEF Moving
    <3>2. MovedQuote' = -Signed(p.direction, reply'.output)
      BY <1>1, <1>2, <1>7, <2>2, DistinctIds DEF MovedQuote
    <3> PICK n, q, d : n = reply'.output /\ q = quote_asset_reserve /\ d = p.direction
      OBVIOUS
    <3>3. n \in Nat /\ q \in Nat /\ d \in Direction
      BY <1>5, <3>1, CoinsTypes
    <3>4. After(Flip(d), n, q) = q + (-Signed(d, n)) /\ -Signed(d, n) \in Int
      BY <3>3, SMT DEF After, Signed, Flip, Direction, AddToAmm, RemoveFromAmm
    <3>5. QED
      BY <3>1, <3>2, <3>4
  <2>3. QED
    BY <1>1, <2>1, <2>2 DEF Moving
<1>9. Flow(m) = 0
  BY <1>1 DEF Flow
<1>10. /\ Coins(balance', engine_state', quote_asset_reserve', unasked') \in Int
       /\ Coins(balance', engine_state', quote_asset_reserve', unasked') + MovedQuote'
             = Coins(balance, engine_state, quote_asset_reserve, unasked) + Flow(m)
  <2> PICK b, b0, d, q, q0, f : /\ b = balance[Engine] /\ b0 = InitialBalance[Engine] + unasked
                                /\ d = engine_state.prepaid_bad_debt
                                /\ q = quote_asset_reserve /\ q0 = InitialQuote
                                /\ f = MovedQuote'
    OBVIOUS
  <2>1. b \in Nat /\ b0 \in Nat /\ d \in Nat /\ q \in Nat /\ q0 \in Nat /\ f \in Int
    BY <1>8, CoinsTypes
  <2>2. /\ b - d - b0 - ((q + f) - q0) \in Int
        /\ b - d - b0 - ((q + f) - q0) + f = (b - d - b0 - (q - q0)) + 0
    BY <2>1, SMT
  <2>3. /\ Coins(balance', engine_state', quote_asset_reserve', unasked') = b - d - b0 - ((q + f) - q0)
        /\ Coins(balance, engine_state, quote_asset_reserve, unasked) = b - d - b0 - (q - q0)
    BY <1>1, <1>2, <1>8 DEF Coins
  <2>4. QED
    BY <1>9, <2>2, <2>3
<1>11. QED
  BY <1>1, <1>8, <1>10, ExecutedSurplus DEF m

\* Funding is settled with the AMM; nobody has paid it yet.
LEMMA FundingDrifts ==
    ASSUME RecordInv, SafetyInv, BookInv, HistoryInv, FreshInv, NEW underlying, ExecuteFunding(underlying)
    PROVE  Drifts(0) /\ ~Idle /\ ~Idle' /\ Start' = Start
<1>1. /\ Execute("settle_funding") /\ reply'.id = Funding /\ UNCHANGED balance
      /\ UNCHANGED quote_asset_reserve
  BY Zenon DEF ExecuteFunding, SettleFunding
<1>2. Head(queue).kind = "settle_funding" /\ Head(queue).id = Funding
  BY <1>1, RestOfQueue DEF Execute, RecordInv, RecordsAreAwaited
<1>3. UNCHANGED <<engine_state, positions, tmp_swap, unasked>>
  BY <1>1, <1>2, ExecutedFacts
<1>4. MovedQuote' = 0
  BY <1>1, ReplyIds, DistinctIds DEF MovedQuote
<1>5. Flow(Head(queue)) = 0
  BY <1>2 DEF Flow
<1>6. Coins(balance', engine_state', quote_asset_reserve', unasked')
        = Coins(balance, engine_state, quote_asset_reserve, unasked)
  BY <1>1, <1>3
<1>7. Coins(balance, engine_state, quote_asset_reserve, unasked) \in Int /\ 0 \in Int
  BY SurplusTypes, SMT
<1>8. QED
  BY <1>1, <1>2, <1>4, <1>5, <1>6, <1>7, ExecutedSurplus

-----------------------------------------------------------------------------
(* Requests                                                                *)

\* A transaction begins with the coins it brings.
LEMMA BegunSurplus ==
    ASSUME RecordInv, SafetyInv, BookInv, HistoryInv, FreshInv,
           NEW sender, sender # Engine, NEW funds \in Nat, NEW msgs,
           BeginWith(sender, funds, msgs), Flows(msgs), Expected' \in Int,
           NEW kept \in Nat, unasked' = unasked + kept,
           NEW owing \in Int, engine_state'.prepaid_bad_debt = owing,
           NEW gain \in Int,
           gain = (funds - kept) - (owing - engine_state.prepaid_bad_debt) + Incoming(msgs) + Expected',
           NEW e \in Int,
           Claims(positions', vamm_map'.cumulative_premium_fraction)
             = Claims(positions, vamm_map.cumulative_premium_fraction) + e
    PROVE  /\ Surplus' = Surplus + (Decimals * gain - e)
           /\ Idle /\ ~Idle' /\ Start' = Saved /\ Excess(Saved) = Surplus
           /\ Steps = txs /\ txs' = txs + 1 /\ txs \in Nat
<1>1. /\ Idle /\ ~Idle' /\ Start' = Saved /\ txs' = txs + 1
      /\ reply = NoReply /\ reply' = NoReply /\ queue = <<>> /\ queue' = msgs
      /\ balance' = Received(sender, funds) /\ UNCHANGED <<vars, settings>>
  BY BegunFacts
<1>2. Pending = 0 /\ MovedQuote' = 0
  BY <1>1, NothingPending, ReplyIds, DistinctIds DEF MovedQuote, NoReply
<1>3. UNCHANGED quote_asset_reserve
  BY <1>1 DEF vars, state
<1>4. balance'[Engine] = balance[Engine] + funds
  BY <1>1, ReceivedCoins DEF BookInv, TypeInv, ContractTypeOK
<1>5. Incoming(msgs) \in Int
  BY IncomingBoth
<1> DEFINE coins == Coins(balance, engine_state, quote_asset_reserve, unasked)
<1>6. /\ coins + Pending \in Int /\ coins + 0 = coins
      /\ Coins(balance', engine_state', quote_asset_reserve', unasked') + Pending'
           = (coins + Pending) + gain
  <2> PICK b, b0, d, q, q0, i, x : /\ b = balance[Engine] /\ b0 = InitialBalance[Engine] + unasked
                                   /\ d = engine_state.prepaid_bad_debt
                                   /\ q = quote_asset_reserve /\ q0 = InitialQuote
                                   /\ i = Incoming(msgs) /\ x = Expected'
    OBVIOUS
  <2>1. /\ b \in Nat /\ b0 \in Nat /\ d \in Nat /\ q \in Nat /\ q0 \in Nat
        /\ i \in Int /\ x \in Int /\ gain = (funds - kept) - (owing - d) + i + x
    BY <1>5, CoinsTypes
  <2>2. /\ (b - d - b0 - (q - q0)) + 0 \in Int
        /\ (b - d - b0 - (q - q0)) + 0 = b - d - b0 - (q - q0)
        /\ (b + funds) - owing - (b0 + kept) - (q - q0) + (i + x + 0)
             = ((b - d - b0 - (q - q0)) + 0) + gain
    BY <2>1, SMT
  <2>3. /\ Coins(balance', engine_state', quote_asset_reserve', unasked')
             = (b + funds) - owing - (b0 + kept) - (q - q0)
        /\ coins = b - d - b0 - (q - q0)
    <3>1. InitialBalance[Engine] + (unasked + kept) = b0 + kept
      BY CoinsTypes, SMT
    <3>2. QED
      BY <1>3, <1>4, <3>1 DEF Coins
  <2>4. Pending' = i + x + 0
    BY <1>1, <1>2 DEF Pending
  <2> HIDE DEF coins
  <2>5. QED
    BY <1>2, <2>2, <2>3, <2>4
<1>7. Claims(positions, vamm_map.cumulative_premium_fraction) \in Int
  BY SurplusTypes
<1>8. Surplus' = Surplus + (Decimals * gain - e)
  BY <1>6, <1>7, SurplusMoves
<1>9. Excess(Saved) = Surplus
  <2>1. /\ Saved.balance = balance /\ Saved.engine_state = engine_state
        /\ Saved.quote_asset_reserve = quote_asset_reserve /\ Saved.positions = positions
        /\ Saved.vamm_map = vamm_map /\ Saved.unasked = unasked
    BY DEF Saved
  <2>2. Excess(Saved) = Decimals * coins - Claims(positions, vamm_map.cumulative_premium_fraction)
    BY <2>1 DEF Excess
  <2> HIDE DEF coins
  <2>3. QED
    BY <1>2, <1>6, <2>2 DEF Surplus, coins
<1>10. Steps = txs /\ txs \in Nat
  BY <1>1, StepTypes
<1>11. QED
  BY <1>1, <1>8, <1>9, <1>10

\* The claims are what they were.
LEMMA ClaimsKept ==
    ASSUME RecordInv, SafetyInv, BookInv, HistoryInv,
           \A trader \in Traders : Claim(positions'[trader], vamm_map'.cumulative_premium_fraction)
                = Claim(positions[trader], vamm_map.cumulative_premium_fraction)
    PROVE  Claims(positions', vamm_map'.cumulative_premium_fraction)
             = Claims(positions, vamm_map.cumulative_premium_fraction) + 0
<1>1. SumFunctionOnSet(ClaimsOf(positions', vamm_map'.cumulative_premium_fraction), Traders)
        = SumFunctionOnSet(ClaimsOf(positions, vamm_map.cumulative_premium_fraction), Traders)
  <2> DEFINE f == ClaimsOf(positions', vamm_map'.cumulative_premium_fraction)
             g == ClaimsOf(positions, vamm_map.cumulative_premium_fraction)
  <2>1. \A trader \in Traders : f[trader] = g[trader]
    BY DEF ClaimsOf
  <2> HIDE DEF f, g
  <2>2. SumFunctionOnSet(f, Traders) = SumFunctionOnSet(g, Traders)
    BY <2>1, TradersFinite, SumOfEqual
  <2>3. QED
    BY <2>2 DEF f, g
<1>2. Claims(positions, vamm_map.cumulative_premium_fraction) \in Int
  BY SurplusTypes
<1> PICK x : x = Claims(positions, vamm_map.cumulative_premium_fraction)
  OBVIOUS
<1>3. x + 0 = x
  BY <1>2, SMT
<1>4. QED
  BY <1>1, <1>3 DEF Claims

\* Who begins: the AMM is called, or transfers are queued.
Begins == Idle /\ ~Idle' /\ Start' = Saved /\ Excess(Saved) = Surplus /\ Steps = txs

\* A handler that only calls the AMM owes the coins that came with its message
\* until the reply has counted them.
LEMMA CallDrifts ==
    ASSUME RecordInv, SafetyInv, BookInv, HistoryInv, FreshInv,
           NEW sender, sender # Engine, NEW funds \in Nat, NEW m,
           BeginWith(sender, funds, <<m>>), UNCHANGED book,
           m.kind # "transfer", m.kind = "settle_funding" => m.id = Funding,
           m.id \in SwapIds \union {Funding},
           ~tmp_swap'.fees_paid,
           m.id \in TradeIds => sent_funds'.amount = funds /\ unasked' = unasked,
           m.id \notin TradeIds => unasked' = unasked + funds
    PROVE  Begins /\ Drifts(0)
<1>1. Flow(m) = 0 /\ 0 \in Int
  BY SMT DEF Flow
<1>2. Flows(<<m>>) /\ Incoming(<<m>>) = 0
  BY <1>1, IncomingOne
<1>3. AwaitedId' = m.id
  BY BegunFacts, QueueOfCall
<1>4. UNCHANGED <<engine_state, vamm_map, positions>>
  BY DEF book
<1> DEFINE kept == IF m.id \in TradeIds THEN 0 ELSE funds
<1>5. /\ Expected' \in Int /\ kept \in Nat /\ unasked' = unasked + kept
      /\ (funds - kept) + Expected' = 0
  <2>1. CASE m.id \in TradeIds
    <3>1. Expected' = -funds
      BY <1>3, <2>1 DEF Expected
    <3>2. -funds \in Int /\ (funds - 0) + (-funds) = 0 /\ 0 \in Nat
      BY SMT
    <3>3. unasked = unasked + 0
      BY CoinsTypes
    <3>4. QED
      BY <2>1, <3>1, <3>2, <3>3
  <2>2. CASE m.id \notin TradeIds
    <3>1. Expected' = 0
      BY <1>3, <2>2 DEF Expected
    <3>2. (funds - funds) + 0 = 0
      BY SMT
    <3>3. QED
      BY <1>1, <2>2, <3>1, <3>2
  <2>3. QED
    BY <2>1, <2>2
<1> HIDE DEF kept
<1> PICK d, x : d = engine_state.prepaid_bad_debt /\ x = Expected'
  OBVIOUS
<1>6. d \in Int /\ 0 = (funds - kept) - (d - d) + 0 + x
  <2>1. d \in Nat /\ x \in Int /\ kept \in Nat /\ (funds - kept) + x = 0
    BY <1>5, CoinsTypes
  <2>2. \A a \in Int, b \in Nat, c \in Int : a - (b - b) + 0 + c = a + c /\ b \in Int
    BY SMT
  <2>3. funds - kept \in Int
    BY <2>1, SMT
  <2>4. QED
    BY <2>1, <2>2, <2>3
<1>7. Claims(positions', vamm_map'.cumulative_premium_fraction)
             = Claims(positions, vamm_map.cumulative_premium_fraction) + 0
  <2>1. \A trader \in Traders : Claim(positions'[trader], vamm_map'.cumulative_premium_fraction)
                = Claim(positions[trader], vamm_map.cumulative_premium_fraction)
    BY <1>4
  <2>2. QED
    BY <2>1, ClaimsKept
<1>8. /\ Surplus' = Surplus + (Decimals * 0 - 0)
      /\ Idle /\ ~Idle' /\ Start' = Saved /\ Excess(Saved) = Surplus
      /\ Steps = txs /\ txs' = txs + 1 /\ txs \in Nat
  <2>1. engine_state'.prepaid_bad_debt = d
    BY <1>4
  <2>2. 0 = (funds - kept) - (d - engine_state.prepaid_bad_debt) + Incoming(<<m>>) + Expected'
    BY <1>2, <1>5, <1>6
  <2>3. QED
    BY <1>1, <1>2, <1>5, <1>6, <1>7, <2>1, <2>2, BegunSurplus
<1>9. Decimals * 0 - 0 = 0
  BY DecimalsAssumption, SMT
<1>10. Steps' = Steps
  <2>1. ~Settled'
    BY <1>3 DEF Settled
  <2>2. Steps' = txs' - 1
    BY <1>8, <2>1 DEF Steps
  <2>3. (txs + 1) - 1 = txs
    BY <1>8, SMT
  <2>4. QED
    BY <1>8, <2>2, <2>3
<1>11. QED
  BY <1>1, <1>8, <1>9, <1>10 DEF Begins, Drifts

\* What a handler that calls the AMM about the position of `trader' records,
\* of the position and of the coins that came.
Recorded(trader, sender, funds, m) ==
    /\ sender # Engine /\ funds \in Nat
    /\ m.kind \in {"swap_input", "swap_output"} /\ m.id \in SwapIds
    /\ BeginWith(sender, funds, <<m>>) /\ UNCHANGED book
    /\ tmp_swap'.trader = trader /\ tmp_swap'.fees_paid = FALSE
    /\ m.id \in TradeIds => /\ sent_funds'.amount = funds /\ sent_funds'.required = 0
                            /\ tmp_swap'.margin_to_vault = 0 /\ (~Native => funds = 0)
                            /\ unasked' = unasked
    /\ m.id \notin TradeIds => unasked' = unasked + funds
    /\ Values(m.id, positions[trader], tmp_swap')
    /\ QuotedBy(m, positions[trader], tmp_swap')

LEMMA RecordedTrade ==
    ASSUME RecordInv, SafetyInv, BookInv, HistoryInv, FreshInv,
           NEW trader, NEW sender, NEW funds, NEW m, Recorded(trader, sender, funds, m)
    PROVE  Begins /\ Drifts(0) /\ ValueInv' /\ FundsInv'
<1>1. /\ sender # Engine /\ funds \in Nat /\ m.kind # "transfer" /\ m.kind # "settle_funding"
      /\ m.id \in SwapIds /\ BeginWith(sender, funds, <<m>>) /\ UNCHANGED book
      /\ tmp_swap'.trader = trader /\ tmp_swap'.fees_paid = FALSE
  BY DEF Recorded
<1>2. Begins /\ Drifts(0)
  BY <1>1, CallDrifts DEF Recorded
<1>3. AwaitedId' = m.id /\ queue' = <<m>> /\ UNCHANGED <<vars, settings>>
  BY <1>1, BegunFacts, QueueOfCall
<1>4. UNCHANGED <<positions, quote_asset_reserve, base_asset_reserve, engine_config>>
  BY <1>1, <1>3 DEF book, vars, state, settings
<1>5. queue'[Len(queue')] = m /\ CallsAmm(queue')
  <2>1. Len(<<m>>) = 1 /\ <<m>>[1] = m /\ 1 # 0
    BY SMT
  <2>2. QED
    BY <1>1, <1>3, <2>1 DEF CallsAmm
<1>6. ValueInv'
  <2>1. Values(m.id, positions[trader], tmp_swap') /\ QuotedBy(m, positions[trader], tmp_swap')
    BY DEF Recorded
  <2>2. m.kind = "swap_output" =>
          Quoted(m.id, positions'[tmp_swap'.trader], tmp_swap',
                 GetOutputPrice(m.direction, m.amount, quote_asset_reserve', base_asset_reserve'))
    BY <1>1, <1>4, <2>1 DEF QuotedBy
  <2>3. Values(AwaitedId', positions'[tmp_swap'.trader], tmp_swap')
    BY <1>1, <1>3, <1>4, <2>1
  <2>4. QED
    BY <1>5, <2>2, <2>3 DEF ValueInv, QuotedBy
<1>7. FundsInv'
  BY <1>1, <1>3, <1>4 DEF FundsInv, Recorded, Native
<1>8. QED
  BY <1>2, <1>6, <1>7

\* Without a size there is nothing to sell or to buy back.
LEMMA NothingToSell ==
    ASSUME NEW direction, NEW quote, NEW base
    PROVE  GetOutputPrice(direction, 0, quote, base) = 0 /\ Abs(0) = 0
BY SMT DEF GetOutputPrice, Abs

LEMMA PnlIs ==
    ASSUME NEW p, p.direction \in Direction, p.size # 0, NEW value \in Nat, p.notional \in Nat
    PROVE  UnrealizedPnl(p, value) = Signed(p.direction, value - p.notional)
<1>1. \A a \in Nat, b \in Nat : -(a - b) = b - a
  BY SMT
<1>2. QED
  BY <1>1 DEF UnrealizedPnl, Signed

LEMMA OpenRecorded ==
    ASSUME RecordInv, SafetyInv, BookInv, HistoryInv, NEW trader \in Traders, NEW side \in Direction,
           NEW margin \in Nat, NEW leverage \in Nat, NEW limit,
           NEW funds \in Sent(FundsNeeded(trader, side, margin, leverage)),
           OpenPosition(trader, side, margin, leverage, limit, funds)
    PROVE  \E m : Recorded(trader, trader, funds, m)
<1> DEFINE old == positions[trader]
           position == GetPosition(trader, side)
           open_notional == (margin * leverage) \div Decimals
           value == SpotNotional(position)
           message ==
            IF position.direction = side
            THEN SwapInputMsg(IncreasePosition, side, open_notional, limit, FALSE)
            ELSE IF value > open_notional
            THEN SwapInputMsg(DecreasePosition, side, open_notional, limit, FALSE)
            ELSE SwapOutputMsg(ReversePosition, position.direction, Abs(position.size), 0)
           pnl == UnrealizedPnl(position, value)
<1>1. /\ BeginWith(trader, funds, <<message>>)
      /\ tmp_swap' = Swapping(trader, side, leverage, open_notional, value, pnl)
      /\ sent_funds' = [stored |-> TRUE, amount |-> funds, required |-> 0]
      /\ UNCHANGED <<book, tmp_liquidator, unasked>> /\ SpotNotionalDefined(position)
      /\ leverage >= Decimals
  BY Zenon DEF OpenPosition
<1>2. /\ old \in Position
      /\ old.exists => position = old
      /\ ~old.exists => position.direction = side
  <2>1. old \in Position
    BY DEF BookInv, TypeInv, ContractTypeOK
  <2>2. /\ old.exists => position = old
        /\ ~old.exists => position = [NoPosition EXCEPT !.exists = TRUE, !.direction = side,
                                                        !.block_number = height]
    BY DEF GetPosition
  <2>3. [NoPosition EXCEPT !.exists = TRUE, !.direction = side,
                           !.block_number = height].direction = side
    BY DEF NoPosition
  <2>4. QED
    BY <2>1, <2>2, <2>3
<1>3. funds \in Nat /\ (~Native => funds = 0)
  <2>1. FundsNeeded(trader, side, margin, leverage) \in Int
    BY <1>1, FundsNeededType
  <2>2. QED
    BY <2>1, SentTypes DEF Sent
<1>4. open_notional \in Nat
  BY ScaledAmounts
<1>5. value \in Nat
  BY <1>1, Amounts, Zenon DEF SpotNotional, SpotNotionalDefined
<1>6. old.exists /\ old.size = 0 => value = 0 /\ pnl = 0
  <2>1. value = GetOutputPrice(position.direction, Abs(position.size),
                               quote_asset_reserve, base_asset_reserve)
    BY DEF SpotNotional
  <2> HIDE DEF value
  <2>2. pnl = IF position.size = 0 THEN 0 ELSE pnl
    BY DEF UnrealizedPnl
  <2> HIDE DEF position, pnl
  <2>3. QED
    BY <1>2, <2>1, <2>2, NothingToSell
<1>7. value = GetOutputPrice(position.direction, Abs(position.size),
                             quote_asset_reserve, base_asset_reserve)
  BY DEF SpotNotional
<1>8. old.exists /\ old.size # 0 => pnl = Signed(old.direction, value - old.notional)
  BY <1>2, <1>5, PnlIs, PositionFields
<1> HIDE DEF position, open_notional, value, pnl
<1>9. /\ message.id \in {IncreasePosition, DecreasePosition}
           => message.kind = "swap_input"
      /\ message.id = IncreasePosition => position.direction = side
      /\ message.id = DecreasePosition => position.direction # side /\ value > open_notional
      /\ message.id = ReversePosition => /\ position.direction # side
                                         /\ message.direction = position.direction
                                         /\ message.amount = Abs(position.size)
      /\ message.id \in {IncreasePosition, DecreasePosition, ReversePosition}
      /\ message.kind \in {"swap_input", "swap_output"}
  <2>1. CASE position.direction = side
    BY <2>1, DistinctIds DEF SwapInputMsg
  <2>2. CASE position.direction # side /\ value > open_notional
    BY <2>2, DistinctIds DEF SwapInputMsg
  <2>3. CASE position.direction # side /\ ~(value > open_notional)
    BY <2>3, DistinctIds DEF SwapOutputMsg
  <2>4. QED
    BY <2>1, <2>2, <2>3
<1> HIDE DEF message
<1>10. /\ tmp_swap'.trader = trader /\ tmp_swap'.fees_paid = FALSE
       /\ tmp_swap'.side = side /\ tmp_swap'.margin_to_vault = 0
       /\ tmp_swap'.position_notional = value /\ tmp_swap'.unrealized_pnl = pnl
       /\ sent_funds'.amount = funds /\ sent_funds'.required = 0
  BY <1>1 DEF Swapping
<1>11. message.id # IncreasePosition => old.exists /\ position = old
  BY <1>2, <1>9
<1>12. Values(message.id, old, tmp_swap')
  <2>1. message.id = DecreasePosition => old.size # 0
    <3>1. ~(0 > open_notional)
      BY <1>4, SMT
    <3>2. QED
      BY <1>6, <1>9, <1>11, <3>1, DistinctIds
  <2>2. message.id = IncreasePosition /\ old.exists => old.direction = side
    BY <1>2, <1>9
  <2>3. /\ message.id \notin {ClosingPosition, Liquidation, PartialClosePosition}
        /\ TRUE
    BY <1>9, DistinctIds
  <2>4. QED
    BY <1>8, <1>10, <1>11, <2>1, <2>2, <2>3, DistinctIds DEF Values
<1>13. QuotedBy(message, old, tmp_swap')
  <2>1. message.kind = "swap_output" => message.id = ReversePosition
    BY <1>9
  <2>2. message.id = ReversePosition =>
          value = GetOutputPrice(message.direction, message.amount,
                                 quote_asset_reserve, base_asset_reserve)
    BY <1>7, <1>9
  <2>3. message.id = ReversePosition => Quoted(message.id, old, tmp_swap', value)
    BY <1>6, <1>8, <1>10, <1>11, DistinctIds DEF Quoted
  <2>4. QED
    BY <2>1, <2>2, <2>3 DEF QuotedBy
<1>14. trader # Engine
  BY Payable
<1>15. message.id \in TradeIds /\ message.id \in SwapIds
  BY <1>9, DistinctIds
<1>16. QED
  BY <1>1, <1>3, <1>9, <1>10, <1>12, <1>13, <1>14, <1>15 DEF Recorded

LEMMA CloseRecorded ==
    ASSUME RecordInv, SafetyInv, BookInv, HistoryInv, NEW trader \in Traders, NEW limit,
           NEW funds \in Nat, ClosePosition(trader, limit, funds)
    PROVE  \E m : Recorded(trader, trader, funds, m)
<1> DEFINE position == positions[trader]
           direction == IF position.size > 0 THEN AddToAmm ELSE RemoveFromAmm
           quote == GetOutputPrice(direction, Part(Abs(position.size)),
                                   quote_asset_reserve, base_asset_reserve)
           value == SpotNotional(position)
           pnl == UnrealizedPnl(position, value)
           part == SwapInputMsg(PartialClosePosition, Flip(direction), quote, 0, TRUE)
           whole == CloseMsg(ClosingPosition, position, limit)
<1>1. /\ UNCHANGED <<book, tmp_liquidator, sent_funds>> /\ unasked' = unasked + funds
      /\ position.size # 0
      /\ \/ /\ SpotNotionalDefined(position)
            /\ BeginWith(trader, funds, <<part>>)
            /\ tmp_swap' = Swapping(trader, Flip(direction), Decimals, quote, value, pnl)
         \/ /\ BeginWith(trader, funds, <<whole>>)
            /\ tmp_swap' = CloseSwap(trader, position)
  BY Zenon DEF ClosePosition, Begin
<1>2. position \in Position
  BY DEF BookInv, TypeInv, ContractTypeOK
<1>3. trader # Engine
  BY Payable
<1>4. UNCHANGED book
  BY <1>1
<1> HIDE DEF direction, quote, position
<1>5. CASE /\ SpotNotionalDefined(position)
           /\ BeginWith(trader, funds, <<part>>)
           /\ tmp_swap' = Swapping(trader, Flip(direction), Decimals, quote, value, pnl)
  <2>1. value \in Nat
    BY <1>5, Amounts, Zenon DEF SpotNotional, SpotNotionalDefined
  <2> HIDE DEF value
  <2>2. pnl = Signed(position.direction, value - position.notional)
    BY <1>1, <1>2, <2>1, PnlIs, PositionFields
  <2> HIDE DEF pnl
  <2>3. /\ tmp_swap'.trader = trader /\ tmp_swap'.fees_paid = FALSE
        /\ tmp_swap'.position_notional = value /\ tmp_swap'.unrealized_pnl = pnl
    BY <1>5 DEF Swapping
  <2>4. part.kind = "swap_input" /\ part.id = PartialClosePosition
    BY DEF SwapInputMsg
  <2> HIDE DEF part
  <2>5. part.id \in SwapIds /\ part.id \notin TradeIds
    BY <2>4, DistinctIds
  <2>6. Values(part.id, position, tmp_swap')
    BY <1>1, <2>2, <2>3, <2>4, DistinctIds DEF Values
  <2>7. QuotedBy(part, position, tmp_swap')
    BY <2>4 DEF QuotedBy
  <2>8. QED
    BY <1>1, <1>3, <1>4, <1>5, <2>3, <2>4, <2>5, <2>6, <2>7 DEF Recorded, position
<1>6. CASE /\ BeginWith(trader, funds, <<whole>>)
           /\ tmp_swap' = CloseSwap(trader, position)
  <2>1. /\ tmp_swap'.trader = trader /\ tmp_swap'.fees_paid = FALSE
        /\ tmp_swap'.open_notional = position.notional
    BY <1>6 DEF CloseSwap, Swapping
  <2>2. whole.kind = "swap_output" /\ whole.id = ClosingPosition
    BY DEF CloseMsg, SwapOutputMsg
  <2> HIDE DEF whole
  <2>3. whole.id \in SwapIds /\ whole.id \notin TradeIds
    BY <2>2, DistinctIds
  <2>4. Values(whole.id, position, tmp_swap')
    BY <2>1, <2>2, DistinctIds DEF Values
  <2>5. QuotedBy(whole, position, tmp_swap')
    BY <2>2, DistinctIds DEF QuotedBy, Quoted
  <2>6. QED
    BY <1>1, <1>3, <1>4, <1>6, <2>1, <2>2, <2>3, <2>4, <2>5 DEF Recorded, position
<1>7. QED
  BY <1>1, <1>5, <1>6

LEMMA LiquidationRecorded ==
    ASSUME RecordInv, SafetyInv, BookInv, HistoryInv, NEW sender \in Liquidators, NEW trader \in Traders,
           NEW limit, NEW oracle, NEW funds \in Nat,
           Liquidate(sender, trader, limit, oracle, funds)
    PROVE  \E m : Recorded(trader, sender, funds, m)
<1> DEFINE position == positions[trader]
           part == PartialLiquidationMsg(position, limit)
           whole == CloseMsg(Liquidation, position, limit)
<1>1. /\ UNCHANGED <<book, sent_funds>> /\ unasked' = unasked + funds
      /\ \/ /\ BeginWith(sender, funds, <<part>>)
            /\ tmp_swap' = PartialLiquidationSwap(trader, position)
         \/ /\ BeginWith(sender, funds, <<whole>>)
            /\ tmp_swap' = CloseSwap(trader, position)
  BY Zenon DEF Liquidate, Begin
<1>2. sender # Engine
  BY Payable
<1>3. UNCHANGED book
  BY <1>1
<1> HIDE DEF position
<1>4. CASE /\ BeginWith(sender, funds, <<part>>)
           /\ tmp_swap' = PartialLiquidationSwap(trader, position)
  <2>1. /\ tmp_swap'.trader = trader /\ tmp_swap'.fees_paid = FALSE
        /\ tmp_swap'.open_notional = PartNotional(position)
    <3> DEFINE side == IF position.size > 0 THEN RemoveFromAmm ELSE AddToAmm
               notional == PartNotional(position)
               pnl == UnrealizedPnl(position, SpotNotional(position))
    <3>1. tmp_swap' = Swapping(trader, side, 0, notional, 0, pnl)
      BY <1>4, Zenon DEF PartialLiquidationSwap
    <3> HIDE DEF side, notional, pnl
    <3>2. /\ tmp_swap'.trader = trader /\ tmp_swap'.fees_paid = FALSE
          /\ tmp_swap'.open_notional = notional
      BY <3>1 DEF Swapping
    <3>3. QED
      BY <3>2 DEF notional
  <2>2. /\ part.id = PartialLiquidation /\ part.kind \in {"swap_input", "swap_output"}
        /\ part.kind = "swap_output" => /\ part.direction = position.direction
                                        /\ part.amount = Part(Abs(position.size))
    BY DEF PartialLiquidationMsg, SwapInputMsg, SwapOutputMsg
  <2> HIDE DEF part
  <2>3. part.id \in SwapIds /\ part.id \notin TradeIds
    BY <2>2, DistinctIds
  <2>4. Values(part.id, position, tmp_swap')
    BY <2>2, DistinctIds DEF Values
  <2>5. QuotedBy(part, position, tmp_swap')
    BY <2>1, <2>2, DistinctIds DEF QuotedBy, Quoted, PartNotional
  <2>6. QED
    BY <1>1, <1>2, <1>3, <1>4, <2>1, <2>2, <2>3, <2>4, <2>5 DEF Recorded, position
<1>5. CASE /\ BeginWith(sender, funds, <<whole>>)
           /\ tmp_swap' = CloseSwap(trader, position)
  <2>1. /\ tmp_swap'.trader = trader /\ tmp_swap'.fees_paid = FALSE
        /\ tmp_swap'.open_notional = position.notional
    BY <1>5 DEF CloseSwap, Swapping
  <2>2. whole.kind = "swap_output" /\ whole.id = Liquidation
    BY DEF CloseMsg, SwapOutputMsg
  <2> HIDE DEF whole
  <2>3. whole.id \in SwapIds /\ whole.id \notin TradeIds
    BY <2>2, DistinctIds
  <2>4. Values(whole.id, position, tmp_swap')
    BY <2>1, <2>2, DistinctIds DEF Values
  <2>5. QuotedBy(whole, position, tmp_swap')
    BY <2>2, DistinctIds DEF QuotedBy, Quoted
  <2>6. QED
    BY <1>1, <1>2, <1>3, <1>5, <2>1, <2>2, <2>3, <2>4, <2>5 DEF Recorded, position
<1>6. QED
  BY <1>1, <1>4, <1>5

LEMMA FundingDrifted ==
    ASSUME RecordInv, SafetyInv, BookInv, HistoryInv, FreshInv, NEW sender \in Liquidators,
           NEW funds \in Nat, PayFunding(sender, funds)
    PROVE  Begins /\ Drifts(0) /\ ValueInv' /\ FundsInv'
<1>1. /\ BeginWith(sender, funds, <<FundingMsg>>) /\ UNCHANGED <<book, temporary>>
      /\ unasked' = unasked + funds
  BY Zenon DEF PayFunding, Begin
<1>2. /\ FundingMsg.kind = "settle_funding" /\ FundingMsg.id = Funding
      /\ "settle_funding" # "transfer"
  BY DEF FundingMsg
<1>3. Funding \notin SwapIds /\ Funding \notin TradeIds
  BY ReplyIds
<1>4. ~tmp_swap'.fees_paid
  <2>1. tmp_swap = NoSwap
    BY <1>1, BegunFacts
  <2>2. QED
    BY <1>1, <2>1 DEF temporary, NoSwap
<1>5. sender # Engine
  BY Payable
<1>6. Begins /\ Drifts(0)
  BY <1>1, <1>2, <1>3, <1>4, <1>5, CallDrifts
<1>7. AwaitedId' = Funding
  BY <1>1, <1>2, BegunFacts, QueueOfCall
<1>8. QED
  BY <1>3, <1>6, <1>7 DEF ValueInv, FundsInv

-----------------------------------------------------------------------------
(* Settling a position                                                     *)

\* What a position has gained or lost is in the vault, but for the rounding of
\* the funding it paid.
LEMMA SettledExactly ==
    ASSUME NEW old \in Position, NEW new \in Position, NEW c \in Int, NEW gain \in Int,
           Unpaid(new, c) = 0,
           gain = Net(new) - Net(old) + TruncDiv(Unpaid(old, c), Decimals)
    PROVE  LET d == Decimals * gain - (Claim(new, c) - Claim(old, c))
           IN  /\ d \in Int /\ -Room <= d /\ d <= Room
               /\ old.size = 0 => d = 0
<1> DEFINE f == TruncDiv(Unpaid(old, c), Decimals)
<1>1. /\ Net(old) \in Int /\ Net(new) \in Int /\ Unpaid(old, c) \in Int
      /\ Claim(old, c) = Decimals * Net(old) - Unpaid(old, c)
      /\ Claim(new, c) = Decimals * Net(new) - Unpaid(new, c)
  BY ClaimTypes DEF Claim
<1>2. /\ f \in Int /\ Decimals * f \in Int
      /\ Decimals * f - Unpaid(old, c) <= Decimals - 1
      /\ Unpaid(old, c) - Decimals * f <= Decimals - 1
      /\ Unpaid(old, c) = 0 => f = 0
  BY <1>1, TruncationError
<1>3. old.size = 0 => Unpaid(old, c) = 0
  <2>1. c - old.last_updated_premium_fraction \in Int
    BY PositionFields, SMT
  <2>2. \A x \in Int : x * 0 = 0
    BY SMT
  <2>3. QED
    BY <2>1, <2>2 DEF Unpaid
<1> PICK D, F, a, b, u, r, ca, cb : /\ D = Decimals /\ F = f /\ a = Net(old) /\ b = Net(new)
                                    /\ u = Unpaid(old, c) /\ r = Room
                                    /\ ca = Claim(old, c) /\ cb = Claim(new, c)
  OBVIOUS
<1>4. /\ D \in Nat /\ D # 0 /\ F \in Int /\ a \in Int /\ b \in Int /\ u \in Int /\ r \in Nat
      /\ D <= r /\ ca = D * a - u /\ cb = D * b - 0 /\ gain = b - a + F
      /\ D * F - u <= D - 1 /\ u - D * F <= D - 1 /\ (u = 0 => F = 0)
  BY <1>1, <1>2, DecimalsAssumption, RoomFacts
<1> HIDE DEF f
<1>5. D * (b - a + F) - ((D * b - 0) - (D * a - u)) = D * F - u
  BY <1>4, SMT
<1>6. u = 0 => D * F - u = 0
  <2>1. D * 0 - 0 = 0
    BY <1>4, SMT
  <2>2. QED
    BY <1>4, <2>1
<1> PICK x : x = D * F
  OBVIOUS
<1>7. x \in Int /\ x - u \in Int /\ -r <= x - u /\ x - u <= r
  <2>1. x \in Int
    BY <1>4, SMT
  <2>2. x - u <= D - 1 /\ u - x <= D - 1
    BY <1>4
  <2>3. QED
    BY <1>4, <2>1, <2>2, SMT
<1>8. Decimals * gain - (Claim(new, c) - Claim(old, c)) = x - u
  BY <1>4, <1>5
<1>9. old.size = 0 => x - u = 0
  BY <1>3, <1>6
<1>10. QED
  BY <1>7, <1>8, <1>9

\* A transaction without a swap changes a position in its first step.
LEMMA DirectDrifts ==
    ASSUME RecordInv, SafetyInv, BookInv, HistoryInv, FreshInv, NEW trader \in Traders,
           NEW funds \in Nat, NEW msgs, BeginWith(trader, funds, msgs),
           Transfers(msgs), Flows(msgs), NEW owing \in Int,
           engine_state'.prepaid_bad_debt = owing,
           NEW new \in Position, positions' = [positions EXCEPT ![trader] = new],
           UNCHANGED vamm_map,
           NEW gain \in Int,
           NEW kept \in Nat, unasked' = unasked + kept,
           gain = (funds - kept) - (owing - engine_state.prepaid_bad_debt) + Incoming(msgs),
           NEW d \in Int,
           d = Decimals * gain - (Claim(new, vamm_map.cumulative_premium_fraction)
                                    - Claim(positions[trader],
                                            vamm_map.cumulative_premium_fraction)),
           -Room <= d, d <= Room, positions[trader].size = 0 => d = 0
    PROVE  Begins /\ Drifts(d) /\ ValueInv' /\ FundsInv'
<1> DEFINE c == vamm_map.cumulative_premium_fraction
           old == positions[trader]
           e == Claim(new, c) - Claim(old, c)
<1>1. c \in Int /\ old \in Position
  BY SurplusTypes, BookFacts
<1>2. e \in Int
  <2>1. Claim(new, c) \in Int /\ Claim(old, c) \in Int
    BY <1>1, ClaimTypes
  <2>2. \A x \in Int, y \in Int : x - y \in Int
    BY SMT
  <2>3. QED
    BY <2>1, <2>2
<1>3. Claims(positions', vamm_map'.cumulative_premium_fraction) = Claims(positions, c) + e
  <2>1. positions \in [Traders -> Position]
    BY BookFacts
  <2>2. Claims([positions EXCEPT ![trader] = new], c) = Claims(positions, c) + e
    <3>1. \A k \in Int : \A h \in Traders, q \in Position :
             Claims([positions EXCEPT ![h] = q], k)
               = Claims(positions, k) + (Claim(q, k) - Claim(positions[h], k))
      BY <2>1, ClaimsFacts
    <3>2. QED
      BY <1>1, <3>1
  <2>3. QED
    BY <2>2
<1>4. AwaitedId' = "none" /\ "none" \notin SwapIds \union {Funding}
  <2>1. ~CallsAmm(msgs) /\ NoReply.id = "none"
    BY QueueOfTransfers DEF NoReply
  <2>2. QED
    BY <2>1, BegunFacts, ReplyIds DEF Awaits
<1>5. Settled' /\ Expected' = 0
  BY <1>4, ReplyIds DEF Settled, Expected
<1>6. gain = (funds - kept) - (owing - engine_state.prepaid_bad_debt) + Incoming(msgs) + Expected'
  <2>1. gain + 0 = gain
    BY SMT
  <2>2. QED
    <3> PICK x : x = (funds - kept) - (owing - engine_state.prepaid_bad_debt) + Incoming(msgs)
      OBVIOUS
    <3>1. gain = x /\ x + 0 = gain
      BY <2>1
    <3>2. QED
      BY <1>5, <3>1
<1> HIDE DEF c, old, e
<1>7. /\ Surplus' = Surplus + (Decimals * gain - e)
      /\ Idle /\ ~Idle' /\ Start' = Saved /\ Excess(Saved) = Surplus
      /\ Steps = txs /\ txs' = txs + 1 /\ txs \in Nat
  <2>1. trader # Engine /\ Expected' \in Int
    <3>1. 0 \in Int
      BY SMT
    <3>2. QED
      BY <1>5, <3>1, Payable
  <2>2. QED
    BY <1>2, <1>3, <1>6, <2>1, BegunSurplus, ZenonT(40) DEF c
<1>8. Steps' = Steps + 1 /\ Steps' \in Nat
  BY <1>5, <1>7, SMT DEF Steps
<1>9. Steps = 0 => d = 0
  <2>1. Steps = 0 => positions[trader] = NoPosition
    BY <1>7 DEF FreshInv, Fresh
  <2>2. NoPosition.size = 0
    BY DEF NoPosition
  <2>3. QED
    BY <2>1, <2>2
<1>10. Surplus' = Surplus + d
  BY <1>7 DEF c, old, e
<1>11. Begins /\ Drifts(d)
  BY <1>7, <1>8, <1>9, <1>10 DEF Begins, Drifts
<1>12. QED
  BY <1>4, <1>11, ReplyIds DEF ValueInv, FundsInv

LEMMA DepositDrifts ==
    ASSUME RecordInv, SafetyInv, BookInv, HistoryInv, FreshInv, NEW trader \in Traders, NEW amount \in Nat,
           NEW funds \in Sent(amount), DepositMargin(trader, amount, funds)
    PROVE  Begins /\ (\E d : Drifts(d)) /\ ValueInv' /\ FundsInv'
<1> DEFINE old == positions[trader]
           new == [old EXCEPT !.margin = old.margin + amount]
           msgs == IF Native THEN <<>> ELSE <<Transfer(trader, Engine, amount)>>
           c == vamm_map.cumulative_premium_fraction
           owing == engine_state.prepaid_bad_debt
<1>1. /\ BeginWith(trader, funds, msgs) /\ (Native => funds = amount)
      /\ positions' = [positions EXCEPT ![trader].margin = @ + amount]
      /\ UNCHANGED <<engine_state, vamm_map, temporary, unasked>>
  BY Zenon DEF DepositMargin, ExactFunds
<1>2. old \in Position /\ positions \in [Traders -> Position] /\ c \in Int
  BY BookFacts, SurplusTypes
<1>3. funds \in Nat /\ (~Native => funds = 0)
  <2>1. amount \in Int
    BY SMT
  <2>2. QED
    BY <2>1, SentTypes DEF Sent
<1>4. trader # Engine
  BY Payable
<1>5. Transfers(msgs) /\ Flows(msgs) /\ Incoming(msgs) = IF Native THEN 0 ELSE amount
  <2>1. CASE Native
    BY <2>1, NoTransfer, IncomingNothing
  <2>2. CASE ~Native
    <3>1. Transfers(msgs)
      BY <2>2, OneTransfer
    <3>2. Flows(msgs) /\ Incoming(msgs) = amount - 0
      BY <1>4, <2>2, TransferFlow
    <3>3. amount - 0 = amount
      BY SMT
    <3>4. QED
      BY <2>2, <3>1, <3>2, <3>3
  <2>3. QED
    BY <2>1, <2>2
<1>6. new \in Position /\ new.margin = old.margin + amount
      /\ new.size = old.size /\ new.direction = old.direction /\ new.notional = old.notional
      /\ new.last_updated_premium_fraction = old.last_updated_premium_fraction
  <2>1. old.margin + amount \in Nat
    BY <1>2, PositionFields, SMT
  <2>2. QED
    BY <1>2, <2>1, FieldUpdate DEF Position
<1>7. positions' = [positions EXCEPT ![trader] = new]
  BY <1>1, <1>2
<1>8. owing \in Int
  BY CoinsTypes, SMT
<1> HIDE DEF msgs
<1>9. amount = (funds - 0) - (owing - owing) + Incoming(msgs)
  <2>1. /\ \A a \in Nat, o \in Int : a = (a - 0) - (o - o) + 0
        /\ \A a \in Nat, o \in Int : a = (0 - 0) - (o - o) + a
    BY SMT
  <2>2. QED
    BY <1>1, <1>3, <1>5, <1>8, <2>1
<1>10. Decimals * amount - (Claim(new, c) - Claim(old, c)) = 0
  <2> PICK D, m, s, u : /\ D = Decimals /\ m = old.margin
                        /\ s = Signed(old.direction, old.notional) /\ u = Unpaid(old, c)
    OBVIOUS
  <2>1. D \in Nat /\ m \in Nat /\ s \in Int /\ u \in Int
    <3>1. old.notional \in Int /\ old.direction \in Direction
      BY <1>2, PositionFields, SMT
    <3>2. QED
      BY <1>2, <3>1, Amounts, ClaimTypes, PositionFields, DecimalsAssumption
  <2>2. Claim(old, c) = D * (m - s) - u /\ Claim(new, c) = D * ((m + amount) - s) - u
    BY <1>6 DEF Claim, Net, Unpaid
  <2>3. D * amount - ((D * ((m + amount) - s) - u) - (D * (m - s) - u)) = 0
    <3>1. \A x \in Nat, a \in Nat, y \in Int, v \in Int :
             x * a - ((x * (y + a) - v) - (x * y - v)) = 0
      BY SMT
    <3>2. m - s \in Int /\ (m + amount) - s = (m - s) + amount
      BY <2>1, SMT
    <3>3. QED
      BY <2>1, <3>1, <3>2
  <2>4. QED
    BY <2>2, <2>3
<1>11. 0 \in Int /\ -Room <= 0 /\ 0 <= Room /\ amount \in Int
  <2> PICK r : r = Room
    OBVIOUS
  <2>1. r \in Nat
    BY RoomFacts
  <2>2. 0 \in Int /\ -r <= 0 /\ 0 <= r /\ amount \in Int
    BY <2>1, SMT
  <2>3. QED
    BY <2>2
<1> HIDE DEF new, c, owing, old
<1>12. \E d : Begins /\ Drifts(d) /\ ValueInv' /\ FundsInv'
  <2> PICK kept, gain, d : kept = 0 /\ gain = amount /\ d = 0
    OBVIOUS
  <2>1. engine_state'.prepaid_bad_debt = owing /\ UNCHANGED vamm_map
    BY <1>1 DEF owing
  <2>2. d = Decimals * gain - (Claim(new, vamm_map.cumulative_premium_fraction)
                                    - Claim(positions[trader],
                                            vamm_map.cumulative_premium_fraction))
    BY <1>10 DEF c, old
  <2>3. gain = (funds - kept) - (owing - engine_state.prepaid_bad_debt) + Incoming(msgs)
    BY <1>9 DEF owing
  <2>4. unasked' = unasked + kept /\ kept \in Nat
    BY <1>1, CoinsTypes, SMT
  <2>5. gain \in Int /\ d \in Int /\ -Room <= d /\ d <= Room /\ (positions[trader].size = 0 => d = 0)
    BY <1>11
  <2>6. /\ BeginWith(trader, funds, msgs) /\ Transfers(msgs) /\ Flows(msgs)
        /\ funds \in Nat /\ new \in Position
    BY <1>1, <1>3, <1>5, <1>6
  <2>7. QED
    BY <1>7, <1>8, <2>1, <2>2, <2>3, <2>4, <2>5, <2>6, DirectDrifts
<1>13. QED
  BY <1>12

LEMMA WithdrawDrifts ==
    ASSUME RecordInv, SafetyInv, BookInv, HistoryInv, FreshInv, NEW trader \in Traders, NEW amount \in Nat,
           NEW funds \in Nat, WithdrawMargin(trader, amount, funds)
    PROVE  Begins /\ (\E d : Drifts(d)) /\ ValueInv' /\ FundsInv'
<1> DEFINE old == positions[trader]
           c == vamm_map.cumulative_premium_fraction
           left == Remaining(old, -amount)
           new == [old EXCEPT !.margin = RemainMargin(old, -amount),
                              !.last_updated_premium_fraction = c]
           msgs == Withdraw(trader, amount, funds)
           lacking == Shortfall(amount, funds)
           owing == engine_state.prepaid_bad_debt + lacking
           gain == 0 - amount
           d == Decimals * gain - (Claim(new, c) - Claim(old, c))
<1>1. /\ BeginWith(trader, funds, msgs) /\ BadDebt(old, -amount) = 0
      /\ positions' = [positions EXCEPT ![trader].margin = RemainMargin(old, -amount),
                                        ![trader].last_updated_premium_fraction = c]
      /\ engine_state' = [engine_state EXCEPT !.prepaid_bad_debt = @ + lacking]
      /\ vamm_map' = vamm_map /\ unasked' = unasked + funds
  BY Zenon DEF WithdrawMargin, Begin
<1>2. /\ old \in Position /\ positions \in [Traders -> Position] /\ c \in Int
      /\ vamm_map \in VammMap /\ balance \in [Holders -> Nat] /\ engine_config \in EngineConfig
      /\ engine_state.prepaid_bad_debt \in Int /\ engine_state \in EngineState
  <2>1. /\ vamm_map \in VammMap /\ balance \in [Holders -> Nat]
        /\ engine_config \in EngineConfig /\ engine_state \in EngineState
    BY DEF BookInv, TypeInv, ContractTypeOK
  <2>2. engine_state.prepaid_bad_debt \in Int
    BY CoinsTypes, SMT
  <2>3. QED
    BY <2>1, <2>2, BookFacts, SurplusTypes
<1>3. -amount \in Int /\ amount \in Int /\ 0 \in Int /\ 0 \in Nat /\ gain \in Int /\ -amount = gain
  BY SMT
<1>4. lacking \in Nat /\ owing \in Int
  <2>1. lacking \in Nat
    BY <1>2, <1>3, ShortfallType
  <2>2. \A x \in Int, y \in Nat : x + y \in Int
    BY SMT
  <2>3. QED
    BY <1>2, <2>1, <2>2
<1>5. trader # Engine
  BY Payable
<1>6. Transfers(msgs) /\ Flows(msgs) /\ Incoming(msgs) = lacking - amount
  BY <1>2, <1>3, <1>5, WithdrawFlow, WithdrawTransfers
<1>7. left \in Int /\ RemainMargin(old, -amount) = left /\ left \in Nat
      /\ FundingPayment(old) \in Int
  <2>1. left \in Int /\ FundingPayment(old) \in Int
    BY <1>2, <1>3, MarginTypes
  <2>2. \A x \in Int : AtLeastZero(-x) = 0 => AtLeastZero(x) = x /\ x \in Nat
    BY SMT DEF AtLeastZero
  <2>3. AtLeastZero(-left) = 0
    BY <1>1 DEF BadDebt
  <2>4. QED
    BY <2>1, <2>2, <2>3 DEF RemainMargin
<1>8. new \in Position /\ positions' = [positions EXCEPT ![trader] = new]
  <2>1. RemainMargin(old, -amount) \in Nat
    BY <1>7, ZenonT(40)
  <2>2. new \in Position
    <3>1. old.block_number \in Nat /\ old.direction \in Direction /\ old.size \in Int
          /\ old.notional \in Nat
      BY <1>2 DEF Position
    <3>2. QED
      BY <1>2, <2>1, <3>1, PositionUpdate
  <2>3. positions' = [positions EXCEPT ![trader] = new]
    BY <1>1, <1>2
  <2>4. QED
    BY <2>2, <2>3
<1>9. /\ new.margin = left /\ new.last_updated_premium_fraction = c /\ new.size = old.size
      /\ new.notional = old.notional /\ new.direction = old.direction
  BY <1>2, <1>7 DEF Position
<1> HIDE DEF new, msgs, lacking, owing, gain
<1>10. Unpaid(new, c) = 0
  <2>1. \A x \in Int, y \in Int : (x - x) * y = 0
    BY SMT
  <2>2. QED
    BY <1>2, <1>9, <2>1, PositionFields DEF Unpaid
<1>11. gain = Net(new) - Net(old) + TruncDiv(Unpaid(old, c), Decimals)
  <2> PICK f, m, s : /\ f = FundingPayment(old) /\ m = old.margin
                     /\ s = Signed(old.direction, old.notional)
    OBVIOUS
  <2>1. f \in Int /\ m \in Int /\ s \in Int
    <3>1. old.notional \in Int /\ old.margin \in Int /\ old.direction \in Direction
      BY <1>2, PositionFields, SMT
    <3>2. QED
      BY <1>2, <1>7, <3>1, Amounts
  <2>2. Net(old) = m - s /\ Net(new) = ((gain - f) + m) - s
        /\ TruncDiv(Unpaid(old, c), Decimals) = f
    BY <1>3, <1>9 DEF Net, Remaining, FundingPayment, Unpaid, c
  <2>3. gain = (((gain - f) + m) - s) - (m - s) + f
    BY <1>3, <2>1, SMT
  <2>4. QED
    BY <2>2, <2>3
<1>12. d \in Int /\ -Room <= d /\ d <= Room /\ (old.size = 0 => d = 0)
  <2> HIDE DEF old, c
  <2>1. gain \in Int
    BY <1>3
  <2>2. QED
    BY <1>2, <1>8, <1>10, <1>11, <2>1, SettledExactly
<1>13. gain = (funds - funds) - (owing - engine_state.prepaid_bad_debt) + Incoming(msgs)
  <2> PICK p : p = engine_state.prepaid_bad_debt
    OBVIOUS
  <2>1. 0 - amount = (funds - funds) - ((p + lacking) - p) + (lacking - amount)
    BY <1>2, <1>3, <1>4, SMT
  <2>2. QED
    BY <1>6, <2>1 DEF owing, gain
<1>14. engine_state'.prepaid_bad_debt = owing
  BY <1>1, <1>2 DEF EngineState, owing
<1> HIDE DEF d
<1>15. Begins /\ Drifts(d) /\ ValueInv' /\ FundsInv'
  <2>1. d = Decimals * gain - (Claim(new, vamm_map.cumulative_premium_fraction)
                                  - Claim(positions[trader],
                                          vamm_map.cumulative_premium_fraction))
    BY DEF d
  <2>2. gain \in Int /\ 0 \in Nat
    BY <1>3
  <2> HIDE DEF left, old, c
  <2>3. positions[trader].size = 0 => d = 0
    BY <1>12 DEF old
  <2>4. UNCHANGED vamm_map
    BY <1>1
  <2>5. QED
    BY <1>1, <1>4, <1>6, <1>8, <1>12, <1>13, <1>14, <2>1, <2>2, <2>3, <2>4, DirectDrifts
<1>16. QED
  BY <1>15

\* What any message from outside does to the surplus, its first step taken.
LEMMA RequestDrifts ==
    ASSUME RecordInv, SafetyInv, BookInv, HistoryInv, FreshInv, Request
    PROVE  Begins /\ (\E d : Drifts(d)) /\ ValueInv' /\ FundsInv'
<1>1. ASSUME NEW trader, NEW sender, NEW funds, NEW m, Recorded(trader, sender, funds, m)
      PROVE  Begins /\ (\E d : Drifts(d)) /\ ValueInv' /\ FundsInv'
  BY <1>1, RecordedTrade
<1>2. ASSUME NEW trader \in Traders, NEW side \in Direction, NEW margin \in Margins,
             NEW leverage \in Leverages, NEW limit \in BaseLimits,
             NEW funds \in Sent(FundsNeeded(trader, side, margin, leverage)),
             OpenPosition(trader, side, margin, leverage, limit, funds)
      PROVE  Begins /\ (\E d : Drifts(d)) /\ ValueInv' /\ FundsInv'
  <2>1. margin \in Nat /\ leverage \in Nat
    BY RequestsAssumption
  <2>2. \E m : Recorded(trader, trader, funds, m)
    BY <1>2, <2>1, OpenRecorded
  <2>3. QED
    BY <1>1, <2>2
<1>3. ASSUME NEW trader \in Traders, NEW limit \in QuoteLimits,
             NEW funds \in Stray, ClosePosition(trader, limit, funds)
      PROVE  Begins /\ (\E d : Drifts(d)) /\ ValueInv' /\ FundsInv'
  BY <1>1, <1>3, StrayTypes, CloseRecorded
<1>4. ASSUME NEW trader \in Traders, NEW amount \in Deposits, NEW funds \in Sent(amount),
             DepositMargin(trader, amount, funds)
      PROVE  Begins /\ (\E d : Drifts(d)) /\ ValueInv' /\ FundsInv'
  <2>1. amount \in Nat
    BY RequestsAssumption
  <2>2. QED
    BY <1>4, <2>1, DepositDrifts
<1>5. ASSUME NEW trader \in Traders, NEW amount \in Withdrawals,
             NEW funds \in Stray, WithdrawMargin(trader, amount, funds)
      PROVE  Begins /\ (\E d : Drifts(d)) /\ ValueInv' /\ FundsInv'
  <2>1. amount \in Nat
    BY RequestsAssumption
  <2>2. QED
    BY <1>5, <2>1, StrayTypes, WithdrawDrifts
<1>6. ASSUME NEW trader \in Traders, NEW sender \in Liquidators, NEW limit \in QuoteLimits,
             NEW oracle \in OraclePrices, NEW funds \in Stray,
             Liquidate(sender, trader, limit, oracle, funds)
      PROVE  Begins /\ (\E d : Drifts(d)) /\ ValueInv' /\ FundsInv'
  BY <1>1, <1>6, StrayTypes, LiquidationRecorded
<1>7. ASSUME NEW sender \in Liquidators, NEW funds \in Stray,
             PayFunding(sender, funds)
      PROVE  Begins /\ (\E d : Drifts(d)) /\ ValueInv' /\ FundsInv'
  BY <1>7, StrayTypes, FundingDrifted
<1>8. QED
  BY <1>2, <1>3, <1>4, <1>5, <1>6, <1>7, Zenon DEF Request

-----------------------------------------------------------------------------
(* What the handlers recorded still holds                                  *)

LEMMA QuietTrade ==
    /\ AwaitedId' \notin SwapIds => ValueInv' /\ FundsInv'
    /\ queue' = <<>> /\ reply' = NoReply => AwaitedId' \notin SwapIds
<1>1. AwaitedId' \notin SwapIds => ValueInv' /\ FundsInv'
  BY ReplyIds DEF ValueInv, FundsInv
<1>2. queue' = <<>> /\ reply' = NoReply => AwaitedId' \notin SwapIds
  <2>1. Len(<<>>) = 0 /\ NoReply.id = "none"
    BY SMT DEF NoReply
  <2>2. QED
    BY <2>1, ReplyIds DEF AwaitedId, Awaits, CallsAmm
<1>3. QED
  BY <1>1, <1>2

LEMMA TransferTrade ==
    ASSUME RecordInv, SafetyInv, BookInv, HistoryInv, ValueInv, FundsInv, ExecuteTransfer
    PROVE  ValueInv' /\ FundsInv'
<1>1. /\ Execute("transfer") /\ reply' = reply
      /\ quote_asset_reserve' = quote_asset_reserve /\ base_asset_reserve' = base_asset_reserve
  <2>1. Execute("transfer") /\ reply' = reply /\ UNCHANGED vars
    BY Zenon DEF ExecuteTransfer
  <2>2. QED
    BY <2>1 DEF vars, state
<1>2. /\ AwaitedId' = AwaitedId /\ reply = NoReply
      /\ CallsAmm(queue') => /\ CallsAmm(queue)
                             /\ queue'[Len(queue')] = queue[Len(queue)]
      /\ UNCHANGED <<positions, tmp_swap, sent_funds, engine_config>>
  BY <1>1, ExecutedFacts
<1>3. FundsInv'
  BY <1>2 DEF FundsInv, Native
<1>4. ASSUME AwaitedId' \in SwapIds
      PROVE  ValueInv'
  <2>1. CallsAmm(queue')
    <3>1. reply'.id = "none"
      BY <1>1, <1>2 DEF NoReply
    <3>2. QED
      BY <1>4, <3>1, ReplyIds DEF AwaitedId, Awaits
  <2>2. /\ Values(AwaitedId, positions[tmp_swap.trader], tmp_swap)
        /\ QuotedBy(queue[Len(queue)], positions[tmp_swap.trader], tmp_swap)
    BY <1>2, <1>4, <2>1 DEF ValueInv
  <2>3. /\ Values(AwaitedId', positions'[tmp_swap'.trader], tmp_swap')
        /\ QuotedBy(queue[Len(queue)], positions[tmp_swap.trader], tmp_swap)'
    <3>1. Values(AwaitedId', positions'[tmp_swap'.trader], tmp_swap')
      BY <1>2, <2>2
    <3>2. QuotedBy(queue[Len(queue)], positions[tmp_swap.trader], tmp_swap)'
      BY <1>1, <1>2, <2>1, <2>2 DEF QuotedBy
    <3>3. QED
      BY <3>1, <3>2
  <2>4. QED
    BY <2>1, <2>3 DEF ValueInv
<1>5. QED
  BY <1>3, <1>4, QuietTrade

LEMMA SwapTrade ==
    ASSUME RecordInv, SafetyInv, BookInv, HistoryInv, ValueInv, FundsInv, OrdinaryMarket, ExecuteSwap
    PROVE  ValueInv' /\ FundsInv'
<1> DEFINE m == Head(queue)
           p == positions[tmp_swap.trader]
<1>1. /\ Moving(m) /\ Execute(m.kind) /\ SoundMessage(m)
      /\ reply'.id = m.id /\ m.kind # "transfer"
  BY SwapMoves, SwapIsAnswered DEF Moving
<1>2. /\ AwaitedId = m.id /\ CallsAmm(queue) /\ m = queue[Len(queue)] /\ queue # <<>>
      /\ IsSequence(queue) /\ AwaitedId' = AwaitedId /\ ~CallsAmm(queue')
      /\ UNCHANGED <<positions, tmp_swap, sent_funds, engine_config>>
  BY <1>1, ExecutedFacts
<1>3. m.id \in SwapIds
  BY <1>1 DEF Moving, SoundMessage
<1>4. Asks(m, p, tmp_swap) /\ Values(m.id, p, tmp_swap) /\ QuotedBy(m, p, tmp_swap)
  BY <1>2, <1>3 DEF BookInv, SwapInv, ValueInv
<1>5. m.kind = "swap_input" => m.id # PartialLiquidation
  <2>1. Len(queue) \in 1 .. Len(queue)
    <3>1. PICK S : queue \in Seq(S)
      BY <1>2 DEF IsSequence
    <3>2. QED
      BY <1>2, <3>1, SMT
  <2>2. QED
    BY <1>2, <2>1 DEF OrdinaryMarket
<1> HIDE DEF m
<1>6. Quoted(m.id, p, tmp_swap, reply'.output)
  <2>1. CASE m.kind = "swap_input"
    <3>1. m.id # ReversePosition
      BY <1>4, <2>1 DEF Asks
    <3>2. QED
      BY <1>5, <2>1, <3>1 DEF Quoted
  <2>2. CASE m.kind = "swap_output"
    <3>1. reply'.output = GetOutputPrice(m.direction, m.amount,
                                         quote_asset_reserve, base_asset_reserve)
      BY <1>1, <2>2 DEF Moving
    <3>2. QED
      BY <1>4, <2>2, <3>1 DEF QuotedBy
  <2>3. QED
    BY <1>1, <2>1, <2>2 DEF Moving
<1>7. FundsInv'
  BY <1>2 DEF FundsInv, Native
<1>8. /\ Values(AwaitedId', positions'[tmp_swap'.trader], tmp_swap')
      /\ Quoted(AwaitedId', positions'[tmp_swap'.trader], tmp_swap', reply'.output)
  BY <1>2, <1>4, <1>6
<1>9. QED
  BY <1>2, <1>7, <1>8 DEF ValueInv

LEMMA FundingTrade ==
    ASSUME RecordInv, SafetyInv, BookInv, HistoryInv, NEW underlying, ExecuteFunding(underlying)
    PROVE  ValueInv' /\ FundsInv'
<1>1. Execute("settle_funding") /\ reply'.id = Funding
  BY DEF ExecuteFunding
<1>2. Head(queue).kind = "settle_funding" /\ Head(queue).id = Funding
  BY <1>1, RestOfQueue DEF Execute, RecordInv, RecordsAreAwaited
<1>3. QED
  BY <1>1, <1>2, ExecutedFacts, ReplyIds, QuietTrade

-----------------------------------------------------------------------------
(* Replies                                                                 *)

LEMMA CoinsAdded ==
    \A b \in Nat, b0 \in Nat, p \in Nat, q \in Nat, q0 \in Nat :
    \A x \in Int, y \in Int, i \in Int, x1 \in Int, owing \in Int :
        /\ (b - p - b0 - (q - q0)) + (x + y) \in Int
        /\ (b - owing - b0 - (q - q0)) + (i + x1)
              = ((b - p - b0 - (q - q0)) + (x + y)) + ((i + x1) - (owing - p) - x - y)
BY SMT

\* What is queued and booked by a reply: the coins to come, the debt, what the
\* vault gains and what the claims grow by.
Booked(coming, owing, gain, e) ==
    /\ UNCHANGED <<balance, quote_asset_reserve, unasked>>
    /\ Pending = Expected + MovedQuote
    /\ coming \in Int /\ Pending' = coming
    /\ owing \in Int /\ engine_state'.prepaid_bad_debt = owing
    /\ gain = coming - (owing - engine_state.prepaid_bad_debt) - Expected - MovedQuote
    /\ e \in Int
    /\ Claims(positions', vamm_map'.cumulative_premium_fraction)
         = Claims(positions, vamm_map.cumulative_premium_fraction) + e

LEMMA SurplusFollows ==
    ASSUME RecordInv, SafetyInv, BookInv, HistoryInv,
           NEW coming, NEW owing, NEW gain, NEW e, Booked(coming, owing, gain, e)
    PROVE  Surplus' = Surplus + (Decimals * gain - e)
<1> DEFINE b == balance[Engine]
           b0 == InitialBalance[Engine] + unasked
           p == engine_state.prepaid_bad_debt
           q == quote_asset_reserve
           q0 == InitialQuote
           x == Expected
           y == MovedQuote
           u == Coins(balance, engine_state, quote_asset_reserve, unasked) + Pending
           v == Claims(positions, vamm_map.cumulative_premium_fraction)
<1>1. /\ b \in Nat /\ b0 \in Nat /\ p \in Nat /\ q \in Nat /\ q0 \in Nat
      /\ x \in Int /\ y \in Int
  BY CoinsTypes, SurplusTypes
<1>2. u = (b - p - b0 - (q - q0)) + (x + y)
  BY DEF Coins, Booked
<1>3. Coins(balance', engine_state', quote_asset_reserve', unasked') + Pending'
         = (b - owing - b0 - (q - q0)) + coming
  BY DEF Coins, Booked
<1>4. gain = coming - (owing - p) - x - y /\ coming \in Int /\ owing \in Int /\ e \in Int
  BY DEF Booked
<1>5. Surplus = Decimals * u - v
  BY DEF Surplus
<1>6. v \in Int /\ Claims(positions', vamm_map'.cumulative_premium_fraction) = v + e
  BY SurplusTypes DEF Booked
<1> HIDE DEF b, b0, p, q, q0, x, y, u, v
<1>7. u \in Int /\ gain \in Int /\ (b - owing - b0 - (q - q0)) + coming = u + gain
  BY <1>1, <1>2, <1>4, SMT
<1>8. Surplus' = Decimals * (u + gain) - (v + e)
  BY <1>3, <1>6, <1>7 DEF Surplus
<1>9. \A D \in Nat, h \in Int, l \in Int, m \in Int, n \in Int :
         D * (h + m) - (l + n) = (D * h - l) + (D * m - n)
  BY SMT
<1>10. Decimals * (u + gain) - (v + e) = (Decimals * u - v) + (Decimals * gain - e)
  BY <1>4, <1>6, <1>7, <1>9, DecimalsAssumption
<1>11. QED
  BY <1>5, <1>8, <1>10

\* The second step of a trade, or, after a reversal, the third: the coins that
\* come and go with it, and what the trader may claim before and after.
LEMMA HandledDrifts ==
    ASSUME RecordInv, SafetyInv, BookInv, HistoryInv, FreshInv,
           NEW id \in SwapIds, NEW msgs, Reply(id, msgs), Flows(msgs),
           (Settled \/ tmp_swap.fees_paid)', Expected' \in Int,
           vamm_map'.cumulative_premium_fraction = vamm_map.cumulative_premium_fraction,
           NEW new \in Position, positions' = [positions EXCEPT ![tmp_swap.trader] = new],
           NEW owing \in Int, engine_state'.prepaid_bad_debt = owing,
           NEW gain \in Int,
           gain = (Incoming(msgs) + Expected') - (owing - engine_state.prepaid_bad_debt)
                    - Expected - MovedQuote,
           NEW d \in Int,
           d = Decimals * gain - (Claim(new, vamm_map.cumulative_premium_fraction)
                                    - Claim(positions[tmp_swap.trader],
                                            vamm_map.cumulative_premium_fraction)),
           -Room <= d, FundingIsPaid => d <= Room,
           positions[tmp_swap.trader].size = 0 => d = 0
    PROVE  Drifts(d) /\ ~Idle /\ ~Idle' /\ Start' = Start
<1> DEFINE trader == tmp_swap.trader
           c == vamm_map.cumulative_premium_fraction
           old == positions[trader]
           e == Claim(new, c) - Claim(old, c)
<1>1. /\ ~Idle /\ ~Idle' /\ Start' = Start /\ txs' = txs
      /\ queue = <<>> /\ AwaitedId = id /\ reply.id = id /\ reply' = NoReply
      /\ UNCHANGED <<vars, settings, balance, unasked>>
  BY RepliedFacts
<1>2. queue' = msgs
  BY <1>1, RepliedQueue DEF Flows
<1>3. trader \in Traders /\ old \in Position /\ c \in Int /\ positions \in [Traders -> Position]
  BY <1>1, AnswerFacts, SurplusTypes, BookFacts
<1>4. e \in Int
  <2>1. Claim(new, c) \in Int /\ Claim(old, c) \in Int
    BY <1>3, ClaimTypes
  <2>2. \A x \in Int, y \in Int : x - y \in Int
    BY SMT
  <2>3. QED
    BY <2>1, <2>2
<1>5. Claims(positions', vamm_map'.cumulative_premium_fraction) = Claims(positions, c) + e
  <2>1. \A k \in Int : \A h \in Traders, q \in Position :
           Claims([positions EXCEPT ![h] = q], k)
             = Claims(positions, k) + (Claim(q, k) - Claim(positions[h], k))
    BY <1>3, ClaimsFacts
  <2>2. Claims([positions EXCEPT ![trader] = new], c) = Claims(positions, c) + e
    <3>1. \A h \in Traders, q \in Position :
             Claims([positions EXCEPT ![h] = q], c)
               = Claims(positions, c) + (Claim(q, c) - Claim(positions[h], c))
      BY <1>3, <2>1
    <3>2. QED
      BY <1>3, <3>1
  <2>3. QED
    BY <2>2
<1> HIDE DEF c, old, e
<1>6. quote_asset_reserve' = quote_asset_reserve
  BY <1>1 DEF vars, state
<1>7. /\ Pending = Expected + MovedQuote /\ Pending \in Int
      /\ Pending' = Incoming(msgs) + Expected' /\ Incoming(msgs) \in Int
      /\ Expected \in Int /\ MovedQuote \in Int
  <2>1. MovedQuote' = 0
    <3>1. reply'.id \notin SwapIds
      BY <1>1, ReplyIds DEF NoReply
    <3>2. QED
      BY <3>1, DistinctIds DEF MovedQuote
  <2>2. Incoming(queue) = 0
    BY <1>1, IncomingNothing
  <2>3. Incoming(msgs) \in Int
    BY IncomingBoth
  <2>4. Expected \in Int /\ MovedQuote \in Int /\ Pending \in Int
    BY SurplusTypes
  <2> PICK x, y, i, x1 : x = Expected /\ y = MovedQuote /\ i = Incoming(msgs) /\ x1 = Expected'
    OBVIOUS
  <2>5. 0 + x + y = x + y /\ i + x1 + 0 = i + x1
    BY <2>3, <2>4, SMT
  <2>6. QED
    BY <1>2, <2>1, <2>2, <2>3, <2>4, <2>5 DEF Pending
<1>8. Surplus' = Surplus + (Decimals * gain - e)
  <2> PICK coming : coming = Incoming(msgs) + Expected'
    OBVIOUS
  <2>1. UNCHANGED <<balance, quote_asset_reserve, unasked>>
    BY <1>1, <1>6
  <2>2. coming \in Int /\ Pending' = coming
    BY <1>7
  <2>3. gain = coming - (owing - engine_state.prepaid_bad_debt) - Expected - MovedQuote
    OBVIOUS
  <2>4. Claims(positions', vamm_map'.cumulative_premium_fraction)
          = Claims(positions, vamm_map.cumulative_premium_fraction) + e
    BY <1>5 DEF c
  <2>5. Booked(coming, owing, gain, e)
    BY <1>4, <1>7, <2>1, <2>2, <2>3, <2>4 DEF Booked
  <2>6. QED
    BY <2>5, SurplusFollows
<1>9. /\ Steps \in Nat /\ Steps' \in Nat
      /\ \/ Steps' = Steps /\ d = 0
         \/ Steps' = Steps + 1 /\ (Steps = 0 => d = 0)
  <2>1. Steps' = txs /\ txs \in Nat /\ Steps \in Nat
    BY <1>1, StepTypes DEF Steps
  <2>2. CASE tmp_swap.fees_paid
    <3>1. Steps = txs /\ old.size = 0
      BY <1>1, <2>2, StepTypes, AnswerInterest DEF old
    <3>2. QED
      BY <2>1, <3>1 DEF old
  <2>3. CASE ~tmp_swap.fees_paid
    <3>1. ~Settled
      BY <1>1 DEF Settled
    <3>2. Steps + 1 = txs /\ Steps = Start.txs
      BY <1>1, <2>3, <3>1, StepTypes
    <3>3. positions = Start.positions
      BY <1>1, <2>3, AnswerInterest
    <3>4. Steps = 0 => old = NoPosition
      BY <1>1, <1>3, <3>2, <3>3 DEF FreshInv, Fresh, old
    <3>5. NoPosition.size = 0
      BY DEF NoPosition
    <3>6. QED
      BY <2>1, <3>2, <3>4, <3>5 DEF old
  <2>4. QED
    BY <2>2, <2>3
<1>10. Surplus' = Surplus + d
  BY <1>8 DEF c, old, e
<1>11. QED
  BY <1>1, <1>9, <1>10, Zenon DEF Drifts

\* The same, with the hypotheses as one.
Answered(id, msgs, new, owing, gain, d) ==
    /\ id \in SwapIds /\ Reply(id, msgs) /\ Flows(msgs)
    /\ (Settled \/ tmp_swap.fees_paid)' /\ Expected' \in Int
    /\ vamm_map'.cumulative_premium_fraction = vamm_map.cumulative_premium_fraction
    /\ new \in Position /\ positions' = [positions EXCEPT ![tmp_swap.trader] = new]
    /\ owing \in Int /\ engine_state'.prepaid_bad_debt = owing
    /\ gain \in Int
    /\ gain = (Incoming(msgs) + Expected') - (owing - engine_state.prepaid_bad_debt)
                - Expected - MovedQuote
    /\ d \in Int
    /\ d = Decimals * gain - (Claim(new, vamm_map.cumulative_premium_fraction)
                                - Claim(positions[tmp_swap.trader],
                                        vamm_map.cumulative_premium_fraction))
    /\ -Room <= d /\ (FundingIsPaid => d <= Room)
    /\ positions[tmp_swap.trader].size = 0 => d = 0

LEMMA AnsweredDrifts ==
    ASSUME RecordInv, SafetyInv, BookInv, HistoryInv, FreshInv, NEW id, NEW msgs, NEW new, NEW owing,
           NEW gain, NEW d, Answered(id, msgs, new, owing, gain, d)
    PROVE  Drifts(d) /\ ~Idle /\ ~Idle' /\ Start' = Start
BY HandledDrifts, ZenonT(40) DEF Answered

\* The last step of a trade.
LEMMA SettledDrifts ==
    ASSUME RecordInv, SafetyInv, BookInv, HistoryInv, FreshInv,
           NEW id \in SwapIds, NEW msgs, Reply(id, msgs), Flows(msgs), Transfers(msgs),
           vamm_map'.cumulative_premium_fraction = vamm_map.cumulative_premium_fraction,
           NEW new \in Position, positions' = [positions EXCEPT ![tmp_swap.trader] = new],
           NEW owing \in Int, engine_state'.prepaid_bad_debt = owing,
           NEW gain \in Int,
           gain = Incoming(msgs) - (owing - engine_state.prepaid_bad_debt)
                    - Expected - MovedQuote,
           NEW d \in Int,
           d = Decimals * gain - (Claim(new, vamm_map.cumulative_premium_fraction)
                                    - Claim(positions[tmp_swap.trader],
                                            vamm_map.cumulative_premium_fraction)),
           -Room <= d, FundingIsPaid => d <= Room,
           positions[tmp_swap.trader].size = 0 => d = 0
    PROVE  Drifts(d) /\ ~Idle /\ ~Idle' /\ Start' = Start /\ ValueInv' /\ FundsInv'
<1>1. reply' = NoReply /\ queue = <<>>
  BY RepliedFacts
<1>2. AwaitedId' = "none"
  <2>1. queue' = msgs
    BY <1>1, RepliedQueue DEF Flows
  <2>2. ~CallsAmm(msgs) /\ NoReply.id = "none"
    BY QueueOfTransfers DEF NoReply
  <2>3. QED
    BY <1>1, <2>1, <2>2 DEF AwaitedId, Awaits
<1>3. AwaitedId' \notin SwapIds \union {Funding} /\ AwaitedId' \notin TradeIds
  BY <1>2, ReplyIds
<1>4. Settled' /\ Expected' = 0 /\ 0 \in Int
  <2>1. 0 \in Int
    BY SMT
  <2>2. QED
    BY <1>3, <2>1 DEF Settled, Expected
<1>5. gain = (Incoming(msgs) + Expected') - (owing - engine_state.prepaid_bad_debt)
               - Expected - MovedQuote
  <2> PICK i : i = Incoming(msgs)
    OBVIOUS
  <2>1. i \in Int
    BY IncomingBoth
  <2>2. i + 0 = i
    BY <2>1, SMT
  <2>3. Incoming(msgs) + Expected' = Incoming(msgs)
    BY <1>4, <2>2
  <2>4. QED
    BY <2>3, Zenon
<1>6. (Settled \/ tmp_swap.fees_paid)' /\ Expected' \in Int
  BY <1>4
<1>7. Drifts(d) /\ ~Idle /\ ~Idle' /\ Start' = Start
  <2>1. Answered(id, msgs, new, owing, gain, d)
    BY <1>5, <1>6 DEF Answered
  <2>2. QED
    BY <2>1, AnsweredDrifts
<1>8. QED
  BY <1>3, <1>7, QuietTrade

\* What update_position_reply sends, and what it borrows of the fund for it.
ToVault(marginToVault) ==
    IF marginToVault < 0 THEN Withdraw(tmp_swap.trader, -marginToVault, 0)
    ELSE IF Native THEN <<>>
    ELSE TransferUnlessZero(tmp_swap.trader, Engine, marginToVault)
UpdateFees ==
    IF tmp_swap.fees_paid THEN <<>> ELSE TransferFees(tmp_swap.trader, tmp_swap.open_notional)
Borrowed(marginToVault) == IF marginToVault < 0 THEN Shortfall(-marginToVault, 0) ELSE 0

LEMMA ToVaultFlow ==
    ASSUME RecordInv, SafetyInv, BookInv, HistoryInv, tmp_swap.trader \in Traders, NEW due \in Int
    PROVE  /\ Flows(ToVault(due)) /\ Transfers(ToVault(due)) /\ Borrowed(due) \in Nat
           /\ Incoming(ToVault(due)) = Borrowed(due) + (IF due < 0 \/ ~Native THEN due ELSE 0)
<1> DEFINE trader == tmp_swap.trader
<1>1. trader # Engine /\ engine_config \in EngineConfig /\ balance \in [Holders -> Nat]
  BY Payable DEF SafetyInv, BookInv, TypeInv, ContractTypeOK
<1>2. CASE due < 0
  <2> PICK n : n = -due
    OBVIOUS
  <2>1. n \in Nat /\ n \in Int /\ 0 \in Int /\ \A x \in Nat : x - n = x + due
    BY <1>2, SMT
  <2>2. Shortfall(n, 0) \in Nat
    BY <1>1, <2>1, ShortfallType
  <2>3. Flows(Withdraw(trader, n, 0)) /\ Incoming(Withdraw(trader, n, 0)) = Shortfall(n, 0) - n
        /\ Transfers(Withdraw(trader, n, 0))
    BY <1>1, <2>1, WithdrawFlow, WithdrawTransfers
  <2>4. Shortfall(n, 0) - n = Shortfall(n, 0) + due
    BY <2>1, <2>2
  <2>5. QED
    BY <1>2, <2>2, <2>3, <2>4 DEF ToVault, Borrowed
<1>3. CASE ~(due < 0) /\ Native
  <2>1. 0 + 0 = 0 /\ 0 \in Nat
    BY SMT
  <2>2. QED
    BY <1>3, <2>1, NoTransfer, IncomingNothing DEF ToVault, Borrowed
<1>4. CASE ~(due < 0) /\ ~Native
  <2>1. due \in Nat /\ due - 0 = due /\ 0 + due = due /\ 0 \in Nat
    BY <1>4, SMT
  <2>2. /\ Flows(TransferUnlessZero(trader, Engine, due))
        /\ Incoming(TransferUnlessZero(trader, Engine, due)) = due - 0
    BY <1>1, <2>1, TransferFlow
  <2>3. Transfers(TransferUnlessZero(trader, Engine, due))
    BY FeesAreTransfers
  <2>4. QED
    BY <1>4, <2>1, <2>2, <2>3 DEF ToVault, Borrowed
<1>5. QED
  BY <1>2, <1>3, <1>4

\* The coins of a trade, those of the two swaps of a reversal included, are
\* the margin of the swap.
LEMMA UpdateCoins ==
    ASSUME RecordInv, SafetyInv, BookInv, HistoryInv, FundsInv,
           NEW id \in {IncreasePosition, DecreasePosition}, reply.id = id,
           NEW swapMargin \in Nat,
           id = IncreasePosition =>
              swapMargin = (tmp_swap.open_notional * Decimals) \div tmp_swap.leverage,
           id = DecreasePosition => swapMargin = 0,
           NEW due \in Int, due = tmp_swap.margin_to_vault + swapMargin,
           Native => AreSufficient(FundsDue(due, swapMargin))
    PROVE  /\ Flows(ToVault(due) \o UpdateFees) /\ Transfers(ToVault(due) \o UpdateFees)
           /\ Incoming(ToVault(due) \o UpdateFees) = (Borrowed(due) + Expected) + swapMargin
           /\ Borrowed(due) \in Nat
<1>1. id \in SwapIds /\ id \in TradeIds /\ id # ReversePosition
  BY DistinctIds
<1>2. /\ AwaitedId = id /\ tmp_swap.trader \in Traders /\ tmp_swap \in TmpSwap
      /\ Fits(id, positions[tmp_swap.trader], tmp_swap)
  BY <1>1, AnswerFacts
<1>3. engine_config \in EngineConfig /\ sent_funds.amount \in Nat /\ sent_funds.required \in Nat
  BY DEF SafetyInv, BookInv, TypeInv, ContractTypeOK
<1> DEFINE F == SpreadFee(tmp_swap.open_notional) + TollFee(tmp_swap.open_notional)
<1>4. /\ tmp_swap.open_notional \in Nat /\ tmp_swap.margin_to_vault \in Int
      /\ tmp_swap.fees_paid \in BOOLEAN
  BY <1>2, SwapFields
<1>5. /\ Flows(ToVault(due)) /\ Transfers(ToVault(due)) /\ Borrowed(due) \in Nat
      /\ Incoming(ToVault(due)) = Borrowed(due) + (IF due < 0 \/ ~Native THEN due ELSE 0)
  BY <1>2, ToVaultFlow
<1>6. /\ Flows(UpdateFees) /\ Transfers(UpdateFees) /\ F \in Nat
      /\ Incoming(UpdateFees) = IF ~tmp_swap.fees_paid /\ Native THEN -F ELSE 0
  <2>1. F \in Nat /\ Transfers(TransferFees(tmp_swap.trader, tmp_swap.open_notional))
        /\ Flows(TransferFees(tmp_swap.trader, tmp_swap.open_notional))
        /\ Incoming(TransferFees(tmp_swap.trader, tmp_swap.open_notional))
             = IF Native THEN -F ELSE 0
    BY <1>2, <1>3, <1>4, FeesFlow, FeesAreTransfers
  <2> HIDE DEF F
  <2>2. QED
    BY <2>1, NoTransfer, IncomingNothing DEF UpdateFees
<1>7. /\ Flows(ToVault(due) \o UpdateFees) /\ Transfers(ToVault(due) \o UpdateFees)
      /\ Incoming(ToVault(due) \o UpdateFees) = Incoming(ToVault(due)) + Incoming(UpdateFees)
  BY <1>5, <1>6, IncomingBoth, BothTransfers
<1>8. /\ ~Native => sent_funds.amount = 0
      /\ ~tmp_swap.fees_paid => sent_funds.required = 0 /\ tmp_swap.margin_to_vault = 0
  BY <1>1, <1>2 DEF FundsInv
<1>9. tmp_swap.fees_paid => MarginDue = due
  BY <1>2 DEF Fits, MarginDue
<1>10. Expected = IF ~tmp_swap.fees_paid THEN -sent_funds.amount
                  ELSE IF ~Native THEN tmp_swap.margin_to_vault
                  ELSE (IF due > 0 THEN 0 ELSE tmp_swap.margin_to_vault)
                         + sent_funds.required - sent_funds.amount
  BY <1>1, <1>2, <1>9 DEF Expected
<1>11. Native => sent_funds.amount = sent_funds.required
                    + (IF due > 0 THEN swapMargin ELSE 0) + (IF tmp_swap.fees_paid THEN 0 ELSE F)
  BY DEF AreSufficient, FundsDue
<1> HIDE DEF F
<1> PICK a, r, v, f, n, b : /\ a = sent_funds.amount /\ r = sent_funds.required
                            /\ v = tmp_swap.margin_to_vault /\ f = F /\ n = Native
                            /\ b = Borrowed(due)
  OBVIOUS
<1> PICK I, J, E : I = Incoming(ToVault(due)) /\ J = Incoming(UpdateFees) /\ E = Expected
  OBVIOUS
<1>12. a \in Nat /\ r \in Nat /\ v \in Int /\ f \in Nat /\ b \in Nat /\ due \in Int
       /\ due = v + swapMargin
  BY <1>3, <1>4, <1>5, <1>6
<1>13. I + J = (b + E) + swapMargin
  <2>1. CASE ~Native
    <3>1. I = b + due /\ J = 0 /\ E = IF tmp_swap.fees_paid THEN v ELSE -a
      BY <1>5, <1>6, <1>10, <2>1
    <3>2. CASE tmp_swap.fees_paid
      BY <1>12, <3>1, <3>2, SMT
    <3>3. CASE ~tmp_swap.fees_paid
      <4>1. a = 0 /\ v = 0
        BY <1>8, <2>1, <3>3
      <4>2. I = b + (0 + swapMargin) /\ J = 0 /\ E = -0
        BY <1>12, <3>1, <3>3, <4>1
      <4>3. QED
        BY <1>12, <4>2, SMT
    <3>4. QED
      BY <3>2, <3>3
  <2>2. CASE Native /\ ~tmp_swap.fees_paid
    <3>1. r = 0 /\ v = 0 /\ E = -a /\ J = -f /\ I = b + (IF due < 0 THEN due ELSE 0)
          /\ a = r + (IF due > 0 THEN swapMargin ELSE 0) + f
      BY <1>5, <1>6, <1>8, <1>10, <1>11, <2>2
    <3>2. QED
      BY <1>12, <3>1, SMT
  <2>3. CASE Native /\ tmp_swap.fees_paid
    <3>1. E = (IF due > 0 THEN 0 ELSE v) + r - a /\ J = 0
          /\ I = b + (IF due < 0 THEN due ELSE 0)
          /\ a = r + (IF due > 0 THEN swapMargin ELSE 0) + 0
      BY <1>5, <1>6, <1>10, <1>11, <2>3
    <3>2. QED
      BY <1>12, <3>1, SMT
  <2>4. QED
    BY <2>1, <2>2, <2>3
<1>14. QED
  BY <1>5, <1>7, <1>13

\* A position that is made for a trade is worth nothing, as none is.
LEMMA PositionKept ==
    ASSUME BookInv, NEW trader \in Traders, NEW side \in Direction, NEW c \in Int
    PROVE  LET old == GetPosition(trader, side)
               stored == positions[trader]
           IN  Net(old) = Net(stored) /\ Unpaid(old, c) = Unpaid(stored, c)
<1>1. CASE positions[trader].exists
  BY <1>1 DEF GetPosition
<1>2. CASE ~positions[trader].exists
  <2>1. positions[trader] = NoPosition
    BY <1>2 DEF BookInv, TypeInv, OnlyStored
  <2> DEFINE old == GetPosition(trader, side)
  <2>2. /\ old.margin = 0 /\ old.notional = 0 /\ old.size = 0
        /\ NoPosition.margin = 0 /\ NoPosition.notional = 0 /\ NoPosition.size = 0
    BY <1>2 DEF GetPosition, NoPosition
  <2> HIDE DEF old
  <2>3. \A x \in Direction : 0 - Signed(x, 0) = 0
    <3>1. \A z \in Int : z - z = 0 /\ z - (-z) = z + z /\ 0 + 0 = 0
      BY SMT
    <3>2. 0 \in Int
      BY SMT
    <3>3. 0 - 0 = 0 /\ 0 - (-0) = 0
      BY <3>1, <3>2
    <3>4. QED
      BY <3>3 DEF Signed
  <2>4. NoPosition.direction \in Direction /\ old.direction \in Direction
    BY <1>2 DEF GetPosition, NoPosition, old, Direction
  <2>5. Net(old) = 0 /\ Net(NoPosition) = 0
    BY <2>2, <2>3, <2>4 DEF Net
  <2>6. Unpaid(old, c) = 0 /\ Unpaid(NoPosition, c) = 0
    <3>1. /\ old.last_updated_premium_fraction = 0
          /\ NoPosition.last_updated_premium_fraction = 0
      BY <1>2 DEF GetPosition, NoPosition, old
    <3>2. (c - 0) * 0 = 0
      BY SMT
    <3>3. QED
      BY <2>2, <3>1, <3>2 DEF Unpaid
  <2>7. QED
    BY <2>1, <2>5, <2>6 DEF old
<1>3. QED
  BY <1>1, <1>2

LEMMA UpdateDrifts ==
    ASSUME RecordInv, SafetyInv, BookInv, HistoryInv, BookInv', FreshInv, FundsInv,
           NEW id \in {IncreasePosition, DecreasePosition}, reply.id = id,
           NEW direction \in Direction, NEW interest, NEW swapMargin \in Nat,
           NEW delta \in Int, NEW notional \in Nat,
           id = IncreasePosition =>
              swapMargin = (tmp_swap.open_notional * Decimals) \div tmp_swap.leverage,
           id = DecreasePosition => swapMargin = 0,
           UpdatePosition(id, direction, interest, swapMargin, delta, notional),
           NEW old, old = GetPosition(tmp_swap.trader, tmp_swap.side),
           BadDebt(old, delta) = 0,
           (delta - Signed(direction, notional)) + Signed(old.direction, old.notional)
             = swapMargin - Signed(tmp_swap.side, tmp_swap.open_notional)
    PROVE  /\ \E d : Drifts(d)
           /\ ~Idle /\ ~Idle' /\ Start' = Start /\ ValueInv' /\ FundsInv'
<1> DEFINE trader == tmp_swap.trader
           stored == positions[trader]
           c == vamm_map.cumulative_premium_fraction
           left == Remaining(old, delta)
           new == [old EXCEPT !.direction = direction, !.notional = notional,
                              !.size = @ + Signed(tmp_swap.side, reply.output),
                              !.margin = RemainMargin(old, delta),
                              !.last_updated_premium_fraction =
                                  vamm_map.cumulative_premium_fraction,
                              !.block_number = height]
           due == tmp_swap.margin_to_vault + swapMargin
           msgs == ToVault(due) \o UpdateFees
           owing == engine_state.prepaid_bad_debt + Borrowed(due)
           quote == Signed(tmp_swap.side, tmp_swap.open_notional)
           gain == swapMargin - quote
           d == Decimals * gain - (Claim(new, c) - Claim(stored, c))
<1>1. /\ Native => AreSufficient(FundsDue(due, swapMargin))
      /\ Reply(id, msgs)
      /\ positions' = [positions EXCEPT ![trader] = new]
      /\ engine_state' = [engine_state EXCEPT
                             !.open_interest_notional = OpenInterest(interest),
                             !.prepaid_bad_debt = @ + Borrowed(due)]
      /\ vamm_map' = vamm_map
  BY Zenon DEF UpdatePosition, ToVault, UpdateFees, Borrowed
<1>2. id \in SwapIds
  BY DistinctIds
<1>3. /\ trader \in Traders /\ stored \in Position /\ c \in Int /\ tmp_swap \in TmpSwap
      /\ tmp_swap.side \in Direction /\ tmp_swap.open_notional \in Nat
      /\ tmp_swap.margin_to_vault \in Int /\ reply.output \in Nat
      /\ height \in Nat /\ positions \in [Traders -> Position]
  BY <1>2, AnswerFacts, SwapFields, SurplusTypes, BookFacts DEF SafetyInv, AmmInv, ReserveInv, TypeOK
<1>4. old \in Position
  BY <1>3, OldSize
<1>5. due \in Int /\ quote \in Int /\ gain \in Int
  <2>1. quote \in Int
    <3>1. tmp_swap.open_notional \in Int
      BY <1>3, SMT
    <3>2. QED
      BY <1>3, <3>1, Amounts
  <2>2. \A x \in Int, y \in Nat : x + y \in Int
    BY SMT
  <2>3. \A x \in Nat, y \in Int : x - y \in Int
    BY SMT
  <2> HIDE DEF quote
  <2>4. QED
    BY <1>3, <2>1, <2>2, <2>3
<1>6. /\ Flows(msgs) /\ Transfers(msgs)
      /\ Incoming(msgs) = (Borrowed(due) + Expected) + swapMargin
      /\ Borrowed(due) \in Nat
  <2>1. due = tmp_swap.margin_to_vault + swapMargin
    OBVIOUS
  <2> HIDE DEF due
  <2>2. QED
    BY <1>1, <1>5, <2>1, UpdateCoins
<1>7. left \in Int /\ RemainMargin(old, delta) = left /\ FundingPayment(old) \in Int
  <2>1. vamm_map \in VammMap
    BY DEF BookInv, TypeInv, ContractTypeOK
  <2>2. left \in Int /\ FundingPayment(old) \in Int
    BY <1>4, <2>1, MarginTypes
  <2>3. \A x \in Int : AtLeastZero(-x) = 0 => AtLeastZero(x) = x
    BY SMT DEF AtLeastZero
  <2>4. AtLeastZero(-left) = 0
    BY DEF BadDebt
  <2>5. QED
    BY <2>2, <2>3, <2>4 DEF RemainMargin
<1>8. new \in Position
  <2>1. positions' \in [Traders -> Position]
    BY DEF BookInv, TypeInv, ContractTypeOK
  <2> HIDE DEF new
  <2>2. positions'[trader] = new
    BY <1>1, <1>3
  <2>3. QED
    BY <1>3, <2>1, <2>2
<1>9. /\ new.margin = left /\ new.last_updated_premium_fraction = c
      /\ new.notional = notional /\ new.direction = direction
  BY <1>4, <1>7 DEF Position
<1> HIDE DEF new, msgs, due, quote
<1>10. Unpaid(new, c) = 0
  <2>1. \A x \in Int, y \in Int : (x - x) * y = 0
    BY SMT
  <2>2. QED
    BY <1>3, <1>8, <1>9, <2>1, PositionFields DEF Unpaid
<1>11. Net(old) = Net(stored) /\ Unpaid(old, c) = Unpaid(stored, c)
  BY <1>3, PositionKept
<1>12. gain = Net(new) - Net(stored) + TruncDiv(Unpaid(stored, c), Decimals)
  <2> PICK f, m, s, t, g : /\ f = FundingPayment(old) /\ m = old.margin
                           /\ s = Signed(old.direction, old.notional)
                           /\ t = Signed(direction, notional) /\ g = gain
    OBVIOUS
  <2>1. f \in Int /\ m \in Int /\ s \in Int /\ t \in Int /\ delta \in Int /\ g \in Int
    <3>1. /\ old.notional \in Int /\ old.margin \in Int /\ old.direction \in Direction
          /\ notional \in Int
      BY <1>4, PositionFields, SMT
    <3>2. QED
      BY <1>5, <1>7, <3>1, Amounts
  <2>2. Net(old) = m - s /\ Net(new) = ((delta - f) + m) - t
        /\ TruncDiv(Unpaid(old, c), Decimals) = f
    BY <1>9 DEF Net, Remaining, FundingPayment, Unpaid, c
  <2>3. g = (delta - t) + s
    BY DEF quote
  <2>4. g = (((delta - f) + m) - t) - (m - s) + f
    BY <2>1, <2>3, SMT
  <2>5. QED
    BY <1>11, <2>2, <2>4
<1>13. d \in Int /\ -Room <= d /\ d <= Room /\ (stored.size = 0 => d = 0)
  <2> HIDE DEF stored, c, gain
  <2>1. QED
    BY <1>3, <1>5, <1>8, <1>10, <1>12, SettledExactly
<1>14. owing \in Int /\ engine_state'.prepaid_bad_debt = owing
  <2>1. engine_state \in EngineState
    BY DEF BookInv, TypeInv, ContractTypeOK
  <2>2. \A x \in Nat, y \in Nat : x + y \in Int
    BY SMT
  <2>3. engine_state'.prepaid_bad_debt = owing
    BY <1>1, <2>1 DEF EngineState
  <2>4. QED
    BY <1>6, <2>2, <2>3, CoinsTypes
<1>15. gain = Incoming(msgs) - (owing - engine_state.prepaid_bad_debt) - Expected - MovedQuote
  <2>1. MovedQuote = quote
    BY DEF MovedQuote, quote
  <2> PICK p, b, x : p = engine_state.prepaid_bad_debt /\ b = Borrowed(due) /\ x = Expected
    OBVIOUS
  <2>2. p \in Nat /\ b \in Nat /\ x \in Int
    BY <1>6, CoinsTypes, SurplusTypes
  <2>3. swapMargin - quote = ((b + x) + swapMargin) - ((p + b) - p) - x - quote
    BY <1>5, <2>2, SMT
  <2>4. QED
    BY <1>6, <2>1, <2>3
<1> HIDE DEF d, owing, gain, left
<1>16. Drifts(d) /\ ~Idle /\ ~Idle' /\ Start' = Start /\ ValueInv' /\ FundsInv'
  <2>1. d = Decimals * gain - (Claim(new, vamm_map.cumulative_premium_fraction)
                                  - Claim(positions[tmp_swap.trader],
                                          vamm_map.cumulative_premium_fraction))
    BY DEF d
  <2>2. vamm_map'.cumulative_premium_fraction = vamm_map.cumulative_premium_fraction
    BY <1>1
  <2>3. positions[tmp_swap.trader].size = 0 => d = 0
    BY <1>13
  <2>4. positions' = [positions EXCEPT ![tmp_swap.trader] = new]
    BY <1>1
  <2> HIDE DEF c, stored, trader
  <2>5. QED
    BY <1>1, <1>2, <1>5, <1>6, <1>8, <1>13, <1>14, <1>15, <2>1, <2>2, <2>3, <2>4, SettledDrifts
<1>17. QED
  BY <1>16

LEMMA AnsweredTrade ==
    ASSUME RecordInv, SafetyInv, BookInv, HistoryInv, ValueInv, NEW id \in SwapIds, reply.id = id
    PROVE  /\ Values(id, positions[tmp_swap.trader], tmp_swap)
           /\ Quoted(id, positions[tmp_swap.trader], tmp_swap, reply.output)
<1>1. queue = <<>> /\ AwaitedId = id
  BY AnswerFacts
<1>2. ~CallsAmm(queue)
  BY <1>1, NoTransfer, QueueOfTransfers
<1>3. QED
  BY <1>1, <1>2 DEF ValueInv

LEMMA IncreaseDrifts ==
    ASSUME RecordInv, SafetyInv, BookInv, HistoryInv, BookInv', FreshInv, ValueInv, FundsInv,
           TradesAreSolvent, IncreasePositionReply
    PROVE  /\ \E d : Drifts(d)
           /\ ~Idle /\ ~Idle' /\ Start' = Start /\ ValueInv' /\ FundsInv'
<1> DEFINE trader == tmp_swap.trader
           old == GetPosition(tmp_swap.trader, tmp_swap.side)
           stored == positions[trader]
           swapMargin == (tmp_swap.open_notional * Decimals) \div tmp_swap.leverage
           notional == old.notional + tmp_swap.open_notional
<1>1. /\ reply.id = IncreasePosition
      /\ UpdatePosition(IncreasePosition, tmp_swap.side, reply.input, swapMargin, swapMargin,
                        notional)
  BY Zenon DEF IncreasePositionReply
<1>2. IncreasePosition \in SwapIds /\ IncreasePosition # DecreasePosition
  BY DistinctIds
<1>3. /\ tmp_swap \in TmpSwap /\ trader \in Traders /\ stored \in Position
      /\ Fits(IncreasePosition, stored, tmp_swap)
      /\ Values(IncreasePosition, stored, tmp_swap)
  BY <1>1, <1>2, AnswerFacts, AnsweredTrade
<1>4. /\ tmp_swap.side \in Direction /\ tmp_swap.open_notional \in Nat /\ tmp_swap.leverage \in Nat
      /\ tmp_swap.leverage # 0 /\ height \in Nat
  BY <1>3, SwapFields, DistinctIds DEF Fits, SafetyInv, AmmInv, ReserveInv, TypeOK
<1>5. old \in Position
  BY <1>3, <1>4, OldSize
<1>6. swapMargin \in Nat
  <2>1. tmp_swap.open_notional * Decimals \in Nat /\ tmp_swap.leverage \in Nat \ {0}
    BY <1>4, ProductType, DecimalsAssumption, SMT
  <2>2. QED
    BY <2>1, DivMod
<1>7. notional \in Nat /\ swapMargin \in Int
  BY <1>4, <1>5, <1>6, PositionFields, SMT
<1>8. old.direction = tmp_swap.side \/ old.notional = 0
  <2>1. CASE ~stored.exists
    BY <2>1 DEF GetPosition
  <2>2. CASE stored.exists /\ tmp_swap.fees_paid
    BY <1>1, <1>2, <2>2, AnswerInterest DEF GetPosition
  <2>3. CASE stored.exists /\ ~tmp_swap.fees_paid
    BY <1>3, <2>3 DEF GetPosition, Values
  <2>4. QED
    BY <1>3, <2>1, <2>2, <2>3, SwapFields
<1>9. BadDebt(old, swapMargin) = 0
  BY <1>1 DEF TradesAreSolvent
<1> HIDE DEF old, swapMargin, stored
<1>10. (swapMargin - Signed(tmp_swap.side, notional)) + Signed(old.direction, old.notional)
         = swapMargin - Signed(tmp_swap.side, tmp_swap.open_notional)
  <2> PICK s, o, n, e, m : /\ s = tmp_swap.side /\ o = old.direction /\ n = tmp_swap.open_notional
                           /\ e = old.notional /\ m = swapMargin
    OBVIOUS
  <2>1. n \in Nat /\ e \in Nat /\ m \in Nat /\ (o = s \/ e = 0)
    BY <1>4, <1>5, <1>6, <1>8, PositionFields
  <2>2. (m - Signed(s, e + n)) + Signed(o, e) = m - Signed(s, n)
    BY <2>1, SMT DEF Signed
  <2>3. QED
    BY <2>2
<1> HIDE DEF notional
<1>11. old = GetPosition(tmp_swap.trader, tmp_swap.side)
  BY DEF old
<1>12. swapMargin = (tmp_swap.open_notional * Decimals) \div tmp_swap.leverage
  BY DEF swapMargin
<1>13. QED
  BY <1>1, <1>2, <1>4, <1>6, <1>7, <1>9, <1>10, <1>11, <1>12, UpdateDrifts

\* A part of a position that is traded against is taken off its notional at
\* the price it was traded at, and the profit on it is realized.
LEMMA PartIsTraded ==
    ASSUME NEW p \in Position, Matches(p), p.size # 0, tmp_swap \in TmpSwap,
           tmp_swap.side \in Direction, p.direction # tmp_swap.side,
           tmp_swap.unrealized_pnl = Signed(p.direction, tmp_swap.position_notional - p.notional),
           NEW realized \in Int, SignedNotional(p, realized) >= 0
    PROVE  /\ RemainingNotional(p, realized) \in Nat
           /\ (realized - Signed(p.direction, RemainingNotional(p, realized)))
                + Signed(p.direction, p.notional)
              = 0 - Signed(tmp_swap.side, tmp_swap.open_notional)
<1> DEFINE kept == SignedNotional(p, realized)
<1> PICK u, v, n, o, r, s, d, size :
       /\ u = tmp_swap.unrealized_pnl /\ v = tmp_swap.position_notional
       /\ n = tmp_swap.open_notional /\ o = p.notional /\ r = realized
       /\ s = tmp_swap.side /\ d = p.direction /\ size = p.size
  OBVIOUS
<1>1. /\ u \in Int /\ v \in Nat /\ n \in Nat /\ o \in Nat /\ r \in Int
      /\ s \in Direction /\ d \in Direction /\ d # s /\ size \in Int /\ size # 0
      /\ (size > 0 => d = AddToAmm) /\ (size < 0 => d = RemoveFromAmm)
      /\ u = Signed(d, v - o)
  BY SwapFields, PositionFields DEF Matches
<1>2. kept = IF size > 0 THEN v - n - (u - r) ELSE (u - r) + v - n
  BY DEF SignedNotional
<1>3. kept \in Int
  BY <1>1, <1>2, SMT
<1> HIDE DEF kept
<1>4. RemainingNotional(p, realized) = kept /\ kept \in Nat
  <2>1. kept >= 0
    BY DEF kept
  <2>2. \A x \in Int : x >= 0 => Abs(x) = x /\ x \in Nat
    BY SMT DEF Abs
  <2>3. QED
    BY <1>3, <2>1, <2>2 DEF RemainingNotional, kept
<1>5. (r - Signed(d, kept)) + Signed(d, o) = 0 - Signed(s, n)
  <2>1. CASE size > 0
    <3>1. d = AddToAmm /\ s = RemoveFromAmm
      BY <1>1, <2>1 DEF Direction
    <3>2. u = v - o /\ kept = v - n - (u - r)
      BY <1>1, <1>2, <2>1, <3>1 DEF Signed
    <3>3. (r - kept) + o = 0 - (-n)
      BY <1>1, <1>3, <3>2, SMT
    <3>4. QED
      BY <3>1, <3>3 DEF Signed, AddToAmm, RemoveFromAmm
  <2>2. CASE size < 0
    <3>1. d = RemoveFromAmm /\ s = AddToAmm
      BY <1>1, <2>2 DEF Direction
    <3>2. u = -(v - o) /\ kept = (u - r) + v - n
      <4>1. ~(size > 0)
        BY <1>1, <2>2, SMT
      <4>2. QED
        BY <1>1, <1>2, <3>1, <4>1 DEF Signed, AddToAmm, RemoveFromAmm
    <3>3. (r - (-kept)) + (-o) = 0 - n
      BY <1>1, <1>3, <3>2, SMT
    <3>4. QED
      BY <3>1, <3>3 DEF Signed, AddToAmm, RemoveFromAmm
  <2>3. QED
    BY <1>1, <2>1, <2>2, SMT
<1>6. QED
  BY <1>4, <1>5

LEMMA DecreaseDrifts ==
    ASSUME RecordInv, SafetyInv, BookInv, HistoryInv, BookInv', MatchInv, FreshInv, ValueInv, FundsInv,
           TradesAreSolvent, NotionalIsKept, DecreasePositionReply
    PROVE  /\ \E d : Drifts(d)
           /\ ~Idle /\ ~Idle' /\ Start' = Start /\ ValueInv' /\ FundsInv'
<1> DEFINE trader == tmp_swap.trader
           old == GetPosition(tmp_swap.trader, tmp_swap.side)
           realized == RealizedPnl(old, reply.output)
           notional == RemainingNotional(old, realized)
<1>1. /\ reply.id = DecreasePosition
      /\ UpdatePosition(DecreasePosition, old.direction, -reply.input, 0, realized, notional)
  BY Zenon DEF DecreasePositionReply
<1>2. DecreasePosition \in SwapIds /\ IncreasePosition # DecreasePosition
  BY DistinctIds
<1>3. /\ tmp_swap \in TmpSwap /\ trader \in Traders /\ positions[trader] \in Position
      /\ Fits(DecreasePosition, positions[trader], tmp_swap) /\ reply.output \in Nat
      /\ Values(DecreasePosition, positions[trader], tmp_swap)
  BY <1>1, <1>2, AnswerFacts, AnsweredTrade
<1>4. old = positions[trader] /\ tmp_swap.side \in Direction
  BY <1>3, SwapFields DEF Fits, GetPosition
<1>5. /\ old \in Position /\ old.direction \in Direction /\ old.direction # tmp_swap.side
      /\ old.size # 0
      /\ tmp_swap.unrealized_pnl
           = Signed(old.direction, tmp_swap.position_notional - old.notional)
      /\ Matches(old)
  BY <1>3, <1>4, PositionFields DEF Fits, Values, MatchInv, Balanced
<1>6. realized \in Int
  BY <1>3, <1>5, PositionFields, ProfitTypes
<1>7. SignedNotional(old, realized) >= 0
  BY <1>1, <1>4 DEF NotionalIsKept
<1>8. BadDebt(old, realized) = 0
  BY <1>1 DEF TradesAreSolvent
<1> HIDE DEF old, realized
<1>9. /\ notional \in Nat
      /\ (realized - Signed(old.direction, notional)) + Signed(old.direction, old.notional)
           = 0 - Signed(tmp_swap.side, tmp_swap.open_notional)
  BY <1>3, <1>4, <1>5, <1>6, <1>7, PartIsTraded
<1> HIDE DEF notional
<1>10. old = GetPosition(tmp_swap.trader, tmp_swap.side) /\ 0 \in Nat
  BY SMT DEF old
<1>11. QED
  BY <1>1, <1>2, <1>5, <1>6, <1>8, <1>9, <1>10, UpdateDrifts

\* What an update of the margin without bad debt does to the worth of a
\* position, funding included.
LEMMA NetChange ==
    ASSUME BookInv, NEW old \in Position, NEW delta \in Int, BadDebt(old, delta) = 0,
           NEW new \in Position, new.margin = RemainMargin(old, delta),
           NEW c, c = vamm_map.cumulative_premium_fraction,
           new.last_updated_premium_fraction = c,
           NEW gain,
           (delta - Signed(new.direction, new.notional)) + Signed(old.direction, old.notional)
             = gain
    PROVE  /\ c \in Int /\ Unpaid(new, c) = 0 /\ gain \in Int
           /\ gain = Net(new) - Net(old) + TruncDiv(Unpaid(old, c), Decimals)
<1> DEFINE left == Remaining(old, delta)
<1>1. vamm_map \in VammMap /\ c \in Int
  BY SMT DEF BookInv, TypeInv, ContractTypeOK, VammMap
<1>2. left \in Int /\ new.margin = left /\ FundingPayment(old) \in Int
  <2>1. left \in Int /\ FundingPayment(old) \in Int
    BY <1>1, MarginTypes
  <2>2. \A x \in Int : AtLeastZero(-x) = 0 => AtLeastZero(x) = x
    BY SMT DEF AtLeastZero
  <2>3. AtLeastZero(-left) = 0
    BY DEF BadDebt
  <2>4. QED
    BY <2>1, <2>2, <2>3 DEF RemainMargin
<1>3. Unpaid(new, c) = 0
  <2>1. \A x \in Int, y \in Int : (x - x) * y = 0
    BY SMT
  <2>2. QED
    BY <1>1, <2>1, PositionFields DEF Unpaid
<1> PICK f, m, s, t : /\ f = FundingPayment(old) /\ m = old.margin
                      /\ s = Signed(old.direction, old.notional)
                      /\ t = Signed(new.direction, new.notional)
  OBVIOUS
<1>4. f \in Int /\ m \in Int /\ s \in Int /\ t \in Int /\ delta \in Int
  <2>1. /\ old.notional \in Int /\ old.margin \in Int /\ old.direction \in Direction
        /\ new.notional \in Int /\ new.direction \in Direction
    BY PositionFields, SMT
  <2>2. QED
    BY <1>2, <2>1, Amounts
<1>5. Net(old) = m - s /\ Net(new) = ((delta - f) + m) - t
      /\ TruncDiv(Unpaid(old, c), Decimals) = f
  BY <1>2 DEF Net, Remaining, FundingPayment, Unpaid
<1>6. gain = (delta - t) + s
  OBVIOUS
<1>7. gain \in Int /\ gain = (((delta - f) + m) - t) - (m - s) + f
  BY <1>4, <1>6, SMT
<1>8. QED
  BY <1>1, <1>3, <1>5, <1>7

\* A trade ends with a position whose funding is settled, and with coins moved
\* for all that it gained.
LEMMA TradedDrifts ==
    ASSUME RecordInv, SafetyInv, BookInv, HistoryInv, FreshInv,
           NEW id \in SwapIds, NEW msgs, Reply(id, msgs), Flows(msgs), Transfers(msgs),
           vamm_map'.cumulative_premium_fraction = vamm_map.cumulative_premium_fraction,
           NEW new \in Position, positions' = [positions EXCEPT ![tmp_swap.trader] = new],
           NEW owing \in Int, engine_state'.prepaid_bad_debt = owing,
           NEW gain \in Int,
           gain = Incoming(msgs) - (owing - engine_state.prepaid_bad_debt)
                    - Expected - MovedQuote,
           NEW c \in Int, c = vamm_map.cumulative_premium_fraction,
           Unpaid(new, c) = 0,
           gain = Net(new) - Net(positions[tmp_swap.trader])
                    + TruncDiv(Unpaid(positions[tmp_swap.trader], c), Decimals)
    PROVE  /\ \E d : Drifts(d)
           /\ ~Idle /\ ~Idle' /\ Start' = Start /\ ValueInv' /\ FundsInv'
<1> DEFINE stored == positions[tmp_swap.trader]
           d == Decimals * gain - (Claim(new, c) - Claim(stored, c))
<1>1. stored \in Position
  BY RepliedFacts, AnswerFacts
<1>2. d \in Int /\ -Room <= d /\ d <= Room /\ (stored.size = 0 => d = 0)
  <2> HIDE DEF stored
  <2>1. gain = Net(new) - Net(stored) + TruncDiv(Unpaid(stored, c), Decimals)
    BY DEF stored
  <2>2. QED
    BY <1>1, <2>1, SettledExactly
<1>3. d = Decimals * gain - (Claim(new, vamm_map.cumulative_premium_fraction)
                                - Claim(positions[tmp_swap.trader],
                                        vamm_map.cumulative_premium_fraction))
  OBVIOUS
<1> HIDE DEF d
<1>4. QED
  BY <1>2, <1>3, SettledDrifts

\* In native coins the fees of a close must be nothing.
LEMMA ClosingFees ==
    ASSUME RecordInv, SafetyInv, BookInv, HistoryInv, NativeFeesAreSent,
           reply.id \in {ClosingPosition, PartialClosePosition}
    PROVE  LET fees == TransferFees(tmp_swap.trader, tmp_swap.open_notional)
           IN  Flows(fees) /\ Transfers(fees) /\ Incoming(fees) = 0
<1> DEFINE F == SpreadFee(tmp_swap.open_notional) + TollFee(tmp_swap.open_notional)
           fees == TransferFees(tmp_swap.trader, tmp_swap.open_notional)
<1>1. reply.id \in SwapIds
  BY DistinctIds
<1>2. tmp_swap.trader \in Traders /\ tmp_swap.open_notional \in Nat
  BY <1>1, AnswerFacts, SwapFields
<1>3. Flows(fees) /\ Transfers(fees) /\ Incoming(fees) = (IF Native THEN -F ELSE 0) /\ F \in Nat
  BY <1>2, FeesFlow, FeesAreTransfers DEF SafetyInv
<1>4. Native => F = 0
  BY DEF NativeFeesAreSent
<1> HIDE DEF F, fees
<1>5. Incoming(fees) \in Int /\ (Native => Incoming(fees) + F = 0) /\ (~Native => Incoming(fees) = 0)
  BY <1>3, SMT
<1>6. Incoming(fees) = 0
  <2>1. \A x \in Int : x + 0 = x
    BY SMT
  <2>2. Native => Incoming(fees) + 0 = 0
    BY <1>4, <1>5
  <2>3. QED
    BY <1>5, <2>1, <2>2
<1>7. QED
  BY <1>3, <1>6 DEF fees

LEMMA PartialCloseDrifts ==
    ASSUME RecordInv, SafetyInv, BookInv, HistoryInv, BookInv', MatchInv, FreshInv, ValueInv, FundsInv,
           NotionalIsKept, NativeFeesAreSent, PartialClosePositionReply
    PROVE  /\ \E d : Drifts(d)
           /\ ~Idle /\ ~Idle' /\ Start' = Start /\ ValueInv' /\ FundsInv'
<1> DEFINE old == positions[tmp_swap.trader]
           realized == RealizedPnl(old, reply.output)
           margin == RemainMargin(old, realized)
           notional == RemainingNotional(old, realized)
           premium == vamm_map.cumulative_premium_fraction
           new == [old EXCEPT !.size = @ + Signed(tmp_swap.side, reply.output),
                              !.margin = margin, !.notional = notional,
                              !.last_updated_premium_fraction = premium,
                              !.block_number = height]
           fees == TransferFees(tmp_swap.trader, tmp_swap.open_notional)
           owing == engine_state.prepaid_bad_debt
           quote == Signed(tmp_swap.side, tmp_swap.open_notional)
           gain == 0 - quote
<1>1. /\ reply.id = PartialClosePosition
      /\ BadDebt(old, realized) = 0
      /\ Reply(PartialClosePosition, fees)
      /\ positions' = [positions EXCEPT ![tmp_swap.trader] = new]
      /\ engine_state' =
           [engine_state EXCEPT !.open_interest_notional = OpenInterest(-reply.input)]
      /\ vamm_map' = vamm_map
  BY Zenon DEF PartialClosePositionReply
<1>2. PartialClosePosition \in SwapIds /\ PartialClosePosition \notin TradeIds
  BY DistinctIds
<1>3. /\ tmp_swap \in TmpSwap /\ tmp_swap.trader \in Traders /\ old \in Position
      /\ Fits(PartialClosePosition, old, tmp_swap) /\ reply.output \in Nat
      /\ Values(PartialClosePosition, old, tmp_swap) /\ AwaitedId = PartialClosePosition
  BY <1>1, <1>2, AnswerFacts, AnsweredTrade
<1>4. Matches(old) /\ old.size # 0 /\ old.size \in Int /\ old.direction \in Direction
  BY <1>2, <1>3, PositionFields DEF MatchInv, Balanced, Fits
<1>5. tmp_swap.side \in Direction /\ old.direction # tmp_swap.side
  <2>1. tmp_swap.side = IF old.size > 0 THEN RemoveFromAmm ELSE AddToAmm
    BY <1>3 DEF Fits
  <2> HIDE DEF old
  <2>2. QED
    BY <1>4, <2>1, SMT DEF Matches, Direction, AddToAmm, RemoveFromAmm
<1>6. realized \in Int
  BY <1>3, PositionFields, ProfitTypes
<1>7. /\ new.margin = margin /\ new.notional = notional /\ new.direction = old.direction
      /\ new.last_updated_premium_fraction = premium
  BY <1>3 DEF Position
<1>8. new \in Position
  <2>1. positions' \in [Traders -> Position]
    BY DEF BookInv, TypeInv, ContractTypeOK
  <2> HIDE DEF new
  <2>2. positions'[tmp_swap.trader] = new
    BY <1>1, <1>3, BookFacts
  <2>3. QED
    BY <1>3, <2>1, <2>2
<1> HIDE DEF new, realized, fees
<1>9. (realized - Signed(new.direction, new.notional)) + Signed(old.direction, old.notional) = gain
  <2>1. SignedNotional(old, realized) >= 0
    BY <1>1 DEF NotionalIsKept, realized
  <2>2. tmp_swap.unrealized_pnl
          = Signed(old.direction, tmp_swap.position_notional - old.notional)
    BY <1>3 DEF Values
  <2> HIDE DEF old
  <2>3. (realized - Signed(old.direction, notional)) + Signed(old.direction, old.notional) = gain
    BY <1>3, <1>4, <1>5, <1>6, <2>1, <2>2, PartIsTraded
  <2>4. QED
    BY <1>7, <2>3
<1>10. /\ premium \in Int /\ Unpaid(new, premium) = 0 /\ gain \in Int
       /\ gain = Net(new) - Net(old) + TruncDiv(Unpaid(old, premium), Decimals)
  <2> HIDE DEF old, gain
  <2>1. premium = vamm_map.cumulative_premium_fraction
    OBVIOUS
  <2> HIDE DEF premium
  <2>2. QED
    BY <1>1, <1>3, <1>6, <1>7, <1>8, <1>9, <2>1, NetChange
<1>11. Flows(fees) /\ Transfers(fees) /\ Incoming(fees) = 0
  BY <1>1, ClosingFees DEF fees
<1>12. owing \in Int /\ engine_state'.prepaid_bad_debt = owing
  <2>1. engine_state \in EngineState
    BY DEF BookInv, TypeInv, ContractTypeOK
  <2>2. QED
    BY <1>1, <2>1, CoinsTypes, SMT DEF EngineState
<1>13. gain = Incoming(fees) - (owing - engine_state.prepaid_bad_debt) - Expected - MovedQuote
  <2>1. MovedQuote = quote
    BY <1>1 DEF MovedQuote
  <2>2. Expected = 0
    BY <1>2, <1>3 DEF Expected
  <2>3. quote \in Int
    BY <2>1, SurplusTypes
  <2>4. \A p \in Int, q \in Int : 0 - q = 0 - (p - p) - 0 - q
    BY SMT
  <2>5. QED
    BY <1>11, <1>12, <2>1, <2>2, <2>3, <2>4
<1> HIDE DEF gain, owing
<1>14. /\ vamm_map'.cumulative_premium_fraction = vamm_map.cumulative_premium_fraction
       /\ premium = vamm_map.cumulative_premium_fraction
  BY <1>1
<1> HIDE DEF premium
<1>15. gain = Net(new) - Net(positions[tmp_swap.trader])
               + TruncDiv(Unpaid(positions[tmp_swap.trader], premium), Decimals)
  BY <1>10
<1>16. QED
  BY <1>1, <1>2, <1>8, <1>10, <1>11, <1>12, <1>13, <1>14, <1>15, TradedDrifts

LEMMA ClosedDrifts ==
    ASSUME RecordInv, SafetyInv, BookInv, HistoryInv, FreshInv, ValueInv,
           NEW id \in {ClosingPosition, Liquidation}, NEW msgs, Reply(id, msgs),
           Flows(msgs), Transfers(msgs),
           vamm_map'.cumulative_premium_fraction = vamm_map.cumulative_premium_fraction,
           positions' = [positions EXCEPT ![tmp_swap.trader] = NoPosition],
           NEW owing \in Int, engine_state'.prepaid_bad_debt = owing,
           NEW old, old = positions[tmp_swap.trader],
           NEW left \in Int, left = Remaining(old, ClosingPnl(old, reply.output)),
           Incoming(msgs) = (owing - engine_state.prepaid_bad_debt) - left
    PROVE  /\ \E d : Drifts(d)
           /\ ~Idle /\ ~Idle' /\ Start' = Start /\ ValueInv' /\ FundsInv'
<1> DEFINE c == vamm_map.cumulative_premium_fraction
           quote == -Signed(old.direction, reply.output)
           gain == 0 - left - quote
<1>1. id \in SwapIds /\ id \notin TradeIds
      /\ id \notin {IncreasePosition, DecreasePosition, PartialClosePosition}
  BY DistinctIds
<1>2. reply.id = id
  BY <1>1, RepliedFacts
<1>3. /\ old \in Position /\ reply.output \in Nat /\ AwaitedId = id
      /\ tmp_swap.open_notional = old.notional /\ c \in Int /\ vamm_map \in VammMap
  <2>1. Values(id, old, tmp_swap) /\ old \in Position /\ reply.output \in Nat /\ AwaitedId = id
    BY <1>1, <1>2, AnswerFacts, AnsweredTrade
  <2>2. QED
    BY <2>1, SurplusTypes DEF Values, BookInv, TypeInv, ContractTypeOK
<1>4. /\ old.direction \in Direction /\ old.notional \in Nat /\ old.margin \in Nat
      /\ Signed(old.direction, reply.output) \in Int
      /\ Signed(old.direction, old.notional) \in Int /\ quote \in Int
  <2>1. old.direction \in Direction /\ old.notional \in Nat /\ old.margin \in Nat
    BY <1>3, PositionFields
  <2>2. reply.output \in Int /\ old.notional \in Int
    BY <1>3, <2>1, SMT
  <2>3. /\ Signed(old.direction, reply.output) \in Int
        /\ Signed(old.direction, old.notional) \in Int
    BY <2>1, <2>2, Amounts
  <2>4. \A x \in Int : -x \in Int
    BY SMT
  <2>5. QED
    BY <2>1, <2>3, <2>4
<1>5. MovedQuote = quote /\ Expected = 0
  BY <1>1, <1>2, <1>3 DEF MovedQuote, Expected
<1>6. ClosingPnl(old, reply.output)
        = Signed(old.direction, reply.output) - Signed(old.direction, old.notional)
  <2> PICK n, o, s : n = old.notional /\ o = reply.output /\ s = old.direction
    OBVIOUS
  <2>1. n \in Nat /\ o \in Nat
    BY <1>3, <1>4
  <2>2. Signed(s, o - n) = Signed(s, o) - Signed(s, n)
    BY <2>1, SMT DEF Signed
  <2>3. QED
    BY <1>3, <2>2 DEF ClosingPnl
<1>7. FundingPayment(old) \in Int
  <2>1. 0 \in Int
    BY SMT
  <2>2. QED
    BY <1>3, <2>1, MarginTypes
<1>8. /\ NoPosition \in Position /\ Unpaid(NoPosition, c) = 0 /\ Net(NoPosition) = 0
  <2>1. NoPosition.margin = 0 /\ NoPosition.notional = 0 /\ NoPosition.size = 0
        /\ NoPosition.last_updated_premium_fraction = 0 /\ NoPosition.direction = AddToAmm
    BY DEF NoPosition
  <2>2. (c - 0) * 0 = 0 /\ 0 - 0 = 0
    BY <1>3, SMT
  <2>3. QED
    BY <2>1, <2>2, NewPosition DEF Unpaid, Net, Signed
<1>9. /\ gain \in Int
      /\ gain = Net(NoPosition) - Net(old) + TruncDiv(Unpaid(old, c), Decimals)
  <2> PICK f, m, s, t : /\ f = FundingPayment(old) /\ m = old.margin
                        /\ s = Signed(old.direction, old.notional)
                        /\ t = Signed(old.direction, reply.output)
    OBVIOUS
  <2>1. f \in Int /\ m \in Nat /\ s \in Int /\ t \in Int
    BY <1>4, <1>7
  <2>2. Net(old) = m - s /\ TruncDiv(Unpaid(old, c), Decimals) = f
        /\ left = (t - s) - f + m /\ quote = -t
    BY <1>6 DEF Net, Remaining, FundingPayment, Unpaid, c
  <2>3. 0 - ((t - s) - f + m) - (-t) = 0 - (m - s) + f
    BY <2>1, SMT
  <2>4. 0 - ((t - s) - f + m) - (-t) \in Int
    BY <2>1, SMT
  <2>5. QED
    BY <1>8, <2>2, <2>3, <2>4
<1>10. gain = Incoming(msgs) - (owing - engine_state.prepaid_bad_debt) - Expected - MovedQuote
  <2> PICK p, q : p = engine_state.prepaid_bad_debt /\ q = quote
    OBVIOUS
  <2>1. p \in Nat /\ q \in Int
    BY <1>4, CoinsTypes
  <2>2. 0 - left - q = ((owing - p) - left) - (owing - p) - 0 - q
    BY <2>1, SMT
  <2>3. QED
    BY <1>5, <2>2
<1>11. c = vamm_map.cumulative_premium_fraction
  OBVIOUS
<1> HIDE DEF c, gain, quote
<1>12. gain = Net(NoPosition) - Net(positions[tmp_swap.trader])
               + TruncDiv(Unpaid(positions[tmp_swap.trader], c), Decimals)
  BY <1>9
<1>13. QED
  BY <1>1, <1>3, <1>8, <1>9, <1>10, <1>11, <1>12, TradedDrifts

LEMMA CloseDrifts ==
    ASSUME RecordInv, SafetyInv, BookInv, HistoryInv, FreshInv, ValueInv, FundsInv, NativeFeesAreSent,
           ClosePositionReply
    PROVE  /\ \E d : Drifts(d)
           /\ ~Idle /\ ~Idle' /\ Start' = Start /\ ValueInv' /\ FundsInv'
<1> DEFINE trader == tmp_swap.trader
           old == positions[trader]
           pnl == ClosingPnl(old, reply.output)
           left == Remaining(old, pnl)
           margin == RemainMargin(old, pnl)
           first == IF margin = 0 THEN <<>> ELSE Withdraw(trader, margin, 0)
           fees == TransferFees(trader, old.notional)
           msgs == first \o fees
           lacking == Shortfall(margin, 0)
           owing == engine_state.prepaid_bad_debt + lacking
<1>1. /\ reply.id = ClosingPosition /\ BadDebt(old, pnl) = 0
      /\ Reply(ClosingPosition, msgs)
      /\ positions' = [positions EXCEPT ![trader] = NoPosition]
      /\ \E value : engine_state' =
            [engine_state EXCEPT !.open_interest_notional = OpenInterest(-value),
                                 !.prepaid_bad_debt = @ + Shortfall(margin, 0)]
      /\ vamm_map' = vamm_map
  BY Zenon DEF ClosePositionReply
<1>2. ClosingPosition \in SwapIds
  BY DistinctIds
<1>3. /\ trader \in Traders /\ old \in Position /\ reply.output \in Nat
      /\ Values(ClosingPosition, old, tmp_swap)
  BY <1>1, <1>2, AnswerFacts, AnsweredTrade
<1>4. fees = TransferFees(trader, tmp_swap.open_notional)
  BY <1>3, DistinctIds DEF Values
<1>5. Flows(fees) /\ Transfers(fees) /\ Incoming(fees) = 0
  BY <1>1, <1>4, ClosingFees
<1>6. left \in Int /\ margin = left /\ left \in Nat
  <2>1. pnl \in Int
    <3>1. tmp_swap.open_notional \in Nat
      BY <1>1, <1>2, AnswerFacts, SwapFields
    <3>2. reply.output - tmp_swap.open_notional \in Int
      BY <1>3, <3>1, SMT
    <3>3. QED
      BY <1>3, <3>2, PositionFields, Amounts DEF ClosingPnl
  <2>2. vamm_map \in VammMap
    BY DEF BookInv, TypeInv, ContractTypeOK
  <2> HIDE DEF pnl, old
  <2>3. left \in Int
    BY <1>3, <2>1, <2>2, MarginTypes
  <2>4. \A x \in Int : AtLeastZero(-x) = 0 => AtLeastZero(x) = x /\ x \in Nat
    BY SMT DEF AtLeastZero
  <2>5. AtLeastZero(-left) = 0
    BY <1>1 DEF BadDebt
  <2>6. QED
    BY <2>3, <2>4, <2>5 DEF RemainMargin
<1>7. balance \in [Holders -> Nat] /\ engine_config \in EngineConfig /\ trader # Engine
      /\ engine_state \in EngineState
  BY <1>3, Payable DEF SafetyInv, BookInv, TypeInv, ContractTypeOK
<1> HIDE DEF fees, margin, left
<1>8. lacking \in Nat /\ Flows(first) /\ Transfers(first) /\ Incoming(first) = lacking - left
  <2>1. margin \in Nat /\ 0 \in Int /\ margin \in Int
    BY <1>6, SMT
  <2>2. lacking \in Nat
    BY <1>7, <2>1, ShortfallType
  <2>3. CASE margin = 0
    <3>1. lacking = 0
      <4>1. balance[Engine] \in Nat
        BY CoinsTypes
      <4>2. \A b \in Nat : (0 - (b + 0) < 0 => TRUE) /\ AtLeastZero(0 - (b + 0)) = 0
        BY SMT DEF AtLeastZero
      <4>3. QED
        BY <2>3, <4>1, <4>2 DEF Shortfall
    <3>2. 0 - 0 = 0
      BY SMT
    <3>3. QED
      BY <1>6, <2>2, <2>3, <3>1, <3>2, NoTransfer, IncomingNothing
  <2>4. CASE margin # 0
    <3>1. /\ Flows(Withdraw(trader, margin, 0)) /\ Transfers(Withdraw(trader, margin, 0))
          /\ Incoming(Withdraw(trader, margin, 0)) = lacking - margin
      BY <1>7, <2>1, WithdrawFlow, WithdrawTransfers
    <3>2. QED
      BY <1>6, <2>2, <2>4, <3>1
  <2>5. QED
    BY <2>3, <2>4
<1> HIDE DEF first, lacking
<1>9. Flows(msgs) /\ Transfers(msgs) /\ Incoming(msgs) = (lacking - left) + 0
  BY <1>5, <1>8, IncomingBoth, BothTransfers
<1>10. owing \in Int /\ engine_state'.prepaid_bad_debt = owing
       /\ Incoming(msgs) = (owing - engine_state.prepaid_bad_debt) - left
  <2>1. engine_state'.prepaid_bad_debt = owing
    BY <1>1, <1>7 DEF EngineState, lacking
  <2>2. \A p \in Nat, x \in Nat, l \in Int :
           p + x \in Int /\ (x - l) + 0 = ((p + x) - p) - l
    BY SMT
  <2>3. QED
    BY <1>6, <1>8, <1>9, <2>1, <2>2, CoinsTypes
<1> HIDE DEF msgs, owing
<1>11. left = Remaining(old, ClosingPnl(old, reply.output))
  BY DEF left
<1>12. vamm_map'.cumulative_premium_fraction = vamm_map.cumulative_premium_fraction
  BY <1>1
<1> HIDE DEF pnl
<1>13. QED
  BY <1>1, <1>6, <1>9, <1>10, <1>11, <1>12, ClosedDrifts

LEMMA LiquidateDrifts ==
    ASSUME RecordInv, SafetyInv, BookInv, HistoryInv, FreshInv, ValueInv, LiquidateReply
    PROVE  /\ \E d : Drifts(d)
           /\ ~Idle /\ ~Idle' /\ Start' = Start /\ ValueInv' /\ FundsInv'
<1> DEFINE trader == tmp_swap.trader
           old == positions[trader]
           pnl == ClosingPnl(old, reply.output)
           left == Remaining(old, pnl)
           margin == RemainMargin(old, pnl)
           fee == LiquidationFee
           badDebt == BadDebt(old, pnl) + AtLeastZero(fee - margin)
           rest == AtLeastZero(margin - fee)
           prepaid == engine_state.prepaid_bad_debt
           fund == engine_config.insurance_fund
           realizes == badDebt # 0 /\ prepaid <= badDebt
           drawn == IF realizes THEN badDebt - prepaid ELSE 0
           lacking == Shortfall(fee, drawn)
           first == IF realizes THEN <<Transfer(fund, Engine, drawn)>> ELSE <<>>
           second == TransferUnlessZero(Engine, fund, rest)
           third == Withdraw(tmp_liquidator, fee, drawn)
           msgs == first \o second \o third
           owing == (IF realizes THEN 0 ELSE prepaid - badDebt) + lacking
<1>1. /\ Reply(Liquidation, msgs)
      /\ positions' = [positions EXCEPT ![trader] = NoPosition]
      /\ engine_state' = [engine_state EXCEPT !.prepaid_bad_debt = owing]
      /\ vamm_map' = [vamm_map EXCEPT !.last_restriction_block = height]
  BY ZenonT(40) DEF LiquidateReply
<1>2. Liquidation \in SwapIds /\ Liquidation \in LiquidationIds /\ reply.id = Liquidation
  BY <1>1, DistinctIds DEF Reply
<1>3. /\ trader \in Traders /\ old \in Position /\ reply.output \in Nat
      /\ tmp_swap.open_notional \in Nat /\ tmp_liquidator \in Liquidators
  BY <1>2, AnswerFacts, SwapFields
<1>4. /\ balance \in [Holders -> Nat] /\ engine_config \in EngineConfig
      /\ engine_state \in EngineState /\ vamm_map \in VammMap /\ prepaid \in Nat
  BY CoinsTypes DEF SafetyInv, BookInv, TypeInv, ContractTypeOK
<1>5. fee \in Nat
  BY <1>3, <1>4, FeeTypes DEF LiquidationFee, LiquidationPenalty
<1>6. left \in Int
  <2>1. reply.output - tmp_swap.open_notional \in Int
    BY <1>3, SMT
  <2>2. pnl \in Int
    BY <1>3, <2>1, PositionFields, Amounts DEF ClosingPnl
  <2> HIDE DEF pnl, old
  <2>3. QED
    BY <1>3, <1>4, <2>2, MarginTypes
<1>7. tmp_liquidator # Engine /\ fund # Engine
  BY <1>3, <1>4, Payable
<1>8. /\ badDebt \in Nat /\ rest \in Nat
      /\ (badDebt - rest) - fee = -left
  <2> PICK l, f : l = left /\ f = fee
    OBVIOUS
  <2>1. /\ AtLeastZero(-l) + AtLeastZero(f - AtLeastZero(l)) \in Nat
        /\ AtLeastZero(AtLeastZero(l) - f) \in Nat
        /\ ((AtLeastZero(-l) + AtLeastZero(f - AtLeastZero(l)))
              - AtLeastZero(AtLeastZero(l) - f)) - f = -l
    <3>1. l \in Int /\ f \in Nat
      BY <1>5, <1>6
    <3>2. CASE l < 0
      <4>1. AtLeastZero(-l) = -l /\ AtLeastZero(l) = 0
        BY <3>1, <3>2, SMT DEF AtLeastZero
      <4>2. AtLeastZero(f - 0) = f /\ AtLeastZero(0 - f) = 0
        BY <3>1, SMT DEF AtLeastZero
      <4>3. -l + f \in Nat /\ 0 \in Nat /\ ((-l + f) - 0) - f = -l
        BY <3>1, <3>2, SMT
      <4>4. QED
        BY <4>1, <4>2, <4>3
    <3>3. CASE ~(l < 0)
      <4>1. AtLeastZero(-l) = 0 /\ AtLeastZero(l) = l
        BY <3>1, <3>3, SMT DEF AtLeastZero
      <4>2. /\ 0 + AtLeastZero(f - l) \in Nat /\ AtLeastZero(l - f) \in Nat
            /\ ((0 + AtLeastZero(f - l)) - AtLeastZero(l - f)) - f = -l
        BY <3>1, <3>3, SMT DEF AtLeastZero
      <4>3. QED
        BY <4>1, <4>2
    <3>4. QED
      BY <3>2, <3>3
  <2>2. QED
    BY <2>1 DEF RemainMargin, BadDebt
<1> HIDE DEF badDebt, rest, left, margin, fee, pnl
<1>9. drawn \in Nat /\ (realizes => drawn = badDebt - prepaid) /\ (~realizes => drawn = 0)
  <2>1. realizes => badDebt - prepaid \in Nat
    BY <1>4, <1>8, SMT
  <2>2. QED
    BY <2>1, SMT
<1>10. badDebt # 0 /\ ~realizes => prepaid - badDebt \in Nat
  BY <1>4, <1>8, SMT
<1>11. lacking \in Nat
  <2>1. fee \in Int /\ drawn \in Int
    BY <1>5, <1>9, SMT
  <2> HIDE DEF drawn
  <2>2. QED
    BY <1>4, <2>1, ShortfallType
<1> HIDE DEF realizes
<1>12. Flows(first) /\ Transfers(first) /\ Incoming(first) = drawn
  <2>1. CASE realizes
    <3>1. drawn - 0 = drawn
      BY <1>9, SMT
    <3> HIDE DEF drawn
    <3>2. /\ Flows(<<Transfer(fund, Engine, drawn)>>)
          /\ Incoming(<<Transfer(fund, Engine, drawn)>>) = drawn - 0
      BY <1>7, <1>9, TransferFlow
    <3>3. QED
      BY <2>1, <3>1, <3>2, OneTransfer
  <2>2. CASE ~realizes
    BY <1>9, <2>2, NoTransfer, IncomingNothing
  <2>3. QED
    BY <2>1, <2>2
<1>13. Flows(second) /\ Transfers(second) /\ Incoming(second) = 0 - rest
  BY <1>7, <1>8, TransferFlow, FeesAreTransfers
<1>14. Flows(third) /\ Transfers(third) /\ Incoming(third) = lacking - fee
  <2>1. drawn \in Int
    BY <1>9, SMT
  <2> HIDE DEF drawn
  <2>2. QED
    BY <1>4, <1>5, <1>7, <2>1, WithdrawFlow, WithdrawTransfers
<1> HIDE DEF first, second, third, lacking, drawn
<1>15. Flows(msgs) /\ Transfers(msgs) /\ Incoming(msgs) = (drawn + (0 - rest)) + (lacking - fee)
  <2>1. /\ Flows(first \o second) /\ Transfers(first \o second)
        /\ Incoming(first \o second) = drawn + (0 - rest)
    BY <1>12, <1>13, IncomingBoth, BothTransfers
  <2> PICK both : both = first \o second
    OBVIOUS
  <2>2. Flows(both \o third) /\ Transfers(both \o third)
        /\ Incoming(both \o third) = Incoming(both) + Incoming(third)
    BY <1>14, <2>1, IncomingBoth, BothTransfers
  <2>3. QED
    BY <1>14, <2>1, <2>2
<1>16. owing \in Int /\ Incoming(msgs) = (owing - prepaid) - left
  <2> PICK b, r, f, l, p, k, n : /\ b = badDebt /\ r = rest /\ f = fee /\ l = left /\ p = prepaid
                                 /\ k = lacking /\ n = drawn
    OBVIOUS
  <2>1. /\ b \in Nat /\ r \in Nat /\ f \in Nat /\ l \in Int /\ p \in Nat /\ k \in Nat /\ n \in Nat
        /\ (b - r) - f = -l
    BY <1>4, <1>5, <1>6, <1>8, <1>9, <1>11
  <2>2. CASE realizes
    <3>1. n = b - p /\ owing = 0 + k
      BY <1>9, <2>2
    <3>2. 0 + k \in Int /\ (n + (0 - r)) + (k - f) = ((0 + k) - p) - l
      BY <2>1, <3>1, SMT
    <3>3. QED
      BY <1>15, <3>1, <3>2
  <2>3. CASE ~realizes
    <3>1. n = 0 /\ owing = (p - b) + k
      BY <1>9, <2>3
    <3>2. (p - b) + k \in Int /\ (n + (0 - r)) + (k - f) = (((p - b) + k) - p) - l
      BY <2>1, <3>1, SMT
    <3>3. QED
      BY <1>15, <3>1, <3>2
  <2>4. QED
    BY <2>2, <2>3
<1> HIDE DEF msgs, owing
<1>17. engine_state'.prepaid_bad_debt = owing
  BY <1>1, <1>4 DEF EngineState
<1>18. vamm_map'.cumulative_premium_fraction = vamm_map.cumulative_premium_fraction
  BY <1>1, <1>4 DEF VammMap
<1>19. left = Remaining(old, ClosingPnl(old, reply.output))
  BY DEF left, pnl
<1>20. QED
  BY <1>1, <1>6, <1>15, <1>16, <1>17, <1>18, <1>19, ClosedDrifts

\* The funding on a part of a position is no more than that on the whole.
LEMMA FundingOnPart ==
    ASSUME NEW k \in Int, NEW size \in Int, NEW part \in Nat, part <= Abs(size),
           NEW bound \in Nat, k * size <= bound, -(k * size) <= bound
    PROVE  k * part \in Int /\ k * part <= bound /\ -(k * part) <= bound
<1> PICK s : s = Abs(size)
  OBVIOUS
<1>1. s \in Nat /\ part <= s /\ (size = s \/ size = -s)
  BY SMT DEF Abs
<1>2. k * s <= bound /\ -(k * s) <= bound /\ k * s \in Int
  <2>1. k * (-s) = -(k * s) /\ k * s \in Int
    BY <1>1, SMT
  <2>2. CASE size = s
    BY <2>1, <2>2
  <2>3. CASE size = -s
    <3>1. -(k * s) <= bound /\ -(-(k * s)) <= bound
      BY <2>1, <2>3
    <3> PICK x : x = k * s
      OBVIOUS
    <3>2. -(-x) = x
      BY <2>1, SMT
    <3>3. QED
      BY <2>1, <3>1, <3>2
  <2>4. QED
    BY <1>1, <2>2, <2>3
<1>3. CASE k >= 0
  <2>1. k * part <= k * s /\ 0 <= k * part /\ k * part \in Int
    BY <1>1, <1>3, SMT
  <2> PICK x, y : x = k * part /\ y = k * s
    OBVIOUS
  <2>2. x <= bound /\ -x <= bound
    BY <1>2, <2>1, SMT
  <2>3. QED
    BY <2>1, <2>2
<1>4. CASE ~(k >= 0)
  <2>1. k * s <= k * part /\ k * part <= 0 /\ k * part \in Int
    BY <1>1, <1>4, SMT
  <2> PICK x, y : x = k * part /\ y = k * s
    OBVIOUS
  <2>2. x <= bound /\ -x <= bound
    BY <1>2, <2>1, SMT
  <2>3. QED
    BY <2>1, <2>2
<1>5. QED
  BY <1>3, <1>4

\* A fee paid twice is the penalty, but for a coin.
LEMMA HalfTwice ==
    ASSUME NEW penalty \in Nat
    PROVE  LET rest == penalty - (penalty \div 2 + penalty \div 2)
           IN  penalty \div 2 \in Nat /\ rest \in 0 .. 1
BY SMT

LEMMA PartialLiquidationDrifts ==
    ASSUME RecordInv, SafetyInv, BookInv, HistoryInv, BookInv', MatchInv, FreshInv, ValueInv,
           FundingIsCharged, PartialLiquidationReply
    PROVE  /\ \E d : Drifts(d)
           /\ ~Idle /\ ~Idle' /\ Start' = Start /\ ValueInv' /\ FundsInv'
<1> DEFINE trader == tmp_swap.trader
           old == positions[trader]
           c == vamm_map.cumulative_premium_fraction
           size == IF old.size < 0 THEN old.size + reply.input ELSE old.size - reply.input
           negative == IF old.size < 0 THEN size <= 0 ELSE size < 0
           realized == Abs(TruncDiv(tmp_swap.unrealized_pnl
                                      * engine_config.partial_liquidation_ratio, Decimals))
           penalty == LiquidationPenalty
           fee == LiquidationFee
           margin == old.margin - realized - penalty
           notional == IF negative THEN realized + old.notional - tmp_swap.open_notional
                                   ELSE old.notional - tmp_swap.open_notional - realized
           fund == engine_config.insurance_fund
           msgs == IF fee = 0 THEN <<>>
                   ELSE <<Transfer(Engine, fund, fee)>> \o Withdraw(tmp_liquidator, fee, 0)
           new == [old EXCEPT !.size = size, !.margin = margin, !.notional = notional]
           lacking == Shortfall(fee, 0)
           owing == engine_state.prepaid_bad_debt + lacking
           quote == -Signed(old.direction, reply.output)
           gain == 0 - (fee + fee) - quote
           k == c - old.last_updated_premium_fraction
           d == Decimals * gain - (Claim(new, c) - Claim(old, c))
<1>1. /\ reply.id = PartialLiquidation /\ margin >= 0 /\ notional >= 0
      /\ Reply(PartialLiquidation, msgs)
      /\ positions' = [positions EXCEPT ![trader] = new]
      /\ engine_state' = [engine_state EXCEPT !.prepaid_bad_debt = @ + lacking]
      /\ vamm_map' = [vamm_map EXCEPT !.last_restriction_block = height]
  BY Zenon DEF PartialLiquidationReply
<1>2. /\ PartialLiquidation \in SwapIds /\ PartialLiquidation \in LiquidationIds
      /\ PartialLiquidation \notin TradeIds
      /\ PartialLiquidation \notin {IncreasePosition, DecreasePosition, PartialClosePosition}
  BY DistinctIds
<1>3. /\ trader \in Traders /\ old \in Position /\ reply.output \in Nat /\ reply.input \in Nat
      /\ tmp_swap \in TmpSwap /\ tmp_liquidator \in Liquidators /\ AwaitedId = PartialLiquidation
      /\ Fits(PartialLiquidation, old, tmp_swap)
      /\ Quoted(PartialLiquidation, old, tmp_swap, reply.output)
  BY <1>1, <1>2, AnswerFacts, AnsweredTrade
<1>4. /\ old.size # 0 /\ old.size \in Int /\ old.margin \in Nat /\ old.notional \in Nat
      /\ old.last_updated_premium_fraction \in Int /\ old.direction \in Direction
      /\ tmp_swap.open_notional = reply.output /\ Matches(old)
      /\ reply.input <= Abs(old.size) /\ c \in Int
  BY <1>1, <1>2, <1>3, PositionFields, SurplusTypes DEF Fits, Quoted, MatchInv, Balanced
<1>5. /\ balance \in [Holders -> Nat] /\ engine_config \in EngineConfig
      /\ engine_state \in EngineState /\ vamm_map \in VammMap
      /\ engine_state.prepaid_bad_debt \in Nat
  BY CoinsTypes DEF SafetyInv, BookInv, TypeInv, ContractTypeOK
<1>6. penalty \in Nat /\ fee \in Nat /\ penalty - (fee + fee) \in 0 .. 1
  BY <1>3, <1>5, PenaltyTypes, HalfTwice DEF LiquidationFee
<1>7. realized \in Nat
  <2>1. tmp_swap.unrealized_pnl \in Int /\ engine_config.partial_liquidation_ratio \in Int
    BY <1>3, <1>5, SwapFields, DecimalsAssumption, SMT DEF EngineConfig
  <2>2. tmp_swap.unrealized_pnl * engine_config.partial_liquidation_ratio \in Int
    BY <2>1, SMT
  <2> PICK x : x = tmp_swap.unrealized_pnl * engine_config.partial_liquidation_ratio
    OBVIOUS
  <2>3. TruncDiv(x, Decimals) \in Int
    BY <2>2, TruncationError
  <2>4. QED
    BY <2>3, Amounts
<1>8. new \in Position
  <2>1. positions' \in [Traders -> Position]
    BY DEF BookInv, TypeInv, ContractTypeOK
  <2> HIDE DEF new
  <2>2. positions'[trader] = new
    BY <1>1, <1>3, BookFacts
  <2>3. QED
    BY <1>3, <2>1, <2>2
<1>9. /\ new.margin = margin /\ new.notional = notional /\ new.direction = old.direction
      /\ new.size = size
      /\ new.last_updated_premium_fraction = old.last_updated_premium_fraction
  BY <1>3 DEF Position
<1>10. lacking \in Nat /\ (fee = 0 => lacking = 0)
  <2>1. fee \in Int /\ 0 \in Int
    BY <1>6, SMT
  <2>2. lacking \in Nat
    BY <1>5, <2>1, ShortfallType
  <2>3. fee = 0 => lacking = 0
    <3>1. balance[Engine] \in Nat
      BY CoinsTypes
    <3>2. \A b \in Nat : AtLeastZero(0 - (b + 0)) = 0
      BY SMT DEF AtLeastZero
    <3>3. QED
      BY <3>1, <3>2 DEF Shortfall
  <2>4. QED
    BY <2>2, <2>3
<1> HIDE DEF new, realized, penalty, fee, lacking
<1>11. Flows(msgs) /\ Transfers(msgs) /\ Incoming(msgs) = lacking - (fee + fee)
  <2>1. CASE fee = 0
    <3>1. 0 = 0 - (0 + 0)
      BY SMT
    <3>2. QED
      BY <1>10, <2>1, <3>1, NoTransfer, IncomingNothing
  <2>2. CASE fee # 0
    <3>1. tmp_liquidator # Engine /\ fund # Engine /\ 0 \in Int
      BY <1>3, <1>5, Payable, SMT
    <3>2. /\ Flows(<<Transfer(Engine, fund, fee)>>)
          /\ Incoming(<<Transfer(Engine, fund, fee)>>) = 0 - fee
      BY <1>6, <3>1, TransferFlow
    <3>3. /\ Flows(Withdraw(tmp_liquidator, fee, 0)) /\ Transfers(Withdraw(tmp_liquidator, fee, 0))
          /\ Incoming(Withdraw(tmp_liquidator, fee, 0)) = lacking - fee
      BY <1>5, <1>6, <3>1, WithdrawFlow, WithdrawTransfers DEF lacking
    <3> PICK first, second : /\ first = <<Transfer(Engine, fund, fee)>>
                             /\ second = Withdraw(tmp_liquidator, fee, 0)
      OBVIOUS
    <3>4. /\ Flows(first \o second) /\ Transfers(first \o second)
          /\ Incoming(first \o second) = (0 - fee) + (lacking - fee)
      BY <3>2, <3>3, OneTransfer, IncomingBoth, BothTransfers
    <3>5. (0 - fee) + (lacking - fee) = lacking - (fee + fee)
      BY <1>6, <1>10, SMT
    <3>6. QED
      BY <2>2, <3>4, <3>5
  <2>3. QED
    BY <2>1, <2>2
<1> HIDE DEF msgs
<1>12. owing \in Int /\ engine_state'.prepaid_bad_debt = owing
  <2>1. \A x \in Nat, y \in Nat : x + y \in Int
    BY SMT
  <2>2. QED
    BY <1>1, <1>5, <1>10, <2>1 DEF EngineState
<1>13. /\ quote \in Int /\ gain \in Int /\ MovedQuote = quote /\ Expected = 0
       /\ Signed(old.direction, reply.output) \in Int
  <2>1. Signed(old.direction, reply.output) \in Int
    <3>1. reply.output \in Int
      BY <1>3, SMT
    <3>2. QED
      BY <1>4, <3>1, Amounts
  <2>2. \A x \in Int, f \in Nat : -x \in Int /\ 0 - (f + f) - (-x) \in Int
    BY SMT
  <2>3. QED
    BY <1>1, <1>2, <1>3, <1>6, <2>1, <2>2 DEF MovedQuote, Expected
<1>14. gain = Incoming(msgs) - (owing - engine_state.prepaid_bad_debt) - Expected - MovedQuote
  <2> PICK p, q : p = engine_state.prepaid_bad_debt /\ q = quote
    OBVIOUS
  <2>1. p \in Nat /\ q \in Int
    BY <1>5, <1>13
  <2>2. 0 - (fee + fee) - q = (lacking - (fee + fee)) - ((p + lacking) - p) - 0 - q
    BY <1>6, <1>10, <2>1, SMT
  <2>3. QED
    BY <1>11, <1>13, <2>2
\* The penalty leaves the vault, and the funding of the part is forgotten.
<1>15. Net(new) - Net(old) = -quote - penalty
  <2> PICK s, i, m, n, o, r, p, dir :
         /\ s = old.size /\ i = reply.input /\ m = old.margin /\ n = old.notional
         /\ o = reply.output /\ r = realized /\ p = penalty /\ dir = old.direction
    OBVIOUS
  <2>1. /\ s \in Int /\ s # 0 /\ i \in Nat /\ i <= Abs(s) /\ m \in Nat /\ n \in Nat
        /\ o \in Nat /\ r \in Nat /\ p \in Nat
        /\ (s > 0 => dir = AddToAmm) /\ (s < 0 => dir = RemoveFromAmm)
    BY <1>3, <1>4, <1>6, <1>7 DEF Matches
  <2>2. /\ margin = m - r - p
        /\ notional = IF negative THEN r + n - o ELSE n - o - r
        /\ negative = IF s < 0 THEN s + i <= 0 ELSE s - i < 0
    BY <1>4
  <2>3. Net(new) = margin - Signed(dir, notional) /\ Net(old) = m - Signed(dir, n)
        /\ quote = -Signed(dir, o)
    BY <1>9 DEF Net
  <2> HIDE DEF margin, notional, negative, quote
  <2>4. CASE s > 0
    <3>1. dir = AddToAmm
      BY <2>1, <2>4
    <3>2. ~(s - i < 0) /\ ~(s < 0)
      BY <2>1, <2>4, SMT DEF Abs
    <3>3. ~negative
      BY <2>2, <3>2
    <3>4. Net(new) = (m - r - p) - (n - o - r) /\ Net(old) = m - n /\ quote = -o
      BY <2>2, <2>3, <3>1, <3>3 DEF Signed
    <3>5. ((m - r - p) - (n - o - r)) - (m - n) = -(-o) - p
      BY <2>1, SMT
    <3>6. QED
      BY <3>4, <3>5
  <2>5. CASE s < 0
    <3>1. dir = RemoveFromAmm
      BY <2>1, <2>5
    <3>2. s + i <= 0
      BY <2>1, <2>5, SMT DEF Abs
    <3>3. negative
      BY <2>2, <2>5, <3>2
    <3>4. Net(new) = (m - r - p) - (-(r + n - o)) /\ Net(old) = m - (-n) /\ quote = -(-o)
      BY <2>2, <2>3, <3>1, <3>3 DEF Signed, AddToAmm, RemoveFromAmm
    <3>5. ((m - r - p) - (-(r + n - o))) - (m - (-n)) = -(-(-o)) - p
      BY <2>1, SMT
    <3>6. QED
      BY <3>4, <3>5
  <2>6. QED
    BY <2>1, <2>4, <2>5, SMT
<1>16. /\ k \in Int /\ k * reply.input \in Int
       /\ k * reply.input <= Decimals - 1 /\ -(k * reply.input) <= Decimals - 1
  <2>1. k \in Int
    BY <1>4, SMT
  <2>2. FundingPayment(old) = 0
    BY <1>1 DEF FundingIsCharged
  <2>3. FundingPayment(old) = TruncDiv(k * old.size, Decimals)
    BY DEF FundingPayment
  <2> HIDE DEF k
  <2> PICK u, D : u = k * old.size /\ D = Decimals
    OBVIOUS
  <2>4. u \in Int /\ D \in Nat /\ D # 0
    BY <1>4, <2>1, DecimalsAssumption, SMT
  <2>5. D * 0 - u <= D - 1 /\ u - D * 0 <= D - 1
    BY <2>2, <2>3, <2>4, TruncationError
  <2>6. u <= D - 1 /\ -u <= D - 1 /\ D - 1 \in Nat
    BY <2>4, <2>5, SMT
  <2>7. QED
    BY <1>3, <1>4, <2>1, <2>6, FundingOnPart
<1>17. /\ Unpaid(new, c) = k * size /\ Unpaid(old, c) = k * old.size
       /\ k * size - k * old.size \in {k * reply.input, -(k * reply.input)}
       /\ k * size \in Int /\ k * old.size \in Int
  <2>1. Unpaid(new, c) = k * size /\ Unpaid(old, c) = k * old.size
    BY <1>9 DEF Unpaid
  <2> PICK s, i : s = old.size /\ i = reply.input
    OBVIOUS
  <2>2. s \in Int /\ i \in Nat /\ (size = s + i \/ size = s - i)
    BY <1>3, <1>4
  <2> HIDE DEF k, size
  <2>3. /\ k * (s + i) - k * s = k * i /\ k * (s - i) - k * s = -(k * i)
        /\ k * (s + i) \in Int /\ k * (s - i) \in Int /\ k * s \in Int
    BY <1>16, <2>2, SMT
  <2>4. QED
    BY <2>1, <2>2, <2>3
<1>18. /\ d \in Int /\ -Room <= d /\ d <= Room
  <2> PICK D, a, b, u, v, q, p, f, x, r :
         /\ D = Decimals /\ a = Net(old) /\ b = Net(new) /\ u = k * old.size /\ v = k * size
         /\ q = quote /\ p = penalty /\ f = fee /\ x = k * reply.input /\ r = Room
    OBVIOUS
  <2>1. /\ D \in Nat /\ D # 0 /\ a \in Int /\ b \in Int /\ u \in Int /\ v \in Int /\ q \in Int
        /\ p \in Nat /\ f \in Nat /\ x \in Int /\ r \in Nat
    BY <1>3, <1>6, <1>8, <1>13, <1>16, <1>17, ClaimTypes, RoomFacts, DecimalsAssumption
  <2>2. /\ b - a = -q - p /\ p - (f + f) \in 0 .. 1 /\ x <= D - 1 /\ -x <= D - 1
        /\ v - u \in {x, -x}
        /\ gain = 0 - (f + f) - q
    BY <1>6, <1>15, <1>16, <1>17
  <2>3. 2 * D <= r
    BY <1>3, RoomFacts
  <2>4. d = D * gain - ((D * b - v) - (D * a - u))
    BY <1>17 DEF Claim
  <2> HIDE DEF gain, d
  <2>5. gain \in Int
    BY <1>13
  <2>6. D * gain - ((D * b - v) - (D * a - u)) = D * (gain - (b - a)) + (v - u)
    BY <2>1, <2>5, SMT
  <2> PICK e : e = p - (f + f)
    OBVIOUS
  <2>7. gain - (b - a) = e /\ e \in 0 .. 1
    BY <2>1, <2>2, SMT
  <2>8. D * e \in {0, D}
    <3>1. D * 0 = 0 /\ D * 1 = D /\ (e = 0 \/ e = 1)
      BY <2>1, <2>7, SMT
    <3>2. QED
      BY <3>1
  <2>9. \A y \in {0, D} : \A w \in {x, -x} : y + w \in Int /\ -r <= y + w /\ y + w <= r
    BY <2>1, <2>2, <2>3, SMT
  <2>10. d = D * e + (v - u)
    BY <2>4, <2>6, <2>7
  <2>11. QED
    BY <2>2, <2>8, <2>9, <2>10
<1>19. /\ vamm_map'.cumulative_premium_fraction = vamm_map.cumulative_premium_fraction
       /\ old.size = 0 => d = 0
  BY <1>1, <1>4, <1>5 DEF VammMap
<1>20. d = Decimals * gain - (Claim(new, vamm_map.cumulative_premium_fraction)
                                - Claim(positions[tmp_swap.trader],
                                        vamm_map.cumulative_premium_fraction))
  OBVIOUS
<1> HIDE DEF d, gain, owing
<1>21. positions[tmp_swap.trader].size = 0 => d = 0
  BY <1>19
<1>22. Drifts(d) /\ ~Idle /\ ~Idle' /\ Start' = Start /\ ValueInv' /\ FundsInv'
  BY <1>1, <1>2, <1>8, <1>11, <1>12, <1>13, <1>14, <1>18, <1>19, <1>20, <1>21, SettledDrifts
<1>23. QED
  BY <1>22

LEMMA SignedNothing == \A e : Signed(e, 0) = 0 /\ 0 - Signed(e, 0) = 0
<1>1. \A z \in Int : z + (-z) = 0 /\ 0 + z = z /\ -z \in Int /\ z - z = 0
  BY SMT
<1>2. 0 \in Int
  BY SMT
<1>3. -0 = 0 /\ 0 - 0 = 0
  <2>1. 0 + (-0) = 0 /\ -0 \in Int /\ 0 - 0 = 0
    BY <1>1, <1>2, Zenon
  <2>2. 0 + (-0) = -0
    BY <1>1, <2>1, Zenon
  <2>3. QED
    BY <2>1, <2>2, Zenon
<1>4. QED
  BY <1>3, Zenon DEF Signed

\* What a reversal must bring to the vault: the margin of the old position
\* leaves it with the pnl, which is all that is lost of it if it owes no
\* funding.
LEMMA ReversalFacts ==
    ASSUME RecordInv, SafetyInv, BookInv, HistoryInv, ValueInv, FundsInv, NotionalIsKept, FundingIsCharged,
           reply.id = ReversePosition,
           NEW old, old = GetPosition(tmp_swap.trader, tmp_swap.side),
           NEW mtv, mtv = -old.margin - tmp_swap.unrealized_pnl,
           NEW c, c = vamm_map.cumulative_premium_fraction
    PROVE  /\ tmp_swap.trader \in Traders /\ old = positions[tmp_swap.trader]
           /\ old \in Position /\ Clear(old) \in Position
           /\ c \in Int /\ mtv \in Int /\ Unpaid(Clear(old), c) = 0
           /\ MovedQuote \in Int
           /\ mtv - MovedQuote = Net(Clear(old)) - Net(old) + TruncDiv(Unpaid(old, c), Decimals)
           /\ sent_funds.amount \in Nat /\ Expected = -sent_funds.amount
           /\ sent_funds.required = 0 /\ (~Native => sent_funds.amount = 0)
<1> DEFINE trader == tmp_swap.trader
<1>1. ReversePosition \in SwapIds /\ ReversePosition \in TradeIds
      /\ ReversePosition # IncreasePosition /\ ReversePosition # DecreasePosition
      /\ ReversePosition # PartialClosePosition
  BY DistinctIds DEF TradeIds
<1>2. /\ trader \in Traders /\ tmp_swap \in TmpSwap /\ positions[trader] \in Position
      /\ Fits(ReversePosition, positions[trader], tmp_swap) /\ AwaitedId = ReversePosition
      /\ reply.output \in Nat /\ Quoted(ReversePosition, positions[trader], tmp_swap, reply.output)
  BY <1>1, AnswerFacts, AnsweredTrade
<1>3. ~tmp_swap.fees_paid /\ old = positions[trader]
  BY <1>1, <1>2, SwapFields DEF Fits, GetPosition
<1>4. vamm_map \in VammMap /\ c \in Int /\ sent_funds.amount \in Nat /\ height \in Nat
  BY SMT DEF BookInv, TypeInv, ContractTypeOK, VammMap, SafetyInv, AmmInv, ReserveInv, TypeOK
<1>5. old \in Position /\ Clear(old) \in Position
  BY <1>2, <1>3, <1>4, ClearedPosition
<1>6. sent_funds.required = 0 /\ (~Native => sent_funds.amount = 0)
      /\ Expected = -sent_funds.amount
  BY <1>1, <1>2, <1>3 DEF FundsInv, Expected
<1>7. old.margin \in Nat /\ tmp_swap.unrealized_pnl \in Int /\ old.direction \in Direction
      /\ old.notional \in Nat /\ old.size \in Int
  BY <1>2, <1>5, SwapFields, PositionFields
<1>8. mtv \in Int
  BY <1>7, SMT
<1>9. TruncDiv(Unpaid(old, c), Decimals) = 0
  BY <1>3 DEF FundingIsCharged, FundingPayment, Unpaid
<1>10. Unpaid(Clear(old), c) = 0 /\ Net(Clear(old)) = 0
  <2>1. /\ Clear(old).last_updated_premium_fraction = 0 /\ Clear(old).size = 0
        /\ Clear(old).margin = 0 /\ Clear(old).notional = 0
    BY <1>5 DEF Clear, Position
  <2>2. \A x \in Int : (x - 0) * 0 = 0
    BY SMT
  <2>3. 0 - Signed(Clear(old).direction, 0) = 0
    BY SignedNothing
  <2>4. QED
    BY <1>4, <2>1, <2>2, <2>3 DEF Unpaid, Net
<1>11. MovedQuote = -Signed(old.direction, reply.output)
  BY <1>1, <1>3 DEF MovedQuote
<1>12. tmp_swap.unrealized_pnl = Signed(old.direction, reply.output - old.notional)
  <2>1. CASE old.size # 0
    BY <1>2, <1>3, <2>1 DEF Quoted
  <2>2. CASE old.size = 0
    <3>1. tmp_swap.unrealized_pnl = 0 /\ reply.output = 0 /\ old.notional = 0
      BY <1>2, <1>3, <2>2 DEF Quoted, NotionalIsKept
    <3>2. 0 - 0 = 0
      BY SMT
    <3>3. QED
      BY <3>1, <3>2, SignedNothing
  <2>3. QED
    BY <2>1, <2>2
<1>13. MovedQuote \in Int /\ mtv - MovedQuote = 0 - Net(old) + 0
  <2> PICK m, n, e, o, u : /\ m = old.margin /\ n = old.notional /\ e = old.direction
                           /\ o = reply.output /\ u = tmp_swap.unrealized_pnl
    OBVIOUS
  <2>1. /\ m \in Nat /\ n \in Nat /\ o \in Nat /\ u = Signed(e, o - n)
        /\ MovedQuote = -Signed(e, o) /\ Net(old) = m - Signed(e, n) /\ mtv = -m - u
    BY <1>2, <1>7, <1>11, <1>12 DEF Net
  <2>2. -Signed(e, o) \in Int
        /\ (-m - Signed(e, o - n)) - (-Signed(e, o)) = 0 - (m - Signed(e, n)) + 0
    BY <2>1, SMT DEF Signed
  <2>3. QED
    BY <2>1, <2>2
<1>14. QED
  BY <1>2, <1>3, <1>4, <1>5, <1>6, <1>8, <1>9, <1>10, <1>13

\* The hypotheses of TradedDrifts.
TradeAnswered(id, msgs, new, owing, gain, c) ==
    /\ id \in SwapIds /\ Reply(id, msgs) /\ Flows(msgs) /\ Transfers(msgs)
    /\ vamm_map'.cumulative_premium_fraction = vamm_map.cumulative_premium_fraction
    /\ new \in Position /\ positions' = [positions EXCEPT ![tmp_swap.trader] = new]
    /\ owing \in Int /\ engine_state'.prepaid_bad_debt = owing
    /\ gain \in Int
    /\ gain = Incoming(msgs) - (owing - engine_state.prepaid_bad_debt) - Expected - MovedQuote
    /\ c \in Int /\ c = vamm_map.cumulative_premium_fraction /\ Unpaid(new, c) = 0
    /\ gain = Net(new) - Net(positions[tmp_swap.trader])
                + TruncDiv(Unpaid(positions[tmp_swap.trader], c), Decimals)
LEMMA TradedIsDrift ==
    ASSUME RecordInv, SafetyInv, BookInv, HistoryInv, FreshInv, NEW id, NEW msgs, NEW new, NEW owing,
           NEW gain, NEW c, TradeAnswered(id, msgs, new, owing, gain, c)
    PROVE  /\ \E d : Drifts(d)
           /\ ~Idle /\ ~Idle' /\ Start' = Start /\ ValueInv' /\ FundsInv'
BY TradedDrifts DEF TradeAnswered

\* A reversal of which nothing is left to open pays the old position out.
LEMMA ReversalEnds ==
    ASSUME RecordInv, SafetyInv, BookInv, HistoryInv, FreshInv, ValueInv, FundsInv, NotionalIsKept,
           FundingIsCharged, ReversalsAreSolvent, reply.id = ReversePosition,
           NEW old, old = GetPosition(tmp_swap.trader, tmp_swap.side),
           NEW mtv, mtv = -old.margin - tmp_swap.unrealized_pnl,
           NEW feesDue, feesDue = SpreadFee(tmp_swap.open_notional) + TollFee(tmp_swap.open_notional),
           Gap(tmp_swap.open_notional, reply.output) \div tmp_swap.leverage = 0,
           Native => AreSufficient(sent_funds.required + feesDue),
           Reply(ReversePosition, TransferFees(tmp_swap.trader, tmp_swap.open_notional)
                                    \o <<Transfer(Engine, tmp_swap.trader, Abs(mtv))>>),
           positions' = [positions EXCEPT ![tmp_swap.trader] = Clear(old)],
           engine_state'.prepaid_bad_debt = engine_state.prepaid_bad_debt,
           vamm_map' = vamm_map
    PROVE  /\ \E d : Drifts(d)
           /\ ~Idle /\ ~Idle' /\ Start' = Start /\ ValueInv' /\ FundsInv'
<1> PICK c : c = vamm_map.cumulative_premium_fraction
  OBVIOUS
<1> DEFINE fees == TransferFees(tmp_swap.trader, tmp_swap.open_notional)
           paid == <<Transfer(Engine, tmp_swap.trader, Abs(mtv))>>
           msgs == fees \o paid
           gain == mtv - MovedQuote
           owing == engine_state.prepaid_bad_debt
<1>1. /\ tmp_swap.trader \in Traders /\ old = positions[tmp_swap.trader]
      /\ old \in Position /\ Clear(old) \in Position
      /\ c \in Int /\ mtv \in Int /\ Unpaid(Clear(old), c) = 0
      /\ MovedQuote \in Int
      /\ gain = Net(Clear(old)) - Net(old) + TruncDiv(Unpaid(old, c), Decimals)
      /\ sent_funds.amount \in Nat /\ Expected = -sent_funds.amount
      /\ sent_funds.required = 0 /\ (~Native => sent_funds.amount = 0)
  BY ReversalFacts
<1>2. ReversePosition \in SwapIds /\ reply.id \in SwapIds
  BY DistinctIds
<1>3. tmp_swap.open_notional \in Nat /\ tmp_swap.unrealized_pnl \in Int /\ old.margin \in Nat
      /\ tmp_swap.trader # Engine
  BY <1>1, <1>2, AnswerFacts, SwapFields, PositionFields, Payable
<1>4. /\ Flows(fees) /\ Transfers(fees) /\ feesDue \in Nat
      /\ Incoming(fees) = (IF Native THEN -feesDue ELSE 0)
  BY <1>1, <1>3, FeesFlow, FeesAreTransfers DEF SafetyInv
<1>5. Abs(mtv) \in Nat /\ 0 - Abs(mtv) = mtv
  <2>1. old.margin + tmp_swap.unrealized_pnl >= 0
    BY <1>1 DEF ReversalsAreSolvent
  <2> PICK m, u : m = old.margin /\ u = tmp_swap.unrealized_pnl
    OBVIOUS
  <2>2. m \in Nat /\ u \in Int /\ m + u >= 0 /\ mtv = -m - u
    BY <1>3, <2>1
  <2>3. QED
    BY <2>2, SMT DEF Abs
<1>6. Flows(paid) /\ Transfers(paid) /\ Incoming(paid) = mtv
  <2>1. Incoming(paid) = 0 - Abs(mtv) /\ Flows(paid)
    BY <1>3, <1>5, TransferFlow
  <2>2. QED
    BY <1>5, <2>1, OneTransfer
<1> HIDE DEF fees, paid
<1>7. Flows(msgs) /\ Transfers(msgs)
      /\ Incoming(msgs) = (IF Native THEN -feesDue ELSE 0) + mtv
  BY <1>4, <1>6, IncomingBoth, BothTransfers
<1>8. Incoming(msgs) = mtv - sent_funds.amount
  <2>1. \A x \in Int : 0 + x = x - 0
    BY SMT
  <2>2. CASE ~Native
    BY <1>1, <1>7, <2>1, <2>2
  <2>3. CASE Native
    <3>1. sent_funds.amount = feesDue
      <4>1. sent_funds.amount = 0 + feesDue
        BY <1>1, <2>3 DEF AreSufficient
      <4>2. QED
        BY <1>4, <4>1, SMT
    <3>2. \A x \in Int, y \in Nat : -y + x = x - y
      BY SMT
    <3>3. QED
      BY <1>1, <1>4, <1>7, <2>3, <3>1, <3>2
  <2>4. QED
    BY <2>2, <2>3
<1>9. engine_state.prepaid_bad_debt \in Nat
  BY CoinsTypes
<1> HIDE DEF msgs
<1>10. /\ gain \in Int /\ owing \in Int
       /\ gain = Incoming(msgs) - (owing - engine_state.prepaid_bad_debt) - Expected - MovedQuote
  <2> PICK x, a, q, p : /\ x = mtv /\ a = sent_funds.amount /\ q = MovedQuote
                        /\ p = engine_state.prepaid_bad_debt
    OBVIOUS
  <2>1. x \in Int /\ a \in Nat /\ q \in Int /\ p \in Nat /\ Incoming(msgs) = x - a /\ Expected = -a
    BY <1>1, <1>8, <1>9
  <2>2. x - q \in Int /\ p \in Int /\ x - q = (x - a) - (p - p) - (-a) - q
    BY <2>1, SMT
  <2>3. QED
    BY <2>1, <2>2
<1> HIDE DEF gain, owing
<1> PICK new : new = Clear(old)
  OBVIOUS
<1>11. /\ Reply(ReversePosition, msgs) /\ new \in Position /\ Unpaid(new, c) = 0
       /\ positions' = [positions EXCEPT ![tmp_swap.trader] = new]
       /\ engine_state'.prepaid_bad_debt = owing
       /\ vamm_map'.cumulative_premium_fraction = vamm_map.cumulative_premium_fraction
  BY <1>1 DEF msgs, fees, paid, owing
<1>12. gain = Net(new) - Net(positions[tmp_swap.trader])
                + TruncDiv(Unpaid(positions[tmp_swap.trader], c), Decimals)
  BY <1>1
<1>13. c \in Int /\ c = vamm_map.cumulative_premium_fraction
  BY <1>1
<1>14. TradeAnswered(ReversePosition, msgs, new, owing, gain, c)
  BY <1>2, <1>7, <1>10, <1>11, <1>12, <1>13 DEF TradeAnswered
<1>15. QED
  BY <1>14, TradedIsDrift

\* What a reversal that continues expects of its increase, in native coins.
LEMMA SecondTradeExpects ==
    ASSUME NEW mtv \in Int, NEW feesDue \in Nat, NEW swapMargin \in Nat,
           mtv < 0 => (feesDue > -mtv <=> swapMargin > -mtv)
    PROVE  LET required == IF mtv > 0 \/ feesDue > -mtv THEN feesDue + mtv ELSE feesDue
           IN  (IF mtv + swapMargin > 0 THEN 0 ELSE mtv) + required = mtv + feesDue
BY SMT

\* The hypotheses of HandledDrifts, for a trade that settles the funding.
Handled(id, msgs, new, owing, gain, c) ==
    /\ id \in SwapIds /\ Reply(id, msgs) /\ Flows(msgs)
    /\ (Settled \/ tmp_swap.fees_paid)' /\ Expected' \in Int
    /\ vamm_map'.cumulative_premium_fraction = vamm_map.cumulative_premium_fraction
    /\ new \in Position /\ positions' = [positions EXCEPT ![tmp_swap.trader] = new]
    /\ owing \in Int /\ engine_state'.prepaid_bad_debt = owing
    /\ gain \in Int
    /\ gain = (Incoming(msgs) + Expected') - (owing - engine_state.prepaid_bad_debt)
                - Expected - MovedQuote
    /\ c \in Int /\ c = vamm_map.cumulative_premium_fraction /\ Unpaid(new, c) = 0
    /\ gain = Net(new) - Net(positions[tmp_swap.trader])
                + TruncDiv(Unpaid(positions[tmp_swap.trader], c), Decimals)
LEMMA HandledIsDrift ==
    ASSUME RecordInv, SafetyInv, BookInv, HistoryInv, FreshInv, NEW id, NEW msgs, NEW new, NEW owing,
           NEW gain, NEW c, Handled(id, msgs, new, owing, gain, c)
    PROVE  (\E d : Drifts(d)) /\ ~Idle /\ ~Idle' /\ Start' = Start
<1> PICK stored : stored = positions[tmp_swap.trader]
  OBVIOUS
<1>1. stored \in Position
  BY RepliedFacts, AnswerFacts DEF Handled
<1> PICK d : d = Decimals * gain - (Claim(new, c) - Claim(stored, c))
  OBVIOUS
<1>2. d \in Int /\ -Room <= d /\ d <= Room /\ (stored.size = 0 => d = 0)
  BY <1>1, SettledExactly DEF Handled
<1>3. d = Decimals * gain - (Claim(new, vamm_map.cumulative_premium_fraction)
                                - Claim(positions[tmp_swap.trader],
                                        vamm_map.cumulative_premium_fraction))
  BY DEF Handled
<1>4. positions[tmp_swap.trader].size = 0 => d = 0
  BY <1>2
<1>5. Answered(id, msgs, new, owing, gain, d)
  BY <1>2, <1>3, <1>4 DEF Handled, Answered
<1>6. QED
  BY <1>5, AnsweredDrifts

\* A reversal that continues leaves to its increase what the old position is
\* to bring: by a record of what the vault is owed or, in native coins, by one
\* of the coins the increase requires.
LEMMA ReversalContinues ==
    ASSUME RecordInv, SafetyInv, BookInv, HistoryInv, FreshInv, ValueInv, FundsInv, NotionalIsKept,
           FundingIsCharged, NativeReversalsCount, reply.id = ReversePosition,
           NEW old, old = GetPosition(tmp_swap.trader, tmp_swap.side),
           NEW mtv, mtv = -old.margin - tmp_swap.unrealized_pnl,
           NEW feesDue, feesDue = SpreadFee(tmp_swap.open_notional) + TollFee(tmp_swap.open_notional),
           NEW rest, rest = Gap(tmp_swap.open_notional, reply.output),
           rest \div tmp_swap.leverage # 0,
           Reply(ReversePosition, TransferFees(tmp_swap.trader, tmp_swap.open_notional)
                   \o <<SwapInputMsg(IncreasePosition, tmp_swap.side, rest, 0, FALSE)>>),
           tmp_swap' = [tmp_swap EXCEPT !.open_notional = rest, !.unrealized_pnl = 0,
                                        !.margin_to_vault = mtv, !.fees_paid = TRUE],
           NEW due, due = sent_funds.required + feesDue,
           sent_funds' = [sent_funds EXCEPT !.required =
                            IF mtv > 0 \/ due > -mtv THEN due + mtv ELSE feesDue],
           positions' = [positions EXCEPT ![tmp_swap.trader] = Clear(old)],
           engine_state'.prepaid_bad_debt = engine_state.prepaid_bad_debt,
           vamm_map' = vamm_map
    PROVE  /\ \E d : Drifts(d)
           /\ ~Idle /\ ~Idle' /\ Start' = Start /\ ValueInv' /\ FundsInv'
<1> PICK c, swapMargin : /\ c = vamm_map.cumulative_premium_fraction
                         /\ swapMargin = (rest * Decimals) \div tmp_swap.leverage
  OBVIOUS
<1> DEFINE fees == TransferFees(tmp_swap.trader, tmp_swap.open_notional)
           m == SwapInputMsg(IncreasePosition, tmp_swap.side, rest, 0, FALSE)
           msgs == fees \o <<m>>
           gain == mtv - MovedQuote
           owing == engine_state.prepaid_bad_debt
           required == IF mtv > 0 \/ feesDue > -mtv THEN feesDue + mtv ELSE feesDue
<1>1. /\ tmp_swap.trader \in Traders /\ old = positions[tmp_swap.trader]
      /\ old \in Position /\ Clear(old) \in Position
      /\ c \in Int /\ mtv \in Int /\ Unpaid(Clear(old), c) = 0
      /\ MovedQuote \in Int
      /\ gain = Net(Clear(old)) - Net(old) + TruncDiv(Unpaid(old, c), Decimals)
      /\ sent_funds.amount \in Nat /\ Expected = -sent_funds.amount
      /\ sent_funds.required = 0 /\ (~Native => sent_funds.amount = 0)
  BY ReversalFacts
<1>2. /\ ReversePosition \in SwapIds /\ reply.id \in SwapIds /\ IncreasePosition \in SwapIds
      /\ IncreasePosition \in TradeIds
  BY DistinctIds DEF TradeIds
<1>3. /\ tmp_swap \in TmpSwap /\ tmp_swap.open_notional \in Nat /\ tmp_swap.unrealized_pnl \in Int
      /\ old.margin \in Nat /\ tmp_swap.leverage \in Nat \ {0} /\ reply.output \in Nat
  <2>1. /\ tmp_swap \in TmpSwap /\ Fits(reply.id, positions[tmp_swap.trader], tmp_swap)
        /\ reply.output \in Nat
    BY <1>2, AnswerFacts
  <2>2. tmp_swap.leverage # 0
    BY <2>1 DEF Fits, TradeIds
  <2>3. QED
    BY <1>1, <2>1, <2>2, SwapFields, PositionFields
<1>4. /\ Flows(fees) /\ Transfers(fees) /\ feesDue \in Nat
      /\ Incoming(fees) = (IF Native THEN -feesDue ELSE 0)
  BY <1>1, <1>3, FeesFlow, FeesAreTransfers DEF SafetyInv
<1>5. rest \in Nat /\ swapMargin \in Nat
  <2>1. rest \in Nat
    BY <1>3, SMT DEF Gap
  <2>2. rest * Decimals \in Nat
    BY <2>1, ProductType, DecimalsAssumption, SMT
  <2>3. QED
    BY <1>3, <2>1, <2>2, DivMod
<1>6. m.kind = "swap_input" /\ m.id = IncreasePosition /\ Flow(m) = 0 /\ m.kind # "transfer"
      /\ m.kind # "settle_funding"
  BY DEF SwapInputMsg, Flow
<1> HIDE DEF fees, m
<1>7. Flows(<<m>>) /\ Incoming(<<m>>) = 0
  <2>1. 0 \in Int
    BY SMT
  <2>2. QED
    BY <1>6, <2>1, IncomingOne
<1>8. Flows(msgs) /\ Incoming(msgs) = (IF Native THEN -feesDue ELSE 0) + 0
  BY <1>4, <1>7, IncomingBoth
<1>9. /\ Reply(ReversePosition, msgs)
      /\ OnlyLastCallsAmm(msgs) /\ Awaits(msgs, NoReply) = IncreasePosition
      /\ CallsAmm(msgs) /\ msgs[Len(msgs)] = m
  <2>1. OnlyLastCallsAmm(msgs) /\ Awaits(msgs, NoReply) = IncreasePosition
    BY <1>4, <1>6, QueueEndingInCall
  <2>2. PICK S : fees \in Seq(S)
    BY <1>4 DEF Transfers, IsSequence
  <2>3. fees \in Seq(S \union {m}) /\ <<m>> \in Seq(S \union {m})
        /\ Len(<<m>>) = 1 /\ <<m>>[1] = m
    BY <2>2, SMT
  <2>4. msgs[Len(msgs)] = m /\ Len(msgs) # 0
    BY <2>3, SMT
  <2>5. Reply(ReversePosition, msgs)
    BY DEF fees, m
  <2>6. QED
    BY <1>6, <2>1, <2>4, <2>5 DEF CallsAmm
<1> HIDE DEF msgs
<1>10. /\ queue = <<>> /\ reply' = NoReply /\ queue' = msgs /\ UNCHANGED settings
  <2>1. queue = <<>> /\ reply' = NoReply /\ UNCHANGED settings
    BY <1>2, <1>9, RepliedFacts
  <2>2. QED
    BY <1>8, <1>9, <2>1, RepliedQueue DEF Flows
<1>11. AwaitedId' = IncreasePosition /\ (Native' <=> Native)
  BY <1>9, <1>10 DEF AwaitedId, settings, Native
<1>12. /\ tmp_swap'.fees_paid /\ tmp_swap'.margin_to_vault = mtv /\ tmp_swap'.trader = tmp_swap.trader
       /\ MarginDue' = mtv + swapMargin
       /\ sent_funds'.amount = sent_funds.amount /\ sent_funds'.required = required
  <2>1. /\ tmp_swap'.fees_paid /\ tmp_swap'.margin_to_vault = mtv /\ tmp_swap'.trader = tmp_swap.trader
        /\ tmp_swap'.open_notional = rest /\ tmp_swap'.leverage = tmp_swap.leverage
    BY <1>3 DEF TmpSwap
  <2>2. due = feesDue
    BY <1>1, <1>4, SMT
  <2>3. sent_funds \in [stored: BOOLEAN, amount: Nat, required: Nat]
    BY DEF BookInv, TypeInv, ContractTypeOK
  <2>4. QED
    BY <2>1, <2>2, <2>3 DEF MarginDue
<1>13. Expected' = IF ~Native THEN mtv
                   ELSE (IF mtv + swapMargin > 0 THEN 0 ELSE mtv) + required - sent_funds.amount
  BY <1>2, <1>11, <1>12 DEF Expected
<1>14. (IF mtv + swapMargin > 0 THEN 0 ELSE mtv) + required = mtv + feesDue \/ ~Native
  <2>1. CASE ~Native
    BY <2>1
  <2>2. CASE Native
    <3> PICK v : v = positions[tmp_swap.trader].margin + tmp_swap.unrealized_pnl
      OBVIOUS
    <3>1. v > 0 => (feesDue > v <=> swapMargin > v)
      BY <2>2 DEF NativeReversalsCount
    <3>2. v = -mtv
      BY <1>1, <1>3, SMT
    <3>3. mtv < 0 => (feesDue > -mtv <=> swapMargin > -mtv)
      <4>1. mtv < 0 => -mtv > 0
        BY <1>1, SMT
      <4>2. QED
        BY <3>1, <3>2, <4>1
    <3>4. QED
      BY <1>1, <1>4, <1>5, <3>3, SecondTradeExpects
  <2>3. QED
    BY <2>1, <2>2
<1>15. required \in Int
  BY <1>1, <1>4, SMT
<1> HIDE DEF required
<1>16. Expected' \in Int /\ Incoming(msgs) + Expected' = mtv - sent_funds.amount
  <2> PICK a : a = sent_funds.amount
    OBVIOUS
  <2> PICK e : e = IF mtv + swapMargin > 0 THEN 0 ELSE mtv
    OBVIOUS
  <2>1. a \in Nat /\ e \in Int
    BY <1>1, SMT
  <2>2. CASE ~Native
    <3>1. Incoming(msgs) = 0 + 0 /\ Expected' = mtv /\ a = 0
      BY <1>1, <1>8, <1>13, <2>2
    <3>2. (0 + 0) + mtv = mtv - 0
      BY <1>1, SMT
    <3>3. QED
      BY <1>1, <3>1, <3>2
  <2>3. CASE Native
    <3>1. Incoming(msgs) = -feesDue + 0 /\ Expected' = e + required - a
          /\ e + required = mtv + feesDue
      BY <1>8, <1>13, <1>14, <2>3
    <3>2. e + required - a \in Int /\ (-feesDue + 0) + (e + required - a) = mtv - a
      BY <1>1, <1>4, <1>15, <2>1, <3>1, SMT
    <3>3. QED
      BY <3>1, <3>2
  <2>4. QED
    BY <2>2, <2>3
<1>17. engine_state.prepaid_bad_debt \in Nat
  BY CoinsTypes
<1>18. /\ gain \in Int /\ owing \in Int
       /\ gain = (Incoming(msgs) + Expected') - (owing - engine_state.prepaid_bad_debt)
                   - Expected - MovedQuote
  <2> PICK a, q, p : a = sent_funds.amount /\ q = MovedQuote /\ p = engine_state.prepaid_bad_debt
    OBVIOUS
  <2>1. mtv \in Int /\ a \in Nat /\ q \in Int /\ p \in Nat
        /\ Incoming(msgs) + Expected' = mtv - a /\ Expected = -a
    BY <1>1, <1>16, <1>17
  <2>2. mtv - q \in Int /\ p \in Int /\ mtv - q = (mtv - a) - (p - p) - (-a) - q
    BY <2>1, SMT
  <2>3. QED
    BY <2>1, <2>2
<1> HIDE DEF gain, owing
<1>19. Handled(ReversePosition, msgs, Clear(old), owing, gain, c)
  <2>1. (Settled \/ tmp_swap.fees_paid)'
    BY <1>12
  <2>2. engine_state'.prepaid_bad_debt = owing
    BY DEF owing
  <2>3. vamm_map'.cumulative_premium_fraction = vamm_map.cumulative_premium_fraction
    OBVIOUS
  <2>4. gain = Net(Clear(old)) - Net(positions[tmp_swap.trader])
                 + TruncDiv(Unpaid(positions[tmp_swap.trader], c), Decimals)
    BY <1>1
  <2>5. Flows(msgs)
    BY <1>8
  <2>6. QED
    BY <1>1, <1>2, <1>9, <1>16, <1>18, <2>1, <2>2, <2>3, <2>4, <2>5, Zenon DEF Handled
<1>20. (\E d : Drifts(d)) /\ ~Idle /\ ~Idle' /\ Start' = Start
  BY <1>19, HandledIsDrift
<1>21. ValueInv'
  <2>1. Values(IncreasePosition, positions'[tmp_swap'.trader], tmp_swap')
    BY <1>12, DistinctIds DEF Values
  <2>2. CallsAmm(queue') /\ queue'[Len(queue')] = m
    BY <1>9, <1>10
  <2>3. m.kind # "swap_output"
    BY <1>6
  <2>4. QED
    BY <1>11, <2>1, <2>2, <2>3 DEF ValueInv, QuotedBy
<1>22. FundsInv'
  BY <1>1, <1>11, <1>12 DEF FundsInv
<1>23. QED
  BY <1>20, <1>21, <1>22

\* A reversal.
LEMMA ReverseDrifts ==
    ASSUME RecordInv, SafetyInv, BookInv, HistoryInv, FreshInv, ValueInv, FundsInv, NotionalIsKept,
           FundingIsCharged, ReversalsAreSolvent, NativeReversalsCount, ReversePositionReply
    PROVE  /\ \E d : Drifts(d)
           /\ ~Idle /\ ~Idle' /\ Start' = Start /\ ValueInv' /\ FundsInv'
<1> PICK old, rest, mtv, feesDue, due :
       /\ old = GetPosition(tmp_swap.trader, tmp_swap.side)
       /\ rest = Gap(tmp_swap.open_notional, reply.output)
       /\ mtv = -old.margin - tmp_swap.unrealized_pnl
       /\ feesDue = SpreadFee(tmp_swap.open_notional) + TollFee(tmp_swap.open_notional)
       /\ due = sent_funds.required + feesDue
  OBVIOUS
<1>1. /\ reply.id = ReversePosition
      /\ positions' = [positions EXCEPT ![tmp_swap.trader] = Clear(old)]
      /\ engine_state' = [engine_state EXCEPT !.open_interest_notional = OpenInterest(-reply.output)]
      /\ vamm_map' = vamm_map
      /\ \/ /\ rest \div tmp_swap.leverage = 0 /\ (Native => AreSufficient(due))
            /\ Reply(ReversePosition, TransferFees(tmp_swap.trader, tmp_swap.open_notional)
                       \o <<Transfer(Engine, tmp_swap.trader, Abs(mtv))>>)
         \/ /\ rest \div tmp_swap.leverage # 0
            /\ Reply(ReversePosition, TransferFees(tmp_swap.trader, tmp_swap.open_notional)
                   \o <<SwapInputMsg(IncreasePosition, tmp_swap.side, rest, 0, FALSE)>>)
            /\ tmp_swap' = [tmp_swap EXCEPT !.open_notional = rest, !.unrealized_pnl = 0,
                                            !.margin_to_vault = mtv, !.fees_paid = TRUE]
            /\ sent_funds' = [sent_funds EXCEPT !.required =
                                IF mtv > 0 \/ due > -mtv THEN due + mtv ELSE feesDue]
  BY Zenon DEF ReversePositionReply
<1>2. engine_state'.prepaid_bad_debt = engine_state.prepaid_bad_debt
  <2>1. engine_state \in EngineState
    BY DEF BookInv, TypeInv, ContractTypeOK
  <2>2. QED
    BY <1>1, <2>1 DEF EngineState
<1>3. CASE /\ rest \div tmp_swap.leverage = 0 /\ (Native => AreSufficient(due))
           /\ Reply(ReversePosition, TransferFees(tmp_swap.trader, tmp_swap.open_notional)
                      \o <<Transfer(Engine, tmp_swap.trader, Abs(mtv))>>)
  BY <1>1, <1>2, <1>3, ReversalEnds
<1>4. CASE /\ rest \div tmp_swap.leverage # 0
           /\ Reply(ReversePosition, TransferFees(tmp_swap.trader, tmp_swap.open_notional)
                   \o <<SwapInputMsg(IncreasePosition, tmp_swap.side, rest, 0, FALSE)>>)
           /\ tmp_swap' = [tmp_swap EXCEPT !.open_notional = rest, !.unrealized_pnl = 0,
                                           !.margin_to_vault = mtv, !.fees_paid = TRUE]
           /\ sent_funds' = [sent_funds EXCEPT !.required =
                               IF mtv > 0 \/ due > -mtv THEN due + mtv ELSE feesDue]
  BY <1>1, <1>2, <1>4, ReversalContinues
<1>5. QED
  BY <1>1, <1>3, <1>4, Zenon

-----------------------------------------------------------------------------
(* Funding                                                                 *)

\* What the vault gets or pays for the premium, against what the positions
\* owe for it: the payment is truncated, and no more than there is.
LEMMA PremiumPaid ==
    ASSUME NEW total \in Int, NEW premium \in Int, NEW b \in Nat, NEW gain,
           LET payment == TruncDiv(total * premium, Decimals)
           IN  gain = IF payment <= 0 THEN -payment ELSE -(IF b < payment THEN b ELSE payment)
    PROVE  LET d == Decimals * gain + premium * total
           IN  /\ gain \in Int /\ d \in Int /\ -Room <= d
               /\ b >= TruncDiv(total * premium, Decimals) => d <= Room
               /\ total = 0 => d = 0
<1> PICK x, f, D : x = total * premium /\ f = TruncDiv(total * premium, Decimals) /\ D = Decimals
  OBVIOUS
<1>1. /\ x \in Int /\ premium * total = x
  BY SMT
<1>2. /\ f \in Int /\ D * f \in Int /\ D * f - x <= D - 1 /\ x - D * f <= D - 1
      /\ x = 0 => f = 0
  BY <1>1, TruncationError
<1>3. D \in Nat /\ D <= Room /\ Room \in Nat
  BY DecimalsAssumption, RoomFacts
<1>4. gain = IF f <= 0 THEN -f ELSE -(IF b < f THEN b ELSE f)
  OBVIOUS
<1>5. gain \in Int /\ gain >= -f /\ (b >= f => gain = -f)
  BY <1>2, <1>4, SMT
<1>6. D * gain \in Int /\ D * (-f) = -(D * f) /\ D * gain >= D * (-f)
  <2>1. -f \in Int
    BY <1>2, SMT
  <2>2. \A y \in Int, z \in Int : z >= y => D * z >= D * y /\ D * z \in Int
    BY <1>3, SMT
  <2>3. \A y \in Int : D * (-y) = -(D * y)
    BY <1>3, SMT
  <2>4. QED
    BY <1>2, <1>5, <2>1, <2>2, <2>3
<1> PICK Dg, Df : Dg = D * gain /\ Df = D * f
  OBVIOUS
<1>7. Dg \in Int /\ Df \in Int /\ Dg >= -Df /\ (b >= f => Dg = -Df)
  <2>1. -Df = D * (-f)
    BY <1>6
  <2>2. QED
    BY <1>2, <1>5, <1>6, <2>1
<1>8. /\ Dg + x \in Int /\ -Room <= Dg + x
      /\ b >= f => Dg + x <= Room
  BY <1>1, <1>2, <1>3, <1>7, SMT
<1>9. total = 0 => Dg + x = 0
  <2>1. SUFFICES ASSUME total = 0 PROVE Dg + x = 0
    OBVIOUS
  <2>2. \A y \in Int : 0 * y = 0
    BY SMT
  <2>3. x = 0
    BY <2>1, <2>2
  <2>4. f = 0
    BY <1>2, <2>3
  <2>5. b >= f
    BY <2>4, SMT
  <2>6. Df = 0
    <3>1. \A y \in Nat : y * 0 = 0
      BY SMT
    <3>2. QED
      BY <1>3, <2>4, <3>1
  <2>7. Dg = -Df
    BY <1>7, <2>5
  <2>8. QED
    BY <1>7, <2>3, <2>6, <2>7, SMT
<1>10. Decimals * gain + premium * total = Dg + x
  BY <1>1
<1>11. QED
  BY <1>5, <1>8, <1>9, <1>10

\* The funding is paid or received for all positions together.
LEMMA PayFundingDrifts ==
    ASSUME RecordInv, SafetyInv, BookInv, HistoryInv, MatchInv, FreshInv, PayFundingReply
    PROVE  /\ \E d : Drifts(d)
           /\ ~Idle /\ ~Idle' /\ Start' = Start /\ ValueInv' /\ FundsInv'
<1> PICK premium, total, b, c : /\ premium = reply.input /\ total = total_position_size
                                /\ b = balance[Engine]
                                /\ c = vamm_map.cumulative_premium_fraction
  OBVIOUS
<1> DEFINE payment == TruncDiv(total * premium, Decimals)
           paid == IF b < payment THEN b ELSE payment
           fund == engine_config.insurance_fund
           msgs == IF payment < 0 THEN <<Transfer(fund, Engine, -payment)>>
                   ELSE IF payment > 0 THEN <<Transfer(Engine, fund, paid)>> ELSE <<>>
           gain == IF payment <= 0 THEN -payment ELSE -paid
           d == Decimals * gain + premium * total
<1>1. /\ Reply(Funding, msgs)
      /\ vamm_map' = [vamm_map EXCEPT !.cumulative_premium_fraction = c + premium]
      /\ UNCHANGED <<engine_state, positions, tmp_swap>>
  BY Zenon DEF PayFundingReply, temporary
<1>2. /\ ~Idle /\ ~Idle' /\ Start' = Start /\ txs' = txs /\ queue = <<>> /\ AwaitedId = Funding
      /\ reply.id = Funding /\ reply' = NoReply /\ UNCHANGED <<vars, settings, balance, unasked>>
  BY <1>1, RepliedFacts
<1>3. Funding \notin SwapIds /\ Funding \notin TradeIds
  BY ReplyIds
<1>4. /\ premium \in Int /\ total \in Int /\ b \in Nat /\ c \in Int
      /\ positions \in [Traders -> Position] /\ engine_config \in EngineConfig
      /\ vamm_map \in VammMap
  <2>1. reply.input \in Int /\ total_position_size \in Int
    BY <1>2 DEF BookInv, TypeInv, AmmInv, SafetyInv, ReserveInv, TypeOK
  <2>2. QED
    BY <2>1, CoinsTypes, SurplusTypes DEF BookInv, TypeInv, ContractTypeOK, SafetyInv
<1>5. payment \in Int
  <2>1. total * premium \in Int
    BY <1>4, SMT
  <2>2. QED
    BY <2>1, TruncationError
<1>6. total = Total(positions)
  <2>1. Moved = 0
    BY <1>2, <1>3, NothingMoved
  <2>2. total = Total(positions) + 0 /\ Total(positions) \in Int
    BY <1>4, <2>1, TotalFacts DEF MatchInv, Balanced
  <2>3. \A x \in Int : x + 0 = x
    BY SMT
  <2>4. QED
    BY <2>2, <2>3
<1>7. /\ gain \in Int /\ d \in Int /\ -Room <= d /\ (b >= payment => d <= Room)
      /\ total = 0 => d = 0
  <2> DEFINE g == gain
  <2>1. g = IF TruncDiv(total * premium, Decimals) <= 0 THEN -TruncDiv(total * premium, Decimals)
            ELSE -(IF b < TruncDiv(total * premium, Decimals) THEN b
                   ELSE TruncDiv(total * premium, Decimals))
    OBVIOUS
  <2> HIDE DEF g
  <2>2. LET e == Decimals * g + premium * total
        IN  /\ g \in Int /\ e \in Int /\ -Room <= e
            /\ b >= TruncDiv(total * premium, Decimals) => e <= Room
            /\ total = 0 => e = 0
    BY <1>4, <2>1, PremiumPaid
  <2>3. QED
    BY <2>2 DEF g
<1>8. Flows(msgs) /\ Incoming(msgs) = gain /\ Transfers(msgs)
  <2>1. fund # Engine
    BY <1>4, Payable DEF EngineConfig
  <2>2. CASE payment < 0
    <3>1. -payment \in Nat /\ -payment - 0 = -payment /\ payment <= 0
      BY <1>5, <2>2, SMT
    <3>2. msgs = <<Transfer(fund, Engine, -payment)>> /\ gain = -payment
      BY <2>2, <3>1
    <3> HIDE DEF payment, gain
    <3>3. /\ Flows(<<Transfer(fund, Engine, -payment)>>)
          /\ Incoming(<<Transfer(fund, Engine, -payment)>>) = -payment - 0
      BY <2>1, <3>1, TransferFlow
    <3> HIDE DEF msgs
    <3>4. QED
      BY <3>1, <3>2, <3>3, OneTransfer
  <2>3. CASE payment > 0
    <3>1. paid \in Nat /\ 0 - paid = -paid /\ ~(payment <= 0) /\ ~(payment < 0)
      BY <1>4, <1>5, <2>3, SMT
    <3>2. msgs = <<Transfer(Engine, fund, paid)>> /\ gain = -paid
      BY <2>3, <3>1
    <3> HIDE DEF payment, gain, paid
    <3>3. /\ Flows(<<Transfer(Engine, fund, paid)>>)
          /\ Incoming(<<Transfer(Engine, fund, paid)>>) = 0 - paid
      BY <2>1, <3>1, TransferFlow
    <3> HIDE DEF msgs
    <3>4. QED
      BY <3>1, <3>2, <3>3, OneTransfer
  <2>4. CASE payment = 0
    <3>1. ~(payment < 0) /\ ~(payment > 0) /\ payment <= 0
      BY <2>4, SMT
    <3>2. msgs = <<>> /\ gain = -payment
      BY <3>1
    <3>3. -payment = 0
      <4>1. \A y \in Int : y + (-y) = 0 /\ 0 + y = y /\ -y \in Int
        BY SMT
      <4> HIDE DEF payment
      <4>2. payment + (-payment) = -payment
        BY <1>5, <2>4, <4>1
      <4>3. QED
        BY <1>5, <4>1, <4>2
    <3> HIDE DEF payment, msgs, gain
    <3>4. QED
      BY <3>2, <3>3, NoTransfer, IncomingNothing
  <2>5. QED
    <3> HIDE DEF msgs, gain
    <3>1. payment < 0 \/ payment > 0 \/ payment = 0
      BY <1>5, SMT
    <3>2. QED
      BY <2>2, <2>3, <2>4, <3>1
<1> HIDE DEF payment, paid, msgs, gain
<1>9. queue' = msgs
  BY <1>1, <1>2, <1>8, RepliedQueue DEF Flows
<1>10. AwaitedId' = "none"
  <2>1. ~CallsAmm(msgs) /\ NoReply.id = "none"
    BY <1>8, QueueOfTransfers DEF NoReply
  <2>2. QED
    BY <1>2, <1>9, <2>1 DEF AwaitedId, Awaits
<1>11. AwaitedId' \notin SwapIds \union {Funding} /\ AwaitedId' \notin TradeIds
       /\ reply'.id \notin SwapIds
  BY <1>2, <1>10, ReplyIds DEF NoReply
<1>12. Pending = 0 /\ Pending' = gain
  <2>1. Expected = 0 /\ Expected' = 0
    BY <1>2, <1>3, <1>11 DEF Expected
  <2>2. MovedQuote = 0 /\ MovedQuote' = 0
    BY <1>2, <1>3, <1>11, DistinctIds DEF MovedQuote
  <2>3. Incoming(queue) = 0 /\ Incoming(queue') = gain
    BY <1>2, <1>8, <1>9, IncomingNothing
  <2>4. \A y \in Int : y + 0 + 0 = y
    BY SMT
  <2>5. 0 \in Int
    BY SMT
  <2>6. QED
    BY <1>7, <2>1, <2>2, <2>3, <2>4, <2>5 DEF Pending
<1>13. Surplus' = Surplus + d
  <2> PICK x, y, e : /\ x = Coins(balance, engine_state, quote_asset_reserve, unasked) + Pending
                     /\ y = Claims(positions, vamm_map.cumulative_premium_fraction)
                     /\ e = -(premium * total)
    OBVIOUS
  <2>1. x \in Int /\ y \in Int /\ e \in Int
    <3>1. /\ Coins(balance, engine_state, quote_asset_reserve, unasked) \in Int /\ Pending \in Int
          /\ y \in Int
      BY SurplusTypes
    <3> PICK u, v : u = Coins(balance, engine_state, quote_asset_reserve, unasked) /\ v = Pending
      OBVIOUS
    <3>2. u + v \in Int /\ -(premium * total) \in Int
      BY <1>4, <3>1, SMT
    <3>3. QED
      BY <3>1, <3>2
  <2>2. Coins(balance', engine_state', quote_asset_reserve', unasked') + Pending' = x + gain
    <3>1. quote_asset_reserve' = quote_asset_reserve
      BY <1>2 DEF vars, state
    <3>2. Coins(balance', engine_state', quote_asset_reserve', unasked')
            = Coins(balance, engine_state, quote_asset_reserve, unasked)
      BY <1>1, <1>2, <3>1
    <3> PICK u : u = Coins(balance, engine_state, quote_asset_reserve, unasked)
      OBVIOUS
    <3>3. u \in Int /\ x = u + 0
      BY <1>12, SurplusTypes
    <3>4. u + gain = (u + 0) + gain
      BY <1>7, <3>3, SMT
    <3>5. QED
      BY <1>12, <3>2, <3>3, <3>4
  <2>3. Claims(positions', vamm_map'.cumulative_premium_fraction) = y + e
    <3>1. vamm_map'.cumulative_premium_fraction = c + premium
      BY <1>1, <1>4 DEF VammMap
    <3>2. Claims(positions, c + premium) = y - premium * total
      <4>1. Claims(positions, c + premium)
              = Claims(positions, c) - premium * Total(positions)
        BY <1>4, ClaimsFacts, Zenon
      <4>2. QED
        BY <1>6, <4>1, Zenon
    <3>3. y - premium * total = y + (-(premium * total))
      BY <1>4, <2>1, SMT
    <3>4. QED
      BY <1>1, <3>1, <3>2, <3>3
  <2>4. Surplus' = Surplus + (Decimals * gain - e)
    BY <1>7, <2>1, <2>2, <2>3, SurplusMoves
  <2>5. Decimals * gain - e = d
    <3>1. Decimals * gain \in Int /\ premium * total \in Int
      BY <1>4, <1>7, DecimalsAssumption, SMT
    <3> PICK g, h : g = Decimals * gain /\ h = premium * total
      OBVIOUS
    <3>2. g - (-h) = g + h
      BY <3>1, SMT
    <3>3. QED
      BY <3>2
  <2>6. QED
    BY <2>4, <2>5
<1>14. Steps + 1 = txs /\ Steps = Start.txs /\ Steps \in Nat /\ positions = Start.positions
  <2>1. ~Settled
    BY <1>2 DEF Settled
  <2>2. ~tmp_swap.fees_paid
    BY <1>2, <1>3 DEF RecordInv, RecordsAreAwaited, AwaitedId, NoSwap
  <2>3. positions = Start.positions
    BY <1>2, <2>1, <2>2 DEF BookInv, InterestInv
  <2>4. QED
    BY <1>2, <2>1, <2>2, <2>3, StepTypes
<1>15. Steps' = txs /\ txs \in Nat
  BY <1>2, <1>11, StepTypes DEF Steps, Settled
<1>16. Steps = 0 => total = 0
  <2>1. SUFFICES ASSUME Steps = 0 PROVE total = 0
    OBVIOUS
  <2>2. \A trader \in Traders : Sizes(positions)[trader] = 0
    BY <1>2, <1>14, <2>1 DEF FreshInv, Fresh, Sizes, NoPosition
  <2>3. QED
    BY <1>6, <2>2, TradersFinite, SumOfZeros DEF Total
<1>17. FundingIsPaid => b >= payment
  BY <1>2 DEF FundingIsPaid, payment
<1> HIDE DEF d
<1>18. Drifts(d)
  BY <1>7, <1>13, <1>14, <1>15, <1>16, <1>17 DEF Drifts
<1>19. ValueInv' /\ FundsInv'
  BY <1>11, QuietTrade
<1>20. QED
  BY <1>2, <1>18, <1>19

-----------------------------------------------------------------------------
(* Every step                                                              *)

LEMMA HandleDrifts ==
    ASSUME RecordInv, SafetyInv, BookInv, HistoryInv, BookInv', MatchInv, TradeInv, ExactReplies, Handle
    PROVE  /\ \E d : Drifts(d)
           /\ ~Idle /\ ~Idle' /\ Start' = Start /\ ValueInv' /\ FundsInv'
<1>1. FreshInv /\ ValueInv /\ FundsInv
  BY DEF TradeInv
<1>2. /\ TradesAreSolvent /\ ReversalsAreSolvent /\ NotionalIsKept
      /\ FundingIsCharged /\ NativeFeesAreSent /\ NativeReversalsCount
  BY DEF ExactReplies
<1>3. CASE IncreasePositionReply
  BY <1>1, <1>2, <1>3, IncreaseDrifts
<1>4. CASE DecreasePositionReply
  BY <1>1, <1>2, <1>4, DecreaseDrifts
<1>5. CASE ReversePositionReply
  BY <1>1, <1>2, <1>5, ReverseDrifts
<1>6. CASE ClosePositionReply
  BY <1>1, <1>2, <1>6, CloseDrifts
<1>7. CASE PartialClosePositionReply
  BY <1>1, <1>2, <1>7, PartialCloseDrifts
<1>8. CASE LiquidateReply
  BY <1>1, <1>8, LiquidateDrifts
<1>9. CASE PartialLiquidationReply
  BY <1>1, <1>2, <1>9, PartialLiquidationDrifts
<1>10. CASE PayFundingReply
  BY <1>1, <1>10, PayFundingDrifts
<1>11. QED
  BY <1>3, <1>4, <1>5, <1>6, <1>7, <1>8, <1>9, <1>10, Zenon DEF Handle

\* A step drifts by what its rounding allows, and begins, continues or ends a
\* transaction, or takes it back to where it began.
Carries == (\E d : Drifts(d)) /\ (Idle' \/ Begins \/ (~Idle /\ Start' = Start))
Undone == Idle' /\ ~Idle /\ Surplus' = Excess(Start) /\ Steps' = Start.txs

LEMMA NextTrade ==
    ASSUME RecordInv, SafetyInv, BookInv, HistoryInv, BookInv', MatchInv, TradeInv, ExactReplies,
           OrdinaryMarket, [EngineNext]_allVars
    PROVE  TradeInv' /\ (Carries \/ Undone)
<1>1. FreshInv /\ ValueInv /\ FundsInv
  BY DEF TradeInv
<1>2. FreshInv'
  BY <1>1, NextFresh
<1>3. ASSUME NEW d, Drifts(d) PROVE \E e : Drifts(e)
  BY <1>3
<1>4. CASE Request
  BY <1>1, <1>2, <1>4, RequestDrifts DEF TradeInv, Carries
<1>5. CASE Handle
  BY <1>2, <1>5, HandleDrifts DEF TradeInv, Carries
<1>6. CASE Deliver
  <2>1. CASE ExecuteTransfer
    <3>1. Drifts(0) /\ ~Idle /\ Start' = Start
      BY <1>1, <2>1, TransferDrifts
    <3>2. ValueInv' /\ FundsInv'
      BY <1>1, <2>1, TransferTrade
    <3>3. QED
      BY <1>2, <3>1, <3>2 DEF TradeInv, Carries
  <2>2. CASE ExecuteSwap
    <3>1. Drifts(0) /\ ~Idle /\ Start' = Start
      BY <1>1, <2>2, SwapDrifts
    <3>2. ValueInv' /\ FundsInv'
      BY <1>1, <2>2, SwapTrade
    <3>3. QED
      BY <1>2, <3>1, <3>2 DEF TradeInv, Carries
  <2>3. ASSUME NEW underlying, ExecuteFunding(underlying) PROVE TradeInv' /\ Carries
    <3>1. Drifts(0) /\ ~Idle /\ Start' = Start
      BY <1>1, <2>3, FundingDrifts
    <3>2. ValueInv' /\ FundsInv'
      BY <2>3, FundingTrade
    <3>3. QED
      BY <1>2, <3>1, <3>2 DEF TradeInv, Carries
  <2>4. QED
    BY <1>6, <2>1, <2>2, <2>3, Zenon DEF Deliver
<1>7. CASE Commit
  <2>1. Drifts(0)
    BY <1>1, <1>7, CommitDrifts
  <2>2. Idle' /\ queue' = <<>> /\ reply' = NoReply
    BY <1>7, Zenon DEF Commit, Idle, book, vars, state
  <2>3. ValueInv' /\ FundsInv'
    BY <2>2, QuietTrade
  <2>4. QED
    BY <1>2, <2>1, <2>2, <2>3 DEF TradeInv, Carries
<1>8. CASE Abort
  <2>1. Undone
    BY <1>8, AbortSurplus DEF Undone
  <2>2. queue' = <<>> /\ reply' = NoReply
    BY <1>8, Zenon DEF Abort
  <2>3. ValueInv' /\ FundsInv'
    BY <2>2, QuietTrade
  <2>4. QED
    BY <1>2, <2>1, <2>3 DEF TradeInv
<1>9. CASE Govern \/ Surroundings
  <2>1. Drifts(0) /\ Idle /\ Idle'
    BY <1>1, <1>9, OutsideDrifts
  <2>2. RecordInv'
    BY NextRecordInv
  <2>3. queue' = <<>> /\ reply' = NoReply
    BY <2>1, <2>2 DEF RecordInv, TransactionsAreClean
  <2>4. ValueInv' /\ FundsInv'
    BY <2>3, QuietTrade
  <2>5. QED
    BY <1>2, <2>1, <2>4 DEF TradeInv, Carries
<1>10. CASE UNCHANGED allVars
  <2>1. Drifts(0) /\ Idle' = Idle /\ Start' = Start
    BY <1>1, <1>10, StutterDrifts
  <2>2. UNCHANGED <<queue, reply, tmp_swap, positions, sent_funds, engine_config,
                    quote_asset_reserve, base_asset_reserve>>
    BY <1>10 DEF allVars, engineVars, runtime, settings, book, temporary, vars, state
  <2>3. ValueInv' /\ FundsInv'
    <3>1. AwaitedId' = AwaitedId /\ CallsAmm(queue') = CallsAmm(queue) /\ Native' = Native
      BY <2>2 DEF AwaitedId, Native
    <3>2. ValueInv'
      BY <1>1, <2>2, <3>1 DEF ValueInv, QuotedBy
    <3>3. FundsInv'
      BY <1>1, <2>2, <3>1 DEF FundsInv
    <3>4. QED
      BY <3>2, <3>3
  <2>4. QED
    BY <1>2, <2>1, <2>3 DEF TradeInv, Carries
<1>11. QED
  BY <1>4, <1>5, <1>6, <1>7, <1>8, <1>9, <1>10, Zenon DEF EngineNext

-----------------------------------------------------------------------------
(* The vault                                                               *)

\* How far the vault may be from its books after k transactions, in either
\* direction: nothing before the second, the rounding of one more transaction
\* with each.
LEMMA AllowedFacts ==
    /\ \A k \in Nat : Allowed(k) \in Nat
    /\ \A k \in Nat : k # 0 => Allowed(k + 1) = Allowed(k) + Room
    /\ Allowed(0) = 0 /\ Allowed(0 + 1) = 0
<1>1. Room \in Nat
  BY RoomFacts
<1> PICK r : r = Room
  OBVIOUS
<1>2. r \in Nat
  BY <1>1
<1>3. \A k \in Nat : k # 0 => r * (k - 1) \in Nat /\ r * ((k + 1) - 1) = r * (k - 1) + r
  <2> TAKE k \in Nat
  <2>1. SUFFICES ASSUME k # 0 PROVE r * (k - 1) \in Nat /\ r * ((k + 1) - 1) = r * (k - 1) + r
    OBVIOUS
  <2>2. PICK j \in Nat : k = j + 1
    <3>1. k - 1 \in Nat /\ k = (k - 1) + 1
      BY <2>1, SMT
    <3>2. QED
      BY <3>1
  <2>3. k - 1 = j /\ (k + 1) - 1 = j + 1
    BY <2>2, SMT
  <2>4. r * j \in Nat /\ r * (j + 1) = r * j + r
    BY <1>2, ProductType, SMT
  <2>5. QED
    BY <2>3, <2>4
<1>4. \A k \in Nat : k + 1 # 0 /\ 0 \in Nat
  BY SMT
<1>5. \A k \in Nat : k # 0 => Allowed(k) = r * (k - 1) /\ Allowed(k + 1) = r * ((k + 1) - 1)
  BY <1>4 DEF Allowed
<1>6. Allowed(0 + 1) = 0
  <2>1. 0 + 1 # 0 /\ (0 + 1) - 1 = 0
    BY SMT
  <2>2. \A x \in Nat : x * 0 = 0
    BY SMT
  <2>3. QED
    BY <1>1, <2>1, <2>2 DEF Allowed
<1>7. Allowed(0) = 0
  BY DEF Allowed
<1>8. \A k \in Nat : Allowed(k) \in Nat
  BY <1>3, <1>4, <1>5, <1>7
<1>9. \A k \in Nat : k # 0 => Allowed(k + 1) = Allowed(k) + Room
  BY <1>3, <1>5
<1>10. QED
  BY <1>6, <1>7, <1>8, <1>9

\* The vault covers its books, now and if the transaction is undone; and it
\* keeps nothing.
VaultTypes == /\ Surplus \in Int /\ Steps \in Nat
              /\ ~Idle => Start.txs \in Nat /\ Excess(Start) \in Int
CoverInv == /\ -Allowed(Steps) <= Surplus
            /\ ~Idle => -Allowed(Start.txs) <= Excess(Start)
KeepInv == /\ Surplus <= Allowed(Steps)
           /\ ~Idle => Excess(Start) <= Allowed(Start.txs)

LEMMA BoundsHold ==
    ASSUME RecordInv, SafetyInv, BookInv, HistoryInv, FreshInv, VaultTypes, Carries \/ Undone
    PROVE  /\ VaultTypes'
           /\ CoverInv => CoverInv'
           /\ KeepInv /\ FundingIsPaid => KeepInv'
<1>1. /\ Surplus \in Int /\ Steps \in Nat
      /\ ~Idle => Start.txs \in Nat /\ Excess(Start) \in Int
  BY DEF VaultTypes
<1>2. CASE Undone
  <2>1. Idle' /\ ~Idle /\ Surplus' = Excess(Start) /\ Steps' = Start.txs
    BY <1>2 DEF Undone
  <2>2. QED
    BY <1>1, <2>1 DEF VaultTypes, CoverInv, KeepInv
<1>3. CASE Carries
  <2>1. PICK d : Drifts(d)
    BY <1>3 DEF Carries
  <2> PICK s, t, k, l, u, v, r : /\ s = Surplus /\ t = Surplus' /\ k = Steps /\ l = Steps'
                                 /\ u = Allowed(Steps) /\ v = Allowed(Steps') /\ r = Room
    OBVIOUS
  <2>2. /\ d \in Int /\ s \in Int /\ t = s + d /\ k \in Nat /\ l \in Nat
        /\ \/ l = k /\ d = 0
           \/ l = k + 1 /\ (k = 0 => d = 0) /\ -r <= d /\ (FundingIsPaid => d <= r)
    BY <1>1, <2>1 DEF Drifts
  <2>3. u \in Nat /\ v \in Nat /\ r \in Nat
    BY <2>2, AllowedFacts, RoomFacts
  <2>4. \/ d = 0 /\ u = v
        \/ v = u + r /\ -r <= d /\ (FundingIsPaid => d <= r)
    <3>1. CASE l = k
      BY <2>2, <2>3, <3>1, SMT
    <3>2. CASE l = k + 1 /\ k = 0
      <4>1. d = 0
        <5>1. l # k
          BY <2>2, <3>2, SMT
        <5>2. QED
          BY <2>2, <3>2, <5>1
      <4>2. u = 0 /\ v = 0
        BY <3>2, AllowedFacts
      <4>3. QED
        BY <4>1, <4>2
    <3>3. CASE l = k + 1 /\ k # 0
      <4>1. v = u + r
        BY <2>2, <3>3, AllowedFacts
      <4>2. l # k
        BY <2>2, <3>3, SMT
      <4>3. QED
        BY <2>2, <4>1, <4>2
    <3>4. QED
      BY <2>2, <3>1, <3>2, <3>3
  <2>5. /\ t \in Int
        /\ -u <= s => -v <= t
        /\ s <= u /\ FundingIsPaid => t <= v
    <3>1. CASE d = 0 /\ u = v
      BY <2>2, <2>3, <3>1, SMT
    <3>2. CASE v = u + r /\ -r <= d /\ (FundingIsPaid => d <= r)
      <4>1. t \in Int /\ (-u <= s => -v <= t)
        BY <2>2, <2>3, <3>2, SMT
      <4>2. CASE FundingIsPaid
        <5>1. d <= r
          BY <3>2, <4>2
        <5>2. s <= u => t <= v
          BY <2>2, <2>3, <3>2, <5>1, SMT
        <5>3. QED
          BY <4>1, <5>2
      <4>3. QED
        BY <4>1, <4>2
    <3>3. QED
      BY <2>4, <3>1, <3>2
  <2>6. CASE Idle'
    BY <2>2, <2>5, <2>6 DEF VaultTypes, CoverInv, KeepInv
  <2>7. CASE ~Idle /\ Start' = Start
    <3>1. Excess(Start') = Excess(Start)
      BY <2>7 DEF Excess
    <3>2. QED
      BY <1>1, <2>2, <2>5, <2>7, <3>1 DEF VaultTypes, CoverInv, KeepInv
  <2>8. CASE Begins
    <3>1. Start' = Saved /\ Excess(Saved) = Surplus /\ Steps = txs /\ Saved.txs = txs
      BY <2>8 DEF Begins, Saved
    <3>2. Start'.txs = k /\ Excess(Start') = s
      BY <3>1
    <3>3. QED
      BY <1>1, <2>2, <2>5, <3>2 DEF VaultTypes, CoverInv, KeepInv
  <2>9. QED
    BY <1>3, <2>6, <2>7, <2>8 DEF Carries
<1>4. QED
  BY <1>2, <1>3

\* Equal terms add up to as many times one of them.
LEMMA SumOfSame ==
    ASSUME NEW S, IsFiniteSet(S), NEW c \in Int, NEW f, \A x \in S : f[x] = c
    PROVE  SumFunctionOnSet(f, S) = c * Cardinality(S)
<1> DEFINE Bad == {s \in SUBSET S : SumFunctionOnSet(f, s) # c * Cardinality(s)}
<1>1. SUFFICES ASSUME Bad # {} PROVE FALSE
  OBVIOUS
<1>2. PICK x \in Bad : \A y \in Bad : ~(y \subseteq x /\ y # x)
  <2>1. Bad \subseteq SUBSET S
    OBVIOUS
  <2> HIDE DEF Bad
  <2>2. QED
    BY <1>1, <2>1, MinimalSubset
<1>3. IsFiniteSet(x) /\ x \subseteq S
  BY FS_Subset
<1>4. x # {}
  <2>1. SUFFICES ASSUME x = {} PROVE FALSE
    OBVIOUS
  <2>2. SumFunctionOnSet(f, x) = 0 /\ Cardinality(x) = 0
    BY <1>3, <2>1, SumStep, FS_EmptySet
  <2>3. c * 0 = 0
    BY SMT
  <2>4. QED
    BY <1>2, <2>2, <2>3
<1>5. Others(x) \in SUBSET S /\ Others(x) \notin Bad /\ AnyOf(x) \in S
  BY <1>2, <1>4, OthersSmaller
<1>6. Cardinality(x) \in Nat /\ Cardinality(Others(x)) = Cardinality(x) - 1
  <2>1. AnyOf(x) \in x
    BY <1>4 DEF AnyOf
  <2>2. QED
    BY <1>3, <2>1, FS_RemoveElement, FS_CardinalityType DEF Others
<1>7. SumFunctionOnSet(f, x) = f[AnyOf(x)] + SumFunctionOnSet(f, Others(x))
  BY <1>3, <1>4, SumStep
<1>8. f[AnyOf(x)] = c /\ SumFunctionOnSet(f, Others(x)) = c * Cardinality(Others(x))
  BY <1>5
<1> PICK n : n = Cardinality(x)
  OBVIOUS
<1>9. c + c * (n - 1) = c * n
  BY <1>6, SMT
<1>10. SumFunctionOnSet(f, x) = c * Cardinality(x)
  BY <1>6, <1>7, <1>8, <1>9
<1>11. x \notin Bad
  BY <1>10
<1>12. QED
  BY <1>11

\* Sums whose terms are near one another are near one another.
LEMMA SumsWithin ==
    ASSUME NEW S, IsFiniteSet(S), NEW f, NEW g, NEW b \in Nat,
           \A x \in S : f[x] \in Int, \A x \in S : g[x] \in Int, \A x \in S : f[x] - g[x] <= b
    PROVE  SumFunctionOnSet(f, S) - SumFunctionOnSet(g, S) <= b * Cardinality(S)
<1> DEFINE same == [x \in S |-> b]
           above == [x \in S |-> g[x] + b]
<1>1. /\ \A x \in S : same[x] \in Int /\ above[x] = g[x] + same[x]
      /\ \A x \in S : above[x] \in Int
      /\ \A x \in S : f[x] <= above[x]
      /\ \A x \in S : same[x] = b
  <2> SUFFICES ASSUME NEW x \in S
               PROVE  /\ same[x] \in Int /\ above[x] = g[x] + same[x] /\ above[x] \in Int
                      /\ f[x] <= above[x] /\ same[x] = b
    OBVIOUS
  <2>1. same[x] = b /\ above[x] = g[x] + b /\ f[x] \in Int /\ g[x] \in Int /\ f[x] - g[x] <= b
    OBVIOUS
  <2> HIDE DEF same, above
  <2> PICK u, v : u = f[x] /\ v = g[x]
    OBVIOUS
  <2>2. u \in Int /\ v \in Int /\ u - v <= b /\ b \in Int
    BY <2>1, SMT
  <2>3. v + b \in Int /\ u <= v + b
    BY <2>2, SMT
  <2>4. QED
    BY <2>1, <2>2, <2>3
<1> HIDE DEF same, above
<1>2. SumFunctionOnSet(above, S) = SumFunctionOnSet(g, S) + SumFunctionOnSet(same, S)
  BY <1>1, SumOfSums
<1>3. SumFunctionOnSet(same, S) = b * Cardinality(S)
  BY <1>1, SumOfSame, SMT
<1>4. SumFunctionOnSet(f, S) <= SumFunctionOnSet(above, S)
  BY <1>1, SumMonotone
<1>5. SumFunctionOnSet(f, S) \in Int /\ SumFunctionOnSet(g, S) \in Int
      /\ SumFunctionOnSet(same, S) \in Int
  BY <1>1, SumType
<1>6. QED
  BY <1>2, <1>3, <1>4, <1>5, SMT

\* What a position is owed, by the books, against its claim in fractions of a
\* coin: the funding is truncated, and without a size there is none.
Worth(p) == Net(p) - FundingPayment(p)
WorthOf(p) == [trader \in Traders |-> Worth(p[trader])]
Slack == IF txs = 0 THEN 0 ELSE Decimals - 1

LEMMA WorthIsClaimed ==
    ASSUME RecordInv, SafetyInv, BookInv, HistoryInv, FreshInv, NEW trader \in Traders,
           NEW c, c = vamm_map.cumulative_premium_fraction
    PROVE  LET p == positions[trader]
           IN  /\ p \in Position /\ FundingPayment(p) \in Int /\ Worth(p) \in Int
               /\ Slack \in Nat
               /\ Decimals * Worth(p) - Claim(p, c) <= Slack
               /\ Claim(p, c) - Decimals * Worth(p) <= Slack
<1> PICK p : p = positions[trader]
  OBVIOUS
<1>1. p \in Position /\ c \in Int /\ txs \in Nat
  BY StepTypes, SurplusTypes DEF BookInv, TypeInv, ContractTypeOK
<1>2. /\ Net(p) \in Int /\ Unpaid(p, c) \in Int /\ Decimals * Net(p) \in Int
      /\ Claim(p, c) = Decimals * Net(p) - Unpaid(p, c)
  BY <1>1, ClaimTypes DEF Claim
<1> PICK f, u, v : f = FundingPayment(p) /\ u = Unpaid(p, c) /\ v = Net(p)
  OBVIOUS
<1>3. f = TruncDiv(u, Decimals)
  BY DEF FundingPayment, Unpaid
<1>4. /\ f \in Int /\ Decimals * f \in Int
      /\ Decimals * f - u <= Decimals - 1 /\ u - Decimals * f <= Decimals - 1
      /\ u = 0 => f = 0
  BY <1>2, <1>3, TruncationError
<1>5. txs = 0 => u = 0 /\ f = 0
  <2>1. SUFFICES ASSUME txs = 0 PROVE u = 0
    BY <1>4
  <2>2. p.size = 0
    BY <2>1 DEF FreshInv, Fresh, NoPosition
  <2>3. c - p.last_updated_premium_fraction \in Int
    BY <1>1, PositionFields, SMT
  <2>4. \A x \in Int : x * 0 = 0
    BY SMT
  <2>5. QED
    BY <2>2, <2>3, <2>4 DEF Unpaid
<1>6. Slack \in Nat /\ Decimals * f - u <= Slack /\ u - Decimals * f <= Slack
  <2>1. CASE txs = 0
    <3>1. u = 0 /\ f = 0
      BY <1>5, <2>1
    <3>2. Decimals * 0 - 0 <= 0 /\ 0 - Decimals * 0 <= 0 /\ 0 \in Nat
      BY DecimalsAssumption, SMT
    <3>3. QED
      BY <2>1, <3>1, <3>2 DEF Slack
  <2>2. CASE txs # 0
    <3>1. Slack = Decimals - 1
      BY <2>2 DEF Slack
    <3>2. Decimals - 1 \in Nat
      BY DecimalsAssumption, SMT
    <3>3. QED
      BY <1>4, <3>1, <3>2
  <2>3. QED
    BY <2>1, <2>2
<1>7. Worth(p) = v - f /\ Worth(p) \in Int
  <2>1. v - f \in Int
    BY <1>2, <1>4, SMT
  <2>2. QED
    BY <2>1 DEF Worth
<1>8. Decimals * (v - f) = Decimals * v - Decimals * f
  BY <1>2, <1>4, DecimalsAssumption, SMT
<1> PICK x, y, s : x = Decimals * v /\ y = Decimals * f /\ s = Slack
  OBVIOUS
<1>9. x \in Int /\ y \in Int /\ u \in Int /\ s \in Nat /\ y - u <= s /\ u - y <= s
  BY <1>2, <1>4, <1>6
<1>10. (x - y) - (x - u) <= s /\ (x - u) - (x - y) <= s
  BY <1>9, SMT
<1>11. Decimals * Worth(p) = x - y /\ Claim(p, c) = x - u
  BY <1>2, <1>7, <1>8
<1>12. QED
  BY <1>1, <1>4, <1>6, <1>7, <1>10, <1>11

\* Between transactions, the vault is as far from what it owes as the surplus
\* is from zero, up to the rounding of the funding the positions owe.
LEMMA SurplusIsVault ==
    ASSUME RecordInv, SafetyInv, BookInv, HistoryInv, FreshInv, Idle
    PROVE  /\ Vault \in Int /\ Owed \in Int /\ Surplus \in Int /\ Steps = txs /\ txs \in Nat
           /\ Slack \in Nat /\ Cardinality(Traders) \in Nat
           /\ Decimals * (Vault - Owed) \in Int
           /\ Decimals * (Vault - Owed) - Surplus <= Slack * Cardinality(Traders)
           /\ Surplus - Decimals * (Vault - Owed) <= Slack * Cardinality(Traders)
<1> PICK c : c = vamm_map.cumulative_premium_fraction
  OBVIOUS
<1> DEFINE margins == [trader \in Traders |-> positions[trader].margin
                                                - FundingPayment(positions[trader])]
           costs == [trader \in Traders |-> Signed(positions[trader].direction,
                                                   positions[trader].notional)]
           worths == WorthOf(positions)
           scaled == [trader \in Traders |-> Decimals * worths[trader]]
           claims == ClaimsOf(positions, c)
<1>1. IsFiniteSet(Traders) /\ Cardinality(Traders) \in Nat /\ Slack \in Nat /\ txs \in Nat
      /\ Decimals \in Nat
  <2>1. Decimals - 1 \in Nat /\ 0 \in Nat
    BY DecimalsAssumption, SMT
  <2>2. QED
    BY <2>1, TradersFinite, FS_CardinalityType, StepTypes, DecimalsAssumption DEF Slack
<1>2. \A trader \in Traders :
         /\ margins[trader] \in Int /\ costs[trader] \in Int /\ worths[trader] \in Int
         /\ margins[trader] = worths[trader] + costs[trader]
         /\ scaled[trader] \in Int /\ scaled[trader] = Decimals * worths[trader]
         /\ claims[trader] \in Int
         /\ scaled[trader] - claims[trader] <= Slack
         /\ claims[trader] - scaled[trader] <= Slack
  <2> TAKE trader \in Traders
  <2> PICK p, f, s : /\ p = positions[trader] /\ f = FundingPayment(p)
                     /\ s = Signed(p.direction, p.notional)
    OBVIOUS
  <2>1. /\ p \in Position /\ f \in Int /\ Worth(p) \in Int
        /\ Decimals * Worth(p) - Claim(p, c) <= Slack
        /\ Claim(p, c) - Decimals * Worth(p) <= Slack
    BY WorthIsClaimed
  <2>2. /\ p.margin \in Nat /\ p.notional \in Nat /\ s \in Int /\ c \in Int
    <3>1. p.margin \in Nat /\ p.notional \in Nat /\ p.notional \in Int /\ p.direction \in Direction
      BY <2>1, PositionFields, SMT
    <3>2. QED
      BY <3>1, Amounts, SurplusTypes
  <2>3. Claim(p, c) \in Int
    BY <2>1, <2>2, ClaimTypes
  <2>4. /\ margins[trader] = p.margin - f /\ costs[trader] = s
        /\ worths[trader] = (p.margin - s) - f /\ worths[trader] = Worth(p)
        /\ scaled[trader] = Decimals * Worth(p) /\ claims[trader] = Claim(p, c)
    BY DEF WorthOf, Worth, Net, ClaimsOf
  <2> HIDE DEF margins, costs, worths, scaled, claims
  <2> PICK m : m = p.margin
    OBVIOUS
  <2>5. m - f \in Int /\ m - f = ((m - s) - f) + s
    BY <2>1, <2>2, SMT
  <2>6. Decimals * Worth(p) \in Int
    BY <2>1, <1>1, SMT
  <2>7. QED
    BY <2>1, <2>2, <2>3, <2>4, <2>5, <2>6
<1>3. Owed = SumFunctionOnSet(margins, Traders) + (quote_asset_reserve - InitialQuote)
               - SumFunctionOnSet(costs, Traders)
  <2>1. DOMAIN margins = Traders /\ DOMAIN costs = Traders
    OBVIOUS
  <2> DEFINE s == SumFunction(margins)
             t == SumFunction(costs)
  <2>2. Owed = s + (quote_asset_reserve - InitialQuote) - t
    BY DEF Owed
  <2> HIDE DEF margins, costs
  <2>3. s = SumFunctionOnSet(margins, Traders) /\ t = SumFunctionOnSet(costs, Traders)
    BY <2>1, Zenon DEF SumFunction, SumFunctionOnSet, FoldFunction, FoldFunctionOnSet
  <2>4. QED
    BY <2>2, <2>3
<1>4. Claims(positions, c) = SumFunctionOnSet(claims, Traders)
  BY DEF Claims
<1> HIDE DEF margins, costs, worths, scaled, claims
<1> PICK sm, sc, sw, ss, sk : /\ sm = SumFunctionOnSet(margins, Traders)
                              /\ sc = SumFunctionOnSet(costs, Traders)
                              /\ sw = SumFunctionOnSet(worths, Traders)
                              /\ ss = SumFunctionOnSet(scaled, Traders)
                              /\ sk = SumFunctionOnSet(claims, Traders)
  OBVIOUS
<1>5. sm \in Int /\ sc \in Int /\ sw \in Int /\ ss \in Int /\ sk \in Int
  BY <1>1, <1>2, SumType
<1>6. sm = sw + sc
  <2>1. \A x \in Traders : worths[x] \in Int /\ costs[x] \in Int
                             /\ margins[x] = worths[x] + costs[x]
    BY <1>2
  <2>2. QED
    BY <1>1, <2>1, SumOfSums
<1>7. ss = Decimals * sw
  <2>1. Decimals \in Int
    BY <1>1, SMT
  <2>2. (\A x \in Traders : worths[x] \in Int)
        /\ (\A x \in Traders : scaled[x] = Decimals * worths[x])
    BY <1>2
  <2>3. QED
    BY <1>1, <2>1, <2>2, SumScaled
<1> PICK n, b : n = Cardinality(Traders) /\ b = Slack
  OBVIOUS
<1>8. ss - sk <= b * n /\ sk - ss <= b * n
  <2>1. /\ \A x \in Traders : scaled[x] \in Int
        /\ \A x \in Traders : claims[x] \in Int
        /\ \A x \in Traders : scaled[x] - claims[x] <= b
        /\ \A x \in Traders : claims[x] - scaled[x] <= b
    BY <1>2
  <2>2. QED
    BY <1>1, <2>1, SumsWithin
<1>9. /\ Surplus = Decimals * (Coins(balance, engine_state, quote_asset_reserve, unasked) + 0) - sk
      /\ Steps = txs
  <2>1. queue = <<>> /\ reply = NoReply
    BY IdleIsClean
  <2>2. Pending = 0
    BY <2>1, NothingPending
  <2>3. QED
    BY <1>4, <2>2, StepTypes DEF Surplus
<1> PICK q, v, k, s, o : /\ q = quote_asset_reserve - InitialQuote /\ v = Vault
                         /\ k = Coins(balance, engine_state, quote_asset_reserve, unasked)
                         /\ s = Surplus /\ o = Owed
  OBVIOUS
<1>10. q \in Int /\ v \in Int /\ k \in Int /\ k = v - q /\ s \in Int
  <2>1. s \in Int /\ k \in Int
    BY SurplusTypes
  <2>2. /\ balance[Engine] \in Nat /\ InitialBalance[Engine] \in Nat
        /\ unasked \in Nat /\ engine_state.prepaid_bad_debt \in Nat
        /\ quote_asset_reserve \in Nat /\ InitialQuote \in Nat
    BY CoinsTypes
  <2>3. q \in Int /\ v \in Int
    BY <2>2, SMT DEF Vault
  <2>4. k = v - q
    <3> PICK b0, p, a, u : /\ a = balance[Engine] /\ b0 = InitialBalance[Engine]
                           /\ p = engine_state.prepaid_bad_debt /\ u = unasked
      OBVIOUS
    <3>1. v = a - p - b0 - u /\ k = a - p - (b0 + u) - q
      BY DEF Vault, Coins
    <3>2. a \in Nat /\ b0 \in Nat /\ p \in Nat /\ u \in Nat
      BY <2>2
    <3>3. QED
      BY <2>3, <3>1, <3>2, SMT
  <2>5. QED
    BY <2>1, <2>3, <2>4
<1>11. o = sm + q - sc
  BY <1>3
<1>12. o \in Int /\ k + 0 = (v - o) + sw /\ v - o \in Int
  BY <1>5, <1>6, <1>10, <1>11, SMT
<1>13. Decimals * ((v - o) + sw) = Decimals * (v - o) + Decimals * sw
       /\ Decimals * (v - o) \in Int
  BY <1>1, <1>5, <1>12, SMT
<1> PICK w : w = Decimals * (v - o)
  OBVIOUS
<1>14. s = (w + ss) - sk
  BY <1>7, <1>9, <1>12, <1>13
<1>15. b * n \in Int
  BY <1>1, ProductType, SMT
<1>16. w - s <= b * n /\ s - w <= b * n
  <2> PICK m : m = b * n
    OBVIOUS
  <2>1. w \in Int /\ ss \in Int /\ sk \in Int /\ m \in Int /\ ss - sk <= m /\ sk - ss <= m
    BY <1>5, <1>8, <1>13, <1>15
  <2>2. QED
    BY <1>14, <2>1, SMT
<1>17. QED
  BY <1>1, <1>9, <1>10, <1>12, <1>13, <1>16

\* The rounding of k transactions, in coins.
LEMMA RoundingIsDust ==
    ASSUME NEW k \in Nat, NEW y \in Int, txs = k,
           Decimals * y <= Allowed(k) + Slack * Cardinality(Traders)
    PROVE  y <= k * (Cardinality(Traders) + 1)
<1> PICK n, D : n = Cardinality(Traders) /\ D = Decimals
  OBVIOUS
<1>1. n \in Nat /\ D \in Nat /\ D # 0 /\ Room = D * (n + 1)
  BY RoomFacts, DecimalsAssumption, SMT DEF Room
<1>2. \A z \in Int : D * y <= D * z => y <= z
  BY <1>1, SMT
<1>3. CASE k = 0
  <2>1. Allowed(k) = 0 /\ Slack = 0
    BY <1>3 DEF Allowed, Slack
  <2>2. 0 * n = 0 /\ 0 + 0 = 0 /\ D * 0 = 0 /\ 0 * (n + 1) = 0 /\ 0 \in Int
    BY <1>1, SMT
  <2>3. D * y <= 0 + 0 * n
    BY <2>1
  <2>4. D * y <= D * 0
    BY <2>2, <2>3
  <2>5. y <= 0
    BY <1>2, <2>2, <2>4
  <2>6. QED
    BY <1>3, <2>2, <2>5
<1>4. CASE k # 0
  <2>1. Allowed(k) = (D * (n + 1)) * (k - 1) /\ Slack = D - 1
    BY <1>1, <1>4 DEF Allowed, Slack
  <2>2. PICK j \in Nat : k = j + 1 /\ k - 1 = j
    <3>1. k - 1 \in Nat /\ k = (k - 1) + 1
      BY <1>4, SMT
    <3>2. QED
      BY <3>1
  <2>3. D * y <= (D * (n + 1)) * j + (D - 1) * n
    BY <2>1, <2>2
  <2>4. D * (k * (n + 1)) = (D * (n + 1)) * j + D * (n + 1)
    <3>1. k * (n + 1) = (n + 1) * j + (n + 1)
      BY <1>1, <2>2, SMT
    <3>2. (n + 1) * j \in Nat /\ n + 1 \in Nat
      BY <1>1, ProductType, SMT
    <3> PICK m, r : m = (n + 1) * j /\ r = n + 1
      OBVIOUS
    <3>3. D * (m + r) = D * m + D * r
      BY <1>1, <3>2, SMT
    <3>4. D * m = (D * r) * j
      BY <1>1, <2>2, <3>2, SMT
    <3>5. QED
      BY <3>1, <3>3, <3>4
  <2>5. (D - 1) * n <= D * (n + 1)
    <3>1. D * n \in Nat /\ (D - 1) * n = D * n - n /\ D * (n + 1) = D * n + D
      BY <1>1, ProductType, SMT
    <3> PICK m : m = D * n
      OBVIOUS
    <3>2. m - n <= m + D
      BY <1>1, <3>1, SMT
    <3>3. QED
      BY <3>1, <3>2
  <2>6. D * y <= D * (k * (n + 1))
    <3>1. D * y \in Int /\ (D * (n + 1)) * j \in Int /\ (D - 1) * n \in Int /\ D * (n + 1) \in Int
      BY <1>1, SMT
    <3> PICK a, b, c, e : a = D * y /\ b = (D * (n + 1)) * j /\ c = (D - 1) * n /\ e = D * (n + 1)
      OBVIOUS
    <3>2. a <= b + c /\ c <= e
      BY <2>3, <2>5
    <3>3. a <= b + e
      BY <3>1, <3>2, SMT
    <3>4. QED
      BY <2>4, <3>3
  <2>7. k * (n + 1) \in Int
    BY <1>1, SMT
  <2>8. QED
    BY <1>2, <2>6, <2>7
<1>5. QED
  BY <1>3, <1>4

LEMMA VaultFollows ==
    ASSUME RecordInv, SafetyInv, BookInv, HistoryInv, FreshInv
    PROVE  /\ CoverInv => VaultCoversBooks
           /\ KeepInv => VaultKeepsNothing
<1>1. SUFFICES ASSUME Idle
               PROVE  /\ CoverInv => Vault + Dust >= Owed
                      /\ KeepInv => Vault <= Owed + Dust
  BY DEF VaultCoversBooks, VaultKeepsNothing
<1> PICK v, o, s, k, n, r : /\ v = Vault /\ o = Owed /\ s = Surplus /\ k = txs
                            /\ n = Cardinality(Traders) /\ r = Slack * Cardinality(Traders)
  OBVIOUS
<1> PICK w, a : w = Decimals * (v - o) /\ a = Allowed(k)
  OBVIOUS
<1>2. /\ v \in Int /\ o \in Int /\ s \in Int /\ Steps = k /\ k \in Nat /\ n \in Nat
      /\ w \in Int /\ w - s <= r /\ s - w <= r
  BY <1>1, SurplusIsVault
<1>3. a \in Nat /\ r \in Nat
  <2>1. Slack \in Nat /\ n \in Nat
    BY <1>1, SurplusIsVault
  <2>2. QED
    BY <1>2, <2>1, AllowedFacts, ProductType
<1>4. Dust = k * (n + 1) /\ Dust \in Int
  <2>1. k * (n + 1) \in Int
    BY <1>2, SMT
  <2>2. QED
    BY <2>1 DEF Dust
<1>5. Decimals * (o - v) = -w /\ o - v \in Int /\ v - o \in Int
  BY <1>2, DecimalsAssumption, SMT
<1>6. ASSUME CoverInv PROVE v + Dust >= o
  <2>1. -a <= s
    BY <1>2, <1>6 DEF CoverInv
  <2>2. -w <= a + r
    BY <1>2, <1>3, <2>1, SMT
  <2>3. o - v <= k * (n + 1)
    BY <1>2, <1>5, <2>2, RoundingIsDust
  <2>4. o - v <= Dust
    BY <1>4, <2>3
  <2>5. QED
    BY <1>2, <1>4, <2>4, SMT
<1>7. ASSUME KeepInv PROVE v <= o + Dust
  <2>1. s <= a
    BY <1>2, <1>7 DEF KeepInv
  <2>2. w <= a + r
    BY <1>2, <1>3, <2>1, SMT
  <2>3. v - o <= k * (n + 1)
    BY <1>2, <1>5, <2>2, RoundingIsDust
  <2>4. v - o <= Dust
    BY <1>4, <2>3
  <2>5. QED
    BY <1>2, <1>4, <2>4, SMT
<1>8. QED
  BY <1>6, <1>7

LEMMA InitVault ==
    ASSUME EngineInit
    PROVE  TradeInv /\ VaultTypes /\ CoverInv /\ KeepInv
<1>1. RecordInv /\ SafetyInv /\ BookInv /\ HistoryInv
  BY InitRecordInv, InitSafe, InitBook, InitHistory
<1>2. /\ Idle /\ reply = NoReply /\ queue = <<>> /\ balance = InitialBalance /\ txs = 0
      /\ positions = [trader \in Traders |-> NoPosition]
      /\ engine_state.prepaid_bad_debt = 0 /\ quote_asset_reserve = InitialQuote
      /\ vamm_map.cumulative_premium_fraction = 0 /\ unasked = 0
  BY DEF EngineInit, Init, Idle
<1>3. FreshInv
  BY <1>2 DEF FreshInv, Fresh
<1>4. ValueInv /\ FundsInv
  <2>1. Len(<<>>) = 0 /\ NoReply.id = "none"
    BY SMT DEF NoReply
  <2>2. AwaitedId \notin SwapIds /\ AwaitedId \notin TradeIds
    BY <1>2, <2>1, ReplyIds DEF AwaitedId, Awaits, CallsAmm
  <2>3. QED
    BY <2>2 DEF ValueInv, FundsInv
<1>5. Surplus = 0 /\ Surplus \in Int
  <2>1. Surplus \in Int /\ Pending = 0
    BY <1>1, <1>2, SurplusTypes, NothingPending
  <2>2. Coins(balance, engine_state, quote_asset_reserve, unasked) = 0
    <3> PICK b, q : b = InitialBalance[Engine] /\ q = InitialQuote
      OBVIOUS
    <3>1. b \in Nat /\ q \in Nat
      BY <1>1, CoinsTypes
    <3>2. b - 0 - (b + 0) - (q - q) = 0
      BY <3>1, SMT
    <3>3. QED
      BY <1>2, <3>2 DEF Coins
  <2>3. Claims(positions, 0) = 0
    <3>1. \A trader \in Traders : ClaimsOf(positions, 0)[trader] = 0
      <4>1. Claim(NoPosition, 0) = 0
        <5>1. NoPosition.margin = 0 /\ NoPosition.notional = 0 /\ NoPosition.size = 0
              /\ NoPosition.last_updated_premium_fraction = 0
          BY DEF NoPosition
        <5>2. 0 - 0 = 0 /\ 0 * 0 = 0 /\ Decimals * 0 = 0
          BY DecimalsAssumption, SMT
        <5>3. QED
          BY <5>1, <5>2, SignedNothing DEF Claim, Net, Unpaid
      <4>2. QED
        BY <1>2, <4>1 DEF ClaimsOf
    <3>2. QED
      BY <3>1, TradersFinite, SumOfZeros DEF Claims
  <2>4. Decimals * (0 + 0) - 0 = 0
    BY DecimalsAssumption, SMT
  <2>5. QED
    BY <1>2, <2>1, <2>2, <2>3, <2>4 DEF Surplus
<1>6. Steps = 0
  BY <1>2 DEF Steps
<1>7. Allowed(0) = 0 /\ -0 <= 0 /\ 0 <= 0 /\ 0 \in Nat
  BY SMT DEF Allowed
<1>8. TradeInv
  BY <1>3, <1>4 DEF TradeInv
<1>9. QED
  BY <1>2, <1>5, <1>6, <1>7, <1>8 DEF VaultTypes, CoverInv, KeepInv

\* The inductive invariants: what the records say of the trade under way, and
\* how far the vault can be from its books.
LEMMA NextVault ==
    ASSUME RecordInv, SafetyInv, BookInv, HistoryInv, BookInv', MatchInv, OrdinaryMarket, ExactReplies,
           TradeInv, VaultTypes, [EngineNext]_allVars
    PROVE  /\ TradeInv' /\ VaultTypes'
           /\ CoverInv => CoverInv'
           /\ KeepInv /\ FundingIsPaid => KeepInv'
BY NextTrade, BoundsHold DEF TradeInv

LEMMA VaultInvariance ==
    EngineSpec /\ []OrdinaryMarket /\ []ExactReplies
      => [](RecordInv /\ SafetyInv /\ BookInv /\ HistoryInv /\ TradeInv /\ VaultTypes /\ CoverInv)
<1>1. EngineInit => TradeInv /\ VaultTypes /\ CoverInv
  BY InitVault
<1>2. /\ RecordInv /\ SafetyInv /\ BookInv /\ HistoryInv /\ MatchInv
      /\ OrdinaryMarket /\ ExactReplies /\ TradeInv /\ VaultTypes /\ CoverInv
      /\ BookInv' /\ [EngineNext]_allVars
      => (TradeInv /\ VaultTypes /\ CoverInv)'
  BY NextVault
<1>3. QED
  BY <1>1, <1>2, HistoryInvariance, MatchInvariance, PTL DEF EngineSpec

\* However trades, reversals, closes, liquidations, fundings, deposits and
\* failures follow one another, the vault holds between them what the engine's
\* books owe, less a rounding of one coin for each position and transaction:
\* the margins, the funding, and the pnl that unwinding the AMM would realize;
\* and on top of that what came with messages that ask for no coins.
\* It is so in an ordinary market, while every reply is one that loses track of
\* nothing (ExactReplies).
THEOREM VaultIsEnough ==
    EngineSpec /\ []OrdinaryMarket /\ []ExactReplies => []VaultCoversBooks
<1>1. RecordInv /\ SafetyInv /\ BookInv /\ HistoryInv /\ TradeInv /\ CoverInv => VaultCoversBooks
  BY VaultFollows DEF TradeInv
<1>2. QED
  BY <1>1, VaultInvariance, PTL

\* And but for the coins that came with messages which ask for none, it holds
\* no more than that, if it can pay each funding that it owes the insurance
\* fund.
THEOREM VaultIsNotTooMuch ==
    EngineSpec /\ []OrdinaryMarket /\ []ExactReplies /\ []FundingIsPaid => []VaultKeepsNothing
<1>1. EngineInit => KeepInv
  BY InitVault
<1>2. /\ RecordInv /\ SafetyInv /\ BookInv /\ HistoryInv /\ MatchInv
      /\ OrdinaryMarket /\ ExactReplies /\ FundingIsPaid /\ TradeInv /\ VaultTypes /\ KeepInv
      /\ BookInv' /\ [EngineNext]_allVars
      => KeepInv'
  BY NextVault
<1>3. RecordInv /\ SafetyInv /\ BookInv /\ HistoryInv /\ TradeInv /\ KeepInv => VaultKeepsNothing
  BY VaultFollows DEF TradeInv
<1>4. QED
  BY <1>1, <1>2, <1>3, MatchInvariance, VaultInvariance, PTL DEF EngineSpec
=============================================================================

----------------------------- MODULE VammProofs -----------------------------
(***************************************************************************)
(* The safety of the AMM for every choice of reserves, decimals, accounts, *)
(* amounts and block times.                                                *)
(***************************************************************************)
EXTENDS Vamm, OperatorProofs

-----------------------------------------------------------------------------
(* What the swap arithmetic guarantees, whatever calls it.                 *)

\* Truncating division and its remainder, as used throughout.
LEMMA DivMod ==
    ASSUME NEW a \in Nat, NEW b \in Nat \ {0}
    PROVE  /\ a \div b \in Nat /\ a % b \in 0 .. (b - 1)
           /\ a = b * (a \div b) + (a % b)
  BY SMT

LEMMA ProductType ==
    ASSUME NEW a \in Nat, NEW b \in Nat
    PROVE  a * b \in Nat
  BY SMT

\* A product grows with either factor, strictly if the other is positive.
LEMMA ProductMonotone ==
    ASSUME NEW a \in Nat, NEW b \in Nat, NEW c \in Nat, a <= b
    PROVE  a * c <= b * c /\ c * a <= c * b
  BY SMT

\* And so an inequality of products with a common positive factor is one of
\* the other factors.
LEMMA CancelLess ==
    ASSUME NEW a \in Int, NEW b \in Int, NEW c \in Nat, c * a < c * b
    PROVE  a < b
  BY SMT

\* Scaling the constant product down by Decimals loses less than Decimals.
LEMMA InvariantKBounds ==
    ASSUME NEW quote \in Nat, NEW base \in Nat
    PROVE  /\ InvariantK(quote, base) \in Nat
           /\ InvariantK(quote, base) * Decimals <= quote * base
           /\ quote * base < InvariantK(quote, base) * Decimals + Decimals
<1> DEFINE product == quote * base
           k == product \div Decimals
<1>1. product \in Nat /\ InvariantK(quote, base) = k
  BY SMT DEF InvariantK
<1> HIDE DEF product
<1>2. k \in Nat /\ product % Decimals \in 0 .. (Decimals - 1)
      /\ product = Decimals * k + (product % Decimals)
  BY <1>1, DivMod, DecimalsAssumption
<1> HIDE DEF k
<1>3. k * Decimals <= product /\ product < k * Decimals + Decimals
  BY <1>1, <1>2, DecimalsAssumption, SMT
<1>4. QED
  BY <1>1, <1>2, <1>3 DEF product

\* A larger product has at least as large an invariant: the form in which the
\* bounds of a swap give the monotonicity of k.
LEMMA InvariantKMonotone ==
    ASSUME NEW quote \in Nat, NEW base \in Nat, NEW k \in Nat, k * Decimals <= quote * base
    PROVE  k <= InvariantK(quote, base)
<1> DEFINE j == InvariantK(quote, base)
<1>1. j \in Nat /\ quote * base < j * Decimals + Decimals
  BY InvariantKBounds
<1> HIDE DEF j
<1>2. Decimals * k < Decimals * (j + 1)
  BY <1>1, DecimalsAssumption, SMT
<1>3. k < j + 1
  BY <1>1, <1>2, CancelLess, DecimalsAssumption
<1>4. k <= j
  BY <1>1, <1>3, SMT
<1>5. QED
  BY <1>4 DEF j

\* Pricing a swap that adds to the named reserve: the correction by one never
\* underflows, the amount paid out never exceeds the priced reserve, and what
\* is left of it still covers the invariant.
LEMMA ExchangeAdd ==
    ASSUME NEW amount \in Nat \ {0}, NEW named \in Nat, NEW priced \in Nat \ {0}
    PROVE  /\ Exchange(AddToAmm, amount, named, priced) \in 0 .. priced
           /\ InvariantK(named, priced) * Decimals
                <= (named + amount) * (priced - Exchange(AddToAmm, amount, named, priced))
<1> DEFINE after == named + amount
           kd == InvariantK(named, priced) * Decimals
           d == kd \div after
           r == kd % after
<1>1. /\ after \in Nat \ {0} /\ kd \in Nat
      /\ After(AddToAmm, amount, named) = after
      /\ modulo(InvariantK(named, priced), after) = r
  <2>1. after \in Nat \ {0}
    BY SMT
  <2>2. kd \in Nat
    BY InvariantKBounds, DecimalsAssumption, SMT
  <2>3. After(AddToAmm, amount, named) = after
    BY DEF After
  <2>4. modulo(InvariantK(named, priced), after) = r
    BY DEF modulo
  <2> QED BY <2>1, <2>2, <2>3, <2>4
<1>2. d \in Nat /\ r \in 0 .. (after - 1) /\ kd = after * d + r
  <2> HIDE DEF after, kd
  <2> QED BY <1>1, DivMod
<1>3. after * d < after * priced
  <2>1. kd <= named * priced
    BY InvariantKBounds
  <2>2. after * priced = named * priced + amount * priced /\ amount * priced > 0
    BY SMT
  <2>3. after * d <= kd
    <3> HIDE DEF after, kd, d, r
    <3> QED BY <1>1, <1>2, SMT
  <2> HIDE DEF after, kd, d
  <2> QED BY <1>1, <1>2, <2>1, <2>2, <2>3, SMT
<1>4. d < priced
  <2> HIDE DEF after, d
  <2> QED BY <1>1, <1>2, <1>3, CancelLess
<1>5. Gap(d, priced) = priced - d
  <2> HIDE DEF d
  <2> QED BY <1>2, <1>4, SMT DEF Gap
<1>6. Exchange(AddToAmm, amount, named, priced) = IF r = 0 THEN priced - d ELSE priced - d - 1
  BY <1>1, <1>5 DEF Exchange
<1>7. kd <= after * d + r /\ (r # 0 => kd <= after * (d + 1))
  <2> HIDE DEF after, kd, d, r
  <2> QED BY <1>1, <1>2, SMT
<1>8. /\ Exchange(AddToAmm, amount, named, priced) \in 0 .. priced
      /\ priced - Exchange(AddToAmm, amount, named, priced) = IF r = 0 THEN d ELSE d + 1
  <2> HIDE DEF d, r
  <2> QED BY <1>1, <1>2, <1>4, <1>6, SMT
<1>9. kd <= after * (priced - Exchange(AddToAmm, amount, named, priced))
  <2> HIDE DEF after, kd, d, r
  <2> QED BY <1>1, <1>2, <1>7, <1>8, SMT
<1>10. QED
  BY <1>8, <1>9

\* Pricing a swap that removes from the named reserve: what the trader pays in
\* brings the priced reserve up to the invariant.
LEMMA ExchangeRemove ==
    ASSUME NEW amount \in Nat \ {0}, NEW named \in Nat, NEW priced \in Nat,
           amount < named
    PROVE  /\ Exchange(RemoveFromAmm, amount, named, priced) \in Nat
           /\ InvariantK(named, priced) * Decimals
                <= (named - amount) * (priced + Exchange(RemoveFromAmm, amount, named, priced))
<1> DEFINE after == named - amount
           kd == InvariantK(named, priced) * Decimals
           d == kd \div after
           r == kd % after
           paid == Exchange(RemoveFromAmm, amount, named, priced)
<1>0. RemoveFromAmm # AddToAmm
  BY DEF AddToAmm, RemoveFromAmm
<1>1. /\ after \in Nat \ {0} /\ kd \in Nat
      /\ After(RemoveFromAmm, amount, named) = after
      /\ modulo(InvariantK(named, priced), after) = r
  <2>1. after \in Nat \ {0}
    BY SMT
  <2>2. kd \in Nat
    BY InvariantKBounds, DecimalsAssumption, SMT
  <2>3. After(RemoveFromAmm, amount, named) = after
    BY <1>0 DEF After
  <2>4. modulo(InvariantK(named, priced), after) = r
    BY DEF modulo
  <2> QED BY <2>1, <2>2, <2>3, <2>4
<1>2. d \in Nat /\ r \in 0 .. (after - 1) /\ kd = after * d + r
  <2> HIDE DEF after, kd
  <2> QED BY <1>1, DivMod
<1>3. Gap(d, priced) \in Nat /\ d <= priced + Gap(d, priced)
  <2> HIDE DEF d
  <2> QED BY <1>2, SMT DEF Gap
<1>4. paid = IF r = 0 THEN Gap(d, priced) ELSE Gap(d, priced) + 1
  BY <1>0, <1>1 DEF Exchange
<1>5. paid \in Nat /\ (IF r = 0 THEN d ELSE d + 1) <= priced + paid
  <2> HIDE DEF d, r, paid
  <2> QED BY <1>2, <1>3, <1>4, SMT
<1>6. kd <= after * (IF r = 0 THEN d ELSE d + 1)
  <2> HIDE DEF after, kd, d, r
  <2> QED BY <1>1, <1>2, SMT
<1>7. after * (IF r = 0 THEN d ELSE d + 1) <= after * (priced + paid)
  <2> HIDE DEF after, kd, d, r, paid
  <2> QED BY <1>1, <1>2, <1>5, ProductMonotone
<1>8. kd <= after * (priced + paid)
  <2> HIDE DEF after, kd, d, r, paid
  <2> QED BY <1>1, <1>2, <1>5, <1>6, <1>7, SMT
<1>9. QED
  BY <1>5, <1>8

\* A swap priced by Exchange, in either direction and for any amount, leaves
\* two reserves whose product still covers the invariant it started from.
LEMMA TradeKeepsInvariant ==
    ASSUME NEW direction \in Direction, NEW amount \in Nat,
           NEW named \in Nat \ {0}, NEW priced \in Nat \ {0}, NEW paid,
           paid = IF amount = 0 THEN 0 ELSE Exchange(direction, amount, named, priced),
           amount # 0 => After(direction, amount, named) \in Nat \ {0}
    PROVE  /\ paid \in Nat
           /\ After(direction, amount, named) \in Nat
           /\ After(Flip(direction), paid, priced) \in Nat
           /\ InvariantK(named, priced) * Decimals
                <= After(direction, amount, named) * After(Flip(direction), paid, priced)
<1>0. RemoveFromAmm # AddToAmm
  BY DEF AddToAmm, RemoveFromAmm
<1>1. CASE amount = 0
  <2>1. After(direction, amount, named) = named
    BY <1>1, SMT DEF After
  <2>2. paid = 0 /\ After(Flip(direction), paid, priced) = priced
    BY <1>1, SMT DEF After
  <2>3. InvariantK(named, priced) * Decimals <= named * priced
    BY InvariantKBounds
  <2>4. named \in Nat /\ priced \in Nat /\ paid \in Nat
    BY <2>2, SMT
  <2>5. QED
    BY <2>1, <2>2, <2>3, <2>4, Zenon
<1>2. CASE amount # 0 /\ direction = AddToAmm
  <2>1. After(direction, amount, named) = named + amount
    BY <1>2 DEF After
  <2>2. paid \in 0 .. priced
        /\ InvariantK(named, priced) * Decimals <= (named + amount) * (priced - paid)
    BY <1>2, ExchangeAdd
  <2>3. After(Flip(direction), paid, priced) = priced - paid
    BY <1>0, <1>2 DEF After, Flip
  <2>4. named + amount \in Nat /\ priced - paid \in Nat /\ paid \in Nat
    BY <2>2, SMT
  <2>5. QED
    BY <2>1, <2>2, <2>3, <2>4
<1>3. CASE amount # 0 /\ direction = RemoveFromAmm
  <2>1. After(direction, amount, named) = named - amount
    BY <1>0, <1>3 DEF After
  <2>2. amount < named /\ named - amount \in Nat
    BY <1>3, <2>1, SMT
  <2>3. paid \in Nat
        /\ InvariantK(named, priced) * Decimals <= (named - amount) * (priced + paid)
    BY <1>3, <2>2, ExchangeRemove
  <2>4. After(Flip(direction), paid, priced) = priced + paid
    BY <1>0, <1>3 DEF After, Flip
  <2>5. priced + paid \in Nat
    BY <2>3, SMT
  <2>6. QED
    BY <2>1, <2>2, <2>3, <2>4, <2>5
<1>4. QED
  BY <1>1, <1>2, <1>3 DEF Direction

\* Trading back for less than the value of `size' of base asset moves no more
\* base asset than that: so with at least one unit in either reserve, less than
\* which the scaling of the invariant may lose.
LEMMA BuyingBackForLess ==
    ASSUME NEW quote \in Nat, NEW base \in Nat, quote >= Decimals, base >= Decimals,
           NEW direction \in Direction, NEW size \in Nat \ {0}, NEW amount \in Nat \ {0},
           After(direction, size, base) \in Nat \ {0},
           After(Flip(direction), amount, quote) \in Nat \ {0},
           amount < Exchange(direction, size, base, quote)
    PROVE  Exchange(Flip(direction), amount, quote, base) <= size
<1> DEFINE kd == InvariantK(base, quote) * Decimals
<1>1. /\ kd \in Nat /\ kd <= quote * base /\ quote * base < kd + Decimals
      /\ InvariantK(quote, base) * Decimals = kd
  <2>1. quote * base = base * quote
    BY SMT
  <2>2. InvariantK(quote, base) = InvariantK(base, quote)
    BY <2>1 DEF InvariantK
  <2>3. /\ InvariantK(base, quote) \in Nat /\ kd <= base * quote
        /\ base * quote < kd + Decimals
    BY InvariantKBounds
  <2>4. kd \in Nat
    BY <2>3, ProductType, DecimalsAssumption
  <2>5. QED
    BY <2>1, <2>2, <2>3, <2>4
<1>2. AddToAmm # RemoveFromAmm /\ Decimals \in Nat
  BY DecimalsAssumption DEF AddToAmm, RemoveFromAmm
<1>3. CASE direction = AddToAmm
  <2> DEFINE v == Exchange(AddToAmm, size, base, quote)
             a == quote - amount
             d == kd \div a
             r == kd % a
  <2>1. Flip(direction) = RemoveFromAmm
    BY <1>3 DEF Flip
  <2>2. After(RemoveFromAmm, amount, quote) = a /\ a \in Nat \ {0}
    BY <1>2, <2>1 DEF After
  <2>3. quote \in Nat \ {0}
    BY DecimalsAssumption, SMT
  <2>4. v \in 0 .. quote /\ kd <= (base + size) * (quote - v)
    BY <2>3, ExchangeAdd
  <2>5. Exchange(RemoveFromAmm, amount, quote, base) =
           IF r = 0 THEN Gap(d, base) ELSE Gap(d, base) + 1
    BY <1>1, <1>2, <2>2 DEF Exchange, modulo
  <2>6. a + 1 <= quote /\ quote - v < a /\ quote - v \in Nat
    BY <1>3, <2>2, <2>4, SMT
  <2>7. a * base + amount * base = quote * base
    BY SMT
  <2> HIDE DEF kd, v, a
  <2>8. d \in Nat /\ r \in 0 .. (a - 1) /\ kd = a * d + r
    BY <1>1, <2>2, DivMod
  <2>9. r \in Nat /\ r < a
    BY <2>2, <2>8, SMT
  <2> HIDE DEF d, r
  <2>10. a * d < a * (base + size)
    <3> DEFINE b == base + size
               w == quote - v
    <3>1. b \in Nat \ {0} /\ w \in Nat /\ w < a /\ kd <= b * w
      BY <2>4, <2>6, SMT
    <3> HIDE DEF b, w
    <3>2. b * w < b * a
      BY <2>2, <3>1, SMT
    <3>3. b * w \in Nat /\ b * a \in Nat /\ a * d \in Nat /\ b * a = a * b
      BY <2>2, <2>8, <3>1, SMT
    <3>4. a * d < a * b
      BY <1>1, <2>8, <2>9, <3>1, <3>2, <3>3, SMT
    <3>5. QED
      BY <3>4 DEF b
  <2>11. a * base < a * (d + 1)
    <3>1. amount * base >= Decimals /\ amount * base \in Nat
      <4>1. 1 * base <= amount * base
        BY ProductMonotone, SMT
      <4>2. QED
        BY <1>2, <4>1, SMT
    <3>2. a * base \in Nat /\ a * d \in Nat /\ quote * base \in Nat
      BY <2>2, <2>8, SMT
    <3>3. a * base < kd
      BY <1>1, <1>2, <2>7, <3>1, <3>2, SMT
    <3>4. a * (d + 1) = a * d + a
      BY <2>2, <2>8, SMT
    <3>5. QED
      BY <1>1, <2>2, <2>8, <2>9, <3>2, <3>3, <3>4, SMT
  <2>12. d < base + size /\ base < d + 1
    BY <2>2, <2>8, <2>10, <2>11, CancelLess, SMT
  <2>13. Gap(d, base) = d - base
    BY <2>8, <2>12, SMT DEF Gap
  <2>14. QED
    BY <2>1, <2>5, <2>8, <2>12, <2>13, SMT
<1>4. CASE direction = RemoveFromAmm
  <2> DEFINE a == quote + amount
             left == base - size
             d == kd \div left
             r == kd % left
             e == kd \div a
             s == kd % a
  <2>1. Flip(direction) = AddToAmm
    BY <1>2, <1>4 DEF Flip
  <2>2. /\ After(RemoveFromAmm, size, base) = left /\ left \in Nat \ {0}
        /\ After(AddToAmm, amount, quote) = a /\ a \in Nat \ {0}
    BY <1>2, <1>4, <2>1, SMT DEF After
  <2>3. Exchange(RemoveFromAmm, size, base, quote) =
           IF r = 0 THEN Gap(d, quote) ELSE Gap(d, quote) + 1
    BY <1>2, <2>2 DEF Exchange, modulo
  <2>4. Exchange(AddToAmm, amount, quote, base) =
           IF s = 0 THEN Gap(e, base) ELSE Gap(e, base) - 1
    BY <1>1, <2>2 DEF Exchange, modulo
  <2>5. /\ left * quote + size * quote = quote * base
        /\ a * base = quote * base + amount * base /\ quote * base \in Nat
    BY SMT
  <2> HIDE DEF kd, left, a
  <2>6. d \in Nat /\ r \in 0 .. (left - 1) /\ kd = left * d + r
    BY <1>1, <2>2, DivMod
  <2>7. e \in Nat /\ s \in 0 .. (a - 1) /\ kd = a * e + s
    BY <1>1, <2>2, DivMod
  <2> HIDE DEF d, r, e, s
  <2>8. r \in Nat /\ r < left /\ s \in Nat /\ s < a
    <3>1. \A m \in Nat \ {0} : \A x \in 0 .. (m - 1) : x \in Nat /\ x < m
      BY SMT
    <3>2. QED
      BY <2>2, <2>6, <2>7, <3>1
  <2>9. quote <= d
    <3>1. size * quote >= Decimals /\ size * quote \in Nat
      <4>1. 1 * quote <= size * quote
        BY ProductMonotone, SMT
      <4>2. QED
        BY <1>2, <4>1, SMT
    <3>2. left * d \in Nat /\ left * quote \in Nat /\ left * (d + 1) = left * d + left
      BY <2>2, <2>6, SMT
    <3>3. left * quote < kd
      BY <1>1, <1>2, <2>5, <3>1, <3>2, SMT
    <3>4. left * quote < left * (d + 1)
      BY <1>1, <2>2, <2>6, <2>8, <3>2, <3>3, SMT
    <3>5. quote < d + 1
      BY <2>2, <2>6, <3>4, CancelLess, SMT
    <3>6. QED
      BY <2>6, <3>5, SMT
  <2>10. a <= (IF r = 0 THEN d - 1 ELSE d)
    <3>1. Gap(d, quote) = d - quote
      BY <2>6, <2>9, SMT DEF Gap
    <3>2. amount < (IF r = 0 THEN d - quote ELSE d - quote + 1)
      BY <1>4, <2>3, <3>1
    <3>3. QED
      BY <2>6, <3>2, SMT DEF a
  <2>11. left * a < kd
    <3>1. left * a \in Nat /\ left * d \in Nat /\ left * (a + 1) = left * a + left
      BY <2>2, <2>6, SMT
    <3>2. CASE r = 0
      <4>1. a + 1 <= d
        BY <2>2, <2>6, <2>10, <3>2, SMT
      <4>2. left * (a + 1) <= left * d
        BY <2>2, <2>6, <4>1, ProductMonotone, SMT
      <4>3. QED
        BY <1>1, <2>2, <2>6, <3>1, <3>2, <4>2, SMT
    <3>3. CASE r # 0
      <4>1. left * a <= left * d
        BY <2>2, <2>6, <2>10, <3>3, ProductMonotone
      <4>2. QED
        BY <1>1, <2>6, <2>8, <3>1, <3>3, <4>1, SMT
    <3>4. QED
      BY <3>2, <3>3
  <2>12. left < e + 1
    <3>1. a * (e + 1) = a * e + a /\ a * e \in Nat /\ left * a = a * left /\ a * left \in Nat
      BY <2>2, <2>7, SMT
    <3>2. a * left < a * (e + 1)
      BY <1>1, <2>2, <2>7, <2>8, <2>11, <3>1, SMT
    <3>3. QED
      BY <2>2, <2>7, <3>2, CancelLess, SMT
  <2>13. e < base
    <3>1. a * e \in Nat /\ amount * base \in Nat \ {0} /\ a * base \in Nat
      BY <1>2, <2>2, <2>7, DecimalsAssumption, SMT
    <3>2. a * e < a * base
      BY <1>1, <2>5, <2>7, <2>8, <3>1, SMT
    <3>3. QED
      BY <2>2, <2>7, <3>2, CancelLess, SMT
  <2>14. Gap(e, base) = base - e
    BY <2>7, <2>13, SMT DEF Gap
  <2>15. base - e <= size
    BY <2>2, <2>7, <2>12, SMT DEF left
  <2>16. QED
    BY <2>1, <2>4, <2>7, <2>14, <2>15, SMT
<1>5. QED
  BY <1>3, <1>4 DEF Direction

\* Two numbers whose product is positive are positive.
LEMMA PositiveFactors ==
    ASSUME NEW a \in Nat, NEW b \in Nat, NEW c \in Nat \ {0}, c <= a * b
    PROVE  a # 0 /\ b # 0
  BY SMT

\* The spot price of nonempty reserves is a natural number.
LEMMA SpotPriceType ==
    ASSUME NEW quote \in Nat, NEW base \in Nat \ {0}
    PROVE  SpotPrice(quote, base) \in Nat
<1>1. quote * Decimals \in Nat
  BY DecimalsAssumption, SMT
<1>2. QED
  BY <1>1, DivMod DEF SpotPrice

-----------------------------------------------------------------------------
(* The inductive invariant.                                                *)

\* The reserves cover the constant product the AMM was instantiated with.
ReservesCoverInvariant ==
    InvariantK(InitialQuote, InitialBase) * Decimals
        <= quote_asset_reserve * base_asset_reserve

\* Neither reserve is ever emptied, so every price is defined.
ReservesNotEmpty == quote_asset_reserve # 0 /\ base_asset_reserve # 0

\* The last snapshot is the reserves of now, no later than this block, and
\* the first snapshot is that of the block of instantiation.
LastSnapshotIsCurrent ==
    /\ snapshots[Last].quote_asset_reserve = quote_asset_reserve
    /\ snapshots[Last].base_asset_reserve = base_asset_reserve
    /\ snapshots[Last].block_height <= height
    /\ snapshots[1].block_height = 1
    /\ height >= 1

ReserveInv ==
    /\ TypeOK
    /\ NetPositionMatchesReserve
    /\ ReservesCoverInvariant
    /\ ReservesNotEmpty

\* Snapshots s of a chain that is in block `block' at `time': their reserves
\* can be priced, each is younger than those before it, and the last of an
\* earlier block older than now.
InOrder(s, time, block) ==
    /\ \A i \in 1 .. Len(s) : s[i].base_asset_reserve # 0
    /\ \A i \in 1 .. Len(s) : \A j \in i + 1 .. Len(s) : s[i].timestamp < s[j].timestamp
    /\ s[1].timestamp = StartTime
    /\ s[Len(s)].timestamp <= time
    /\ s[Len(s)].block_height # block => s[Len(s)].timestamp < time

SnapshotInv ==
    /\ LastSnapshotIsCurrent
    /\ BoundaryIsClosingPrice
    /\ InOrder(snapshots, now, height)

-----------------------------------------------------------------------------
\* The constant product at instantiation is at least 1 in units of Decimals.
LEMMA InitialProduct ==
    /\ InitialQuote \in Nat \ {0} /\ InitialBase \in Nat \ {0}
    /\ InvariantK(InitialQuote, InitialBase) \in Nat \ {0}
    /\ InvariantK(InitialQuote, InitialBase) * Decimals \in Nat \ {0}
<1>1. /\ InitialQuote \in Nat \ {0} /\ InitialBase \in Nat \ {0}
      /\ InitialQuote >= Decimals /\ InitialBase >= Decimals
  BY ReservesAssumption, DecimalsAssumption, MaxUintAssumption, SMT DEF Uint
<1>2. Decimals * Decimals <= InitialQuote * InitialBase
  <2>1. Decimals * Decimals <= InitialQuote * Decimals
    BY <1>1, DecimalsAssumption, ProductMonotone
  <2>2. InitialQuote * Decimals <= InitialQuote * InitialBase
    BY <1>1, DecimalsAssumption, ProductMonotone
  <2>3. QED
    BY <1>1, <2>1, <2>2, DecimalsAssumption, SMT
<1>3. Decimals <= InvariantK(InitialQuote, InitialBase)
  BY <1>1, <1>2, InvariantKMonotone, DecimalsAssumption
<1>4. InvariantK(InitialQuote, InitialBase) \in Nat
  BY <1>1, InvariantKBounds
<1> DEFINE k == InvariantK(InitialQuote, InitialBase)
<1>5. k \in Nat \ {0} /\ k * Decimals \in Nat \ {0}
  <2> HIDE DEF k
  <2>1. k \in Nat \ {0}
    BY <1>3, <1>4, DecimalsAssumption, SMT DEF k
  <2>2. QED
    BY <2>1, DecimalsAssumption, SMT
<1>6. QED
  BY <1>1, <1>5

\* What a swap does to the reserves, whichever message asked for it.
ReserveStep(direction, quote, base) ==
    /\ direction \in Direction /\ quote \in Nat /\ base \in Nat
    /\ quote_asset_reserve' = After(direction, quote, quote_asset_reserve)
    /\ base_asset_reserve' = After(Flip(direction), base, base_asset_reserve)
    /\ quote_asset_reserve' \in Nat /\ base_asset_reserve' \in Nat
    /\ total_position_size' = After(direction, base, total_position_size)
    /\ InvariantK(quote_asset_reserve, base_asset_reserve) * Decimals
         <= quote_asset_reserve' * base_asset_reserve'

\* A swap, be it of an amount of Swap or of one the margin engine computed.
Traded ==
    \E direction \in Direction, quote \in Nat, base \in Nat, can_go_over \in BOOLEAN :
        /\ ReserveStep(direction, quote, base)
        /\ UpdateReserve(direction, quote, base, can_go_over)

LEMMA SwapInputReserves ==
    ASSUME TypeOK, ReservesNotEmpty,
           NEW sender, NEW direction \in Direction, NEW quote \in Nat, NEW limit,
           NEW can_go_over, SwapInput(sender, direction, quote, limit, can_go_over)
    PROVE  \E base \in Nat : /\ ReserveStep(direction, quote, base)
                             /\ UpdateReserve(direction, quote, base, can_go_over)
<1> DEFINE base == GetInputPrice(direction, quote, quote_asset_reserve, base_asset_reserve)
<1>1. UpdateReserve(direction, quote, base, can_go_over)
  BY DEF SwapInput
<1>2. quote_asset_reserve \in Nat \ {0} /\ base_asset_reserve \in Nat \ {0}
  BY DEF TypeOK, ReservesNotEmpty
<1>3. base = IF quote = 0 THEN 0
             ELSE Exchange(direction, quote, quote_asset_reserve, base_asset_reserve)
  BY DEF GetInputPrice
<1>4. quote # 0 => After(direction, quote, quote_asset_reserve) \in Nat \ {0}
  BY MaxUintAssumption, SMT DEF SwapInput, GetInputPriceDefined, ExchangeDefined, Uint
<1> HIDE DEF base
<1>5. /\ base \in Nat
      /\ After(direction, quote, quote_asset_reserve) \in Nat
      /\ After(Flip(direction), base, base_asset_reserve) \in Nat
      /\ InvariantK(quote_asset_reserve, base_asset_reserve) * Decimals
           <= After(direction, quote, quote_asset_reserve)
                * After(Flip(direction), base, base_asset_reserve)
  BY <1>2, <1>3, <1>4, TradeKeepsInvariant
<1>6. /\ quote_asset_reserve' = After(direction, quote, quote_asset_reserve)
      /\ base_asset_reserve' = After(Flip(direction), base, base_asset_reserve)
      /\ total_position_size' = After(direction, base, total_position_size)
  BY <1>1 DEF UpdateReserve
<1>7. ReserveStep(direction, quote, base)
  BY <1>5, <1>6, Zenon DEF ReserveStep
<1>8. QED
  BY <1>1, <1>5, <1>7

LEMMA SwapOutputReserves ==
    ASSUME TypeOK, ReservesNotEmpty,
           NEW sender, NEW direction \in Direction, NEW base \in Nat, NEW limit,
           SwapOutput(sender, direction, base, limit)
    PROVE  \E quote \in Nat : /\ ReserveStep(Flip(direction), quote, base)
                              /\ UpdateReserve(Flip(direction), quote, base, TRUE)
<1> DEFINE quote == GetOutputPrice(direction, base, quote_asset_reserve, base_asset_reserve)
           q == After(Flip(direction), quote, quote_asset_reserve)
           b == After(direction, base, base_asset_reserve)
<1>1. UpdateReserve(Flip(direction), quote, base, TRUE)
  BY DEF SwapOutput
<1>2. quote_asset_reserve \in Nat \ {0} /\ base_asset_reserve \in Nat \ {0}
  BY DEF TypeOK, ReservesNotEmpty
<1>3. quote = IF base = 0 THEN 0
              ELSE Exchange(direction, base, base_asset_reserve, quote_asset_reserve)
  BY DEF GetOutputPrice
<1>4. base # 0 => b \in Nat \ {0}
  BY MaxUintAssumption, SMT DEF SwapOutput, GetOutputPriceDefined, ExchangeDefined, Uint
<1>5. Flip(Flip(direction)) = direction /\ Flip(direction) \in Direction
  BY DEF Flip, Direction, AddToAmm, RemoveFromAmm
<1> HIDE DEF quote
<1>6. /\ quote \in Nat /\ b \in Nat /\ q \in Nat
      /\ InvariantK(base_asset_reserve, quote_asset_reserve) * Decimals <= b * q
  BY <1>2, <1>3, <1>4, TradeKeepsInvariant
<1>7. InvariantK(base_asset_reserve, quote_asset_reserve)
        = InvariantK(quote_asset_reserve, base_asset_reserve)
  <2>1. base_asset_reserve * quote_asset_reserve = quote_asset_reserve * base_asset_reserve
    BY <1>2, SMT
  <2>2. QED
    BY <2>1 DEF InvariantK
<1>8. b * q = q * b
  <2> HIDE DEF b, q
  <2> QED BY <1>6, SMT
<1>9. /\ quote_asset_reserve' = q
      /\ base_asset_reserve' = b
      /\ total_position_size' = After(Flip(direction), base, total_position_size)
  BY <1>1, <1>5 DEF UpdateReserve
<1>10. ReserveStep(Flip(direction), quote, base)
  BY <1>5, <1>6, <1>7, <1>8, <1>9, Zenon DEF ReserveStep
<1>11. QED
  BY <1>1, <1>6, <1>10

\* So every swap is an UpdateReserve that keeps the reserves' product.
LEMMA SwapReserves ==
    ASSUME TypeOK, ReservesNotEmpty, Swap
    PROVE  Traded
<1>1. CASE \E sender \in Accounts, direction \in Direction, limit \in Limits,
              quote \in QuoteAmounts, can_go_over \in BOOLEAN :
                 SwapInput(sender, direction, quote, limit, can_go_over)
  BY <1>1, SwapInputReserves, AmountsAssumption DEF Traded
<1>2. CASE \E sender \in Accounts, direction \in Direction, limit \in Limits,
              base \in BaseAmounts : SwapOutput(sender, direction, base, limit)
  <2>1. PICK sender \in Accounts, direction \in Direction, limit \in Limits,
             base \in BaseAmounts : SwapOutput(sender, direction, base, limit)
    BY <1>2
  <2>2. base \in Nat
    BY AmountsAssumption
  <2>3. PICK quote \in Nat : /\ ReserveStep(Flip(direction), quote, base)
                             /\ UpdateReserve(Flip(direction), quote, base, TRUE)
    BY <2>1, <2>2, SwapOutputReserves
  <2>4. Flip(direction) \in Direction
    BY DEF Flip, Direction
  <2>5. QED
    BY <2>2, <2>3, <2>4 DEF Traded
<1>3. QED
  BY <1>1, <1>2 DEF Swap

-----------------------------------------------------------------------------
(* The reserves: type correctness, conservation and the invariant.         *)

\* The snapshot list keeps its type and stays nonempty.
LEMMA SnapshotsType ==
    ASSUME TypeOK, NEW quote \in Nat, NEW base \in Nat, AddReserveSnapshot(quote, base)
    PROVE  snapshots' \in Seq(Snapshot) /\ snapshots' # <<>>
<1>1. /\ snapshots \in Seq(Snapshot) /\ Last \in 1 .. Len(snapshots)
      /\ now \in Nat /\ height \in Nat
  BY SMT DEF TypeOK, Last
<1>2. CASE snapshots[Last].block_height = height
  <2> DEFINE updated == [snapshots[Last] EXCEPT !.quote_asset_reserve = quote,
                                                !.base_asset_reserve = base]
  <2>1. snapshots' = [snapshots EXCEPT ![Last] = updated]
    BY <1>2 DEF AddReserveSnapshot
  <2>2. snapshots[Last] \in Snapshot
    BY <1>1
  <2>3. updated \in Snapshot
    BY <2>2 DEF Snapshot
  <2> HIDE DEF updated
  <2>4. QED
    BY <1>1, <2>1, <2>3, SMT
<1>3. CASE snapshots[Last].block_height # height
  <2>1. snapshots' = Append(snapshots, ReserveSnapshot(quote, base, now, height))
    BY <1>3 DEF AddReserveSnapshot
  <2>2. ReserveSnapshot(quote, base, now, height) \in Snapshot
    BY <1>1 DEF ReserveSnapshot, Snapshot
  <2>3. QED
    BY <1>1, <2>1, <2>2, SMT
<1>4. QED
  BY <1>2, <1>3

\* Rounding a time down to whole hours and adding it to another is a time.
LEMMA WholeHours ==
    ASSUME NEW t \in Nat, NEW s \in Nat, NEW h \in Nat \ {0}
    PROVE  t + (s \div h) * h \in Nat
<1> DEFINE q == s \div h
<1>1. q \in Nat
  BY DivMod
<1> HIDE DEF q
<1>2. t + q * h \in Nat
  BY <1>1, SMT
<1>3. QED
  BY <1>2 DEF q

LEMMA InitReserveInv == Init => ReserveInv
<1> SUFFICES ASSUME Init PROVE ReserveInv
  OBVIOUS
<1>1. InitialQuote \in Nat \ {0} /\ InitialBase \in Nat \ {0}
  BY InitialProduct
<1>2. closing_price \in Nat
  BY <1>1, SpotPriceType DEF Init
<1>3. snapshots \in Seq(Snapshot) /\ snapshots # <<>>
  <2>1. ReserveSnapshot(InitialQuote, InitialBase, StartTime, 1) \in Snapshot
    BY <1>1, TimeAssumption DEF ReserveSnapshot, Snapshot
  <2>2. QED
    BY <2>1, SMT DEF Init
<1>4. TypeOK
  <2>1. owner \in Accounts /\ config \in Config /\ open \in BOOLEAN
    BY ConfigAssumption DEF Init
  <2>2. /\ quote_asset_reserve \in Nat /\ base_asset_reserve \in Nat
        /\ total_position_size \in Int /\ next_funding_time \in Nat
        /\ height \in Nat /\ now \in Nat /\ settled_at \in Nat
    BY <1>1, TimeAssumption, SMT DEF Init
  <2>3. QED
    BY <1>2, <1>3, <2>1, <2>2 DEF TypeOK
<1>5. NetPositionMatchesReserve /\ ReservesNotEmpty
  BY <1>1, SMT DEF Init, NetPositionMatchesReserve, ReservesNotEmpty
<1>6. ReservesCoverInvariant
  BY <1>1, InvariantKBounds DEF Init, ReservesCoverInvariant
<1>7. QED
  BY <1>4, <1>5, <1>6 DEF ReserveInv

LEMMA TradedReserveInv ==
    ASSUME ReserveInv, Traded
    PROVE  ReserveInv'
<1>1. PICK direction \in Direction, quote \in Nat, base \in Nat, can_go_over \in BOOLEAN :
          /\ ReserveStep(direction, quote, base)
          /\ UpdateReserve(direction, quote, base, can_go_over)
  BY DEF Traded
<1>2. /\ quote_asset_reserve \in Nat /\ base_asset_reserve \in Nat
      /\ total_position_size \in Int
      /\ quote_asset_reserve' \in Nat /\ base_asset_reserve' \in Nat
  BY <1>1 DEF ReserveStep, ReserveInv, TypeOK
<1>3. snapshots' \in Seq(Snapshot) /\ snapshots' # <<>>
  BY <1>1, <1>2, SnapshotsType DEF UpdateReserve, ReserveStep, ReserveInv
<1>4. total_position_size' \in Int
  BY <1>1, <1>2, SMT DEF ReserveStep, After
<1>5. TypeOK'
  BY <1>1, <1>2, <1>3, <1>4 DEF TypeOK, ReserveInv, UpdateReserve, history
<1>6. NetPositionMatchesReserve'
  <2>1. direction = AddToAmm \/ (direction # AddToAmm /\ Flip(direction) = AddToAmm)
    BY DEF Flip, Direction, AddToAmm, RemoveFromAmm
  <2>2. AddToAmm # RemoveFromAmm
    BY DEF AddToAmm, RemoveFromAmm
  <2>3. base_asset_reserve + total_position_size = InitialBase
    BY DEF ReserveInv, NetPositionMatchesReserve
  <2>4. QED
    BY <1>1, <1>2, <2>1, <2>2, <2>3, SMT
       DEF ReserveStep, After, Flip, NetPositionMatchesReserve
<1> DEFINE k0 == InvariantK(InitialQuote, InitialBase)
           k == InvariantK(quote_asset_reserve, base_asset_reserve)
           product == quote_asset_reserve' * base_asset_reserve'
<1>7. k0 <= k
  BY <1>2, InitialProduct, InvariantKMonotone DEF ReserveInv, ReservesCoverInvariant
<1>8. k0 * Decimals <= product
  <2>1. k \in Nat /\ k0 \in Nat /\ product \in Nat /\ k * Decimals <= product
    <3>1. product \in Nat
      BY <1>2, ProductType
    <3>2. k \in Nat /\ k0 \in Nat
      BY <1>2, InvariantKBounds, InitialProduct
    <3>3. k * Decimals <= product
      BY <1>1 DEF ReserveStep
    <3>4. QED
      BY <3>1, <3>2, <3>3
  <2> HIDE DEF k0, k, product
  <2>2. k0 * Decimals <= k * Decimals
    BY <1>7, <2>1, ProductMonotone, DecimalsAssumption
  <2>3. QED
    BY <2>1, <2>2, DecimalsAssumption, SMT
<1>9. ReservesCoverInvariant'
  BY <1>8 DEF ReservesCoverInvariant
<1>10. ReservesNotEmpty'
  BY <1>2, <1>8, InitialProduct, PositiveFactors DEF ReservesNotEmpty
<1>11. QED
  BY <1>5, <1>6, <1>9, <1>10 DEF ReserveInv

\* The steps other than swaps leave the reserves alone.
LEMMA OtherReserveInv ==
    ASSUME ReserveInv, [Next]_vars, ~Swap
    PROVE  ReserveInv' /\ UNCHANGED <<quote_asset_reserve, base_asset_reserve, snapshots>>
<1> DEFINE Same == UNCHANGED <<quote_asset_reserve, base_asset_reserve,
                               total_position_size, snapshots>>
<1>1. ASSUME Same, TypeOK'
      PROVE  ReserveInv'
  BY <1>1 DEF ReserveInv, NetPositionMatchesReserve, ReservesCoverInvariant, ReservesNotEmpty
<1>2. TypeOK
  BY DEF ReserveInv
<1>3. ASSUME NEW sender \in Accounts, NEW new, UpdateConfig(sender, new)
      PROVE  Same /\ TypeOK'
  BY <1>2, <1>3 DEF UpdateConfig, TypeOK, state, history
<1>4. ASSUME NEW sender \in Accounts, NEW new \in Accounts, UpdateOwner(sender, new)
      PROVE  Same /\ TypeOK'
  BY <1>2, <1>4 DEF UpdateOwner, TypeOK, state, history
<1>5. ASSUME NEW sender \in Accounts, NEW value \in BOOLEAN, SetOpen(sender, value)
      PROVE  Same /\ TypeOK'
  <2>1. now + (FundingPeriod \div OneHour) * OneHour \in Nat
    BY <1>2, TimeAssumption, WholeHours DEF TypeOK
  <2>2. QED
    BY <1>2, <1>5, <2>1 DEF SetOpen, TypeOK, history
<1>6. ASSUME NEW sender \in Accounts, NEW underlying \in OraclePrices,
             SettleFunding(sender, underlying)
      PROVE  Same /\ TypeOK'
  <2>1. ((now + FundingPeriod) \div OneHour) * OneHour \in Nat
    <3>1. now + FundingPeriod \in Nat
      BY <1>2, TimeAssumption, SMT DEF TypeOK
    <3>2. 0 + ((now + FundingPeriod) \div OneHour) * OneHour \in Nat
      BY <3>1, TimeAssumption, WholeHours
    <3>3. QED
      BY <3>1, <3>2, TimeAssumption, DivMod, SMT
  <2>2. now + FundingBufferPeriod \in Nat
    BY <1>2, TimeAssumption, SMT DEF TypeOK, FundingBufferPeriod
  <2>3. next_funding_time' \in Nat
    BY <1>6, <2>1, <2>2 DEF SettleFunding, Maximum
  <2>4. QED
    BY <1>2, <1>6, <2>3 DEF SettleFunding, TypeOK
<1>7. ASSUME NextBlock
      PROVE  Same /\ TypeOK'
  <2>1. CurrentPrice \in Nat
    BY SpotPriceType DEF CurrentPrice, ReserveInv, TypeOK, ReservesNotEmpty
  <2>2. height + 1 \in Nat /\ now' \in Nat
    BY <1>2, <1>7, TimeAssumption, SMT DEF NextBlock, TypeOK
  <2>3. QED
    BY <1>2, <1>7, <2>1, <2>2 DEF NextBlock, TypeOK, state
<1>8. CASE UNCHANGED vars
  BY <1>1, <1>2, <1>8 DEF vars, state, history, TypeOK
<1>9. Same /\ TypeOK'
  BY <1>3, <1>4, <1>5, <1>6, <1>7, <1>8, <1>2
     DEF Next, Admin, vars, state, history, TypeOK
<1>10. QED
  BY <1>1, <1>9

LEMMA NextReserveInv == ReserveInv /\ [Next]_vars => ReserveInv'
  BY SwapReserves, TradedReserveInv, OtherReserveInv DEF ReserveInv

LEMMA ReserveInvariance == Spec => []ReserveInv
  BY InitReserveInv, NextReserveInv, PTL DEF Spec

\* The variables of the contract keep their types; in particular no checked
\* subtraction leaves a reserve negative.
THEOREM TypeCorrectness == Spec => []TypeOK
<1>1. ReserveInv => TypeOK
  BY DEF ReserveInv
<1>2. QED
  BY <1>1, ReserveInvariance, PTL

\* The traders' net position and the base reserve always add up to the base
\* asset the AMM started with.
THEOREM NetPositionConservation == Spec => []NetPositionMatchesReserve
<1>1. ReserveInv => NetPositionMatchesReserve
  BY DEF ReserveInv
<1>2. QED
  BY <1>1, ReserveInvariance, PTL

\* No step lowers the constant product.
THEOREM InvariantKIsMonotone == Spec => InvariantKNeverFalls
<1> DEFINE Grows == InvariantK(quote_asset_reserve', base_asset_reserve')
                      >= InvariantK(quote_asset_reserve, base_asset_reserve)
<1>1. ReserveInv /\ [Next]_vars => [Grows]_vars
  <2> SUFFICES ASSUME ReserveInv, [Next]_vars PROVE Grows
    OBVIOUS
  <2>1. /\ quote_asset_reserve \in Nat /\ base_asset_reserve \in Nat
        /\ InvariantK(quote_asset_reserve, base_asset_reserve) \in Nat
    BY InvariantKBounds DEF ReserveInv, TypeOK
  <2>2. CASE Swap
    <3>1. /\ quote_asset_reserve' \in Nat /\ base_asset_reserve' \in Nat
          /\ InvariantK(quote_asset_reserve, base_asset_reserve) * Decimals
               <= quote_asset_reserve' * base_asset_reserve'
      BY <2>2, SwapReserves DEF ReserveInv, Traded, ReserveStep
    <3>2. InvariantK(quote_asset_reserve, base_asset_reserve)
            <= InvariantK(quote_asset_reserve', base_asset_reserve')
      BY <2>1, <3>1, InvariantKMonotone
    <3>3. InvariantK(quote_asset_reserve', base_asset_reserve') \in Nat
      BY <3>1, InvariantKBounds
    <3>4. QED
      BY <2>1, <3>2, <3>3, SMT
  <2>3. CASE ~Swap
    <3>1. quote_asset_reserve' = quote_asset_reserve /\ base_asset_reserve' = base_asset_reserve
      BY <2>3, OtherReserveInv
    <3>2. QED
      BY <2>1, <3>1, SMT
  <2>4. QED
    BY <2>2, <2>3
<1>2. QED
  BY <1>1, ReserveInvariance, PTL DEF Spec, InvariantKNeverFalls

\* Covering the initial product makes round trips costly.
LEMMA CoveredRoundTrips == ReserveInv => NoProfitFromRoundTrips
<1> SUFFICES ASSUME ReserveInv, total_position_size = 0
             PROVE  InitialQuote <= quote_asset_reserve
  BY InitialProduct, SMT DEF NoProfitFromRoundTrips, ReserveInv, TypeOK
<1>1. InitialQuote \in Nat /\ InitialBase \in Nat /\ quote_asset_reserve \in Nat
  BY InitialProduct DEF ReserveInv, TypeOK
<1>2. base_asset_reserve = InitialBase
  BY <1>1, SMT DEF ReserveInv, TypeOK, NetPositionMatchesReserve
<1> DEFINE floor == InvariantK(InitialQuote, InitialBase) * Decimals
<1>3. InitialQuote * InitialBase < floor + Decimals /\ floor \in Nat
  BY <1>1, InvariantKBounds, InitialProduct
<1>4. floor <= quote_asset_reserve * InitialBase
  BY <1>2 DEF ReserveInv, ReservesCoverInvariant
<1>5. Decimals <= InitialBase
  BY ReservesAssumption, DecimalsAssumption, <1>1, SMT
<1> HIDE DEF floor
<1>6. InitialBase * InitialQuote < InitialBase * (quote_asset_reserve + 1)
  BY <1>1, <1>3, <1>4, <1>5, DecimalsAssumption, SMT
<1>7. InitialQuote < quote_asset_reserve + 1
  BY <1>1, <1>6, CancelLess
<1>8. QED
  BY <1>1, <1>7, SMT

\* Traders who are flat have left at least the initial quote in the AMM.
THEOREM RoundTripsDoNotProfit == Spec => []NoProfitFromRoundTrips
  BY CoveredRoundTrips, ReserveInvariance, PTL

-----------------------------------------------------------------------------
(* The snapshots and the price band of a block.                            *)

LEMMA SnapshotTypes ==
    ASSUME NEW s \in Seq(Snapshot)
    PROVE  /\ \A i \in 1 .. Len(s) : /\ s[i].quote_asset_reserve \in Nat
                                     /\ s[i].base_asset_reserve \in Nat
                                     /\ s[i].timestamp \in Nat /\ s[i].block_height \in Nat
           /\ s # <<>> => Len(s) \in 1 .. Len(s)
<1>1. \A i \in 1 .. Len(s) : s[i] \in Snapshot
  BY SMT
<1>2. s # <<>> => Len(s) \in 1 .. Len(s)
  BY SMT
<1>3. QED
  BY <1>1, <1>2 DEF Snapshot

\* Order is kept when the last snapshot is overwritten, and when one is added.
LEMMA OverwrittenInOrder ==
    ASSUME NEW s \in Seq(Snapshot), s # <<>>, NEW time \in Nat, NEW block, InOrder(s, time, block),
           NEW new \in Snapshot, new.base_asset_reserve # 0,
           new.timestamp = s[Len(s)].timestamp, new.block_height = s[Len(s)].block_height,
           NEW t, t = [s EXCEPT ![Len(s)] = new]
    PROVE  InOrder(t, time, block)
<1>1. /\ Len(s) \in Nat \ {0} /\ Len(t) = Len(s)
      /\ \A i \in 1 .. Len(s) : t[i] = IF i = Len(s) THEN new ELSE s[i]
  BY SMT
<1>2. \A i \in 1 .. Len(s) : /\ t[i].timestamp = s[i].timestamp
                             /\ t[i].base_asset_reserve # 0
  BY <1>1 DEF InOrder
<1>3. 1 \in 1 .. Len(s) /\ Len(s) \in 1 .. Len(s)
  BY <1>1, SMT
<1>4. \A i \in 1 .. Len(s) : \A j \in i + 1 .. Len(s) : j \in 1 .. Len(s)
  BY <1>1, SMT
<1>5. t[Len(s)].block_height = s[Len(s)].block_height
  BY <1>1, <1>3
<1>6. QED
  BY <1>1, <1>2, <1>3, <1>4, <1>5, Zenon DEF InOrder

LEMMA AppendedInOrder ==
    ASSUME NEW s \in Seq(Snapshot), s # <<>>, NEW time \in Nat, NEW block, InOrder(s, time, block),
           s[Len(s)].block_height # block,
           NEW new \in Snapshot, new.base_asset_reserve # 0,
           new.timestamp = time, new.block_height = block,
           NEW t, t = Append(s, new)
    PROVE  InOrder(t, time, block)
<1>1. /\ Len(s) \in Nat \ {0} /\ Len(t) = Len(s) + 1
      /\ t[Len(s) + 1] = new
      /\ \A i \in 1 .. Len(s) : t[i] = s[i]
  BY SMT
<1>2. /\ s[Len(s)].timestamp < time
      /\ \A i \in 1 .. Len(s) : s[i].timestamp \in Nat
  BY SnapshotTypes DEF InOrder
<1>3. \A i \in 1 .. Len(s) : s[i].timestamp < time
  <2> TAKE i \in 1 .. Len(s)
  <2>1. i = Len(s) \/ Len(s) \in i + 1 .. Len(s)
    BY <1>1, SMT
  <2>2. CASE i = Len(s)
    BY <1>2, <2>2
  <2>3. CASE Len(s) \in i + 1 .. Len(s)
    <3>1. s[i].timestamp < s[Len(s)].timestamp /\ Len(s) \in 1 .. Len(s)
      BY <1>1, <2>3, SMT DEF InOrder
    <3>2. QED
      BY <1>2, <3>1, SMT
  <2>4. QED
    BY <2>1, <2>2, <2>3
<1>4. \A i \in 1 .. Len(t) : \A j \in i + 1 .. Len(t) : t[i].timestamp < t[j].timestamp
  <2> TAKE i \in 1 .. Len(t)
  <2> TAKE j \in i + 1 .. Len(t)
  <2>1. i \in 1 .. Len(s) /\ (j = Len(s) + 1 \/ j \in i + 1 .. Len(s))
    BY <1>1, SMT
  <2>2. CASE j = Len(s) + 1
    BY <1>1, <1>3, <2>1, <2>2
  <2>3. CASE j \in i + 1 .. Len(s)
    <3>1. j \in 1 .. Len(s)
      BY <1>1, <2>1, <2>3, SMT
    <3>2. QED
      BY <1>1, <2>1, <2>3, <3>1 DEF InOrder
  <2>4. QED
    BY <2>1, <2>2, <2>3
<1>5. \A i \in 1 .. Len(t) : t[i].base_asset_reserve # 0
  <2> TAKE i \in 1 .. Len(t)
  <2>1. i \in 1 .. Len(s) \/ i = Len(s) + 1
    BY <1>1, SMT
  <2>2. QED
    BY <1>1, <2>1 DEF InOrder
<1>6. t[1] = s[1] /\ t[Len(t)] = new
  BY <1>1, SMT
<1>7. QED
  BY <1>4, <1>5, <1>6, SMT DEF InOrder

LEMMA InitSnapshotInv == Init => SnapshotInv
<1> SUFFICES ASSUME Init PROVE SnapshotInv
  OBVIOUS
<1>1. snapshots = <<ReserveSnapshot(InitialQuote, InitialBase, StartTime, 1)>> /\ height = 1
  BY DEF Init
<1>2. Last = 1 /\ snapshots[1] = ReserveSnapshot(InitialQuote, InitialBase, StartTime, 1)
  BY <1>1 DEF Last
<1>3. LastSnapshotIsCurrent
  BY <1>1, <1>2 DEF Init, LastSnapshotIsCurrent, ReserveSnapshot
<1>4. BoundaryIsClosingPrice
  BY <1>1 DEF BoundaryIsClosingPrice
<1>5. InOrder(snapshots, now, height)
  <2>1. InitialBase # 0 /\ StartTime \in Nat /\ now = StartTime
    BY InitialProduct, TimeAssumption DEF Init
  <2>2. /\ snapshots[1].base_asset_reserve = InitialBase
        /\ snapshots[1].timestamp = StartTime /\ snapshots[1].block_height = 1
    BY <1>2 DEF ReserveSnapshot
  <2>3. Len(snapshots) = 1
    BY <1>2 DEF Last
  <2>4. QED
    BY <1>1, <2>1, <2>2, <2>3, SMT DEF InOrder
<1>6. QED
  BY <1>3, <1>4, <1>5 DEF SnapshotInv

\* The price the band is taken from depends on the snapshots and the height.
LEMMA TradedSnapshotInv ==
    ASSUME ReserveInv, ReserveInv', SnapshotInv, Traded
    PROVE  SnapshotInv'
<1>1. PICK direction \in Direction, quote \in Nat, base \in Nat, can_go_over \in BOOLEAN :
          UpdateReserve(direction, quote, base, can_go_over)
  BY DEF Traded
<1>2. /\ AddReserveSnapshot(quote_asset_reserve', base_asset_reserve')
      /\ height' = height /\ now' = now /\ closing_price' = closing_price
  BY <1>1 DEF UpdateReserve, history
<1>3. /\ snapshots \in Seq(Snapshot) /\ Last \in 1 .. Len(snapshots)
      /\ Last = Len(snapshots) /\ height \in Nat
      /\ snapshots[1].block_height = 1 /\ height >= 1
  BY SMT DEF ReserveInv, TypeOK, Last, SnapshotInv, LastSnapshotIsCurrent
<1>4. CASE snapshots[Last].block_height = height
  <2> DEFINE updated == [snapshots[Last] EXCEPT !.quote_asset_reserve = quote_asset_reserve',
                                                !.base_asset_reserve = base_asset_reserve']
  <2>1. snapshots' = [snapshots EXCEPT ![Last] = updated]
    BY <1>2, <1>4 DEF AddReserveSnapshot
  <2>2. snapshots[Last] \in Snapshot
    BY <1>3
  <2>3. /\ updated.quote_asset_reserve = quote_asset_reserve'
        /\ updated.base_asset_reserve = base_asset_reserve'
        /\ updated.block_height = height
    BY <1>4, <2>2 DEF Snapshot
  <2> HIDE DEF updated
  <2>4. /\ Last' = Last /\ snapshots'[Last] = updated
        /\ \A i \in 1 .. Last : i # Last => snapshots'[i] = snapshots[i]
    BY <1>3, <2>1, SMT DEF Last
  <2>5. snapshots'[1].block_height = 1
    BY <1>3, <1>4, <2>3, <2>4, SMT
  <2>6. LastSnapshotIsCurrent'
    BY <1>2, <1>3, <2>3, <2>4, <2>5, SMT DEF LastSnapshotIsCurrent
  <2>7. ASSUME height > 1
        PROVE  PriceOfLastBlock' = PriceOfLastBlock
    <3>1. Last > 1
      BY <1>3, <1>4, <2>7, SMT
    <3>2. snapshots'[Last - 1] = snapshots[Last - 1]
      BY <1>3, <2>4, <3>1, SMT
    <3>3. PriceOfLastBlock = SnapshotPrice(Last - 1)
      BY <1>4, <3>1 DEF PriceOfLastBlock
    <3>4. PriceOfLastBlock' = SnapshotPrice(Last - 1)'
      BY <1>2, <2>3, <2>4, <3>1 DEF PriceOfLastBlock
    <3>5. QED
      BY <2>4, <3>2, <3>3, <3>4 DEF SnapshotPrice
  <2>8. InOrder(snapshots, now, height)'
    <3>1. /\ updated \in Snapshot /\ updated.timestamp = snapshots[Last].timestamp
          /\ quote_asset_reserve' \in Nat /\ base_asset_reserve' \in Nat
      BY <2>2 DEF updated, Snapshot, ReserveInv, TypeOK
    <3>2. updated.base_asset_reserve # 0 /\ updated.block_height = snapshots[Last].block_height
      BY <1>4, <2>3 DEF ReserveInv, ReservesNotEmpty
    <3>3. snapshots # <<>> /\ now \in Nat /\ InOrder(snapshots, now, height)
      BY DEF ReserveInv, TypeOK, SnapshotInv
    <3>4. InOrder(snapshots', now, height)
      BY <1>3, <2>1, <3>1, <3>2, <3>3, OverwrittenInOrder DEF Last
    <3>5. QED
      BY <1>2, <3>4
  <2>9. QED
    BY <1>2, <2>6, <2>7, <2>8 DEF SnapshotInv, BoundaryIsClosingPrice
<1>5. CASE snapshots[Last].block_height # height
  <2> DEFINE new == ReserveSnapshot(quote_asset_reserve', base_asset_reserve', now, height)
  <2>1. snapshots' = Append(snapshots, new)
    BY <1>2, <1>5 DEF AddReserveSnapshot
  <2>2. new \in Snapshot
    BY DEF ReserveInv, TypeOK, ReserveSnapshot, Snapshot
  <2>3. /\ new.quote_asset_reserve = quote_asset_reserve'
        /\ new.base_asset_reserve = base_asset_reserve'
        /\ new.timestamp = now /\ new.block_height = height
    BY DEF ReserveSnapshot
  <2> HIDE DEF new
  <2>4. /\ Last' = Last + 1 /\ snapshots'[Last + 1] = new
        /\ \A i \in 1 .. Last : snapshots'[i] = snapshots[i]
    BY <1>3, <2>1, <2>2, SMT DEF Last
  <2>5. snapshots'[1].block_height = 1
    BY <1>3, <2>4, SMT
  <2>6. LastSnapshotIsCurrent'
    BY <1>2, <1>3, <2>3, <2>4, <2>5, SMT DEF LastSnapshotIsCurrent
  <2>7. PriceOfLastBlock' = PriceOfLastBlock
    <3>1. PriceOfLastBlock = SnapshotPrice(Last)
      BY <1>5 DEF PriceOfLastBlock
    <3>2. /\ Last' > 1 /\ Last' - 1 = Last
          /\ snapshots'[Last'].block_height = height'
      <4>1. Last' = Last + 1 /\ Last \in Nat /\ Last >= 1
        BY <1>3, <2>4, SMT
      <4>2. Last' > 1 /\ Last' - 1 = Last
        BY <4>1, SMT
      <4>3. QED
        BY <1>2, <2>3, <2>4, <4>2
    <3>3. PriceOfLastBlock' = SnapshotPrice(Last - 1)'
      BY <3>2 DEF PriceOfLastBlock
    <3>4. snapshots'[Last' - 1] = snapshots[Last]
      BY <1>3, <2>4, <3>2
    <3>5. QED
      BY <3>1, <3>3, <3>4 DEF SnapshotPrice
  <2>8. InOrder(snapshots, now, height)'
    <3>1. /\ snapshots # <<>> /\ now \in Nat /\ InOrder(snapshots, now, height)
          /\ new.base_asset_reserve # 0
      BY <2>3 DEF ReserveInv, TypeOK, SnapshotInv, ReservesNotEmpty
    <3>2. InOrder(snapshots', now, height)
      BY <1>3, <1>5, <2>1, <2>2, <2>3, <3>1, AppendedInOrder DEF Last
    <3>3. QED
      BY <1>2, <3>2
  <2>9. QED
    BY <1>2, <2>6, <2>7, <2>8 DEF SnapshotInv, BoundaryIsClosingPrice
<1>6. QED
  BY <1>4, <1>5

LEMMA NextSnapshotInv ==
    ASSUME ReserveInv, ReserveInv', SnapshotInv, [Next]_vars
    PROVE  SnapshotInv'
<1>1. CASE Swap
  BY <1>1, SwapReserves, TradedSnapshotInv DEF ReserveInv
<1>2. CASE ~Swap
  <2>1. UNCHANGED <<quote_asset_reserve, base_asset_reserve, snapshots>>
    BY <1>2, OtherReserveInv
  <2>2. Last' = Last /\ \A i : SnapshotPrice(i)' = SnapshotPrice(i)
    BY <2>1 DEF Last, SnapshotPrice
  <2>3. CASE NextBlock
    <3>1. height' = height + 1 /\ height \in Nat /\ closing_price' = CurrentPrice
      BY <2>3 DEF NextBlock, ReserveInv, TypeOK
    <3>2. snapshots[Last].block_height \in Nat
      <4>1. snapshots \in Seq(Snapshot) /\ Last \in 1 .. Len(snapshots)
        BY SMT DEF ReserveInv, TypeOK, Last
      <4>2. snapshots[Last] \in Snapshot
        BY <4>1
      <4>3. QED
        BY <4>2 DEF Snapshot
    <3>3. snapshots[Last].block_height < height'
      BY <3>1, <3>2, SMT DEF SnapshotInv, LastSnapshotIsCurrent
    <3>4. LastSnapshotIsCurrent'
      BY <2>1, <2>2, <3>1, <3>2, <3>3, SMT DEF SnapshotInv, LastSnapshotIsCurrent
    <3>5. PriceOfLastBlock' = SnapshotPrice(Last)
      <4>1. snapshots'[Last'].block_height # height'
        BY <2>1, <2>2, <3>1, <3>2, <3>3, SMT
      <4>2. QED
        BY <4>1, <2>1, <2>2 DEF PriceOfLastBlock, SnapshotPrice
    <3>6. SnapshotPrice(Last) = CurrentPrice
      BY DEF SnapshotInv, LastSnapshotIsCurrent, SnapshotPrice, CurrentPrice
    <3>7. InOrder(snapshots, now, height)'
      <4>1. now' > now /\ now \in Nat /\ now' \in Nat
        BY <2>3, TimeAssumption, SMT DEF NextBlock, ReserveInv, TypeOK
      <4>2. snapshots[Len(snapshots)].timestamp \in Nat
        BY SnapshotTypes DEF ReserveInv, TypeOK
      <4>3. InOrder(snapshots, now, height)
        BY DEF SnapshotInv
      <4>4. snapshots[Len(snapshots)].timestamp < now'
        BY <4>1, <4>2, <4>3, SMT DEF InOrder
      <4>5. snapshots[Len(snapshots)].timestamp <= now'
        BY <4>1, <4>2, <4>4, SMT
      <4>6. InOrder(snapshots, now', height')
        BY <4>3, <4>4, <4>5, Zenon DEF InOrder
      <4>7. QED
        BY <2>1, <4>6
    <3>8. QED
      BY <3>1, <3>4, <3>5, <3>6, <3>7 DEF SnapshotInv, BoundaryIsClosingPrice
  <2>4. CASE ~NextBlock
    <3>1. height' = height /\ closing_price' = closing_price
      BY <1>2, <2>4 DEF Next, Admin, UpdateConfig, UpdateOwner, SetOpen, SettleFunding,
                        vars, history
    <3>2. PriceOfLastBlock' = PriceOfLastBlock
      BY <2>1, <2>2, <3>1 DEF PriceOfLastBlock, SnapshotPrice
    <3>3. now' = now
      BY <1>2, <2>4 DEF Next, Admin, UpdateConfig, UpdateOwner, SetOpen, SettleFunding, vars
    <3>4. InOrder(snapshots, now, height)'
      BY <2>1, <3>1, <3>3 DEF SnapshotInv
    <3>5. QED
      BY <2>1, <2>2, <3>1, <3>2, <3>4
         DEF SnapshotInv, LastSnapshotIsCurrent, BoundaryIsClosingPrice
  <2>5. QED
    BY <2>3, <2>4
<1>3. QED
  BY <1>1, <1>2

LEMMA SnapshotInvariance == Spec => []SnapshotInv
  BY InitSnapshotInv, NextSnapshotInv, ReserveInvariance, PTL DEF Spec

\* The band of every block is computed from the price the last one closed at.
THEOREM BoundariesFollowClosingPrice == Spec => []BoundaryIsClosingPrice
<1>1. SnapshotInv => BoundaryIsClosingPrice
  BY DEF SnapshotInv
<1>2. QED
  BY <1>1, SnapshotInvariance, PTL

\* Hence a swap only starts from a price in the band of its block ...
THEOREM SwapsStopAtLimit == Spec => NoSwapBeyondLimit
<1> DEFINE Stops == (/\ height > 1 /\ config.fluctuation_limit_ratio # 0
                     /\ quote_asset_reserve' # quote_asset_reserve)
                      => WithinLimits(CurrentPrice, closing_price, config.fluctuation_limit_ratio)
<1>1. ReserveInv /\ SnapshotInv /\ [Next]_vars => [Stops]_vars
  <2> SUFFICES ASSUME ReserveInv, SnapshotInv, [Next]_vars,
                      height > 1, config.fluctuation_limit_ratio # 0,
                      quote_asset_reserve' # quote_asset_reserve
               PROVE  WithinLimits(CurrentPrice, closing_price, config.fluctuation_limit_ratio)
    OBVIOUS
  <2>1. Swap
    BY OtherReserveInv
  <2>2. PICK direction \in Direction, quote \in Nat, base \in Nat, can_go_over \in BOOLEAN :
            UpdateReserve(direction, quote, base, can_go_over)
    BY <2>1, SwapReserves DEF ReserveInv, Traded
  <2>3. WithinLimits(CurrentPrice, PriceOfLastBlock, config.fluctuation_limit_ratio)
    BY <2>2 DEF UpdateReserve, WithinFluctuationLimit
  <2>4. PriceOfLastBlock = closing_price
    BY DEF SnapshotInv, BoundaryIsClosingPrice
  <2>5. QED
    BY <2>3, <2>4
<1>2. QED
  BY <1>1, ReserveInvariance, SnapshotInvariance, PTL DEF Spec, NoSwapBeyondLimit

\* ... and one that may not go over the limit ends in it.
THEOREM RestrictedSwapsAreBanded == Spec => RestrictedSwapStaysInBand
<1> DEFINE Stays == RestrictedSwap /\ height > 1 /\ config.fluctuation_limit_ratio # 0
                      => WithinLimits(CurrentPrice', closing_price, config.fluctuation_limit_ratio)
<1>1. ReserveInv /\ SnapshotInv => [Stays]_vars
  <2> SUFFICES ASSUME ReserveInv, SnapshotInv, RestrictedSwap,
                      height > 1, config.fluctuation_limit_ratio # 0
               PROVE  WithinLimits(CurrentPrice', closing_price, config.fluctuation_limit_ratio)
    OBVIOUS
  <2>1. PICK sender \in Accounts, direction \in Direction, limit \in Limits,
             quote \in QuoteAmounts : SwapInput(sender, direction, quote, limit, FALSE)
    BY DEF RestrictedSwap
  <2>2. PICK base : UpdateReserve(direction, quote, base, FALSE)
    BY <2>1 DEF SwapInput
  <2>3. WithinLimits(CurrentPrice', PriceOfLastBlock, config.fluctuation_limit_ratio)
    BY <2>2 DEF UpdateReserve, WithinFluctuationLimit, CurrentPrice
  <2>4. PriceOfLastBlock = closing_price
    BY DEF SnapshotInv, BoundaryIsClosingPrice
  <2>5. QED
    BY <2>3, <2>4
<1>2. QED
  BY <1>1, ReserveInvariance, SnapshotInvariance, PTL DEF RestrictedSwapStaysInBand

-----------------------------------------------------------------------------
(* Averages *)

LEMMA QuotientType ==
    ASSUME NEW a \in Int, NEW b \in Nat \ {0}
    PROVE  a \div b \in Int
BY SMT

LEMMA TruncDivType ==
    ASSUME NEW a \in Int, NEW b \in Nat \ {0}
    PROVE  TruncDiv(a, b) \in Int
<1>1. CASE a >= 0
  BY <1>1, DivMod, SMT DEF TruncDiv
<1>2. CASE ~(a >= 0)
  <2>1. -a \in Nat
    BY <1>2, SMT
  <2>2. (-a) \div b \in Int
    BY <2>1, DivMod, SMT
  <2>3. -((-a) \div b) \in Int
    <3> DEFINE q == (-a) \div b
    <3> HIDE DEF q
    <3>1. q \in Int => -q \in Int
      BY SMT
    <3>2. QED
      BY <2>2, <3>1 DEF q
  <2>4. QED
    BY <1>2, <2>3 DEF TruncDiv
<1>3. QED
  BY <1>1, <1>2

\* An average over the snapshots never divides by zero: when the history is
\* shorter than the interval, the last snapshot is younger than the first.  The
\* prices of the snapshots it does not visit need not exist.
LEMMA TwapType ==
    ASSUME TypeOK, SnapshotInv, NEW interval \in Nat \ {0},
           NEW price, \A i \in VisitedSnapshots(interval) : price[i] \in Nat
    PROVE  CalcTwap(price, interval) \in Nat
<1> DEFINE from == now - interval
           period == IF snapshots[1].timestamp <= from
                     THEN interval ELSE now - snapshots[1].timestamp
           visited == VisitedSnapshots(interval)
           terms == [i \in visited |-> price[i] * Held(i, from)]
<1>1. /\ snapshots \in Seq(Snapshot) /\ snapshots # <<>> /\ now \in Nat
      /\ InOrder(snapshots, now, height)
  BY DEF TypeOK, SnapshotInv
<1>2. /\ Last \in 1 .. Last /\ Last \in Nat /\ 1 \in 1 .. Last
      /\ \A i \in 1 .. Last : snapshots[i].timestamp \in Nat
  BY <1>1, SnapshotTypes, SMT DEF Last
<1>3. CASE Last = 1 \/ snapshots[Last].timestamp <= from
  <2>1. Last \in visited
    BY <1>2, SMT DEF VisitedSnapshots
  <2>2. QED
    BY <1>3, <2>1, Zenon DEF CalcTwap
<1>4. CASE ~(Last = 1 \/ snapshots[Last].timestamp <= from)
  <2>1. snapshots[1].timestamp < snapshots[Last].timestamp /\ snapshots[Last].timestamp <= now
    <3>1. Last \in 1 + 1 .. Last
      BY <1>2, <1>4, SMT
    <3>2. QED
      BY <1>1, <1>2, <3>1 DEF InOrder, Last
  <2>2. period \in Nat \ {0}
    BY <1>1, <1>2, <2>1, SMT
  <2>3. visited \subseteq 1 .. Last
    BY DEF VisitedSnapshots
  <2>4. IsFiniteSet(visited)
    <3>1. IsFiniteSet(1 .. Last)
      BY <1>2, FS_Interval, SMT
    <3>2. QED
      BY <2>3, <3>1, FS_Subset
  <2>5. \A i \in visited : Held(i, from) \in Nat
    <3>1. ASSUME NEW i \in visited
          PROVE  Held(i, from) \in Nat
      <4>1. i \in 1 .. Last /\ (i # Last => i + 1 \in 1 .. Last)
        <5>1. i \in 1 .. Last
          BY <2>3
        <5>2. QED
          BY <1>2, <5>1, SMT
      <4>2. /\ snapshots[i].timestamp \in Nat
            /\ i # Last => snapshots[i + 1].timestamp \in Nat
        BY <1>2, <4>1
      <4> DEFINE until == IF i = Last THEN now ELSE snapshots[i + 1].timestamp
                 since == snapshots[i].timestamp
      <4>3. until \in Int /\ since \in Int /\ from \in Int
        BY <1>1, <4>2, SMT
      <4>5. since <= until /\ from <= until
        <5>1. CASE i = Last
          <6>1. since <= now
            BY <1>1, <4>1, <5>1 DEF InOrder, Last
          <6>2. QED
            BY <1>1, <5>1, <6>1, SMT
        <5>2. CASE i # Last
          <6>1. i + 1 \in i + 1 .. Last /\ i \in Int /\ i + 1 \in Int
            BY <1>2, <4>1, <5>2, SMT
          <6>2. snapshots[i].timestamp < snapshots[i + 1].timestamp
            BY <1>1, <4>1, <6>1 DEF InOrder, Last
          <6>3. snapshots[i + 1].timestamp > from
            BY <6>1 DEF VisitedSnapshots
          <6>4. QED
            BY <4>2, <4>3, <5>2, <6>2, <6>3, SMT
        <5>3. QED
          BY <5>1, <5>2
      <4>4. Held(i, from) = IF since <= from THEN until - from ELSE until - since
        BY Zenon DEF Held
      <4> HIDE DEF until, since, from
      <4>6. QED
        BY <4>3, <4>4, <4>5, SMT
    <3>2. QED
      BY <3>1
  <2> HIDE DEF visited, from, period
  <2>6. \A i \in visited : terms[i] \in Nat
    <3>1. \A i \in visited : price[i] \in Nat /\ Held(i, from) \in Nat
      BY <2>5 DEF visited
    <3>2. \A x \in Nat, y \in Nat : x * y \in Nat
      BY SMT
    <3>3. QED
      BY <3>1, <3>2
  <2>7. DOMAIN terms = visited
    OBVIOUS
  <2> HIDE DEF terms
  <2>8. SumFunction(terms) \in Nat
    BY <2>4, <2>6, <2>7, SumOfNaturals DEF SumFunction
  <2>9. CalcTwap(price, interval) = SumFunction(terms) \div period
    BY <1>4, Zenon DEF CalcTwap, terms, visited, from, period
  <2>10. QED
    BY <2>2, <2>8, <2>9, QuotientType
<1>5. QED
  BY <1>3, <1>4

\* The premium of the AMM over the oracle is a number.
LEMMA PremiumType ==
    ASSUME TypeOK, ReservesNotEmpty, SnapshotInv, NEW underlying \in Int
    PROVE  PremiumFraction(underlying) \in Int
<1> DEFINE price == [i \in 1 .. Last |-> SnapshotPrice(i)]
           interval == config.spot_price_twap_interval
           twap == CalcTwap(price, interval)
<1>1. interval \in Nat \ {0}
  BY TimeAssumption, SMT DEF TypeOK, Config
<1>2. \A i \in VisitedSnapshots(interval) : price[i] \in Nat
  <2>1. ASSUME NEW i \in 1 .. Last
        PROVE  SnapshotPrice(i) \in Nat
    <3>1. /\ snapshots[i].quote_asset_reserve \in Nat
          /\ snapshots[i].base_asset_reserve \in Nat \ {0}
      BY SnapshotTypes DEF TypeOK, SnapshotInv, InOrder, Last
    <3>2. QED
      BY <3>1, SpotPriceType DEF SnapshotPrice
  <2>2. VisitedSnapshots(interval) \subseteq 1 .. Last
    BY DEF VisitedSnapshots
  <2>3. QED
    BY <2>1, <2>2
<1> HIDE DEF price, interval
<1>3. twap \in Int
  <2>1. \A n \in Nat : n \in Int
    BY SMT
  <2>2. QED
    BY <1>1, <1>2, <2>1, TwapType DEF twap
<1> DEFINE premium == (twap - underlying) * FundingPeriod
<1> HIDE DEF twap
<1>4. premium \in Int /\ OneDay \in Nat \ {0}
  BY <1>3, TimeAssumption, SMT
<1> HIDE DEF premium
<1>5. TruncDiv(premium, OneDay) \in Int
  BY <1>4, TruncDivType
<1>6. QED
  BY <1>5 DEF PremiumFraction, SpotTwap, premium, twap, price, interval

-----------------------------------------------------------------------------
(* Funding.                                                                *)

\* While open, the next settlement is due no earlier than the buffer period
\* after the last one.
FundingInv ==
    /\ settled_at <= now
    /\ settled_at # 0 => next_funding_time >= settled_at + FundingBufferPeriod

\* The whole hours of a period of at least an hour exceed half of it: what
\* makes reopening the AMM respect the buffer as a settlement does.
LEMMA WholeHoursExceedHalf ==
    ASSUME NEW p \in Nat, NEW h \in Nat \ {0}, p >= h
    PROVE  (p \div h) * h >= p \div 2
<1> DEFINE q == p \div h
           r == p % h
<1>1. q \in Nat /\ r \in 0 .. (h - 1) /\ p = h * q + r
  BY DivMod
<1> HIDE DEF q, r
<1>2. q # 0
  BY <1>1, SMT
<1>3. h <= q * h /\ q * h \in Nat
  BY <1>1, <1>2, SMT
<1>4. p <= 2 * (q * h)
  BY <1>1, <1>3, SMT
<1> DEFINE w == q * h
<1> HIDE DEF w
<1>5. w \in Nat /\ p <= 2 * w
  BY <1>3, <1>4 DEF w
<1>6. w >= p \div 2
  BY <1>5, SMT
<1>7. QED
  BY <1>6 DEF w, q

LEMMA FundingStep ==
    ASSUME FundingPeriod >= OneHour, ReserveInv, FundingInv, [Next]_vars
    PROVE  /\ FundingInv'
           /\ settled_at' # settled_at /\ settled_at # 0
                => settled_at' >= settled_at + FundingBufferPeriod
<1>1. /\ now \in Nat /\ settled_at \in Nat /\ next_funding_time \in Nat
      /\ FundingBufferPeriod \in Nat
  BY TimeAssumption, SMT DEF ReserveInv, TypeOK, FundingBufferPeriod
<1>2. ASSUME UNCHANGED <<now, settled_at, next_funding_time>>
      PROVE  FundingInv' /\ settled_at' = settled_at
  BY <1>2 DEF FundingInv, FundingBufferPeriod
<1>3. CASE Swap
  BY <1>2, <1>3, SwapReserves DEF ReserveInv, Traded, UpdateReserve, history
<1>4. ASSUME NEW sender \in Accounts, NEW new, UpdateConfig(sender, new) \/ UpdateOwner(sender, new)
      PROVE  FundingInv' /\ settled_at' = settled_at
  BY <1>2, <1>4 DEF UpdateConfig, UpdateOwner, state, history
<1>5. ASSUME NEW sender \in Accounts, NEW value \in BOOLEAN, SetOpen(sender, value)
      PROVE  FundingInv' /\ settled_at' = settled_at
  <2> DEFINE hours == (FundingPeriod \div OneHour) * OneHour
  <2>1. now' = now /\ settled_at' = settled_at
        /\ next_funding_time' \in {now + hours, next_funding_time}
    BY <1>5 DEF SetOpen, history
  <2>2. hours >= FundingBufferPeriod /\ now + hours \in Nat
    BY <1>1, WholeHoursExceedHalf, WholeHours, TimeAssumption DEF FundingBufferPeriod
  <2> HIDE DEF hours
  <2>3. hours \in Int
    BY TimeAssumption, DivMod, SMT DEF hours
  <2>4. FundingBufferPeriod' = FundingBufferPeriod
    BY DEF FundingBufferPeriod
  <2>5. QED
    BY <1>1, <2>1, <2>2, <2>3, <2>4, SMT DEF FundingInv
<1>6. ASSUME NEW sender \in Accounts, NEW underlying \in OraclePrices,
             SettleFunding(sender, underlying)
      PROVE  FundingInv' /\ (settled_at # 0 => settled_at' >= settled_at + FundingBufferPeriod)
  <2> DEFINE due == ((now + FundingPeriod) \div OneHour) * OneHour
  <2>1. /\ now' = now /\ settled_at' = now /\ now >= next_funding_time
        /\ next_funding_time' = Maximum(due, now + FundingBufferPeriod)
    BY <1>6 DEF SettleFunding
  <2>2. due \in Int
    <3>1. now + FundingPeriod \in Nat
      BY <1>1, TimeAssumption, SMT
    <3>2. QED
      BY <3>1, TimeAssumption, DivMod, SMT
  <2> HIDE DEF due
  <2>3. next_funding_time' >= now + FundingBufferPeriod
    BY <1>1, <2>1, <2>2, SMT DEF Maximum
  <2>4. FundingBufferPeriod' = FundingBufferPeriod
    BY DEF FundingBufferPeriod
  <2>5. QED
    BY <1>1, <2>1, <2>3, <2>4, SMT DEF FundingInv
<1>7. CASE NextBlock
  <2>1. now' >= now /\ settled_at' = settled_at /\ next_funding_time' = next_funding_time
    BY <1>1, <1>7, TimeAssumption, SMT DEF NextBlock, state
  <2>2. now' \in Nat
    BY <1>1, <1>7, TimeAssumption, SMT DEF NextBlock
  <2>3. QED
    BY <1>1, <2>1, <2>2, SMT DEF FundingInv, FundingBufferPeriod
<1>8. CASE UNCHANGED vars
  BY <1>2, <1>8 DEF vars, state, history
<1>9. QED
  BY <1>3, <1>4, <1>5, <1>6, <1>7, <1>8 DEF Next, Admin

\* Funding is never settled twice within the buffer period, however the AMM
\* is closed and reopened, provided its funding period is at least an hour.
THEOREM FundingIsSpaced ==
    ASSUME FundingPeriod >= OneHour
    PROVE  Spec => FundingSpacing
<1> DEFINE Spaced == settled_at' # settled_at /\ settled_at # 0
                       => settled_at' >= settled_at + FundingBufferPeriod
<1>1. Init => FundingInv
  BY TimeAssumption DEF Init, FundingInv
<1>2. ReserveInv /\ FundingInv /\ [Next]_vars => FundingInv' /\ [Spaced]_vars
  BY FundingStep
<1>3. QED
  BY <1>1, <1>2, ReserveInvariance, PTL DEF Spec, FundingSpacing


-----------------------------------------------------------------------------
(* The average of the spot price.                                          *)

\* What the average needs of the snapshots.
LEMMA SnapshotTimes ==
    ASSUME TypeOK, SnapshotInv
    PROVE  /\ Last \in Nat \ {0} /\ now \in Nat /\ StartTime \in Nat
           /\ \A i \in 1 .. Last : snapshots[i].timestamp \in Nat /\ SnapshotPrice(i) \in Nat
           /\ \A i \in 1 .. Last : \A j \in i + 1 .. Last :
                 snapshots[i].timestamp < snapshots[j].timestamp
           /\ snapshots[1].timestamp = StartTime
           /\ snapshots[Last].timestamp <= now
<1>1. snapshots \in Seq(Snapshot) /\ snapshots # <<>> /\ InOrder(snapshots, now, height)
  BY DEF TypeOK, SnapshotInv
<1>2. Last \in Nat \ {0}
  BY <1>1, SMT DEF Last
<1>3. ASSUME NEW i \in 1 .. Last
      PROVE  snapshots[i].timestamp \in Nat /\ SnapshotPrice(i) \in Nat
  <2>1. /\ snapshots[i].quote_asset_reserve \in Nat
        /\ snapshots[i].base_asset_reserve \in Nat \ {0}
        /\ snapshots[i].timestamp \in Nat
    BY <1>1, SnapshotTypes DEF InOrder, Last
  <2>2. QED
    BY <2>1, SpotPriceType DEF SnapshotPrice
<1>4. now \in Nat /\ StartTime \in Nat
  BY TimeAssumption DEF TypeOK
<1>5. QED
  BY <1>1, <1>2, <1>3, <1>4 DEF InOrder, Last

\* The price in force at a second is that of the one snapshot that is not
\* younger and whose successor is.
LEMMA SpotPriceInForce ==
    ASSUME TypeOK, SnapshotInv, NEW k \in 1 .. Last, NEW t \in Int,
           snapshots[k].timestamp <= t, k < Last => t < snapshots[k + 1].timestamp
    PROVE  PriceAt(t) = SnapshotPrice(k)
<1> DEFINE n == Last
           InForce(i) == /\ snapshots[i].timestamp <= t
                         /\ i < n => snapshots[i + 1].timestamp > t
<1>1. /\ n \in Nat /\ \A i \in 1 .. n : snapshots[i].timestamp \in Nat
      /\ \A i \in 1 .. n : \A j \in i + 1 .. n :
            snapshots[i].timestamp < snapshots[j].timestamp
  BY SnapshotTimes
<1> HIDE DEF n
<1>2. k \in 1 .. n /\ snapshots[k].timestamp <= t /\ (k < n => t < snapshots[k + 1].timestamp)
  BY DEF n
<1>3. ASSUME NEW i \in 1 .. n, NEW j \in 1 .. n, i < j,
             snapshots[j].timestamp <= t, i < n => snapshots[i + 1].timestamp > t
      PROVE  FALSE
  <2>1. i + 1 \in 1 .. n /\ i < n
    BY <1>1, <1>3
  <2>2. snapshots[i + 1].timestamp <= snapshots[j].timestamp
    <3>1. CASE j = i + 1
      BY <1>1, <1>3, <3>1
    <3>2. CASE j # i + 1
      <4>1. j \in (i + 1) + 1 .. n
        BY <1>1, <1>3, <3>2
      <4>2. QED
        BY <1>1, <1>3, <2>1, <4>1
    <3>3. QED
      BY <3>1, <3>2
  <2>3. QED
    BY <1>1, <1>3, <2>1, <2>2
<1>4. InForce(k)
  <2>1. k < n => k + 1 \in 1 .. n
    BY <1>1, <1>2
  <2>2. QED
    BY <1>1, <1>2, <2>1
<1>5. ASSUME NEW i \in 1 .. n, InForce(i)
      PROVE  i = k
  <2>1. i \in Int /\ k \in Int
    BY <1>1, <1>2
  <2>2. CASE i < k
    BY <1>2, <1>3, <1>5, <2>2
  <2>3. CASE k < i
    BY <1>2, <1>3, <1>4, <1>5, <2>3
  <2>4. QED
    BY <2>1, <2>2, <2>3
<1>6. PriceAt(t) = SnapshotPrice(CHOOSE i \in 1 .. n : InForce(i))
  BY Zenon DEF PriceAt, n
<1> HIDE DEF InForce
<1>7. (CHOOSE i \in 1 .. n : InForce(i)) = k
  BY <1>2, <1>4, <1>5, Zenon
<1>8. QED
  BY <1>6, <1>7, Zenon

\* From the beginning on there is one.
LEMMA SpotPriceInForceType ==
    ASSUME TypeOK, SnapshotInv, NEW t \in Int, StartTime <= t
    PROVE  PriceAt(t) \in Int
<1> DEFINE I == {i \in 1 .. Last : snapshots[i].timestamp <= t}
<1>1. Last \in Nat \ {0} /\ \A i \in 1 .. Last :
        snapshots[i].timestamp \in Nat /\ SnapshotPrice(i) \in Nat
  BY SnapshotTimes
<1>2. 1 \in I
  BY <1>1, SnapshotTimes
<1>3. IsFiniteSet(I) /\ I \subseteq Int
  <2>1. IsFiniteSet(1 .. Last)
    <3>1. Last \in Int /\ 1 \in Int
      BY <1>1
    <3>2. QED
      BY <3>1, FS_Interval
  <2>2. I \in SUBSET (1 .. Last)
    OBVIOUS
  <2> HIDE DEF I
  <2>3. IsFiniteSet(I)
    BY <2>1, <2>2, FS_Subset
  <2>4. QED
    BY <2>2, <2>3
<1>4. PICK k \in I : \A i \in I : k >= i
  <2> HIDE DEF I
  <2>1. QED
    BY <1>2, <1>3, GreatestInteger
<1>5. k \in 1 .. Last /\ snapshots[k].timestamp <= t
  BY <1>4
<1>6. k < Last => t < snapshots[k + 1].timestamp
  <2>1. SUFFICES ASSUME k < Last, ~(t < snapshots[k + 1].timestamp) PROVE FALSE
    OBVIOUS
  <2>2. k + 1 \in 1 .. Last
    BY <1>1, <1>5, <2>1
  <2>3. snapshots[k + 1].timestamp <= t
    BY <1>1, <2>1, <2>2
  <2>4. k + 1 \in I
    BY <2>2, <2>3
  <2>5. QED
    BY <1>4, <1>5, <2>4
<1>7. PriceAt(t) = SnapshotPrice(k)
  BY <1>5, <1>6, SpotPriceInForce
<1>8. QED
  BY <1>1, <1>5, <1>7

\* The walk of calc_twap ends at snapshot m: at the first of all, or at the
\* last that is not younger than the interval.
WalkEndsAt(from, visited, m) ==
    /\ m \in 1 .. Last
    /\ visited = m .. Last
    /\ \A j \in m + 1 .. Last : snapshots[j].timestamp > from
    /\ m = 1 \/ snapshots[m].timestamp <= from

LEMMA WalkEnds ==
    ASSUME TypeOK, SnapshotInv, NEW interval \in Nat
    PROVE  \E m \in Int : WalkEndsAt(now - interval, VisitedSnapshots(interval), m)
<1> DEFINE n == Last
           from == now - interval
           Young(k) == \A j \in k + 1 .. n : snapshots[j].timestamp > from
           K == {k \in 1 .. n : Young(k)}
<1>1. /\ n \in Nat \ {0} /\ now \in Nat /\ from \in Int
      /\ \A i \in 1 .. n : snapshots[i].timestamp \in Nat
      /\ \A i \in 1 .. n : \A j \in i + 1 .. n :
            snapshots[i].timestamp < snapshots[j].timestamp
  BY SnapshotTimes
<1>2. VisitedSnapshots(interval) = K
  BY Zenon DEF VisitedSnapshots
<1> HIDE DEF n, from
<1>3. n \in K
  BY <1>1
<1>4. IsFiniteSet(K) /\ K \subseteq Int
  <2>1. IsFiniteSet(1 .. n)
    <3>1. n \in Int /\ 1 \in Int
      BY <1>1
    <3>2. QED
      BY <3>1, FS_Interval
  <2>2. K \in SUBSET (1 .. n)
    OBVIOUS
  <2> HIDE DEF K
  <2>3. IsFiniteSet(K)
    BY <2>1, <2>2, FS_Subset
  <2>4. QED
    BY <2>2, <2>3
<1>5. PICK m \in K : \A k \in K : m <= k
  <2> HIDE DEF K
  <2>1. QED
    BY <1>3, <1>4, LeastInteger
<1>6. m \in 1 .. n /\ m \in Int /\ \A j \in m + 1 .. n : snapshots[j].timestamp > from
  BY <1>1, <1>5
<1>7. K = m .. n
  <2>1. ASSUME NEW k \in K
        PROVE  k \in m .. n
    BY <1>1, <1>5, <1>6
  <2>2. ASSUME NEW k \in m .. n
        PROVE  k \in K
    <3>1. k \in 1 .. n /\ \A j \in k + 1 .. n : j \in m + 1 .. n
      BY <1>1, <1>6
    <3>2. QED
      BY <1>6, <3>1
  <2>3. QED
    BY <2>1, <2>2
<1>8. m = 1 \/ snapshots[m].timestamp <= from
  <2>1. SUFFICES ASSUME m # 1, ~(snapshots[m].timestamp <= from) PROVE FALSE
    OBVIOUS
  <2>2. snapshots[m].timestamp > from
    BY <1>1, <1>6, <2>1
  <2>3. m - 1 \in 1 .. n /\ \A j \in (m - 1) + 1 .. n : j = m \/ j \in m + 1 .. n
    BY <1>1, <1>6, <2>1
  <2>4. m - 1 \in K
    BY <1>6, <2>2, <2>3
  <2>5. QED
    BY <1>5, <1>6, <2>4
<1>9. WalkEndsAt(from, VisitedSnapshots(interval), m)
  BY <1>2, <1>6, <1>7, <1>8 DEF WalkEndsAt, n
<1>10. QED
  BY <1>6, <1>9 DEF from

\* The seconds between which the snapshots from m on were the last.
Boundary(from, m) ==
    [k \in m .. Last + 1 |->
        IF k = m THEN IF snapshots[m].timestamp <= from THEN from ELSE snapshots[m].timestamp
        ELSE IF k = Last + 1 THEN now
        ELSE snapshots[k].timestamp]

\* They are in order, and between them the prices are in force.
LEMMA SnapshotsAreSteps ==
    ASSUME TypeOK, SnapshotInv, NEW from \in Int, from < now, NEW visited, NEW m \in Int,
           WalkEndsAt(from, visited, m), NEW b, b = Boundary(from, m),
           NEW p, \A k \in m .. Last : p[k] = SnapshotPrice(k),
           NEW F, \A t \in b[m] .. now - 1 : F[t] = PriceAt(t)
    PROVE  /\ StepFunction(m, Last, b, p, F)
           /\ b[Last + 1] = now
           /\ b[m] = IF snapshots[m].timestamp <= from THEN from ELSE snapshots[m].timestamp
           /\ \A k \in m .. Last : Held(k, from) = b[k + 1] - b[k]
<1> DEFINE n == Last
           time == [i \in 1 .. n |-> snapshots[i].timestamp]
<1>1. /\ n \in Nat \ {0} /\ now \in Nat /\ StartTime \in Nat
      /\ \A i \in 1 .. n : time[i] \in Nat /\ SnapshotPrice(i) \in Nat
      /\ \A i \in 1 .. n : \A j \in i + 1 .. n : time[i] < time[j]
      /\ time[1] = StartTime /\ time[n] <= now
  BY SnapshotTimes
<1>2. m \in 1 .. n /\ \A j \in m + 1 .. n : time[j] > from
  BY <1>1 DEF WalkEndsAt
<1>3. \A k \in m .. n + 1 :
        b[k] = IF k = m THEN IF time[m] <= from THEN from ELSE time[m]
               ELSE IF k = n + 1 THEN now ELSE time[k]
  BY <1>1, <1>2 DEF Boundary
<1>4. \A k \in 1 .. n, t \in Int :
        time[k] <= t /\ (k < n => t < time[k + 1]) => PriceAt(t) = SnapshotPrice(k)
  <2>1. SUFFICES ASSUME NEW k \in 1 .. n, NEW t \in Int,
                        time[k] <= t, k < n => t < time[k + 1]
                 PROVE  PriceAt(t) = SnapshotPrice(k)
    BY Zenon
  <2>2. k < n => k + 1 \in 1 .. n
    BY <1>1
  <2>3. snapshots[k].timestamp <= t /\ (k < n => t < snapshots[k + 1].timestamp)
    BY <2>1, <2>2
  <2>4. QED
    BY <2>3, SpotPriceInForce
<1>5. \A t \in Int : time[1] <= t => PriceAt(t) \in Int
  BY <1>1, SpotPriceInForceType
<1>6. /\ \A k \in m .. n : p[k] = SnapshotPrice(k)
      /\ \A t \in b[m] .. now - 1 : F[t] = PriceAt(t)
  OBVIOUS
<1>7. \A k \in 1 .. n :
        Held(k, from) = (IF k = n THEN now ELSE time[k + 1])
                          - (IF time[k] <= from THEN from ELSE time[k])
  <2>1. SUFFICES ASSUME NEW k \in 1 .. n
                 PROVE  Held(k, from) = (IF k = n THEN now ELSE time[k + 1])
                                          - (IF time[k] <= from THEN from ELSE time[k])
    OBVIOUS
  <2>2. k # n => k + 1 \in 1 .. n
    BY <1>1
  <2>3. time[k] = snapshots[k].timestamp /\ (k # n => time[k + 1] = snapshots[k + 1].timestamp)
    BY <2>2
  <2> HIDE DEF time
  <2>4. QED
    BY <2>3 DEF Held
<1>8. time[m] = snapshots[m].timestamp
  BY <1>2
<1> HIDE DEF n, time
<1>9. ASSUME NEW i \in 1 .. n, NEW j \in 1 .. n, i <= j
      PROVE  time[i] <= time[j]
  <2>1. CASE i = j
    BY <1>1, <2>1
  <2>2. CASE i # j
    <3>1. j \in i + 1 .. n
      BY <1>1, <1>9, <2>2
    <3>2. QED
      BY <1>1, <3>1
  <2>3. QED
    BY <2>1, <2>2
<1>10. n \in 1 .. n /\ 1 \in 1 .. n /\ n \in Int
  BY <1>1
<1>11. /\ b[m] = IF time[m] <= from THEN from ELSE time[m]
       /\ b[m] \in Int /\ time[m] <= b[m] /\ from <= b[m] /\ b[m] <= now
  <2>1. m \in m .. n + 1
    BY <1>1, <1>2
  <2>2. b[m] = IF time[m] <= from THEN from ELSE time[m]
    BY <1>3, <2>1
  <2>3. time[m] \in Nat /\ time[n] \in Nat /\ time[m] <= time[n]
    BY <1>1, <1>2, <1>9, <1>10
  <2>4. time[m] <= now
    BY <1>1, <2>3
  <2>5. QED
    BY <1>1, <2>2, <2>3, <2>4
<1>12. ASSUME NEW k \in m + 1 .. n
       PROVE  /\ b[k] = time[k] /\ b[k] \in Int /\ from < b[k]
              /\ b[m] <= b[k] /\ b[k] <= now
  <2>1. k \in m .. n + 1 /\ k # m /\ k # n + 1 /\ k \in 1 .. n /\ m <= k /\ k <= n
    BY <1>2, <1>10
  <2>2. b[k] = time[k]
    BY <1>3, <2>1
  <2>3. time[k] \in Nat /\ time[m] \in Nat /\ time[n] \in Nat
    BY <1>1, <1>2, <1>10, <2>1
  <2>4. time[m] <= time[k] /\ time[k] <= time[n] /\ time[k] > from
    BY <1>2, <1>9, <1>10, <2>1
  <2>5. QED
    BY <1>1, <1>11, <2>2, <2>3, <2>4
<1>13. b[n + 1] = now
  <2>1. n + 1 \in m .. n + 1 /\ n + 1 # m
    BY <1>2, <1>10
  <2>2. QED
    BY <1>3, <2>1
<1>14. ASSUME NEW k \in m .. n + 1
       PROVE  b[k] \in Int /\ b[m] <= b[k] /\ b[k] <= b[n + 1]
  <2>1. k = m \/ k \in m + 1 .. n \/ k = n + 1
    BY <1>10
  <2>2. CASE k = m
    BY <1>11, <1>13, <2>2
  <2>3. CASE k \in m + 1 .. n
    BY <1>12, <1>13, <2>3
  <2>4. CASE k = n + 1
    BY <1>1, <1>11, <1>13, <2>4
  <2>5. QED
    BY <2>1, <2>2, <2>3, <2>4
<1>15. ASSUME NEW k \in m .. n
       PROVE  /\ time[k] <= b[k] /\ b[k] <= b[k + 1]
              /\ k < n => b[k + 1] = time[k + 1]
              /\ Held(k, from) = b[k + 1] - b[k]
  <2>1. k + 1 \in m .. n + 1 /\ k \in m .. n + 1 /\ k \in 1 .. n /\ k <= n
    BY <1>2, <1>10
  <2>2. k # n => k + 1 \in m + 1 .. n /\ k + 1 \in 1 .. n
    BY <1>2, <1>10
  <2>3. b[k + 1] = IF k = n THEN now ELSE time[k + 1]
    BY <1>12, <1>13, <2>2
  <2>4. time[k] \in Nat
    BY <1>1, <2>1
  <2>5. b[k] = (IF time[k] <= from THEN from ELSE time[k]) /\ time[k] <= b[k]
    <3>1. CASE k = m
      BY <1>11, <3>1
    <3>2. CASE k # m
      <4>1. k \in m + 1 .. n
        BY <1>2, <1>10, <3>2
      <4>2. b[k] = time[k] /\ from < b[k]
        BY <1>12, <4>1
      <4>3. QED
        BY <2>4, <4>2
    <3>3. QED
      BY <3>1, <3>2
  <2>6. b[k] <= b[k + 1]
    <3>1. CASE k = n
      BY <1>13, <1>14, <2>1, <3>1
    <3>2. CASE k = m
      BY <1>14, <2>1, <3>2
    <3>3. CASE k # m /\ k # n
      <4>1. k \in m + 1 .. n
        BY <1>2, <1>10, <3>3
      <4>2. b[k] = time[k] /\ b[k + 1] = time[k + 1]
        BY <1>12, <2>3, <3>3, <4>1
      <4>3. k <= k + 1
        BY <1>10
      <4>4. time[k] <= time[k + 1]
        BY <1>9, <2>1, <2>2, <3>3, <4>3
      <4>5. QED
        BY <4>2, <4>4
    <3>4. QED
      BY <3>1, <3>2, <3>3
  <2>7. Held(k, from) = b[k + 1] - b[k]
    BY <1>7, <2>1, <2>3, <2>5
  <2>8. k < n => b[k + 1] = time[k + 1]
    BY <1>10, <2>1, <2>3
  <2>9. QED
    BY <2>5, <2>6, <2>7, <2>8
<1>16. ASSUME NEW k \in m .. n, NEW t \in b[k] .. b[k + 1] - 1
       PROVE  F[t] = p[k]
  <2>1. k \in 1 .. n /\ k \in m .. n + 1 /\ k + 1 \in m .. n + 1
    BY <1>2, <1>10
  <2>2. /\ b[k] \in Int /\ b[k + 1] \in Int /\ b[m] <= b[k] /\ b[k + 1] <= now
        /\ b[m] \in Int /\ time[k] <= b[k]
        /\ k < n => b[k + 1] = time[k + 1]
    BY <1>11, <1>13, <1>14, <1>15, <2>1
  <2>3. t \in Int /\ b[k] <= t /\ t < b[k + 1] /\ t \in b[m] .. now - 1
    BY <1>1, <2>2
  <2>4. time[k] \in Nat /\ time[k] <= t /\ (k < n => t < time[k + 1])
    BY <1>1, <2>1, <2>2, <2>3
  <2>5. PriceAt(t) = SnapshotPrice(k)
    BY <1>4, <2>1, <2>3, <2>4
  <2>6. QED
    BY <1>6, <2>3, <2>5
<1>17. ASSUME NEW t \in b[m] .. b[n + 1] - 1
       PROVE  F[t] \in Int
  <2>1. t \in Int /\ b[m] <= t /\ t \in b[m] .. now - 1
    BY <1>1, <1>11, <1>13
  <2>2. 1 <= m
    BY <1>2
  <2>3. time[1] <= time[m] /\ time[1] \in Nat /\ time[m] \in Nat
    BY <1>1, <1>2, <1>9, <1>10, <2>2
  <2>4. time[1] <= t
    BY <1>11, <2>1, <2>3
  <2>5. PriceAt(t) \in Int
    BY <1>5, <2>1, <2>4
  <2>6. QED
    BY <1>6, <2>1, <2>5
<1>18. \A k \in m .. n : p[k] \in Int
  BY <1>1, <1>2, <1>6
<1>19. StepFunction(m, n, b, p, F)
  BY <1>14, <1>15, <1>16, <1>17, <1>18 DEF StepFunction
<1>20. QED
  BY <1>8, <1>11, <1>13, <1>15, <1>19 DEF n

\* When the last snapshot is from before the interval, or the only one, its
\* price was in force all the time.
LEMMA AverageOfLast ==
    ASSUME TypeOK, SnapshotInv, NEW start \in Int, StartTime <= start, start < now,
           snapshots[Last].timestamp <= start
    PROVE  TimeAverage(start) = SnapshotPrice(Last)
<1> DEFINE price == SnapshotPrice(Last)
           F == [t \in start .. now - 1 |-> PriceAt(t)]
<1>1. /\ Last \in Nat \ {0} /\ Last \in 1 .. Last /\ now \in Nat /\ price \in Nat
      /\ snapshots[Last].timestamp \in Nat
  BY SnapshotTimes
<1>2. \A t \in start .. now - 1 : PriceAt(t) = price
  <2>1. SUFFICES ASSUME NEW t \in start .. now - 1 PROVE PriceAt(t) = price
    OBVIOUS
  <2>2. t \in Int /\ snapshots[Last].timestamp <= t
    BY <1>1
  <2>3. ~(Last < Last)
    BY <1>1
  <2>4. QED
    BY <1>1, <2>2, <2>3, SpotPriceInForce
<1>3. \A t \in start .. now - 1 : F[t] = price
  BY <1>2
<1>4. SumFunction(F) = SumFunctionOnSet(F, start .. now - 1)
  <2>1. DOMAIN F = start .. now - 1
    OBVIOUS
  <2> HIDE DEF F
  <2>2. QED
    BY <2>1, Zenon DEF SumFunction
<1>5. TimeAverage(start) = SumFunction(F) \div (now - start)
  BY Zenon DEF TimeAverage
<1> HIDE DEF F, price
<1>6. ConstantFrom(F, price, start, start, now)
  BY <1>1, <1>3 DEF ConstantFrom
<1>7. SumFunctionOnSet(F, start .. now - 1)
        = SumFunctionOnSet(F, start .. start - 1) + price * (now - start)
  BY <1>1, <1>6, SumOfConstant
<1>8. SumFunctionOnSet(F, start .. start - 1) = 0
  BY SumToNothing
<1>9. now - start \in Nat \ {0}
  BY <1>1
<1>10. TimeAverage(start) = (0 + price * (now - start)) \div (now - start)
  BY <1>4, <1>5, <1>7, <1>8, Zenon
<1>11. QED
  BY <1>1, <1>9, <1>10, QuotientOfProduct DEF price

\* The backward walk of calc_twap computes the mean spot price over time.
LEMMA SpotTwapIsMean ==
    ASSUME TypeOK, SnapshotInv, NEW interval \in Nat \ {0}, now > StartTime, now >= interval
    PROVE  SpotTwap(interval) = TimeAverage(Maximum(now - interval, StartTime))
<1> DEFINE n == Last
           from == now - interval
           start == Maximum(from, StartTime)
           price == [i \in 1 .. n |-> SnapshotPrice(i)]
           answer == CalcTwap(price, interval)
<1>1. /\ n \in Nat \ {0} /\ n \in 1 .. n /\ 1 \in 1 .. n /\ now \in Nat /\ StartTime \in Nat
      /\ \A i \in 1 .. n : snapshots[i].timestamp \in Nat
      /\ \A i \in 1 .. n : \A j \in i + 1 .. n :
            snapshots[i].timestamp < snapshots[j].timestamp
      /\ snapshots[1].timestamp = StartTime
  BY SnapshotTimes
<1>2. from \in Int /\ from < now /\ now - from = interval
  BY <1>1
<1>3. /\ start = IF from > StartTime THEN from ELSE StartTime
      /\ start \in Int /\ StartTime <= start /\ from <= start /\ start < now
  BY <1>1, <1>2 DEF Maximum
<1>4. SpotTwap(interval) = answer
  BY DEF SpotTwap
<1>5. \A i \in 1 .. n : price[i] = SnapshotPrice(i)
  OBVIOUS
<1> HIDE DEF n, price, start
<1>6. CASE n = 1 \/ snapshots[n].timestamp <= from
  <2>1. answer = SnapshotPrice(n)
    BY <1>1, <1>5, <1>6, Zenon DEF CalcTwap, n
  <2>2. snapshots[n].timestamp <= start
    BY <1>1, <1>2, <1>3, <1>6
  <2>3. TimeAverage(start) = SnapshotPrice(n)
    BY <1>3, <2>2, AverageOfLast DEF n
  <2>4. QED
    BY <1>4, <2>1, <2>3, Zenon DEF start
<1>7. CASE ~(n = 1 \/ snapshots[n].timestamp <= from)
  <2>1. PICK m \in Int : WalkEndsAt(from, VisitedSnapshots(interval), m)
    BY <1>1, WalkEnds
  <2>2. /\ m \in 1 .. n /\ VisitedSnapshots(interval) = m .. n
        /\ m = 1 \/ snapshots[m].timestamp <= from
    BY <2>1 DEF WalkEndsAt, n
  <2> DEFINE b == Boundary(from, m)
             v == [k \in m .. n |-> price[k] * Held(k, from)]
             F == [t \in start .. now - 1 |-> PriceAt(t)]
             period == IF snapshots[1].timestamp <= from
                       THEN interval ELSE now - snapshots[1].timestamp
  <2> HIDE DEF from, b
  <2>3. b[m] = IF snapshots[m].timestamp <= from THEN from ELSE snapshots[m].timestamp
    <3>1. m \in m .. n + 1
      BY <1>1, <2>2
    <3>2. QED
      BY <3>1 DEF b, Boundary, n
  <2>4. StartTime <= snapshots[m].timestamp /\ snapshots[m].timestamp \in Nat
    <3>1. CASE m = 1
      BY <1>1, <3>1
    <3>2. CASE m # 1
      <4>1. m \in 1 + 1 .. n
        BY <1>1, <2>2, <3>2
      <4>2. QED
        BY <1>1, <2>2, <4>1
    <3>3. QED
      BY <3>1, <3>2
  <2>5. start = b[m] /\ period = now - start
    <3>1. CASE snapshots[m].timestamp <= from
      <4>1. b[m] = from /\ StartTime <= from
        BY <1>1, <1>2, <2>3, <2>4, <3>1
      <4>2. start = from
        BY <1>1, <1>2, <1>3, <4>1
      <4>3. period = interval
        BY <1>1, <4>1
      <4>4. QED
        BY <1>2, <4>1, <4>2, <4>3
    <3>2. CASE ~(snapshots[m].timestamp <= from)
      <4>1. b[m] = StartTime /\ from < StartTime
        BY <1>1, <1>2, <2>2, <2>3, <3>2
      <4>2. start = StartTime
        BY <1>1, <1>2, <1>3, <4>1
      <4>3. period = now - StartTime
        BY <1>1, <1>2, <4>1
      <4>4. QED
        BY <4>1, <4>2, <4>3
    <3>3. QED
      BY <3>1, <3>2
  <2> HIDE DEF period
  <2>6. \A t \in b[m] .. now - 1 : F[t] = PriceAt(t)
    BY <2>5
  <2>7. SumFunction(F) = SumFunctionOnSet(F, start .. now - 1)
    <3>1. DOMAIN F = start .. now - 1
      OBVIOUS
    <3> HIDE DEF F
    <3>2. QED
      BY <3>1, Zenon DEF SumFunction
  <2>8. SumFunction(v) = SumFunctionOnSet(v, m .. n)
    <3>1. DOMAIN v = m .. n
      OBVIOUS
    <3> HIDE DEF v
    <3>2. QED
      BY <3>1, Zenon DEF SumFunction
  <2>9. TimeAverage(start) = SumFunction(F) \div (now - start)
    BY Zenon DEF TimeAverage
  <2> HIDE DEF F
  <2>10. /\ StepFunction(m, n, b, price, F)
         /\ b[n + 1] = now
         /\ \A k \in m .. n : Held(k, from) = b[k + 1] - b[k]
    <3>1. \A k \in m .. Last : price[k] = SnapshotPrice(k)
      BY <1>1, <1>5, <2>2 DEF n
    <3>2. QED
      BY <1>2, <2>1, <2>6, <3>1, SnapshotsAreSteps DEF b, n
  <2>11. \A k \in m .. n : v[k] = price[k] * (b[k + 1] - b[k])
    BY <2>10
  <2>12. answer = SumFunction(v) \div period
    BY <1>7, <2>2, Zenon DEF CalcTwap, n, period, from
  <2> HIDE DEF v, answer
  <2>13. SumFunctionOnSet(v, m .. n) = SumFunctionOnSet(F, b[m] .. b[n + 1] - 1)
    BY <1>1, <2>2, <2>10, <2>11, SumOfSteps
  <2>14. SumFunction(v) = SumFunction(F)
    BY <2>5, <2>7, <2>8, <2>10, <2>13, Zenon
  <2>15. answer = TimeAverage(start)
    BY <2>5, <2>9, <2>12, <2>14, Zenon
  <2>16. QED
    BY <1>4, <2>15, Zenon DEF start, from
<1>8. QED
  BY <1>6, <1>7

\* The spot TWAP of the AMM is the mean of the spot price over the interval.
THEOREM TwapsAreTimeAverages == Spec => []TwapIsTimeAverage
<1>1. TypeOK /\ SnapshotInv => TwapIsTimeAverage
  <2>1. SUFFICES ASSUME TypeOK, SnapshotInv,
                        NEW interval \in MinTwapInterval .. MaxTwapInterval,
                        now > StartTime, now >= interval
                 PROVE  SpotTwap(interval) = TimeAverage(Maximum(now - interval, StartTime))
    BY DEF TwapIsTimeAverage
  <2>2. interval \in Nat \ {0}
    BY TimeAssumption
  <2>3. QED
    BY <2>1, <2>2, SpotTwapIsMean
<1>2. QED
  BY <1>1, TypeCorrectness, SnapshotInvariance, PTL
=============================================================================

-------------------------- MODULE EngineBookProofs --------------------------
(***************************************************************************)
(* The books of the engine: their types, who a transaction may touch, the  *)
(* caps, and that what the traders hold is what the AMM has sold, for any   *)
(* number of traders and any configuration.                                *)
(***************************************************************************)
EXTENDS MarginEngineProofs

-----------------------------------------------------------------------------
(* The inductive invariant                                                 *)

\* Where the transaction started from, and the answer it waits for.
Start == Head(checkpoint)
AwaitedId == Awaits(queue, reply)
Settled == AwaitedId \notin SwapIds \union {Funding}

\* The traders who may not be touched by a transaction of `trader'.
Uninvolved(trader) == (Traders \ Liquidators) \ {trader}

\* Transfers among accounts that a transaction of `trader' may touch.
Pays(s, trader) ==
    /\ IsSequence(s)
    /\ \A i \in 1 .. Len(s) : s[i].kind = "transfer" =>
          /\ s[i].amount \in Nat
          /\ s[i].from \in Holders \ Uninvolved(trader)
          /\ s[i].to \in Holders \ Uninvolved(trader)
          /\ s[i].from # s[i].to

\* Only a position that was never stored, or was removed, does not exist.
OnlyStored(p) == \A trader \in Traders : ~p[trader].exists => p[trader] = NoPosition

SavedTypes(r) ==
    /\ r.engine_state \in EngineState /\ r.vamm_map \in VammMap
    /\ r.positions \in [Traders -> Position] /\ OnlyStored(r.positions)
    /\ r.balance \in [Holders -> Nat] /\ r.txs \in Nat

TypeInv ==
    /\ ContractTypeOK /\ OnlyStored(positions)
    /\ reply.id = Funding => reply.input \in Int
    /\ AwaitedId \in LiquidationIds => tmp_liquidator \in Liquidators
    /\ ~Idle => SavedTypes(Start)

\* The record s of a swap, and the position p it is about, while the answer
\* `id' is awaited.
Fits(id, p, s) ==
    /\ id = IncreasePosition /\ p.exists => p.direction = s.side \/ p.size = 0
    /\ id \in {DecreasePosition, ReversePosition} => p.exists /\ p.direction # s.side
    /\ id \in SwapIds \ TradeIds => p.size # 0
    /\ id = PartialClosePosition => s.side = IF p.size > 0 THEN RemoveFromAmm ELSE AddToAmm
    /\ id \in TradeIds => s.leverage # 0
    /\ s.fees_paid => id = IncreasePosition

\* What is asked of the AMM for it.
Asks(m, p, s) ==
    /\ m.id \in {IncreasePosition, DecreasePosition, PartialClosePosition} =>
          m.kind = "swap_input" /\ m.direction = s.side /\ m.amount = s.open_notional
    /\ m.id \in {ReversePosition, ClosingPosition, Liquidation} =>
          m.kind = "swap_output" /\ m.direction = p.direction /\ m.amount = Abs(p.size)
    /\ m.id \in {DecreasePosition, PartialClosePosition} =>
          SpotNotionalDefined(p) /\ s.position_notional = SpotNotional(p)
    /\ m.id = DecreasePosition => s.open_notional < s.position_notional
    /\ m.id = PartialLiquidation /\ m.kind = "swap_output" =>
          m.direction = p.direction /\ m.amount = Part(Abs(p.size))

Restricted(r, trader) ==
    r.vamm_map.last_restriction_block = height /\ r.positions[trader].block_number = height

SwapInv ==
    AwaitedId \in SwapIds =>
        LET p == positions[tmp_swap.trader]
        IN  /\ tmp_swap.trader \in Traders
            /\ Fits(AwaitedId, p, tmp_swap)
            /\ CallsAmm(queue) => Asks(queue[Len(queue)], p, tmp_swap)
            /\ reply.id = IncreasePosition => reply.input = tmp_swap.open_notional
            /\ AwaitedId \notin LiquidationIds => ~Restricted(Start, tmp_swap.trader)

\* One trader at most is served, and the collateral only changes hands.
Serves(trader) ==
    /\ Pays(queue, trader)
    /\ AwaitedId \in SwapIds => tmp_swap.trader = trader
    /\ \A other \in Traders \ {trader} : positions[other] = Start.positions[other]
    /\ \A other \in Uninvolved(trader) : balance[other] = Start.balance[other]
OneTraderInv ==
    ~Idle => /\ \E trader \in Traders \union {NoAccount} : Serves(trader)
             /\ Book!Supply(balance) = Book!Supply(Start.balance)

\* Until its swap is answered a transaction leaves the books alone, but for
\* the position a reversal has closed.
Interest(s) == s.open_interest_notional
InterestAllowed ==
    \/ OpenInterestCap = 0
    \/ Interest(engine_state) <= Interest(Start.engine_state)
    \/ Interest(engine_state) <= OpenInterestCap
    \/ \E trader \in whitelist \intersect Traders : positions[trader] # Start.positions[trader]
InterestInv ==
    ~Idle =>
        /\ ~Settled /\ ~tmp_swap.fees_paid =>
              positions = Start.positions
                /\ Interest(engine_state) = Interest(Start.engine_state)
        /\ tmp_swap.fees_paid =>
              LET old == Start.positions[tmp_swap.trader]
                  p == positions[tmp_swap.trader]
              IN  /\ old.exists /\ old.direction # tmp_swap.side
                  /\ p.exists /\ p.size = 0 /\ p.notional = 0
                  /\ Interest(engine_state) <= Interest(Start.engine_state)
        /\ Settled => InterestAllowed

BookInv == TypeInv /\ SwapInv /\ OneTraderInv /\ InterestInv

-----------------------------------------------------------------------------
(* Transfers                                                               *)

\* The contracts, the liquidators and the trader served may be paid.
LEMMA Payable ==
    ASSUME NEW trader
    PROVE  /\ Engine \in Holders \ Uninvolved(trader)
           /\ InsuranceFunds \union FeePools \subseteq Holders \ Uninvolved(trader)
           /\ Liquidators \subseteq Holders \ Uninvolved(trader)
           /\ trader \in Traders => trader \in Holders \ Uninvolved(trader)
           /\ engine_config \in EngineConfig =>
                 /\ engine_config.insurance_fund \in Holders \ Uninvolved(trader)
                 /\ engine_config.fee_pool \in Holders \ Uninvolved(trader)
                 /\ {engine_config.insurance_fund, engine_config.fee_pool}
                       \intersect ({Engine} \union Traders) = {}
           /\ Engine \notin Traders \union Liquidators \union InsuranceFunds
BY PartiesAssumption DEF Holders, Uninvolved, EngineConfig

LEMMA PaysNothing ==
    ASSUME NEW trader
    PROVE  Pays(<<>>, trader)
BY SMT DEF Pays, IsSequence

LEMMA PaysOne ==
    ASSUME NEW trader, NEW from \in Holders \ Uninvolved(trader),
           NEW to \in Holders \ Uninvolved(trader), from # to, NEW amount \in Nat
    PROVE  Pays(<<Transfer(from, to, amount)>>, trader)
<1> DEFINE m == Transfer(from, to, amount)
<1>1. m.amount = amount /\ m.from = from /\ m.to = to
  BY DEF Transfer
<1> HIDE DEF m
<1>2. <<m>> \in Seq({m}) /\ \A i \in 1 .. Len(<<m>>) : <<m>>[i] = m
  BY SMT
<1>3. Pays(<<m>>, trader)
  BY <1>1, <1>2, Zenon DEF Pays, IsSequence
<1>4. QED
  BY <1>3 DEF m

LEMMA PaysBoth ==
    ASSUME NEW trader, NEW s, NEW t, Pays(s, trader), Pays(t, trader)
    PROVE  Pays(s \o t, trader)
<1>1. PICK S : s \in Seq(S)
  BY DEF Pays, IsSequence
<1>2. PICK T : t \in Seq(T)
  BY DEF Pays, IsSequence
<1>3. s \in Seq(S \union T) /\ t \in Seq(S \union T)
  BY <1>1, <1>2, SMT
<1>4. /\ s \o t \in Seq(S \union T)
      /\ \A i \in 1 .. Len(s \o t) :
            \/ i \in 1 .. Len(s) /\ (s \o t)[i] = s[i]
            \/ i - Len(s) \in 1 .. Len(t) /\ (s \o t)[i] = t[i - Len(s)]
  BY <1>3, SMT
<1>5. QED
  BY <1>4, Zenon DEF Pays, IsSequence

LEMMA PaysCall ==
    ASSUME NEW trader, NEW m, m.kind # "transfer"
    PROVE  Pays(<<m>>, trader)
<1>1. <<m>> \in Seq({m}) /\ \A i \in 1 .. Len(<<m>>) : <<m>>[i] = m
  BY SMT
<1>2. QED
  BY <1>1, Zenon DEF Pays, IsSequence

LEMMA PaysRest ==
    ASSUME NEW trader, NEW s, s # <<>>, Pays(s, trader)
    PROVE  /\ Pays(Tail(s), trader)
           /\ Head(s).kind = "transfer" =>
                 /\ Head(s).amount \in Nat
                 /\ Head(s).from \in Holders \ Uninvolved(trader)
                 /\ Head(s).to \in Holders \ Uninvolved(trader)
                 /\ Head(s).from # Head(s).to
<1>1. PICK S : s \in Seq(S)
  BY DEF Pays, IsSequence
<1>2. /\ Tail(s) \in Seq(S) /\ 1 \in 1 .. Len(s) /\ Head(s) = s[1]
      /\ \A i \in 1 .. Len(Tail(s)) : i + 1 \in 1 .. Len(s) /\ Tail(s)[i] = s[i + 1]
  BY <1>1, SMT
<1>3. QED
  BY <1>2, Zenon DEF Pays, IsSequence

\* Fees and withdrawals are naturals, whatever the vault lacks.
LEMMA FeeTypes ==
    ASSUME engine_config \in EngineConfig, NEW n \in Nat
    PROVE  /\ SpreadFee(n) \in Nat /\ TollFee(n) \in Nat
           /\ (n * engine_config.liquidation_fee) \div Decimals \in Nat
           /\ ((n * engine_config.liquidation_fee) \div Decimals) \div 2 \in Nat
<1>1. /\ SpreadRatio \in Nat /\ TollRatio \in Nat /\ engine_config.liquidation_fee \in Nat
      /\ 2 \in Nat \ {0}
  BY EngineConstantsAssumption, DecimalsAssumption, SMT DEF EngineConfig
<1>2. QED
  BY <1>1, ScaledAmounts, DivMod DEF SpreadFee, TollFee

LEMMA ShortfallType ==
    ASSUME balance \in [Holders -> Nat], NEW amount \in Int, NEW prepaid \in Int
    PROVE  Shortfall(amount, prepaid) \in Nat
<1>1. balance[Engine] \in Nat
  BY DEF Holders
<1>2. QED
  BY <1>1, SMT DEF Shortfall, AtLeastZero

LEMMA PaysWithdraw ==
    ASSUME balance \in [Holders -> Nat], engine_config \in EngineConfig, NEW trader,
           NEW receiver \in Holders \ Uninvolved(trader), receiver # Engine, NEW amount \in Nat,
           NEW prepaid \in Int
    PROVE  Pays(Withdraw(receiver, amount, prepaid), trader)
<1>1. Shortfall(amount, prepaid) \in Nat
  <2>1. amount \in Int
    BY SMT
  <2>2. QED
    BY <2>1, ShortfallType
<1> DEFINE fund == engine_config.insurance_fund
           lacking == Shortfall(amount, prepaid)
           first == IF lacking > 0 THEN <<Transfer(fund, Engine, lacking)>> ELSE <<>>
           second == <<Transfer(Engine, receiver, amount)>>
<1>2. fund \in Holders \ Uninvolved(trader) /\ Engine \in Holders \ Uninvolved(trader)
      /\ fund # Engine
  BY Payable
<1>3. Pays(first, trader) /\ Pays(second, trader)
  BY <1>1, <1>2, PaysOne, PaysNothing
<1>4. Withdraw(receiver, amount, prepaid) = first \o second
  BY Zenon DEF Withdraw
<1> HIDE DEF first, second
<1>5. QED
  BY <1>3, <1>4, PaysBoth

LEMMA PaysFees ==
    ASSUME engine_config \in EngineConfig, NEW trader \in Traders, NEW notional \in Nat
    PROVE  Pays(TransferFees(trader, notional), trader)
<1>1. \A from \in Holders \ Uninvolved(trader), to \in Holders \ Uninvolved(trader),
         n \in Nat : from # to => Pays(TransferUnlessZero(from, to, n), trader)
  BY PaysOne, PaysNothing, Zenon DEF TransferUnlessZero
<1>2. /\ (IF Native THEN Engine ELSE trader) \in Holders \ Uninvolved(trader)
      /\ (IF Native THEN Engine ELSE trader)
            \notin {engine_config.insurance_fund, engine_config.fee_pool}
  BY Payable
<1>3. QED
  BY <1>1, <1>2, FeeTypes, Payable, PaysBoth, Zenon DEF TransferFees

-----------------------------------------------------------------------------
(* Types                                                                   *)

LEMMA MarginTypes ==
    ASSUME vamm_map \in VammMap, NEW p \in Position, NEW delta \in Int
    PROVE  /\ FundingPayment(p) \in Int /\ Remaining(p, delta) \in Int
           /\ RemainMargin(p, delta) \in Nat /\ BadDebt(p, delta) \in Nat
<1>1. /\ vamm_map.cumulative_premium_fraction - p.last_updated_premium_fraction \in Int
      /\ p.size \in Int /\ p.margin \in Int
  BY SMT DEF VammMap, Position
<1> DEFINE premium == vamm_map.cumulative_premium_fraction - p.last_updated_premium_fraction
<1> HIDE DEF premium
<1>2. premium * p.size \in Int
  BY <1>1, SMT DEF premium
<1>3. FundingPayment(p) \in Int
  BY <1>2, TruncDivType, DecimalsAssumption DEF FundingPayment, premium
<1>4. Remaining(p, delta) \in Int
  BY <1>1, <1>3, SMT DEF Remaining
<1>5. QED
  BY <1>3, <1>4, SMT DEF RemainMargin, BadDebt, AtLeastZero

\* What positions and records are read as by the earlier proofs.
LEMMA PositionFields ==
    ASSUME NEW p \in Position
    PROVE  /\ IsPosition(p)
           /\ p.exists \in BOOLEAN /\ p.direction \in Direction /\ p.size \in Int
           /\ p.margin \in Nat /\ p.notional \in Nat
           /\ p.last_updated_premium_fraction \in Int /\ p.block_number \in Nat
BY SMT DEF Position, IsPosition

\* Each field of a position by itself, and then those the replies assign.
LEMMA FieldUpdate ==
    /\ \A p \in Position, v \in BOOLEAN : [p EXCEPT !.exists = v] \in Position
    /\ \A p \in Position, v \in Direction : [p EXCEPT !.direction = v] \in Position
    /\ \A p \in Position, v \in Int : [p EXCEPT !.size = v] \in Position
    /\ \A p \in Position, v \in Nat : [p EXCEPT !.margin = v] \in Position
    /\ \A p \in Position, v \in Nat : [p EXCEPT !.notional = v] \in Position
    /\ \A p \in Position, v \in Int : [p EXCEPT !.last_updated_premium_fraction = v] \in Position
    /\ \A p \in Position, v \in Nat : [p EXCEPT !.block_number = v] \in Position
<1>1. \A p \in Position, v \in BOOLEAN : [p EXCEPT !.exists = v] \in Position
  BY SMT DEF Position
<1>2. \A p \in Position, v \in Direction : [p EXCEPT !.direction = v] \in Position
  BY SMT DEF Position
<1>3. \A p \in Position, v \in Int : [p EXCEPT !.size = v] \in Position
  BY SMT DEF Position
<1>4. \A p \in Position, v \in Nat : [p EXCEPT !.margin = v] \in Position
  BY SMT DEF Position
<1>5. \A p \in Position, v \in Nat : [p EXCEPT !.notional = v] \in Position
  BY SMT DEF Position
<1>6. \A p \in Position, v \in Int : [p EXCEPT !.last_updated_premium_fraction = v] \in Position
  BY SMT DEF Position
<1>7. \A p \in Position, v \in Nat : [p EXCEPT !.block_number = v] \in Position
  BY SMT DEF Position
<1>8. QED
  BY <1>1, <1>2, <1>3, <1>4, <1>5, <1>6, <1>7

LEMMA NewPosition ==
    /\ NoPosition \in Position
    /\ \A direction \in Direction :
          height \in Nat => [NoPosition EXCEPT !.exists = TRUE, !.direction = direction,
                                               !.block_number = height] \in Position
<1>1. NoPosition \in Position
  BY SMT DEF NoPosition, Position, Direction
<1>2. ASSUME NEW d \in Direction, height \in Nat
      PROVE  [NoPosition EXCEPT !.exists = TRUE, !.direction = d, !.block_number = height]
                \in Position
  <2>1. [[[NoPosition EXCEPT !.exists = TRUE] EXCEPT !.direction = d]
            EXCEPT !.block_number = height] \in Position
    BY <1>1, <1>2, FieldUpdate, Zenon
  <2>2. QED
    BY <2>1
<1>3. QED
  BY <1>1, <1>2

LEMMA PositionUpdate ==
    ASSUME NEW p \in Position, NEW d \in Direction, NEW s \in Int, NEW m \in Nat, NEW n \in Nat,
           NEW l \in Int, NEW b \in Nat
    PROVE  /\ [p EXCEPT !.margin = m] \in Position
           /\ [p EXCEPT !.margin = m, !.last_updated_premium_fraction = l] \in Position
           /\ [p EXCEPT !.size = s, !.margin = m, !.notional = n] \in Position
           /\ [p EXCEPT !.size = s, !.margin = m, !.notional = n,
                        !.last_updated_premium_fraction = l, !.block_number = b] \in Position
           /\ [p EXCEPT !.direction = d, !.notional = n, !.size = s, !.margin = m,
                        !.last_updated_premium_fraction = l, !.block_number = b] \in Position
<1>1. [p EXCEPT !.margin = m] \in Position
  BY FieldUpdate
<1>2. [[p EXCEPT !.margin = m] EXCEPT !.last_updated_premium_fraction = l] \in Position
  BY <1>1, FieldUpdate, Zenon
<1>3. [[[p EXCEPT !.size = s] EXCEPT !.margin = m] EXCEPT !.notional = n] \in Position
  BY FieldUpdate, Zenon
<1>4. [[[[[p EXCEPT !.size = s] EXCEPT !.margin = m] EXCEPT !.notional = n]
          EXCEPT !.last_updated_premium_fraction = l] EXCEPT !.block_number = b] \in Position
  BY <1>3, FieldUpdate, Zenon
<1>5. [[[[[[p EXCEPT !.direction = d] EXCEPT !.notional = n] EXCEPT !.size = s]
           EXCEPT !.margin = m] EXCEPT !.last_updated_premium_fraction = l]
         EXCEPT !.block_number = b] \in Position
  BY FieldUpdate, Zenon
<1>6. QED
  BY <1>1, <1>2, <1>3, <1>4, <1>5

LEMMA SwapTypes ==
    /\ NoSwap \in TmpSwap
    /\ \A t \in Traders, s \in Direction : \A l \in Nat, n \in Nat, v \in Nat, u \in Int :
          Swapping(t, s, l, n, v, u) \in TmpSwap
<1>1. NoSwap \in TmpSwap
  BY SMT DEF NoSwap, TmpSwap, Direction
<1>2. ASSUME NEW t \in Traders, NEW s \in Direction, NEW l \in Nat, NEW n \in Nat, NEW v \in Nat,
             NEW u \in Int
      PROVE  Swapping(t, s, l, n, v, u) \in TmpSwap
  BY SMT DEF Swapping, TmpSwap
<1>3. QED
  BY <1>1, <1>2

LEMMA SwapFields ==
    ASSUME NEW s \in TmpSwap
    PROVE  /\ s.trader \in Traders \union {NoAccount} /\ s.side \in Direction
           /\ s.leverage \in Nat /\ s.open_notional \in Nat /\ s.position_notional \in Nat
           /\ s.unrealized_pnl \in Int /\ s.margin_to_vault \in Int /\ s.fees_paid \in BOOLEAN
BY SMT DEF TmpSwap

-----------------------------------------------------------------------------
(* The collateral                                                          *)

LEMMA SupplyIsSum == \A ledger : Book!Supply(ledger) = SumFunctionOnSet(ledger, Holders)
BY DEF Book!Supply, Book!SumFunctionOnSet, SumFunctionOnSet, Book!FoldFunctionOnSet,
   FoldFunctionOnSet, Book!MapThenFoldSet, MapThenFoldSet

\* SumChange, as the sums below use it.
SumFollows(f, g, z, S) == SumFunctionOnSet(g, S) = SumFunctionOnSet(f, S) + (g[z] - f[z])
LEMMA ChangeOne ==
    ASSUME NEW S, IsFiniteSet(S), NEW f, NEW g, NEW z \in S,
           \A x \in S : f[x] \in Int, \A x \in S : g[x] \in Int,
           \A x \in S : x # z => f[x] = g[x]
    PROVE  SumFollows(f, g, z, S)
BY SumChange, SMT DEF SumFollows

\* The ledger after a payment.
Paid(ledger, from, to, n) == [ledger EXCEPT ![from] = @ - n, ![to] = @ + n]

\* A payment from one holder to another changes no other purse, and no sum.
LEMMA Payment ==
    ASSUME NEW ledger \in [Holders -> Nat], NEW from \in Holders, NEW to \in Holders,
           from # to, NEW n \in Nat, n <= ledger[from]
    PROVE  /\ Paid(ledger, from, to, n) \in [Holders -> Nat]
           /\ Book!Supply(Paid(ledger, from, to, n)) = Book!Supply(ledger)
           /\ \A other \in Holders \ {from, to} :
                 Paid(ledger, from, to, n)[other] = ledger[other]
<1> DEFINE after == Paid(ledger, from, to, n)
           mid == [ledger EXCEPT ![from] = ledger[from] - n]
<1>1. after = [mid EXCEPT ![to] = mid[to] + n]
  <2>1. mid[to] = ledger[to]
    OBVIOUS
  <2>2. QED
    BY <2>1 DEF Paid
<1>2. mid \in [Holders -> Nat] /\ mid[from] = ledger[from] - n
      /\ \A other \in Holders \ {from} : mid[other] = ledger[other]
  <2>1. ledger[from] - n \in Nat
    BY SMT
  <2>2. QED
    BY <2>1
<1> HIDE DEF mid, after
<1>3. after \in [Holders -> Nat] /\ after[to] = mid[to] + n
      /\ \A other \in Holders \ {to} : after[other] = mid[other]
  <2>1. mid[to] + n \in Nat
    BY <1>2, SMT
  <2>2. QED
    BY <1>1, <1>2, <2>1
<1>4. /\ \A holder \in Holders : ledger[holder] \in Int
      /\ \A holder \in Holders : mid[holder] \in Int
      /\ \A holder \in Holders : after[holder] \in Int
  BY <1>2, <1>3, SMT
<1>5. SumFollows(ledger, mid, from, Holders)
  <2>1. \A x \in Holders : x # from => ledger[x] = mid[x]
    BY <1>2
  <2>2. QED
    BY <1>4, <2>1, ChangeOne, HoldersAssumption, Zenon
<1>6. SumFollows(mid, after, to, Holders)
  <2>1. \A x \in Holders : x # to => mid[x] = after[x]
    BY <1>3
  <2>2. QED
    BY <1>4, <2>1, ChangeOne, HoldersAssumption, Zenon
<1>7. SumFunctionOnSet(ledger, Holders) \in Int
  BY <1>4, SumType, HoldersAssumption
<1>8. SumFunctionOnSet(after, Holders) = SumFunctionOnSet(ledger, Holders)
  <2>1. ledger[from] \in Int /\ mid[to] \in Int /\ n \in Int
    BY <1>4, SMT
  <2> DEFINE total == SumFunctionOnSet(ledger, Holders)
             between == SumFunctionOnSet(mid, Holders)
             final == SumFunctionOnSet(after, Holders)
  <2> HIDE DEF total, between, final
  <2>2. total \in Int /\ between = total + (mid[from] - ledger[from])
        /\ final = between + (after[to] - mid[to])
    BY <1>5, <1>6, <1>7 DEF total, between, final, SumFollows
  <2>3. final = total
    BY <2>1, <2>2, <1>2, <1>3, SMT
  <2>4. QED
    BY <2>3 DEF total, final
<1>9. QED
  BY <1>2, <1>3, <1>8, SupplyIsSum DEF after

-----------------------------------------------------------------------------
(* What every step has to show                                             *)

LEMMA HeadOfOne == \A r : Head(<<r>>) = r /\ <<r>> # <<>>
<1> TAKE r
<1> QED
  BY SMT

\* The books at the start of the transaction, for steps within it.
LEMMA StartKept ==
    ASSUME UNCHANGED <<checkpoint>>
    PROVE  Start' = Start /\ Idle' = Idle
BY DEF Start, Idle

\* A handler that begins a transaction of `trader'.
LEMMA BeginBook ==
    ASSUME RecordInv, SafetyInv, BookInv,
           NEW trader, NEW sender, sender \in Holders \ Uninvolved(trader), sender # Engine,
           NEW funds \in Nat, NEW msgs, BeginWith(sender, funds, msgs), Pays(msgs, trader),
           positions' \in [Traders -> Position], OnlyStored(positions'),
           \A other \in Traders \ {trader} : positions'[other] = positions[other],
           engine_state' \in EngineState, Interest(engine_state') = Interest(engine_state),
           vamm_map' = vamm_map, tmp_swap' \in TmpSwap,
           tmp_liquidator' \in Liquidators \union {NoAccount},
           sent_funds' \in [stored: BOOLEAN, amount: Nat, required: Nat],
           ~tmp_swap'.fees_paid,
           Awaits(msgs, NoReply) \in LiquidationIds => tmp_liquidator' \in Liquidators,
           Awaits(msgs, NoReply) \in SwapIds \union {Funding} => positions' = positions,
           Awaits(msgs, NoReply) \in SwapIds =>
              /\ trader \in Traders /\ tmp_swap'.trader = trader
              /\ Fits(Awaits(msgs, NoReply), positions[trader], tmp_swap')
              /\ Asks(msgs[Len(msgs)], positions[trader], tmp_swap')
              /\ Awaits(msgs, NoReply) \notin LiquidationIds => NotRestricted(trader),
           trader \in Traders \union {NoAccount}
    PROVE  BookInv'
<1>1. /\ Idle /\ txs' = txs + 1 /\ checkpoint' = <<Saved>> /\ queue' = msgs
      /\ balance' = Paid(balance, sender, Engine, funds)
      /\ funds <= balance[sender]
      /\ UNCHANGED <<vars, settings, reply>>
  BY DEF BeginWith, Received, Paid
<1>2. reply = NoReply
  BY <1>1, IdleIsClean
<1> DEFINE id == Awaits(msgs, NoReply)
<1>3. AwaitedId' = id /\ reply' = NoReply
  BY <1>1, <1>2 DEF AwaitedId
<1> HIDE DEF id
<1>4. Start' = Saved /\ ~Idle'
  BY <1>1, HeadOfOne DEF Start, Idle
<1>5. /\ Saved.engine_state = engine_state /\ Saved.vamm_map = vamm_map
      /\ Saved.positions = positions /\ Saved.balance = balance /\ Saved.txs = txs
  BY DEF Saved
<1>6. ContractTypeOK /\ OnlyStored(positions)
  BY DEF BookInv, TypeInv
<1>7. height' = height
  BY <1>1 DEF vars
<1>8. /\ balance' \in [Holders -> Nat]
      /\ Book!Supply(balance') = Book!Supply(balance)
      /\ \A other \in Uninvolved(trader) : balance'[other] = balance[other]
  <2>1. sender \in Holders /\ Engine \in Holders /\ Engine \notin Uninvolved(trader)
        /\ Uninvolved(trader) \subseteq Holders
    BY Payable DEF Holders, Uninvolved
  <2>2. balance \in [Holders -> Nat]
    BY <1>6 DEF ContractTypeOK
  <2>3. \A other \in Uninvolved(trader) : other \in Holders \ {sender, Engine}
    BY <2>1
  <2>4. funds <= balance[sender] /\ sender # Engine
    BY <1>1
  <2>5. /\ Paid(balance, sender, Engine, funds) \in [Holders -> Nat]
        /\ Book!Supply(Paid(balance, sender, Engine, funds)) = Book!Supply(balance)
        /\ \A other \in Holders \ {sender, Engine} :
              Paid(balance, sender, Engine, funds)[other] = balance[other]
    BY <2>1, <2>2, <2>4, Payment
  <2>6. QED
    BY <1>1, <2>3, <2>5, Zenon
<1>9. TypeInv'
  <2>1. ContractTypeOK'
    BY <1>1, <1>6, <1>8, SMT DEF ContractTypeOK, settings
  <2>2. (~Idle => SavedTypes(Start))'
    BY <1>4, <1>5, <1>6 DEF SavedTypes, ContractTypeOK, OnlyStored
  <2>3. reply'.id # Funding
    BY <1>3, NoAnswer
  <2>4. QED
    BY <1>3, <2>1, <2>2, <2>3 DEF TypeInv, id
<1>10. SwapInv'
  <2>1. ASSUME id \in SwapIds
        PROVE  /\ positions'[tmp_swap'.trader] = positions[trader]
               /\ tmp_swap'.trader \in Traders
               /\ Fits(id, positions[trader], tmp_swap')
               /\ Asks(msgs[Len(msgs)], positions[trader], tmp_swap')
               /\ id \notin LiquidationIds => NotRestricted(trader)
    BY <2>1 DEF id
  <2>2. ASSUME id \in SwapIds, id \notin LiquidationIds
        PROVE  ~Restricted(Start, tmp_swap.trader)'
    BY <1>4, <1>5, <1>7, <2>1, <2>2 DEF Restricted, NotRestricted, id
  <2>3. reply'.id # IncreasePosition
    BY <1>3, NoAnswer DEF BandedIds
  <2>4. ASSUME id \in SwapIds
        PROVE  Asks(queue[Len(queue)], positions[tmp_swap.trader], tmp_swap)'
    BY <1>1, <2>1, <2>4 DEF Asks, SpotNotional, SpotNotionalDefined, Part, vars, state, settings
  <2>5. ASSUME id \in SwapIds
        PROVE  Fits(AwaitedId, positions[tmp_swap.trader], tmp_swap)'
    BY <1>3, <2>1, <2>5 DEF Fits
  <2>6. QED
    BY <1>3, <2>1, <2>2, <2>3, <2>4, <2>5 DEF SwapInv
<1>11. OneTraderInv'
  <2>1. Serves(trader)'
    BY <1>1, <1>3, <1>4, <1>5, <1>8 DEF Serves, id, Pays, Uninvolved
  <2>2. QED
    BY <1>4, <1>5, <1>8, <2>1 DEF OneTraderInv
<1>12. InterestInv'
  <2>1. Interest(engine_state') \in Int
    BY SMT DEF EngineState, Interest
  <2>2. QED
    BY <1>3, <1>4, <1>5, <2>1 DEF InterestInv, Settled, InterestAllowed, id, Interest
<1>13. QED
  BY <1>9, <1>10, <1>11, <1>12 DEF BookInv

\* What holds while the answer `id' to a swap is handled, of the trader it is
\* for.
LEMMA AnswerFacts ==
    ASSUME RecordInv, SafetyInv, BookInv, NEW id \in SwapIds, reply.id = id
    PROVE  /\ ~Idle /\ queue = <<>> /\ AwaitedId = id
           /\ tmp_swap.trader \in Traders /\ tmp_swap \in TmpSwap
           /\ positions[tmp_swap.trader] \in Position
           /\ Fits(id, positions[tmp_swap.trader], tmp_swap)
           /\ id = IncreasePosition => reply.input = tmp_swap.open_notional
           /\ id \notin LiquidationIds => ~Restricted(Start, tmp_swap.trader)
           /\ id \in LiquidationIds => tmp_liquidator \in Liquidators
           /\ Serves(tmp_swap.trader)
           /\ Book!Supply(balance) = Book!Supply(Start.balance)
           /\ reply.input \in Nat /\ reply.output \in Nat
           /\ SavedTypes(Start)
<1>1. id # "none" /\ id # Funding
  BY ReplyIds
<1>2. queue = <<>> /\ ~Idle
  BY <1>1, AnswerHandled
<1>3. AwaitedId = id
  BY <1>2, NoTransfer, QueueOfTransfers DEF AwaitedId, Awaits
<1>4. /\ tmp_swap.trader \in Traders
      /\ Fits(id, positions[tmp_swap.trader], tmp_swap)
      /\ id = IncreasePosition => reply.input = tmp_swap.open_notional
      /\ id \notin LiquidationIds => ~Restricted(Start, tmp_swap.trader)
  BY <1>3, Zenon DEF BookInv, SwapInv
<1>5. tmp_swap \in TmpSwap /\ positions \in [Traders -> Position]
      /\ (id \in LiquidationIds => tmp_liquidator \in Liquidators) /\ SavedTypes(Start)
  BY <1>2, <1>3 DEF BookInv, TypeInv, ContractTypeOK
<1>6. Serves(tmp_swap.trader)
  <2>1. PICK trader : Serves(trader)
    BY <1>2 DEF BookInv, OneTraderInv
  <2>2. tmp_swap.trader = trader
    BY <1>3, <2>1 DEF Serves
  <2>3. QED
    BY <2>1, <2>2
<1>7. Book!Supply(balance) = Book!Supply(Start.balance)
  BY <1>2 DEF BookInv, OneTraderInv
<1>8. QED
  BY <1>2, <1>3, <1>4, <1>5, <1>6, <1>7, SwapAnswers

\* The queue after a reply is what the reply emits.
LEMMA RepliedQueue ==
    ASSUME queue = <<>>, NEW id, NEW msgs, Reply(id, msgs), IsSequence(msgs)
    PROVE  queue' = msgs
<1>1. PICK S : msgs \in Seq(S)
  BY DEF IsSequence
<1>2. queue' = msgs \o queue
  BY DEF Reply
<1>3. QED
  BY <1>1, <1>2, ConcatEmptySeq

\* A reply that ends the swap of a trader, whose position becomes `new'.
LEMMA ReplyBook ==
    ASSUME RecordInv, SafetyInv, BookInv,
           NEW id \in SwapIds, NEW msgs, Reply(id, msgs), Transfers(msgs),
           Pays(msgs, tmp_swap.trader), NEW new \in Position, ~new.exists => new = NoPosition,
           positions' = [positions EXCEPT ![tmp_swap.trader] = new],
           engine_state' \in EngineState, vamm_map' \in VammMap, tmp_swap' = NoSwap,
           tmp_liquidator' \in {tmp_liquidator, NoAccount}, sent_funds' \in {sent_funds, NoFunds},
           Start' = Start => InterestAllowed'
    PROVE  BookInv'
<1> PICK trader : trader = tmp_swap.trader
  OBVIOUS
<1>1. /\ reply.id = id /\ reply' = NoReply
      /\ UNCHANGED <<vars, settings, balance, checkpoint, txs>>
  BY DEF Reply
<1>2. /\ ~Idle /\ queue = <<>> /\ trader \in Traders
      /\ Serves(trader) /\ Book!Supply(balance) = Book!Supply(Start.balance)
      /\ SavedTypes(Start)
  BY <1>1, AnswerFacts
<1>3. queue' = msgs
  BY <1>2, RepliedQueue DEF Transfers
<1>4. AwaitedId' \notin SwapIds \union {Funding} /\ reply'.id # Funding
  <2>1. AwaitedId' = reply'.id
    BY <1>3, QueueOfTransfers DEF AwaitedId, Awaits
  <2>2. reply'.id = "none"
    BY <1>1 DEF NoReply
  <2>3. QED
    BY <2>1, <2>2, ReplyIds
<1>5. Start' = Start /\ ~Idle'
  BY <1>1, <1>2, StartKept
<1>6. ContractTypeOK /\ OnlyStored(positions)
  BY DEF BookInv, TypeInv
<1>7. /\ positions' \in [Traders -> Position] /\ OnlyStored(positions')
      /\ \A other \in Traders \ {trader} : positions'[other] = positions[other]
  BY <1>2, <1>6 DEF ContractTypeOK, OnlyStored
<1>8. TypeInv'
  <2>1. tmp_swap' \in TmpSwap
    BY SwapTypes
  <2>2. sent_funds' \in [stored: BOOLEAN, amount: Nat, required: Nat]
    <3>1. NoFunds \in [stored: BOOLEAN, amount: Nat, required: Nat]
      BY SMT DEF NoFunds
    <3>2. QED
      BY <3>1, <1>6 DEF ContractTypeOK
  <2>3. tmp_liquidator' \in Liquidators \union {NoAccount}
    BY <1>6 DEF ContractTypeOK
  <2>4. ContractTypeOK'
    <3>1. UNCHANGED <<engine_config, pauser, whitelist, registries, balance, txs>>
      BY <1>1 DEF settings
    <3>2. QED
      BY <3>1, <1>6, <1>7, <2>1, <2>2, <2>3, Zenon DEF ContractTypeOK
  <2>5. AwaitedId' \notin LiquidationIds
    BY <1>4, ReplyIds
  <2>6. SavedTypes(Start)'
    BY <1>2, <1>5 DEF SavedTypes, OnlyStored
  <2>7. QED
    BY <1>4, <1>7, <2>4, <2>5, <2>6 DEF TypeInv
<1>9. SwapInv'
  BY <1>4 DEF SwapInv
<1>10. OneTraderInv'
  <2>1. Serves(trader)'
    BY <1>1, <1>2, <1>3, <1>4, <1>5, <1>7 DEF Serves, Pays, Uninvolved
  <2>2. Book!Supply(balance') = Book!Supply(Start'.balance)
    BY <1>1, <1>2, <1>5
  <2>3. QED
    BY <1>2, <1>5, <2>1, <2>2 DEF OneTraderInv
<1>11. InterestInv'
  <2>1. Settled'
    BY <1>4 DEF Settled
  <2>2. ~tmp_swap'.fees_paid
    BY DEF NoSwap
  <2>3. QED
    BY <1>5, <2>1, <2>2 DEF InterestInv
<1>12. QED
  BY <1>8, <1>9, <1>10, <1>11 DEF BookInv

-----------------------------------------------------------------------------
(* Submessages, and the end of a transaction *)

LEMMA LastOfTail ==
    ASSUME NEW s, IsSequence(s), s # <<>>, CallsAmm(Tail(s))
    PROVE  CallsAmm(s) /\ Tail(s)[Len(Tail(s))] = s[Len(s)]
<1>1. PICK S : s \in Seq(S)
  BY DEF IsSequence
<1>2. /\ Len(s) \in Nat \ {0} /\ Len(Tail(s)) = Len(s) - 1
      /\ \A i \in 1 .. Len(s) - 1 : Tail(s)[i] = s[i + 1]
  BY <1>1, SMT
<1>3. Len(Tail(s)) # 0
  BY DEF CallsAmm
<1>4. Tail(s)[Len(Tail(s))] = s[Len(s)]
  BY <1>2, <1>3, SMT
<1>5. QED
  BY <1>2, <1>4 DEF CallsAmm

LEMMA OnlyElement ==
    ASSUME NEW s, IsSequence(s), s # <<>>, Tail(s) = <<>>
    PROVE  Len(s) # 0 /\ Head(s) = s[Len(s)]
<1>1. PICK S : s \in Seq(S)
  BY DEF IsSequence
<1>2. Len(s) \in Nat \ {0} /\ Len(Tail(s)) = Len(s) - 1 /\ Head(s) = s[1]
  BY <1>1, SMT
<1>3. Len(Tail(s)) = 0
  BY Len(<<>>) = 0
<1>4. Len(s) = 1
  BY <1>2, <1>3, SMT
<1>5. QED
  BY <1>2, <1>4

\* A submessage is executed: what is awaited stays so, and the books of the
\* engine are left alone.
LEMMA ExecutedFacts ==
    ASSUME RecordInv, BookInv, NEW kind, Execute(kind),
           kind = "transfer" => reply' = reply, kind # "transfer" => reply'.id = Head(queue).id
    PROVE  /\ ~Idle /\ ~Idle' /\ Start' = Start /\ AwaitedId' = AwaitedId
           /\ queue # <<>> /\ queue' = Tail(queue) /\ IsSequence(queue) /\ IsSequence(queue')
           /\ Head(queue).kind = kind /\ reply = NoReply
           /\ UNCHANGED <<engine_config, pauser, whitelist, registries, engine_state, vamm_map,
                          positions, tmp_swap, tmp_liquidator, sent_funds, checkpoint, txs,
                          unasked>>
           /\ kind # "transfer" => /\ ~CallsAmm(queue') /\ AwaitedId = Head(queue).id
                                   /\ CallsAmm(queue) /\ Head(queue) = queue[Len(queue)]
                                   /\ queue' = <<>>
           /\ kind = "settle_funding" => AwaitedId = Funding
           /\ CallsAmm(queue') => /\ CallsAmm(queue)
                                  /\ queue'[Len(queue')] = queue[Len(queue)]
<1>1. /\ reply = NoReply /\ queue # <<>> /\ Head(queue).kind = kind /\ queue' = Tail(queue)
      /\ UNCHANGED <<engine_config, pauser, whitelist, registries, engine_state, vamm_map,
                     positions, tmp_swap, tmp_liquidator, sent_funds, checkpoint, txs, unasked>>
  BY DEF Execute, settings, book, temporary, past
<1>2. OnlyLastCallsAmm(queue) /\ ~Idle
  BY <1>1 DEF RecordInv, RecordsAreAwaited, TransactionsAreClean
<1>3. IsSequence(queue) /\ IsSequence(queue')
  BY <1>1, <1>2, RestOfQueue DEF OnlyLastCallsAmm
<1>4. Start' = Start /\ ~Idle'
  BY <1>1, <1>2, StartKept
<1>5. /\ kind = "transfer" => AwaitedId' = AwaitedId
      /\ kind # "transfer" =>
            /\ AwaitedId' = AwaitedId /\ ~CallsAmm(queue') /\ AwaitedId = Head(queue).id
            /\ CallsAmm(queue) /\ Head(queue) = queue[Len(queue)] /\ queue' = <<>>
      /\ kind = "settle_funding" => Head(queue).id = Funding
  <2>1. /\ kind = "transfer" => Awaits(Tail(queue), reply) = Awaits(queue, reply)
        /\ kind # "transfer" => Tail(queue) = <<>> /\ Awaits(queue, reply) = Head(queue).id
        /\ kind = "settle_funding" => Head(queue).id = Funding
    BY <1>1, <1>2, RestOfQueue
  <2>2. CASE kind = "transfer"
    BY <2>1, <2>2, <1>1 DEF AwaitedId
  <2>3. CASE kind # "transfer"
    <3>1. ~CallsAmm(queue')
      BY <2>1, <2>3, <1>1, NoTransfer, QueueOfTransfers
    <3>2. Len(queue) # 0 /\ Head(queue) = queue[Len(queue)]
      BY <2>1, <2>3, <1>1, <1>3, OnlyElement
    <3>3. QED
      BY <2>1, <2>3, <3>1, <3>2, <1>1 DEF AwaitedId, Awaits, CallsAmm
  <2>4. QED
    BY <2>2, <2>3
<1>6. CallsAmm(queue') => CallsAmm(queue) /\ queue'[Len(queue')] = queue[Len(queue)]
  BY <1>1, <1>3, LastOfTail
<1>7. QED
  BY <1>1, <1>2, <1>3, <1>4, <1>5, <1>6

\* The parts of the invariant that no submessage can disturb.
LEMMA ExecutedBook ==
    ASSUME BookInv, ~Idle, ~Idle', Start' = Start, AwaitedId' = AwaitedId,
           UNCHANGED <<engine_config, pauser, whitelist, registries, engine_state, vamm_map,
                       positions, tmp_swap, tmp_liquidator, sent_funds, checkpoint, txs>>,
           balance' \in [Holders -> Nat], reply'.id = Funding => reply'.input \in Int
    PROVE  TypeInv' /\ InterestInv'
<1>1. TypeInv'
  <2>1. ContractTypeOK'
    BY DEF BookInv, TypeInv, ContractTypeOK
  <2>2. SavedTypes(Start)'
    BY DEF BookInv, TypeInv, SavedTypes, OnlyStored
  <2>3. QED
    BY <2>1, <2>2 DEF BookInv, TypeInv, OnlyStored
<1>2. InterestInv'
  BY DEF BookInv, InterestInv, Settled, InterestAllowed
<1>3. QED
  BY <1>1, <1>2

LEMMA TransferBook ==
    ASSUME RecordInv, BookInv, ExecuteTransfer
    PROVE  BookInv'
<1> DEFINE message == Head(queue)
<1>1. /\ Execute("transfer") /\ reply' = reply /\ UNCHANGED vars
      /\ balance[message.from] >= message.amount
      /\ balance' = Paid(balance, message.from, message.to, message.amount)
  BY Zenon DEF ExecuteTransfer, Paid
<1>2. /\ ~Idle /\ ~Idle' /\ Start' = Start /\ AwaitedId' = AwaitedId
      /\ queue # <<>> /\ queue' = Tail(queue) /\ message.kind = "transfer" /\ reply = NoReply
      /\ UNCHANGED <<engine_config, pauser, whitelist, registries, engine_state, vamm_map,
                     positions, tmp_swap, tmp_liquidator, sent_funds, checkpoint, txs>>
      /\ CallsAmm(queue') => CallsAmm(queue) /\ queue'[Len(queue')] = queue[Len(queue)]
  BY <1>1, ExecutedFacts
<1>3. PICK trader \in Traders \union {NoAccount} : Serves(trader)
  BY <1>2 DEF BookInv, OneTraderInv
<1>4. /\ Pays(queue', trader)
      /\ message.amount \in Nat
      /\ message.from \in Holders \ Uninvolved(trader)
      /\ message.to \in Holders \ Uninvolved(trader) /\ message.from # message.to
  BY <1>2, <1>3, PaysRest DEF Serves
<1> HIDE DEF message
<1>5. balance \in [Holders -> Nat]
  BY DEF BookInv, TypeInv, ContractTypeOK
<1>6. message.amount <= balance[message.from]
  <2>1. balance[message.from] \in Nat
    BY <1>4, <1>5
  <2>2. QED
    BY <1>1, <1>4, <2>1, SMT
<1>7. /\ balance' \in [Holders -> Nat] /\ Book!Supply(balance') = Book!Supply(balance)
      /\ \A other \in Uninvolved(trader) : balance'[other] = balance[other]
  <2>1. /\ Paid(balance, message.from, message.to, message.amount) \in [Holders -> Nat]
        /\ Book!Supply(Paid(balance, message.from, message.to, message.amount))
             = Book!Supply(balance)
        /\ \A other \in Holders \ {message.from, message.to} :
              Paid(balance, message.from, message.to, message.amount)[other] = balance[other]
    BY <1>4, <1>5, <1>6, Payment
  <2>2. \A other \in Uninvolved(trader) : other \in Holders \ {message.from, message.to}
    BY <1>4 DEF Uninvolved, Holders
  <2>3. QED
    BY <1>1, <2>1, <2>2
<1>8. TypeInv' /\ InterestInv'
  BY <1>1, <1>2, <1>7, ExecutedBook, NoAnswer
<1>9. SwapInv'
  <2>1. UNCHANGED <<height, quote_asset_reserve, base_asset_reserve>>
    BY <1>1 DEF vars, state
  <2>2. QED
    BY <1>1, <1>2, <2>1
       DEF BookInv, SwapInv, Fits, Asks, Restricted, SpotNotional, SpotNotionalDefined, Part
<1>10. OneTraderInv'
  <2>1. Serves(trader)'
    BY <1>2, <1>3, <1>4, <1>7 DEF Serves
  <2>2. QED
    BY <1>2, <1>7, <2>1 DEF BookInv, OneTraderInv
<1>11. QED
  BY <1>8, <1>9, <1>10 DEF BookInv

\* The AMM is called: no collateral moves, and the answer is awaited still.
LEMMA CalledBook ==
    ASSUME RecordInv, BookInv, NEW kind, kind # "transfer", Execute(kind),
           reply'.id = Head(queue).id, reply'.id = Funding => reply'.input \in Int,
           (Head(queue).kind = "swap_input") => reply'.input = Head(queue).amount,
           balance' = balance, height' = height
    PROVE  BookInv'
<1>1. /\ ~Idle /\ ~Idle' /\ Start' = Start /\ AwaitedId' = AwaitedId
      /\ queue # <<>> /\ queue' = <<>> /\ reply = NoReply
      /\ UNCHANGED <<engine_config, pauser, whitelist, registries, engine_state, vamm_map,
                     positions, tmp_swap, tmp_liquidator, sent_funds, checkpoint, txs>>
      /\ ~CallsAmm(queue') /\ AwaitedId = Head(queue).id
      /\ CallsAmm(queue) /\ Head(queue) = queue[Len(queue)]
  BY ExecutedFacts
<1>2. TypeInv' /\ InterestInv'
  BY <1>1, ExecutedBook DEF BookInv, TypeInv, ContractTypeOK
<1>3. SwapInv'
  <2>1. ASSUME AwaitedId \in SwapIds, reply'.id = IncreasePosition
        PROVE  reply'.input = tmp_swap.open_notional
    BY <1>1, <2>1 DEF BookInv, SwapInv, Asks
  <2>2. QED
    BY <1>1, <2>1 DEF BookInv, SwapInv, Fits, Restricted
<1>4. OneTraderInv'
  <2>1. PICK trader \in Traders \union {NoAccount} : Serves(trader)
    BY <1>1 DEF BookInv, OneTraderInv
  <2>2. Serves(trader)'
    BY <1>1, <2>1, PaysNothing DEF Serves
  <2>3. QED
    BY <1>1, <2>1, <2>2 DEF BookInv, OneTraderInv
<1>5. QED
  BY <1>2, <1>3, <1>4 DEF BookInv

LEMMA SwapBook ==
    ASSUME RecordInv, SafetyInv, BookInv, ExecuteSwap
    PROVE  BookInv'
<1> DEFINE message == Head(queue)
<1>1. /\ balance' = balance /\ height' = height
      /\ \/ /\ Execute("swap_input")
            /\ \E base : reply' = [id |-> message.id, input |-> message.amount, output |-> base]
         \/ /\ Execute("swap_output")
            /\ \E quote : reply' = [id |-> message.id, input |-> message.amount, output |-> quote]
  BY Zenon DEF ExecuteSwap, SwapInput, SwapOutput, UpdateReserve
<1>2. reply'.id = message.id /\ reply'.input = message.amount
  BY <1>1
<1>3. PICK kind \in {"swap_input", "swap_output"} : Execute(kind)
  BY <1>1
<1>4. kind # "transfer" /\ queue # <<>> /\ message.kind = kind
  BY <1>3 DEF Execute
<1>5. message.amount \in Int
  <2>1. SoundMessage(message)
    BY <1>4, SoundRest DEF SafetyInv, RecordInv, RecordsAreAwaited
  <2>2. message.amount \in Nat
    BY <1>3, <1>4, <2>1 DEF SoundMessage
  <2>3. QED
    BY <2>2, SMT
<1>6. QED
  BY <1>1, <1>2, <1>3, <1>4, <1>5, CalledBook

LEMMA FundingBook ==
    ASSUME RecordInv, SafetyInv, BookInv, NEW underlying \in OraclePrices,
           ExecuteFunding(underlying)
    PROVE  BookInv'
<1>1. /\ Execute("settle_funding") /\ balance' = balance /\ height' = height
      /\ reply' = [id |-> Funding, input |-> PremiumFraction(underlying), output |-> 0]
  BY Zenon DEF ExecuteFunding, SettleFunding
<1>2. Head(queue).id = Funding /\ Head(queue).kind = "settle_funding"
  BY <1>1, RestOfQueue DEF Execute, RecordInv, RecordsAreAwaited
<1>3. underlying \in Int
  BY OracleAssumption, SMT
<1>4. PremiumFraction(underlying) \in Int
  BY <1>3, PremiumType DEF SafetyInv, AmmInv, ReserveInv
<1>5. QED
  BY <1>1, <1>2, <1>4, CalledBook

LEMMA EndBook ==
    ASSUME RecordInv, BookInv, Commit \/ Abort
    PROVE  BookInv'
<1>1. CASE Commit
  <2>1. /\ queue = <<>> /\ reply = NoReply /\ checkpoint' = <<>>
        /\ UNCHANGED <<settings, book, temporary, balance, queue, reply, txs>>
    BY <1>1 DEF Commit
  <2>2. Idle' /\ AwaitedId \notin SwapIds /\ AwaitedId' \notin SwapIds
    BY <2>1, NothingAwaited DEF Idle, AwaitedId
  <2>3. QED
    BY <2>1, <2>2, ReplyIds, NoAnswer
       DEF BookInv, TypeInv, ContractTypeOK, SwapInv, OneTraderInv, InterestInv, settings, book,
           temporary, OnlyStored
<1>2. CASE Abort
  <2> DEFINE saved == Start
  <2>1. /\ ~Idle
        /\ engine_state' = saved.engine_state /\ vamm_map' = saved.vamm_map
        /\ positions' = saved.positions /\ tmp_swap' = saved.tmp_swap
        /\ tmp_liquidator' = saved.tmp_liquidator /\ sent_funds' = saved.sent_funds
        /\ balance' = saved.balance /\ txs' = saved.txs
        /\ queue' = <<>> /\ reply' = NoReply /\ checkpoint' = <<>>
        /\ UNCHANGED settings
    BY <1>2, Zenon DEF Abort, Start
  <2>2. SavedTypes(saved) /\ ContractTypeOK
    BY <2>1 DEF BookInv, TypeInv
  <2>3. /\ saved.tmp_swap = NoSwap /\ saved.tmp_liquidator = NoAccount
        /\ saved.sent_funds = NoFunds
    BY <2>1 DEF RecordInv, TransactionsAreClean, Start
  <2> HIDE DEF saved
  <2>4. Idle' /\ AwaitedId' \notin SwapIds
    BY <2>1, NothingAwaited DEF Idle, AwaitedId
  <2>5. ContractTypeOK' /\ OnlyStored(positions')
    <3>1. NoFunds \in [stored: BOOLEAN, amount: Nat, required: Nat]
      BY SMT DEF NoFunds
    <3>2. UNCHANGED <<engine_config, pauser, whitelist, registries>>
      BY <2>1 DEF settings
    <3>3. QED
      BY <2>1, <2>2, <2>3, <3>1, <3>2, SwapTypes, Zenon DEF ContractTypeOK, SavedTypes
  <2>6. QED
    BY <2>1, <2>4, <2>5, ReplyIds, NoAnswer
       DEF BookInv, TypeInv, SwapInv, OneTraderInv, InterestInv
<1>3. QED
  BY <1>1, <1>2

-----------------------------------------------------------------------------
(* Between transactions *)

LEMMA IdleBook ==
    ASSUME RecordInv, BookInv, Idle, ContractTypeOK',
           UNCHANGED <<positions, tmp_swap, tmp_liquidator, queue, reply, checkpoint>>
    PROVE  BookInv'
<1>1. queue' = <<>> /\ reply' = NoReply
  BY IdleIsClean
<1>2. Idle' /\ AwaitedId' \notin SwapIds
  BY <1>1, NothingAwaited DEF Idle, AwaitedId
<1>3. OnlyStored(positions)'
  BY DEF BookInv, TypeInv, OnlyStored
<1>4. QED
  BY <1>1, <1>2, <1>3, ReplyIds, NoAnswer
     DEF BookInv, TypeInv, SwapInv, OneTraderInv, InterestInv

LEMMA StutterBook ==
    ASSUME RecordInv, BookInv, UNCHANGED allVars
    PROVE  BookInv'
<1>1. /\ UNCHANGED <<engine_config, pauser, whitelist, registries, engine_state, vamm_map,
                     positions, tmp_swap, tmp_liquidator, sent_funds, balance, queue, reply,
                     checkpoint, txs, height, quote_asset_reserve, base_asset_reserve>>
  BY DEF allVars, engineVars, runtime, settings, book, temporary, vars, state
<1>2. CASE Idle
  <2>1. ContractTypeOK'
    BY <1>1 DEF BookInv, TypeInv, ContractTypeOK
  <2>2. QED
    BY <1>1, <1>2, <2>1, IdleBook
<1>3. CASE ~Idle
  <2>1. /\ ~Idle' /\ Start' = Start /\ AwaitedId' = AwaitedId
    BY <1>1, <1>3 DEF Idle, Start, AwaitedId, Awaits, CallsAmm
  <2>2. TypeInv' /\ InterestInv'
    BY <1>1, <1>3, <2>1, ExecutedBook DEF BookInv, TypeInv, ContractTypeOK
  <2>3. SwapInv'
    BY <1>1, <2>1 DEF BookInv, SwapInv, Fits, Asks, Restricted, SpotNotional,
                      SpotNotionalDefined, Part, CallsAmm
  <2>4. OneTraderInv'
    <3>1. PICK trader \in Traders \union {NoAccount} : Serves(trader)
      BY <1>3 DEF BookInv, OneTraderInv
    <3>2. Serves(trader)'
      BY <1>1, <2>1, <3>1 DEF Serves, Pays, Uninvolved
    <3>3. Book!Supply(balance') = Book!Supply(Start'.balance)
      BY <1>1, <1>3, <2>1 DEF BookInv, OneTraderInv
    <3>4. QED
      BY <3>2, <3>3 DEF OneTraderInv
  <2>5. QED
    BY <2>2, <2>3, <2>4 DEF BookInv
<1>4. QED
  BY <1>2, <1>3

LEMMA OutsideBook ==
    ASSUME RecordInv, BookInv, Govern \/ Surroundings
    PROVE  BookInv'
<1>1. ContractTypeOK
  BY DEF BookInv, TypeInv
<1>2. CASE Govern
  <2>1. /\ Idle
        /\ UNCHANGED <<positions, vamm_map, tmp_swap, tmp_liquidator, sent_funds, registries,
                       balance, queue, reply, checkpoint, txs>>
    <3>1. UNCHANGED book => UNCHANGED <<positions, vamm_map>>
      BY DEF book
    <3>2. UNCHANGED temporary => UNCHANGED <<tmp_swap, tmp_liquidator, sent_funds>>
      BY DEF temporary
    <3>3. /\ UNCHANGED <<vamm_map, positions>> \/ UNCHANGED book
          /\ UNCHANGED temporary
          /\ Idle
          /\ UNCHANGED <<registries, balance, queue, reply, checkpoint, txs>>
      BY <1>2 DEF Govern, SetPause, UpdateEngineConfig, Administer, UpdatePauser,
         AddWhitelist, RemoveWhitelist, settings
    <3>4. QED
      BY <3>1, <3>2, <3>3
  <2>2. \/ \E pause \in BOOLEAN : engine_state' = [engine_state EXCEPT !.pause = pause]
        \/ engine_state' = engine_state
    BY <1>2, Zenon DEF Govern, SetPause, UpdateEngineConfig, Administer, UpdatePauser,
       AddWhitelist, RemoveWhitelist, book
  <2>3. engine_state' \in EngineState
    BY <1>1, <2>2, SMT DEF ContractTypeOK, EngineState
  <2>4. engine_config' \in EngineConfig
    BY <1>1, <1>2, Zenon DEF Govern, SetPause, UpdateEngineConfig, Administer, UpdatePauser,
       AddWhitelist, RemoveWhitelist, ContractTypeOK, settings
  <2>5. pauser' \in Accounts /\ whitelist' \subseteq Accounts
    <3>1. pauser' = pauser \/ pauser' \in PauserChoices
      BY <1>2, Zenon DEF Govern, SetPause, UpdateEngineConfig, Administer, UpdatePauser,
         AddWhitelist, RemoveWhitelist, settings
    <3>2. \/ whitelist' = whitelist
          \/ \E address \in WhitelistChoices :
                \/ whitelist' = whitelist \union {address}
                \/ whitelist' = whitelist \ {address}
      BY <1>2, Zenon DEF Govern, SetPause, UpdateEngineConfig, Administer, UpdatePauser,
         AddWhitelist, RemoveWhitelist, settings
    <3>3. QED
      BY <1>1, <3>1, <3>2, PartiesAssumption DEF ContractTypeOK
  <2>6. ContractTypeOK'
    BY <1>1, <2>1, <2>3, <2>4, <2>5, Zenon DEF ContractTypeOK
  <2>7. QED
    BY <2>1, <2>6, IdleBook
<1>3. CASE Idle /\ (Admin \/ NextBlock) /\ UNCHANGED runtime
  <2>1. UNCHANGED <<engine_config, pauser, whitelist, registries, engine_state, vamm_map,
                    positions, tmp_swap, tmp_liquidator, sent_funds, balance, queue, reply,
                    checkpoint, txs>>
    BY <1>3 DEF runtime, settings, book, temporary
  <2>2. ContractTypeOK'
    BY <1>1, <2>1 DEF ContractTypeOK
  <2>3. QED
    BY <1>3, <2>1, <2>2, IdleBook
<1>4. CASE \E fund \in RegistryChoices : ChangeRegistry(fund)
  <2>1. PICK fund \in RegistryChoices : ChangeRegistry(fund)
    BY <1>4
  <2>2. /\ Idle
        /\ registries' = IF fund \in registries THEN registries \ {fund}
                                                ELSE registries \union {fund}
        /\ UNCHANGED <<engine_config, pauser, whitelist, engine_state, vamm_map, positions,
                       tmp_swap, tmp_liquidator, sent_funds, balance, queue, reply,
                       checkpoint, txs>>
    BY <2>1 DEF ChangeRegistry, book, temporary
  <2>3. registries' \subseteq InsuranceFunds
    BY <1>1, <2>1, <2>2, PartiesAssumption DEF ContractTypeOK
  <2>4. ContractTypeOK'
    BY <1>1, <2>2, <2>3 DEF ContractTypeOK
  <2>5. QED
    BY <2>2, <2>4, IdleBook
<1>5. QED
  BY <1>2, <1>3, <1>4 DEF Surroundings

LEMMA InitBook == EngineInit => BookInv
<1> SUFFICES ASSUME EngineInit PROVE BookInv
  OBVIOUS
<1>1. /\ queue = <<>> /\ reply = NoReply /\ checkpoint = <<>>
      /\ positions = [trader \in Traders |-> NoPosition]
      /\ tmp_swap = NoSwap /\ tmp_liquidator = NoAccount /\ sent_funds = NoFunds
      /\ pauser = Pauser /\ whitelist = {} /\ registries = {InitialEngineConfig.insurance_fund}
      /\ balance = InitialBalance /\ txs = 0
      /\ engine_state = [open_interest_notional |-> 0, prepaid_bad_debt |-> 0, pause |-> FALSE]
      /\ vamm_map = [last_restriction_block |-> 0, cumulative_premium_fraction |-> 0]
      /\ engine_config \in EngineConfig
  BY EngineConfigAssumption DEF EngineInit, EngineConfig
<1>2. Idle /\ AwaitedId \notin SwapIds
  BY <1>1, NothingAwaited DEF Idle, AwaitedId
<1>3. ContractTypeOK
  <2>1. engine_state \in EngineState /\ vamm_map \in VammMap
        /\ NoFunds \in [stored: BOOLEAN, amount: Nat, required: Nat]
    BY <1>1, SMT DEF EngineState, VammMap, NoFunds
  <2>2. positions \in [Traders -> Position]
    BY <1>1, NewPosition
  <2>3. registries \subseteq InsuranceFunds
    BY <1>1, EngineConfigAssumption DEF EngineConfig
  <2>4. QED
    BY <1>1, <2>1, <2>2, <2>3, SwapTypes, PartiesAssumption, BalanceAssumption, SMT
       DEF ContractTypeOK
<1>4. OnlyStored(positions)
  BY <1>1 DEF OnlyStored
<1>5. QED
  BY <1>1, <1>2, <1>3, <1>4, ReplyIds, NoAnswer
     DEF BookInv, TypeInv, SwapInv, OneTraderInv, InterestInv

-----------------------------------------------------------------------------
(* Requests *)

LEMMA SwappingFields ==
    ASSUME NEW t, NEW s, NEW l, NEW n, NEW v, NEW u
    PROVE  /\ Swapping(t, s, l, n, v, u).trader = t /\ Swapping(t, s, l, n, v, u).side = s
           /\ Swapping(t, s, l, n, v, u).leverage = l
           /\ Swapping(t, s, l, n, v, u).open_notional = n
           /\ Swapping(t, s, l, n, v, u).position_notional = v
           /\ Swapping(t, s, l, n, v, u).unrealized_pnl = u
           /\ Swapping(t, s, l, n, v, u).fees_paid = FALSE
BY DEF Swapping

\* A handler that calls the AMM about the position of `trader', and leaves the
\* books to the reply.
CallsAbout(trader, sender, funds, m) ==
    /\ sender \in Holders \ Uninvolved(trader) /\ sender # Engine /\ funds \in Nat
    /\ m.kind \in {"swap_input", "swap_output"} /\ m.id \in SwapIds
    /\ BeginWith(sender, funds, <<m>>) /\ UNCHANGED book
    /\ tmp_swap' \in TmpSwap /\ tmp_swap'.trader = trader /\ tmp_swap'.fees_paid = FALSE
    /\ tmp_liquidator' \in Liquidators \union {NoAccount}
    /\ m.id \in LiquidationIds => tmp_liquidator' \in Liquidators
    /\ sent_funds' \in [stored: BOOLEAN, amount: Nat, required: Nat]
    /\ Fits(m.id, positions[trader], tmp_swap') /\ Asks(m, positions[trader], tmp_swap')
    /\ m.id \notin LiquidationIds => NotRestricted(trader)

LEMMA CallBook ==
    ASSUME RecordInv, SafetyInv, BookInv, NEW trader \in Traders, NEW sender, NEW funds, NEW m,
           CallsAbout(trader, sender, funds, m)
    PROVE  BookInv'
<1>0. /\ sender \in Holders \ Uninvolved(trader) /\ sender # Engine /\ funds \in Nat
      /\ m.kind \in {"swap_input", "swap_output"} /\ m.id \in SwapIds
      /\ BeginWith(sender, funds, <<m>>) /\ UNCHANGED book
      /\ tmp_swap' \in TmpSwap /\ tmp_swap'.trader = trader /\ tmp_swap'.fees_paid = FALSE
      /\ tmp_liquidator' \in Liquidators \union {NoAccount}
      /\ m.id \in LiquidationIds => tmp_liquidator' \in Liquidators
      /\ sent_funds' \in [stored: BOOLEAN, amount: Nat, required: Nat]
      /\ Fits(m.id, positions[trader], tmp_swap') /\ Asks(m, positions[trader], tmp_swap')
      /\ m.id \notin LiquidationIds => NotRestricted(trader)
  BY DEF CallsAbout
<1>1. m.kind # "transfer" /\ m.kind # "settle_funding"
  BY <1>0
<1>2. Awaits(<<m>>, NoReply) = m.id
  BY <1>1, QueueOfCall
<1>3. Pays(<<m>>, trader)
  BY <1>1, PaysCall
<1>4. <<m>>[Len(<<m>>)] = m
  BY SMT
<1>5. /\ positions' = positions /\ engine_state' = engine_state /\ vamm_map' = vamm_map
      /\ positions \in [Traders -> Position] /\ OnlyStored(positions)
      /\ engine_state \in EngineState
  BY <1>0 DEF book, BookInv, TypeInv, ContractTypeOK
<1>6. Fits(Awaits(<<m>>, NoReply), positions[trader], tmp_swap')
      /\ Asks(<<m>>[Len(<<m>>)], positions[trader], tmp_swap')
  BY <1>0, <1>2, <1>4
<1> DEFINE msgs == <<m>>
<1>7. /\ BeginWith(sender, funds, msgs) /\ Pays(msgs, trader) /\ Awaits(msgs, NoReply) = m.id
      /\ Fits(Awaits(msgs, NoReply), positions[trader], tmp_swap')
      /\ Asks(msgs[Len(msgs)], positions[trader], tmp_swap')
  BY <1>0, <1>2, <1>3, <1>6
<1> HIDE DEF msgs
<1>8. /\ OnlyStored(positions') /\ positions' \in [Traders -> Position]
      /\ \A other \in Traders \ {trader} : positions'[other] = positions[other]
      /\ engine_state' \in EngineState /\ Interest(engine_state') = Interest(engine_state)
  BY <1>5 DEF OnlyStored
<1>9. QED
  BY <1>0, <1>2, <1>5, <1>7, <1>8, BeginBook

LEMMA StrayTypes == Stray \subseteq Nat
BY RequestsAssumption, SMT DEF Stray

\* What is sent along is never negative.
LEMMA SentTypes ==
    /\ \A n \in Int : Sent(n) \subseteq Nat
    /\ Deposits \subseteq Int
<1>1. \A x \in Int : AtLeastZero(x) \in Nat
  BY SMT DEF AtLeastZero
<1>2. ASSUME NEW n \in Int
      PROVE  Sent(n) \subseteq Nat
  <2>1. \A error \in NativeErrors : n + error \in Int
    BY RequestsAssumption, SMT
  <2>2. 0 \in Nat
    BY SMT
  <2>3. QED
    BY <1>1, <2>1, <2>2, Zenon DEF Sent
<1>3. QED
  BY <1>2, RequestsAssumption, SMT

\* The ids of the replies are told apart.
LEMMA DistinctIds ==
    /\ IncreasePosition \in TradeIds /\ DecreasePosition \in TradeIds /\ ReversePosition \in TradeIds
    /\ TradeIds \subseteq SwapIds /\ LiquidationIds \subseteq SwapIds
    /\ {ClosingPosition, PartialClosePosition, Liquidation, PartialLiquidation} \subseteq SwapIds
    /\ TradeIds \intersect {ClosingPosition, PartialClosePosition, Liquidation,
                            PartialLiquidation} = {}
    /\ Liquidation \in LiquidationIds /\ PartialLiquidation \in LiquidationIds
    /\ (TradeIds \union {ClosingPosition, PartialClosePosition}) \intersect LiquidationIds = {}
    /\ IncreasePosition # DecreasePosition /\ IncreasePosition # ReversePosition
    /\ DecreasePosition # ReversePosition /\ ClosingPosition # PartialClosePosition
    /\ Liquidation # PartialLiquidation /\ Liquidation # ClosingPosition
    /\ Liquidation # PartialClosePosition /\ PartialLiquidation # PartialClosePosition
    /\ PartialLiquidation # ClosingPosition
BY DEF SwapIds, TradeIds, LiquidationIds, IncreasePosition, DecreasePosition, ReversePosition,
       ClosingPosition, PartialClosePosition, Liquidation, PartialLiquidation

\* What the trader is told to send: an integer, whatever the position.
LEMMA FundsNeededType ==
    ASSUME BookInv, NEW trader \in Traders, NEW side \in Direction,
           NEW margin \in Nat, NEW leverage \in Nat, leverage >= Decimals,
           SpotNotionalDefined(GetPosition(trader, side))
    PROVE  FundsNeeded(trader, side, margin, leverage) \in Int
<1> DEFINE position == positions[trader]
           open_notional == (margin * leverage) \div Decimals
           value == SpotNotional(position)
           pnl == UnrealizedPnl(position, value)
           share == ((open_notional - value) * Decimals) \div leverage
           owed == IF position.direction = side THEN margin
                   ELSE IF open_notional > value THEN share - position.margin - pnl ELSE 0
<1>1. /\ FundsNeeded(trader, side, margin, leverage) = TollFee(open_notional) + AtLeastZero(owed)
  BY Zenon DEF FundsNeeded
<1>2. /\ position \in Position /\ (~position.exists => position = NoPosition)
  BY DEF BookInv, TypeInv, ContractTypeOK, OnlyStored
<1>3. open_notional \in Nat
  BY ScaledAmounts
<1>4. value \in Nat
  <2>1. CASE position.exists
    <3>1. GetPosition(trader, side) = position
      BY <2>1 DEF GetPosition
    <3>2. SpotNotionalDefined(position)
      BY <3>1
    <3>3. QED
      BY <3>2, Amounts, Zenon DEF SpotNotional, SpotNotionalDefined
  <2>2. CASE ~position.exists
    <3>1. position.size = 0
      BY <1>2, <2>2 DEF NoPosition
    <3> HIDE DEF position
    <3>2. Abs(position.size) = 0
      BY <3>1 DEF Abs
    <3>3. SpotNotional(position) = 0
      BY <3>2 DEF SpotNotional, GetOutputPrice
    <3>4. QED
      BY <3>3
  <2>3. QED
    BY <2>1, <2>2
<1>5. TollFee(open_notional) \in Nat
  BY <1>3, FeeTypes DEF BookInv, TypeInv, ContractTypeOK
<1> HIDE DEF open_notional, value, position
<1>6. pnl \in Int
  <2>1. value \in Int
    BY <1>4, SMT
  <2>2. IsPosition(position)
    BY <1>2, PositionFields
  <2>3. QED
    BY <2>1, <2>2, PnlType
<1>7. share \in Int
  <2>1. leverage \in Nat \ {0}
    BY DecimalsAssumption, SMT
  <2>2. (open_notional - value) * Decimals \in Int
    BY <1>3, <1>4, DecimalsAssumption, SMT
  <2>3. QED
    BY <2>1, <2>2, SMT
<1>8. position.margin \in Nat
  BY <1>2, PositionFields
<1> HIDE DEF pnl, share
<1>9. owed \in Int
  BY <1>6, <1>7, <1>8, SMT
<1> HIDE DEF owed
<1>10. AtLeastZero(owed) \in Nat
  BY <1>9, SMT DEF AtLeastZero
<1>11. QED
  BY <1>1, <1>5, <1>10, SMT

LEMMA OpenPositionBook ==
    ASSUME RecordInv, SafetyInv, BookInv, NEW trader \in Traders, NEW side \in Direction,
           NEW margin \in Nat, NEW leverage \in Nat, NEW limit,
           NEW funds \in Sent(FundsNeeded(trader, side, margin, leverage)),
           OpenPosition(trader, side, margin, leverage, limit, funds)
    PROVE  BookInv'
<1> DEFINE old == positions[trader]
           position == GetPosition(trader, side)
           open_notional == (margin * leverage) \div Decimals
           value == SpotNotional(position)
           message ==
            IF position.direction = side
            THEN SwapInputMsg(IncreasePosition, side, open_notional, limit, FALSE)
            ELSE IF value > open_notional
            THEN SwapInputMsg(DecreasePosition, side, open_notional, limit, FALSE)
            ELSE SwapOutputMsg(ReversePosition, position.direction, Abs(position.size), 0)
           pnl == UnrealizedPnl(position, value)
<1>1. /\ BeginWith(trader, funds, <<message>>)
      /\ tmp_swap' = Swapping(trader, side, leverage, open_notional, value, pnl)
      /\ sent_funds' = [stored |-> TRUE, amount |-> funds, required |-> 0]
      /\ UNCHANGED <<book, tmp_liquidator>> /\ SpotNotionalDefined(position)
      /\ leverage >= Decimals /\ NotRestricted(trader)
  BY Zenon DEF OpenPosition
<1>2. /\ IsPosition(position) /\ old \in Position
      /\ old.exists => position = old
      /\ ~old.exists => position.direction = side
  <2>1. IsPosition(position)
    BY StoredOrNew DEF SafetyInv
  <2>2. old \in Position
    BY DEF BookInv, TypeInv, ContractTypeOK
  <2>3. /\ old.exists => position = old
        /\ ~old.exists => position = [NoPosition EXCEPT !.exists = TRUE, !.direction = side,
                                                        !.block_number = height]
    BY DEF GetPosition
  <2>4. [NoPosition EXCEPT !.exists = TRUE, !.direction = side,
                           !.block_number = height].direction = side
    BY DEF NoPosition
  <2>5. QED
    BY <2>1, <2>2, <2>3, <2>4
<1>3. funds \in Nat
  <2>1. FundsNeeded(trader, side, margin, leverage) \in Int
    BY <1>1, FundsNeededType
  <2>2. QED
    BY <2>1, SentTypes
<1>4. open_notional \in Nat
  BY ScaledAmounts
<1>5. value \in Nat
  BY <1>1, Amounts, Zenon DEF SpotNotional, SpotNotionalDefined
<1>6. SpotNotionalDefined(position) /\ value = SpotNotional(position)
  BY <1>1
<1> HIDE DEF position, open_notional, value
<1>7. pnl \in Int
  <2>1. value \in Int
    BY <1>5, SMT
  <2>2. QED
    BY <1>2, <2>1, PnlType
<1> HIDE DEF pnl, message
<1>8. /\ tmp_swap' \in TmpSwap /\ tmp_swap'.trader = trader /\ tmp_swap'.fees_paid = FALSE
      /\ tmp_swap'.side = side /\ tmp_swap'.leverage = leverage
      /\ tmp_swap'.open_notional = open_notional /\ tmp_swap'.position_notional = value
  <2>1. tmp_swap' = Swapping(trader, side, leverage, open_notional, value, pnl)
    BY <1>1
  <2>2. tmp_swap' \in TmpSwap
    BY <2>1, <1>4, <1>5, <1>7, SwapTypes, Zenon
  <2>3. QED
    BY <2>1, <2>2 DEF Swapping
<1>9. leverage # 0
  BY <1>1, DecimalsAssumption, SMT
<1>10. /\ message.kind \in {"swap_input", "swap_output"}
       /\ message.id \in {IncreasePosition, DecreasePosition, ReversePosition}
       /\ message.id = IncreasePosition =>
             /\ position.direction = side /\ message.kind = "swap_input"
             /\ message.direction = side /\ message.amount = open_notional
       /\ message.id = DecreasePosition =>
             /\ position.direction # side /\ message.kind = "swap_input"
             /\ message.direction = side /\ message.amount = open_notional
             /\ value > open_notional
       /\ message.id = ReversePosition =>
             /\ position.direction # side /\ message.kind = "swap_output"
             /\ message.direction = position.direction /\ message.amount = Abs(position.size)
  <2>1. CASE position.direction = side
    BY <2>1, DistinctIds DEF SwapInputMsg, message
  <2>2. CASE position.direction # side /\ value > open_notional
    BY <2>2, DistinctIds DEF SwapInputMsg, message
  <2>3. CASE position.direction # side /\ ~(value > open_notional)
    BY <2>3, DistinctIds DEF SwapOutputMsg, message
  <2>4. QED
    BY <2>1, <2>2, <2>3
<1>11. message.id \in SwapIds /\ message.id \notin LiquidationIds
       /\ message.id \notin {ClosingPosition, PartialClosePosition, Liquidation,
                             PartialLiquidation}
       /\ message.id \in TradeIds
       /\ message.kind \in {"swap_input", "swap_output"}
       /\ BeginWith(trader, funds, <<message>>) /\ NotRestricted(trader)
  BY <1>1, <1>10, DistinctIds
<1>12. Fits(message.id, old, tmp_swap')
  BY <1>2, <1>8, <1>9, <1>10, <1>11 DEF Fits
<1>13. Asks(message, old, tmp_swap')
  <2>1. message.id \in {DecreasePosition, ReversePosition} => position = old
    BY <1>2, <1>10, DistinctIds
  <2>2. message.id = DecreasePosition => open_notional < value
    BY <1>4, <1>5, <1>10, SMT
  <2>3. message.id = DecreasePosition =>
           SpotNotionalDefined(old) /\ tmp_swap'.position_notional = SpotNotional(old)
    BY <2>1, <1>6, <1>8
  <2>4. QED
    BY <1>8, <1>10, <1>11, <2>1, <2>2, <2>3 DEF Asks
<1>14. /\ tmp_liquidator' \in Liquidators \union {NoAccount}
       /\ sent_funds' \in [stored: BOOLEAN, amount: Nat, required: Nat]
  BY <1>1, <1>3, SMT DEF BookInv, TypeInv, ContractTypeOK
<1>15. trader \in Holders \ Uninvolved(trader) /\ trader # Engine
  BY Payable
<1>16. UNCHANGED book /\ (message.id \in LiquidationIds => tmp_liquidator' \in Liquidators)
       /\ (message.id \notin LiquidationIds => NotRestricted(trader))
  BY <1>1, <1>11
<1>17. QED
  <2>1. CallsAbout(trader, trader, funds, message)
    BY <1>3, <1>8, <1>11, <1>12, <1>13, <1>14, <1>15, <1>16 DEF CallsAbout
  <2>2. QED
    BY <2>1, CallBook

LEMMA ClosePositionBook ==
    ASSUME RecordInv, SafetyInv, BookInv, NEW trader \in Traders, NEW limit,
           NEW funds \in Nat, ClosePosition(trader, limit, funds)
    PROVE  BookInv'
<1> DEFINE position == positions[trader]
           direction == IF position.size > 0 THEN AddToAmm ELSE RemoveFromAmm
           quote == GetOutputPrice(direction, Part(Abs(position.size)),
                                   quote_asset_reserve, base_asset_reserve)
           value == SpotNotional(position)
           pnl == UnrealizedPnl(position, value)
           part == SwapInputMsg(PartialClosePosition, Flip(direction), quote, 0, TRUE)
           whole == CloseMsg(ClosingPosition, position, limit)
<1>1. /\ UNCHANGED <<book, tmp_liquidator, sent_funds>>
      /\ position.size # 0 /\ NotRestricted(trader)
      /\ \/ /\ GetOutputPriceDefined(direction, Part(Abs(position.size)),
                                     quote_asset_reserve, base_asset_reserve)
            /\ SpotNotionalDefined(position)
            /\ BeginWith(trader, funds, <<part>>)
            /\ tmp_swap' = Swapping(trader, Flip(direction), Decimals, quote, value, pnl)
         \/ /\ BeginWith(trader, funds, <<whole>>)
            /\ tmp_swap' = CloseSwap(trader, position)
  BY Zenon DEF ClosePosition, Begin
<1>2. /\ position \in Position /\ IsPosition(position) /\ position.direction \in Direction
      /\ position.notional \in Nat
  BY PositionFields DEF BookInv, TypeInv, ContractTypeOK
<1>3. /\ Flip(direction) \in Direction
      /\ Flip(direction) = IF position.size > 0 THEN RemoveFromAmm ELSE AddToAmm
  BY DEF Direction, Flip, AddToAmm, RemoveFromAmm
<1>4. /\ tmp_liquidator' \in Liquidators \union {NoAccount}
      /\ sent_funds' \in [stored: BOOLEAN, amount: Nat, required: Nat]
      /\ UNCHANGED book
  BY <1>1 DEF BookInv, TypeInv, ContractTypeOK
<1>5. trader \in Holders \ Uninvolved(trader) /\ trader # Engine /\ 0 \in Nat
  BY Payable, SMT
<1> HIDE DEF direction, quote, value, pnl, position
<1>6. CASE /\ GetOutputPriceDefined(direction, Part(Abs(position.size)),
                                    quote_asset_reserve, base_asset_reserve)
           /\ SpotNotionalDefined(position)
           /\ BeginWith(trader, funds, <<part>>)
           /\ tmp_swap' = Swapping(trader, Flip(direction), Decimals, quote, value, pnl)
  <2>1. quote \in Nat
    BY <1>6, Amounts, Zenon DEF quote
  <2>2. value \in Nat
    BY <1>6, Amounts, Zenon DEF SpotNotional, SpotNotionalDefined, value
  <2>3. pnl \in Int
    <3>1. value \in Int
      BY <2>2, SMT
    <3>2. QED
      BY <1>2, <3>1, PnlType DEF pnl
  <2>4. /\ tmp_swap' \in TmpSwap /\ tmp_swap'.trader = trader /\ tmp_swap'.fees_paid = FALSE
        /\ tmp_swap'.side = Flip(direction) /\ tmp_swap'.open_notional = quote
        /\ tmp_swap'.position_notional = value
    <3>1. Decimals \in Nat
      BY DecimalsAssumption
    <3>2. tmp_swap' \in TmpSwap
      BY <1>3, <1>6, <2>1, <2>2, <2>3, <3>1, SwapTypes, Zenon
    <3>3. QED
      BY <1>6, <3>2 DEF Swapping
  <2>5. /\ part.kind = "swap_input" /\ part.id = PartialClosePosition
        /\ part.direction = Flip(direction) /\ part.amount = quote
    BY DEF SwapInputMsg
  <2> HIDE DEF part
  <2>6. Fits(part.id, position, tmp_swap')
    BY <1>1, <1>3, <2>4, <2>5, DistinctIds DEF Fits, position
  <2>7. Asks(part, position, tmp_swap')
    BY <1>6, <2>4, <2>5, DistinctIds DEF Asks, value
  <2>8. part.id \in SwapIds /\ part.id \notin LiquidationIds
    BY <2>5, DistinctIds
  <2>9. CallsAbout(trader, trader, funds, part)
    BY <1>1, <1>4, <1>5, <1>6, <2>4, <2>5, <2>6, <2>7, <2>8 DEF CallsAbout, position
  <2>10. QED
    BY <2>9, CallBook
<1>7. CASE /\ BeginWith(trader, funds, <<whole>>)
           /\ tmp_swap' = CloseSwap(trader, position)
  <2>1. tmp_swap' = Swapping(trader, position.direction, 0, position.notional, 0, 0)
    BY <1>7 DEF CloseSwap
  <2>2. /\ tmp_swap' \in TmpSwap /\ tmp_swap'.trader = trader /\ tmp_swap'.fees_paid = FALSE
    <3>1. 0 \in Nat /\ 0 \in Int
      BY SMT
    <3>2. tmp_swap' \in TmpSwap
      BY <1>2, <2>1, <3>1, SwapTypes, Zenon
    <3>3. QED
      BY <2>1, <3>2 DEF Swapping
  <2>3. /\ whole.kind = "swap_output" /\ whole.id = ClosingPosition
        /\ whole.direction = position.direction /\ whole.amount = Abs(position.size)
    BY DEF CloseMsg, SwapOutputMsg
  <2> HIDE DEF whole
  <2>4. Fits(whole.id, position, tmp_swap')
    BY <1>1, <2>2, <2>3, DistinctIds DEF Fits, position
  <2>5. Asks(whole, position, tmp_swap')
    BY <2>3, DistinctIds DEF Asks
  <2>6. whole.id \in SwapIds /\ whole.id \notin LiquidationIds
    BY <2>3, DistinctIds
  <2>7. CallsAbout(trader, trader, funds, whole)
    BY <1>1, <1>4, <1>5, <1>7, <2>2, <2>3, <2>4, <2>5, <2>6 DEF CallsAbout, position
  <2>8. QED
    BY <2>7, CallBook
<1>8. QED
  BY <1>1, <1>6, <1>7

LEMMA LiquidateBook ==
    ASSUME RecordInv, SafetyInv, BookInv, NEW sender \in Liquidators, NEW trader \in Traders,
           NEW limit, NEW oracle, NEW funds \in Nat,
           Liquidate(sender, trader, limit, oracle, funds)
    PROVE  BookInv'
<1> DEFINE position == positions[trader]
           part == PartialLiquidationMsg(position, limit)
           whole == CloseMsg(Liquidation, position, limit)
           side == IF position.size > 0 THEN RemoveFromAmm ELSE AddToAmm
           notional == PartNotional(position)
           pnl == UnrealizedPnl(position, SpotNotional(position))
<1>1. /\ UNCHANGED <<book, sent_funds>> /\ tmp_liquidator' = sender
      /\ position.size # 0 /\ MarginRatioDefined(position)
      /\ \/ /\ PartialLiquidationDefined(position)
            /\ BeginWith(sender, funds, <<part>>)
            /\ tmp_swap' = PartialLiquidationSwap(trader, position)
         \/ /\ BeginWith(sender, funds, <<whole>>)
            /\ tmp_swap' = CloseSwap(trader, position)
  BY Zenon DEF Liquidate, Begin
<1>2. /\ position \in Position /\ IsPosition(position) /\ position.direction \in Direction
      /\ position.notional \in Nat
  BY PositionFields DEF BookInv, TypeInv, ContractTypeOK
<1>3. side \in Direction
  BY DEF Direction
<1>4. /\ tmp_liquidator' \in Liquidators
      /\ sent_funds' \in [stored: BOOLEAN, amount: Nat, required: Nat]
      /\ UNCHANGED book
  BY <1>1 DEF BookInv, TypeInv, ContractTypeOK
<1>5. sender \in Holders \ Uninvolved(trader) /\ sender # Engine /\ 0 \in Nat
  BY Payable, SMT
<1> HIDE DEF side, notional, pnl, position
<1>6. CASE /\ PartialLiquidationDefined(position)
           /\ BeginWith(sender, funds, <<part>>)
           /\ tmp_swap' = PartialLiquidationSwap(trader, position)
  <2>1. notional \in Nat
    BY <1>6, Amounts, Zenon DEF PartNotional, PartialLiquidationDefined, notional
  <2>2. pnl \in Int
    <3>1. SpotNotionalDefined(position)
      BY <1>1, Zenon DEF MarginRatioDefined, PrudentNotionalDefined, position
    <3>2. SpotNotional(position) \in Nat
      BY <3>1, Amounts, Zenon DEF SpotNotional, SpotNotionalDefined
    <3>3. SpotNotional(position) \in Int
      BY <3>2, SMT
    <3>4. QED
      BY <1>2, <3>3, PnlType DEF pnl
  <2>3. tmp_swap' = Swapping(trader, side, 0, notional, 0, pnl)
    BY <1>6, Zenon DEF PartialLiquidationSwap, side, notional, pnl
  <2>4. /\ tmp_swap' \in TmpSwap /\ tmp_swap'.trader = trader /\ tmp_swap'.fees_paid = FALSE
        /\ tmp_swap'.open_notional = notional
    <3>1. 0 \in Nat
      BY SMT
    <3>2. tmp_swap' \in TmpSwap
      BY <1>3, <2>1, <2>2, <2>3, <3>1, SwapTypes, Zenon
    <3>3. QED
      BY <2>3, <3>2 DEF Swapping
  <2>5. /\ part.kind \in {"swap_input", "swap_output"} /\ part.id = PartialLiquidation
        /\ part.kind = "swap_output" => /\ part.direction = position.direction
                                        /\ part.amount = Part(Abs(position.size))
    BY DEF PartialLiquidationMsg, SwapInputMsg, SwapOutputMsg
  <2> HIDE DEF part
  <2>6. Fits(part.id, position, tmp_swap')
    BY <1>1, <2>4, <2>5, DistinctIds DEF Fits, position
  <2>7. Asks(part, position, tmp_swap')
    BY <2>5, DistinctIds DEF Asks
  <2>8. part.id \in SwapIds /\ part.id \in LiquidationIds
    BY <2>5, DistinctIds
  <2>9. CallsAbout(trader, sender, funds, part)
    BY <1>1, <1>4, <1>5, <1>6, <2>4, <2>5, <2>6, <2>7, <2>8 DEF CallsAbout, position
  <2>10. QED
    BY <2>9, CallBook
<1>7. CASE /\ BeginWith(sender, funds, <<whole>>)
           /\ tmp_swap' = CloseSwap(trader, position)
  <2>1. tmp_swap' = Swapping(trader, position.direction, 0, position.notional, 0, 0)
    BY <1>7 DEF CloseSwap
  <2>2. /\ tmp_swap' \in TmpSwap /\ tmp_swap'.trader = trader /\ tmp_swap'.fees_paid = FALSE
    <3>1. 0 \in Nat /\ 0 \in Int
      BY SMT
    <3>2. tmp_swap' \in TmpSwap
      BY <1>2, <2>1, <3>1, SwapTypes, Zenon
    <3>3. QED
      BY <2>1, <3>2 DEF Swapping
  <2>3. /\ whole.kind = "swap_output" /\ whole.id = Liquidation
        /\ whole.direction = position.direction /\ whole.amount = Abs(position.size)
    BY DEF CloseMsg, SwapOutputMsg
  <2> HIDE DEF whole
  <2>4. Fits(whole.id, position, tmp_swap')
    BY <1>1, <2>2, <2>3, DistinctIds DEF Fits, position
  <2>5. Asks(whole, position, tmp_swap')
    BY <2>3, DistinctIds DEF Asks
  <2>6. whole.id \in SwapIds /\ whole.id \in LiquidationIds
    BY <2>3, DistinctIds
  <2>7. CallsAbout(trader, sender, funds, whole)
    BY <1>1, <1>4, <1>5, <1>7, <2>2, <2>3, <2>4, <2>5, <2>6 DEF CallsAbout, position
  <2>8. QED
    BY <2>7, CallBook
<1>8. QED
  BY <1>1, <1>6, <1>7

\* The requests that call no swap.
LEMMA MarginRequestBook ==
    ASSUME RecordInv, SafetyInv, BookInv, NEW trader \in Traders, NEW funds \in Nat, NEW msgs,
           BeginWith(trader, funds, msgs), Transfers(msgs), Pays(msgs, trader),
           NEW new \in Position, new.exists,
           positions' = [positions EXCEPT ![trader] = new],
           engine_state' \in EngineState, Interest(engine_state') = Interest(engine_state),
           UNCHANGED <<vamm_map, temporary>>
    PROVE  BookInv'
<1>1. /\ vamm_map' = vamm_map /\ tmp_swap' = tmp_swap /\ tmp_liquidator' = tmp_liquidator
      /\ sent_funds' = sent_funds
  BY DEF temporary
<1>2. Idle
  BY DEF BeginWith
<1>3. tmp_swap' = NoSwap /\ ~NoSwap.fees_paid
  BY <1>1, <1>2, IdleIsClean DEF NoSwap
<1>4. Awaits(msgs, NoReply) \notin SwapIds \union {Funding} \union LiquidationIds
  <2>1. Awaits(msgs, NoReply) = "none"
    BY QueueOfTransfers DEF Awaits, NoReply
  <2>2. QED
    BY <2>1, ReplyIds
<1>5. /\ positions' \in [Traders -> Position] /\ OnlyStored(positions')
      /\ \A other \in Traders \ {trader} : positions'[other] = positions[other]
  BY DEF BookInv, TypeInv, ContractTypeOK, OnlyStored
<1>6. /\ tmp_swap' \in TmpSwap /\ tmp_liquidator' \in Liquidators \union {NoAccount}
      /\ sent_funds' \in [stored: BOOLEAN, amount: Nat, required: Nat]
  BY <1>1 DEF BookInv, TypeInv, ContractTypeOK
<1>7. trader \in Holders \ Uninvolved(trader) /\ trader # Engine
      /\ trader \in Traders \union {NoAccount}
  BY Payable
<1>8. ~tmp_swap'.fees_paid
  BY <1>3
<1>9. QED
  BY <1>1, <1>4, <1>5, <1>6, <1>7, <1>8, BeginBook

LEMMA DepositBook ==
    ASSUME RecordInv, SafetyInv, BookInv, NEW trader \in Traders, NEW amount \in Nat,
           NEW funds \in Nat, DepositMargin(trader, amount, funds)
    PROVE  BookInv'
<1> DEFINE msgs == IF Native THEN <<>> ELSE <<Transfer(trader, Engine, amount)>>
           old == positions[trader]
           new == [old EXCEPT !.margin = old.margin + amount]
<1>1. /\ BeginWith(trader, funds, msgs)
      /\ positions' = [positions EXCEPT ![trader].margin = @ + amount]
      /\ UNCHANGED <<engine_state, vamm_map, temporary>> /\ old.exists
  BY Zenon DEF DepositMargin
<1>2. old \in Position /\ positions \in [Traders -> Position] /\ engine_state \in EngineState
  BY DEF BookInv, TypeInv, ContractTypeOK
<1>3. old.margin + amount \in Nat
  BY <1>2, PositionFields, SMT
<1>4. new \in Position
  BY <1>2, <1>3, FieldUpdate
<1>5. new.exists
  BY <1>1, <1>2 DEF Position
<1>6. positions' = [positions EXCEPT ![trader] = new]
  BY <1>1, <1>2
<1>7. Transfers(msgs) /\ Pays(msgs, trader)
  <2>1. trader \in Holders \ Uninvolved(trader) /\ Engine \in Holders \ Uninvolved(trader)
        /\ trader # Engine
    BY Payable
  <2>2. QED
    BY <2>1, OneTransfer, NoTransfer, PaysNothing, PaysOne
<1> HIDE DEF msgs, new, old
<1>8. engine_state' \in EngineState /\ Interest(engine_state') = Interest(engine_state)
      /\ UNCHANGED <<vamm_map, temporary>>
  BY <1>1, <1>2
<1>9. QED
  BY <1>1, <1>4, <1>5, <1>6, <1>7, <1>8, MarginRequestBook

LEMMA WithdrawBook ==
    ASSUME RecordInv, SafetyInv, BookInv, NEW trader \in Traders, NEW amount \in Nat,
           NEW funds \in Nat, WithdrawMargin(trader, amount, funds)
    PROVE  BookInv'
<1> DEFINE msgs == Withdraw(trader, amount, funds)
           old == positions[trader]
           margin == RemainMargin(old, -amount)
           premium == vamm_map.cumulative_premium_fraction
           new == [old EXCEPT !.margin = margin, !.last_updated_premium_fraction = premium]
           lacking == Shortfall(amount, funds)
<1>1. /\ BeginWith(trader, funds, msgs)
      /\ positions' = [positions EXCEPT ![trader].margin = margin,
                                        ![trader].last_updated_premium_fraction = premium]
      /\ engine_state' = [engine_state EXCEPT !.prepaid_bad_debt = @ + lacking]
      /\ UNCHANGED <<vamm_map, temporary>> /\ old.exists
  BY Zenon DEF WithdrawMargin, Begin
<1>2. /\ old \in Position /\ positions \in [Traders -> Position] /\ engine_state \in EngineState
      /\ vamm_map \in VammMap /\ balance \in [Holders -> Nat] /\ engine_config \in EngineConfig
  BY DEF BookInv, TypeInv, ContractTypeOK
<1>3. amount \in Int /\ -amount \in Int /\ 0 \in Int /\ 0 \in Nat
  BY SMT
<1>4. margin \in Nat /\ premium \in Int
  BY <1>2, <1>3, MarginTypes DEF VammMap
<1>5. lacking \in Nat
  BY <1>2, <1>3, ShortfallType
<1>6. Transfers(msgs) /\ Pays(msgs, trader)
  <2>1. trader \in Holders \ Uninvolved(trader) /\ trader # Engine
    BY Payable
  <2>2. QED
    BY <1>2, <1>3, <2>1, PaysWithdraw, WithdrawTransfers
<1> HIDE DEF msgs, margin, premium, lacking
<1>7. new \in Position
  <2>1. [[old EXCEPT !.margin = margin] EXCEPT !.last_updated_premium_fraction = premium]
           \in Position
    BY <1>2, <1>4, FieldUpdate, Zenon
  <2>2. QED
    BY <2>1
<1>8. new.exists
  BY <1>1, <1>2 DEF Position
<1>9. positions' = [positions EXCEPT ![trader] = new]
  BY <1>1, <1>2
<1>10. engine_state' \in EngineState /\ Interest(engine_state') = Interest(engine_state)
  BY <1>1, <1>2, <1>5, SMT DEF EngineState, Interest
<1> HIDE DEF old, new
<1>11. UNCHANGED <<vamm_map, temporary>>
  BY <1>1
<1>12. QED
  BY <1>1, <1>3, <1>6, <1>7, <1>8, <1>9, <1>10, <1>11, MarginRequestBook

LEMMA PayFundingBook ==
    ASSUME RecordInv, SafetyInv, BookInv, NEW sender \in Liquidators,
           NEW funds \in Nat, PayFunding(sender, funds)
    PROVE  BookInv'
<1> DEFINE msgs == <<FundingMsg>>
<1>1. /\ BeginWith(sender, funds, msgs) /\ UNCHANGED book
      /\ tmp_swap' = tmp_swap /\ tmp_liquidator' = tmp_liquidator /\ sent_funds' = sent_funds
  BY DEF PayFunding, Begin, temporary
<1>2. Idle
  BY <1>1 DEF BeginWith
<1>3. ~tmp_swap'.fees_paid
  BY <1>1, <1>2, IdleIsClean DEF NoSwap
<1>4. Awaits(msgs, NoReply) = Funding /\ Pays(msgs, NoAccount)
  <2>1. FundingMsg.kind = "settle_funding" /\ FundingMsg.id = Funding
    BY DEF FundingMsg
  <2>2. QED
    BY <2>1, QueueOfCall, PaysCall
<1>5. Funding \notin SwapIds \union LiquidationIds
  BY ReplyIds
<1>6. sender \in Holders \ Uninvolved(NoAccount) /\ sender # Engine /\ 0 \in Nat
      /\ NoAccount \in Traders \union {NoAccount}
  BY Payable, SMT
<1> HIDE DEF msgs
<1>7. /\ positions' = positions /\ engine_state' = engine_state /\ vamm_map' = vamm_map
      /\ positions \in [Traders -> Position] /\ OnlyStored(positions)
      /\ engine_state \in EngineState
      /\ tmp_swap' \in TmpSwap /\ tmp_liquidator' \in Liquidators \union {NoAccount}
      /\ sent_funds' \in [stored: BOOLEAN, amount: Nat, required: Nat]
  BY <1>1 DEF book, BookInv, TypeInv, ContractTypeOK
<1>8. /\ OnlyStored(positions') /\ positions' \in [Traders -> Position]
      /\ \A other \in Traders \ {NoAccount} : positions'[other] = positions[other]
      /\ engine_state' \in EngineState /\ Interest(engine_state') = Interest(engine_state)
  BY <1>7 DEF OnlyStored
<1>9. Awaits(msgs, NoReply) \notin SwapIds /\ Awaits(msgs, NoReply) \notin LiquidationIds
  BY <1>4, <1>5
<1>10. QED
  BY <1>1, <1>3, <1>4, <1>6, <1>7, <1>8, <1>9, BeginBook

-----------------------------------------------------------------------------
(* Replies *)

\* Where the books stand when a swap is answered.
LEMMA AnswerInterest ==
    ASSUME RecordInv, SafetyInv, BookInv, NEW id \in SwapIds, reply.id = id
    PROVE  /\ Interest(engine_state) \in Nat /\ Interest(Start.engine_state) \in Nat
           /\ Interest(engine_state) <= Interest(Start.engine_state)
           /\ ~tmp_swap.fees_paid => positions = Start.positions
           /\ tmp_swap.fees_paid =>
                 LET old == Start.positions[tmp_swap.trader]
                     p == positions[tmp_swap.trader]
                 IN  /\ old.exists /\ old.direction # tmp_swap.side
                     /\ p.exists /\ p.size = 0 /\ p.notional = 0
<1>1. ~Idle /\ AwaitedId = id /\ SavedTypes(Start)
  BY AnswerFacts
<1>2. ~Settled
  BY <1>1 DEF Settled
<1>3. Interest(engine_state) \in Nat /\ Interest(Start.engine_state) \in Nat
  BY <1>1 DEF Interest, SavedTypes, EngineState, BookInv, TypeInv, ContractTypeOK
<1>4. Interest(engine_state) <= Interest(Start.engine_state)
  BY <1>1, <1>2, <1>3, SMT DEF BookInv, InterestInv
<1>5. QED
  BY <1>1, <1>2, <1>3, <1>4 DEF BookInv, InterestInv

LEMMA OpenInterestType ==
    ASSUME engine_state \in EngineState, NEW amount \in Int
    PROVE  /\ OpenInterest(amount) \in Nat
           /\ amount <= 0 => OpenInterest(amount) <= Interest(engine_state)
<1>1. engine_state.open_interest_notional \in Nat
  BY DEF EngineState
<1>2. QED
  BY <1>1, SMT DEF OpenInterest, AtLeastZero, Interest

\* The state of the engine after a reply.
Owing(s, n) == [s EXCEPT !.prepaid_bad_debt = n]
Opened(s, interest) == [s EXCEPT !.open_interest_notional = interest]
Updated(s, interest, n) == [s EXCEPT !.open_interest_notional = interest, !.prepaid_bad_debt = n]

LEMMA StateUpdate ==
    ASSUME NEW s \in EngineState, NEW x \in Nat, NEW y \in Nat
    PROVE  /\ Updated(s, x, y) \in EngineState /\ Interest(Updated(s, x, y)) = x
           /\ Opened(s, x) \in EngineState /\ Interest(Opened(s, x)) = x
           /\ Owing(s, y) \in EngineState /\ Interest(Owing(s, y)) = Interest(s)
           /\ s.prepaid_bad_debt + y \in Nat
<1>1. s.prepaid_bad_debt + y \in Nat
  BY SMT DEF EngineState
<1>2. QED
  BY <1>1 DEF EngineState, Interest, Updated, Opened, Owing

\* A reply that does not let the open interest rise.
LEMMA InterestFalls ==
    ASSUME RecordInv, SafetyInv, BookInv, NEW id \in SwapIds, reply.id = id,
           engine_state' \in EngineState, Interest(engine_state') <= Interest(engine_state),
           Start' = Start
    PROVE  InterestAllowed'
<1>1. Interest(engine_state') \in Nat
  BY DEF Interest, EngineState
<1>2. /\ Interest(engine_state) \in Nat /\ Interest(Start.engine_state) \in Nat
      /\ Interest(engine_state) <= Interest(Start.engine_state)
  BY AnswerInterest
<1>3. Interest(engine_state') <= Interest(Start.engine_state)
  BY <1>1, <1>2, SMT
<1>4. QED
  BY <1>3 DEF InterestAllowed

\* An increase or a decrease; a rise of the open interest changes the position.
LEMMA UpdateBook ==
    ASSUME RecordInv, SafetyInv, BookInv, NEW id \in {IncreasePosition, DecreasePosition},
           reply.id = id, NEW direction \in Direction, NEW interest \in Int,
           NEW swapMargin \in Int, NEW marginDelta \in Int, NEW notional \in Nat,
           UpdatePosition(id, direction, interest, swapMargin, marginDelta, notional),
           interest > 0 =>
              /\ id = IncreasePosition
              /\ \A p : p.exists = TRUE /\ p.direction = direction /\ p.notional = notional
                          => p # Start.positions[tmp_swap.trader]
    PROVE  BookInv'
<1> DEFINE trader == tmp_swap.trader
           old == GetPosition(tmp_swap.trader, tmp_swap.side)
           change == Signed(tmp_swap.side, reply.output)
           margin == RemainMargin(old, marginDelta)
           premium == vamm_map.cumulative_premium_fraction
           new == [old EXCEPT !.direction = direction, !.notional = notional,
                              !.size = @ + change, !.margin = margin,
                              !.last_updated_premium_fraction = premium,
                              !.block_number = height]
           marginToVault == tmp_swap.margin_to_vault + swapMargin
           toVault ==
              IF marginToVault < 0 THEN Withdraw(tmp_swap.trader, -marginToVault, 0)
              ELSE IF Native THEN <<>>
              ELSE TransferUnlessZero(tmp_swap.trader, Engine, marginToVault)
           fees == IF tmp_swap.fees_paid THEN <<>>
                   ELSE TransferFees(tmp_swap.trader, tmp_swap.open_notional)
           lacking == IF marginToVault < 0 THEN Shortfall(-marginToVault, 0) ELSE 0
<1>1. /\ OpenInterestAllowed(interest, id = IncreasePosition, trader)
      /\ Reply(id, toVault \o fees)
      /\ positions' = [positions EXCEPT ![trader] = new]
      /\ engine_state' = [engine_state EXCEPT !.open_interest_notional = OpenInterest(interest),
                                              !.prepaid_bad_debt = @ + lacking]
      /\ tmp_swap' = NoSwap /\ sent_funds' = NoFunds
      /\ vamm_map' = vamm_map /\ tmp_liquidator' = tmp_liquidator
  BY Zenon DEF UpdatePosition, RemoveTmpSwap, RemoveSentFunds
<1>2. id \in SwapIds
  BY DistinctIds
<1>3. /\ tmp_swap \in TmpSwap /\ trader \in Traders /\ positions[trader] \in Position
      /\ reply.output \in Nat /\ ~Idle
  BY <1>2, AnswerFacts
<1>4. /\ engine_state \in EngineState /\ vamm_map \in VammMap /\ positions \in [Traders -> Position]
      /\ balance \in [Holders -> Nat] /\ engine_config \in EngineConfig /\ height \in Nat
  BY DEF BookInv, TypeInv, ContractTypeOK, SafetyInv, AmmInv, ReserveInv, TypeOK
<1>5. /\ tmp_swap.side \in Direction /\ tmp_swap.open_notional \in Nat
      /\ tmp_swap.margin_to_vault \in Int
  BY <1>3, SwapFields
<1>6. old \in Position /\ old.exists = TRUE
  <2>1. /\ positions[trader].exists => old = positions[trader]
        /\ ~positions[trader].exists =>
              old = [NoPosition EXCEPT !.exists = TRUE, !.direction = tmp_swap.side,
                                       !.block_number = height]
    BY DEF GetPosition
  <2>2. [NoPosition EXCEPT !.exists = TRUE, !.direction = tmp_swap.side,
                           !.block_number = height].exists = TRUE
    BY DEF NoPosition
  <2>3. positions[trader].exists \in BOOLEAN
    BY <1>3, PositionFields
  <2>4. QED
    BY <2>1, <2>2, <2>3, <1>3, <1>4, <1>5, NewPosition
<1>7. change \in Int /\ margin \in Nat /\ premium \in Int /\ old.size + change \in Int
  <2>1. change \in Int
    <3>1. reply.output \in Int
      BY <1>3, SMT
    <3>2. QED
      BY <1>5, <3>1, Amounts, Zenon
  <2>2. margin \in Nat
    BY <1>4, <1>6, MarginTypes
  <2>3. old.size \in Int
    BY <1>6, PositionFields
  <2>4. QED
    BY <1>4, <2>1, <2>2, <2>3, SMT DEF VammMap
<1> HIDE DEF old, change, margin, premium
<1>8. new \in Position /\ new.exists = TRUE /\ new.direction = direction /\ new.notional = notional
  <2> DEFINE size == old.size + change
             same == [old EXCEPT !.direction = direction, !.notional = notional,
                                 !.size = size, !.margin = margin,
                                 !.last_updated_premium_fraction = premium,
                                 !.block_number = height]
  <2>1. new = same
    OBVIOUS
  <2>2. size \in Int
    BY <1>7
  <2> HIDE DEF size
  <2>3. same \in Position
    BY <1>4, <1>6, <1>7, <2>2, PositionUpdate
  <2>4. same.exists = TRUE /\ same.direction = direction /\ same.notional = notional
    BY <1>6 DEF Position
  <2>5. QED
    BY <2>1, <2>3, <2>4
<1>9. marginToVault \in Int /\ -marginToVault \in Int
      /\ (marginToVault < 0 => -marginToVault \in Nat)
      /\ (~(marginToVault < 0) => marginToVault \in Nat)
  BY <1>5, SMT
<1> HIDE DEF new, marginToVault
<1>10. lacking \in Nat
  <2>1. 0 \in Int
    BY SMT
  <2>2. Shortfall(-marginToVault, 0) \in Nat
    BY <1>4, <1>9, <2>1, ShortfallType
  <2>3. QED
    BY <2>2, SMT
<1>11. engine_state' \in EngineState /\ Interest(engine_state') = OpenInterest(interest)
  <2>1. OpenInterest(interest) \in Nat
    BY <1>4, OpenInterestType
  <2> HIDE DEF lacking
  <2> DEFINE total == engine_state.prepaid_bad_debt + lacking
  <2>2. engine_state' = Updated(engine_state, OpenInterest(interest), total)
    BY <1>1 DEF Updated
  <2>3. total \in Nat
    BY <1>4, <1>10, StateUpdate
  <2> HIDE DEF total
  <2>4. QED
    BY <1>4, <2>1, <2>2, <2>3, StateUpdate
<1>12. Transfers(toVault \o fees) /\ Pays(toVault \o fees, trader)
  <2>1. trader \in Holders \ Uninvolved(trader) /\ Engine \in Holders \ Uninvolved(trader)
        /\ trader # Engine /\ 0 \in Int
    BY <1>3, Payable, SMT
  <2>2. Transfers(toVault) /\ Pays(toVault, trader)
    <3>1. CASE marginToVault < 0
      BY <3>1, <1>4, <1>9, <2>1, PaysWithdraw, WithdrawTransfers
    <3>2. CASE ~(marginToVault < 0)
      BY <3>2, <1>9, <2>1, PaysNothing, NoTransfer, PaysOne, FeesAreTransfers
         DEF TransferUnlessZero
    <3>3. QED
      BY <3>1, <3>2
  <2>3. Transfers(fees) /\ Pays(fees, trader)
    BY <1>3, <1>4, <1>5, PaysFees, PaysNothing, NoTransfer, FeesAreTransfers
  <2> HIDE DEF toVault, fees
  <2>4. QED
    BY <2>2, <2>3, BothTransfers, PaysBoth
<1>13. ASSUME Start' = Start
       PROVE  InterestAllowed'
  <2>1. CASE interest <= 0
    <3>1. Interest(engine_state') <= Interest(engine_state)
      BY <1>4, <1>11, <2>1, OpenInterestType
    <3>2. QED
      BY <1>2, <1>11, <1>13, <3>1, InterestFalls
  <2>2. CASE ~(interest <= 0)
    <3>1. interest > 0
      BY <2>2, SMT
    <3>2. new # Start.positions[trader] /\ id = IncreasePosition
      BY <3>1, <1>8
    <3>3. positions'[trader] = new
      BY <1>1, <1>3, <1>4
    <3>4. whitelist' = whitelist
      BY <1>1 DEF Reply, settings
    <3>5. \/ OpenInterestCap = 0
          \/ Interest(engine_state') <= OpenInterestCap
          \/ trader \in whitelist
      BY <1>1, <1>11, <3>2 DEF OpenInterestAllowed
    <3>6. CASE trader \in whitelist
      <4>1. PICK t : t = trader
        OBVIOUS
      <4>2. t \in whitelist' \intersect Traders /\ positions'[t] # Start'.positions[t]
        BY <1>3, <1>13, <3>2, <3>3, <3>4, <3>6, <4>1
      <4>3. QED
        BY <4>2 DEF InterestAllowed
    <3>7. CASE ~(trader \in whitelist)
      BY <3>5, <3>7 DEF InterestAllowed
    <3>8. QED
      BY <3>6, <3>7
  <2>3. QED
    BY <2>1, <2>2
<1> DEFINE msgs == toVault \o fees
<1>14. Reply(id, msgs) /\ Transfers(msgs) /\ Pays(msgs, trader)
  BY <1>1, <1>12
<1> HIDE DEF toVault, fees, lacking, msgs
<1>15. /\ vamm_map' \in VammMap /\ tmp_liquidator' \in {tmp_liquidator, NoAccount}
       /\ sent_funds' \in {sent_funds, NoFunds} /\ tmp_swap' = NoSwap
       /\ positions' = [positions EXCEPT ![tmp_swap.trader] = new]
  BY <1>1, <1>4
<1>16. QED
  BY <1>2, <1>8, <1>11, <1>13, <1>14, <1>15, ReplyBook

LEMMA IncreaseBook ==
    ASSUME RecordInv, SafetyInv, BookInv, IncreasePositionReply
    PROVE  BookInv'
<1> DEFINE trader == tmp_swap.trader
           old == GetPosition(tmp_swap.trader, tmp_swap.side)
           swapMargin == (tmp_swap.open_notional * Decimals) \div tmp_swap.leverage
           notional == old.notional + tmp_swap.open_notional
           before == Start.positions[tmp_swap.trader]
<1>1. /\ reply.id = IncreasePosition
      /\ UpdatePosition(IncreasePosition, tmp_swap.side, reply.input, swapMargin, swapMargin,
                        notional)
  BY Zenon DEF IncreasePositionReply
<1>2. IncreasePosition \in SwapIds
  BY DistinctIds
<1>3. /\ tmp_swap \in TmpSwap /\ trader \in Traders /\ positions[trader] \in Position
      /\ Fits(IncreasePosition, positions[trader], tmp_swap)
      /\ reply.input = tmp_swap.open_notional /\ reply.input \in Nat
  BY <1>1, <1>2, AnswerFacts
<1>4. /\ tmp_swap.side \in Direction /\ tmp_swap.open_notional \in Nat /\ tmp_swap.leverage \in Nat
      /\ tmp_swap.leverage # 0
  BY <1>3, SwapFields, DistinctIds DEF Fits
<1>5. /\ positions[trader].exists => old = positions[trader]
      /\ old.notional \in Nat /\ positions[trader].notional \in Nat
  BY <1>3, <1>4, StoredOrNew DEF SafetyInv, IsPosition, GetPosition
<1>6. swapMargin \in Int
  <2>1. tmp_swap.open_notional * Decimals \in Nat /\ tmp_swap.leverage \in Nat \ {0}
    BY <1>4, ProductType, DecimalsAssumption, SMT
  <2>2. swapMargin \in Nat
    BY <2>1, DivMod
  <2>3. QED
    BY <2>2, SMT
<1>7. notional \in Nat /\ reply.input \in Int
  BY <1>3, <1>4, <1>5, SMT
<1>8. ASSUME reply.input > 0, NEW p,
             p.exists = TRUE, p.direction = tmp_swap.side, p.notional = notional
      PROVE  p # before
  <2>1. CASE tmp_swap.fees_paid
    <3>1. before.direction # tmp_swap.side
      BY <1>1, <1>2, <2>1, AnswerInterest
    <3>2. QED
      BY <3>1, <1>8
  <2>2. CASE ~tmp_swap.fees_paid
    <3>1. before = positions[trader]
      BY <1>1, <1>2, <2>2, AnswerInterest
    <3>2. CASE positions[trader].exists
      <4>1. notional # positions[trader].notional
        BY <3>2, <1>3, <1>5, <1>7, <1>8, SMT
      <4>2. QED
        BY <4>1, <3>1, <1>8
    <3>3. CASE ~positions[trader].exists
      BY <3>1, <3>3, <1>8
    <3>4. QED
      BY <3>2, <3>3
  <2>3. QED
    BY <2>1, <2>2
<1> HIDE DEF old, swapMargin, notional
<1>9. QED
  BY <1>1, <1>4, <1>6, <1>7, <1>8, UpdateBook

LEMMA DecreaseBook ==
    ASSUME RecordInv, SafetyInv, BookInv, DecreasePositionReply
    PROVE  BookInv'
<1> DEFINE old == GetPosition(tmp_swap.trader, tmp_swap.side)
           realized == RealizedPnl(old, reply.output)
           notional == RemainingNotional(old, realized)
<1>1. /\ reply.id = DecreasePosition
      /\ UpdatePosition(DecreasePosition, old.direction, -reply.input, 0, realized, notional)
  BY Zenon DEF DecreasePositionReply
<1>2. DecreasePosition \in SwapIds
  BY DistinctIds
<1>3. /\ tmp_swap \in TmpSwap /\ tmp_swap.trader \in Traders
      /\ reply.input \in Nat /\ reply.output \in Nat
  BY <1>1, <1>2, AnswerFacts
<1>4. IsPosition(old)
  BY <1>3, SwapFields, StoredOrNew DEF SafetyInv
<1>5. /\ old.direction \in Direction /\ realized \in Int /\ notional \in Nat
  BY <1>3, <1>4, ProfitTypes DEF IsPosition
<1>6. -reply.input \in Int /\ ~(-reply.input > 0) /\ 0 \in Int
  BY <1>3, SMT
<1> HIDE DEF old, realized, notional
<1>7. QED
  BY <1>1, <1>5, <1>6, UpdateBook

LEMMA ClearedPosition ==
    ASSUME NEW p \in Position, height \in Nat
    PROVE  /\ Clear(p) \in Position
           /\ Clear(p).exists = p.exists /\ Clear(p).size = 0 /\ Clear(p).notional = 0
<1>1. 0 \in Nat /\ 0 \in Int
  BY SMT
<1>2. [[[[[p EXCEPT !.size = 0] EXCEPT !.margin = 0] EXCEPT !.notional = 0]
         EXCEPT !.last_updated_premium_fraction = 0] EXCEPT !.block_number = height] \in Position
  BY <1>1, FieldUpdate, Zenon
<1>3. Clear(p) \in Position
  BY <1>2 DEF Clear
<1>4. QED
  BY <1>3 DEF Clear, Position

\* A reversal: the old position is cleared, and the rest of the notional, if it
\* is worth it, opened by a second swap.
LEMMA ReverseBook ==
    ASSUME RecordInv, SafetyInv, BookInv, ReversePositionReply
    PROVE  BookInv'
<1> PICK trader : trader = tmp_swap.trader
  OBVIOUS
<1> DEFINE old == GetPosition(tmp_swap.trader, tmp_swap.side)
           rest == Gap(tmp_swap.open_notional, reply.output)
           marginToVault == -old.margin - tmp_swap.unrealized_pnl
           fees == TransferFees(tmp_swap.trader, tmp_swap.open_notional)
           feesDue == SpreadFee(tmp_swap.open_notional) + TollFee(tmp_swap.open_notional)
           due == sent_funds.required + feesDue
           paid == Transfer(Engine, tmp_swap.trader, Abs(marginToVault))
           again == SwapInputMsg(IncreasePosition, tmp_swap.side, rest, 0, FALSE)
           required == IF marginToVault > 0 \/ due > -marginToVault
                       THEN due + marginToVault ELSE feesDue
<1>1. /\ reply.id = ReversePosition
      /\ positions' = [positions EXCEPT ![tmp_swap.trader] = Clear(old)]
      /\ engine_state' = [engine_state EXCEPT !.open_interest_notional = OpenInterest(-reply.output)]
      /\ vamm_map' = vamm_map /\ tmp_liquidator' = tmp_liquidator
      /\ \/ /\ tmp_swap' = NoSwap /\ sent_funds' = NoFunds
            /\ Reply(ReversePosition, fees \o <<paid>>)
         \/ /\ tmp_swap' = [tmp_swap EXCEPT !.open_notional = rest, !.unrealized_pnl = 0,
                                            !.margin_to_vault = marginToVault,
                                            !.fees_paid = TRUE]
            /\ sent_funds' = [sent_funds EXCEPT !.required = required]
            /\ Reply(ReversePosition, fees \o <<again>>)
  BY Zenon DEF ReversePositionReply, RemoveTmpSwap, RemoveSentFunds
<1>2. ReversePosition \in SwapIds /\ ReversePosition \notin LiquidationIds
      /\ ReversePosition # IncreasePosition
  BY DistinctIds
<1>3. /\ tmp_swap \in TmpSwap /\ trader \in Traders /\ positions[trader] \in Position
      /\ Fits(ReversePosition, positions[trader], tmp_swap)
      /\ reply.output \in Nat /\ ~Idle /\ queue = <<>> /\ Serves(trader)
      /\ ~Restricted(Start, trader) /\ SavedTypes(Start)
      /\ Book!Supply(balance) = Book!Supply(Start.balance)
  BY <1>1, <1>2, AnswerFacts
<1>4. /\ tmp_swap.side \in Direction /\ tmp_swap.open_notional \in Nat
      /\ tmp_swap.unrealized_pnl \in Int /\ tmp_swap.leverage \in Nat
  BY <1>3, SwapFields
<1>5. /\ engine_state \in EngineState /\ vamm_map \in VammMap /\ positions \in [Traders -> Position]
      /\ balance \in [Holders -> Nat] /\ engine_config \in EngineConfig /\ height \in Nat
      /\ sent_funds \in [stored: BOOLEAN, amount: Nat, required: Nat]
      /\ OnlyStored(positions)
  BY DEF BookInv, TypeInv, ContractTypeOK, SafetyInv, AmmInv, ReserveInv, TypeOK
<1>6. /\ positions[trader].exists /\ positions[trader].direction # tmp_swap.side
      /\ ~tmp_swap.fees_paid /\ tmp_swap.leverage # 0
      /\ old = positions[trader]
  BY <1>2, <1>3, DistinctIds DEF Fits, GetPosition
<1>7. old \in Position /\ old.margin \in Nat /\ old.exists
  BY <1>3, <1>6, PositionFields
<1>8. /\ Clear(old) \in Position /\ Clear(old).exists /\ Clear(old).size = 0
      /\ Clear(old).notional = 0
  BY <1>5, <1>7, ClearedPosition
<1>9. /\ rest \in Nat /\ marginToVault \in Int /\ Abs(marginToVault) \in Nat /\ feesDue \in Nat
      /\ due \in Nat
  <2>1. rest \in Nat
    BY <1>3, <1>4, SMT DEF Gap
  <2>2. marginToVault \in Int
    BY <1>4, <1>7, SMT
  <2>3. feesDue \in Nat
    BY <1>4, <1>5, FeeTypes, SMT
  <2>4. due \in Nat
    BY <1>5, <2>3, SMT
  <2> HIDE DEF marginToVault
  <2>5. QED
    BY <2>1, <2>2, <2>3, <2>4, Amounts
<1>10. Transfers(fees) /\ Pays(fees, trader)
  BY <1>3, <1>4, <1>5, PaysFees, FeesAreTransfers
<1>11. /\ engine_state' \in EngineState
       /\ Interest(engine_state') \in Nat
       /\ Interest(engine_state') <= Interest(engine_state)
  <2>1. -reply.output \in Int /\ -reply.output <= 0
    BY <1>3, SMT
  <2>2. OpenInterest(-reply.output) \in Nat
        /\ OpenInterest(-reply.output) <= Interest(engine_state)
    BY <1>5, <2>1, OpenInterestType
  <2>3. engine_state' = Opened(engine_state, OpenInterest(-reply.output))
    BY <1>1 DEF Opened
  <2>4. QED
    BY <1>5, <2>2, <2>3, StateUpdate
<1> HIDE DEF old, rest, marginToVault, fees, feesDue, due
<1>12. CASE /\ tmp_swap' = NoSwap /\ sent_funds' = NoFunds
            /\ Reply(ReversePosition, fees \o <<paid>>)
  <2> DEFINE msgs == fees \o <<paid>>
  <2>1. Transfers(msgs) /\ Pays(msgs, trader)
    <3>1. Transfers(<<paid>>)
      BY OneTransfer
    <3>2. Pays(<<paid>>, trader)
      <4>1. trader \in Holders \ Uninvolved(trader) /\ Engine \in Holders \ Uninvolved(trader)
            /\ trader # Engine
        BY <1>3, Payable
      <4>2. QED
        BY <1>9, <4>1, PaysOne
    <3> HIDE DEF paid
    <3>3. QED
      BY <1>10, <3>1, <3>2, BothTransfers, PaysBoth
  <2>2. Reply(ReversePosition, msgs)
    BY <1>12
  <2> HIDE DEF msgs
  <2>3. /\ vamm_map' \in VammMap /\ tmp_liquidator' \in {tmp_liquidator, NoAccount}
        /\ sent_funds' \in {sent_funds, NoFunds} /\ tmp_swap' = NoSwap
        /\ positions' = [positions EXCEPT ![tmp_swap.trader] = Clear(old)]
        /\ Pays(msgs, tmp_swap.trader)
    BY <1>1, <1>5, <1>12, <2>1
  <2>4. Start' = Start => InterestAllowed'
    BY <1>1, <1>2, <1>11, InterestFalls
  <2>5. QED
    BY <1>2, <1>8, <1>11, <2>1, <2>2, <2>3, <2>4, ReplyBook
<1>13. CASE /\ tmp_swap' = [tmp_swap EXCEPT !.open_notional = rest, !.unrealized_pnl = 0,
                                            !.margin_to_vault = marginToVault,
                                            !.fees_paid = TRUE]
            /\ sent_funds' = [sent_funds EXCEPT !.required = required]
            /\ Reply(ReversePosition, fees \o <<again>>)
  <2> DEFINE msgs == fees \o <<again>>
  <2>1. again.kind = "swap_input" /\ again.id = IncreasePosition
        /\ again.direction = tmp_swap.side /\ again.amount = rest
    BY DEF SwapInputMsg
  <2> HIDE DEF again
  <2>2. /\ IsSequence(msgs) /\ Awaits(msgs, NoReply) = IncreasePosition /\ Pays(msgs, trader)
        /\ msgs[Len(msgs)] = again
    <3>1. again.kind # "transfer" /\ again.kind # "settle_funding"
      BY <2>1
    <3>2. OnlyLastCallsAmm(msgs) /\ Awaits(msgs, NoReply) = again.id
      BY <1>10, <3>1, QueueEndingInCall
    <3>3. Pays(msgs, trader)
      BY <1>10, <3>1, PaysCall, PaysBoth
    <3>4. PICK S : fees \in Seq(S)
      BY <1>10 DEF Transfers, IsSequence
    <3>5. fees \in Seq(S \union {again}) /\ <<again>> \in Seq(S \union {again})
          /\ Len(<<again>>) = 1 /\ <<again>>[1] = again
      BY <3>4, SMT
    <3>6. msgs[Len(msgs)] = again
      BY <3>5, SMT
    <3>7. QED
      BY <2>1, <3>2, <3>3, <3>6 DEF OnlyLastCallsAmm
  <2>3. /\ reply' = NoReply /\ UNCHANGED <<vars, settings, balance, checkpoint, txs>>
        /\ Reply(ReversePosition, msgs)
    BY <1>13 DEF Reply
  <2> HIDE DEF msgs
  <2>4. queue' = msgs
    BY <1>3, <2>2, <2>3, RepliedQueue
  <2>5. AwaitedId' = IncreasePosition /\ IncreasePosition \in SwapIds
        /\ IncreasePosition \notin LiquidationIds /\ reply'.id # Funding
        /\ reply'.id # IncreasePosition
    BY <2>2, <2>3, <2>4, DistinctIds, NoAnswer DEF AwaitedId, BandedIds
  <2>6. Start' = Start /\ ~Idle'
    BY <1>3, <2>3, StartKept
  <2>7. /\ positions' \in [Traders -> Position] /\ OnlyStored(positions')
        /\ positions'[trader] = Clear(old)
        /\ \A other \in Traders \ {trader} : positions'[other] = positions[other]
    BY <1>1, <1>3, <1>5, <1>8 DEF OnlyStored
  <2>8. /\ tmp_swap' \in TmpSwap /\ tmp_swap'.trader = trader /\ tmp_swap'.side = tmp_swap.side
        /\ tmp_swap'.open_notional = rest /\ tmp_swap'.leverage = tmp_swap.leverage
        /\ tmp_swap'.fees_paid = TRUE
    <3>1. 0 \in Int
      BY SMT
    <3>2. QED
      BY <1>3, <1>9, <1>13, <3>1 DEF TmpSwap
  <2>9. sent_funds' \in [stored: BOOLEAN, amount: Nat, required: Nat]
    <3>1. required \in Nat
      BY <1>9, SMT
    <3> HIDE DEF required
    <3>2. QED
      BY <1>5, <1>13, <3>1
  <2>10. TypeInv'
    <3>1. UNCHANGED <<engine_config, pauser, whitelist, registries, balance, txs>>
      BY <2>3 DEF settings
    <3>2. ContractTypeOK'
      BY <1>1, <1>5, <1>11, <2>7, <2>8, <2>9, <3>1, Zenon DEF ContractTypeOK, BookInv, TypeInv
    <3>3. SavedTypes(Start)'
      BY <1>3, <2>6 DEF SavedTypes, OnlyStored
    <3>4. QED
      BY <2>5, <2>7, <3>2, <3>3 DEF TypeInv
  <2>11. SwapInv'
    <3>1. Fits(IncreasePosition, Clear(old), tmp_swap')
      BY <1>6, <1>8, <2>8, DistinctIds DEF Fits
    <3>2. /\ queue'[Len(queue')].id = IncreasePosition
          /\ queue'[Len(queue')].kind = "swap_input"
          /\ queue'[Len(queue')].direction = tmp_swap'.side
          /\ queue'[Len(queue')].amount = tmp_swap'.open_notional
      BY <2>1, <2>2, <2>4, <2>8
    <3>3. ~Restricted(Start, trader)'
      BY <1>3, <2>3, <2>6 DEF Restricted, vars
    <3>4. positions'[tmp_swap'.trader] = Clear(old) /\ tmp_swap'.trader = trader
          /\ queue'[Len(queue')] = again
      BY <2>2, <2>4, <2>7, <2>8
    <3>5. Asks(queue[Len(queue)], positions[tmp_swap.trader], tmp_swap)'
      BY <3>2, DistinctIds, Zenon DEF Asks
    <3>6. Fits(AwaitedId, positions[tmp_swap.trader], tmp_swap)'
      BY <2>5, <3>1, <3>4 DEF Fits
    <3>7. QED
      BY <1>3, <2>5, <3>3, <3>4, <3>5, <3>6 DEF SwapInv
  <2>12. OneTraderInv'
    <3>1. Serves(trader)'
      BY <1>3, <2>2, <2>3, <2>4, <2>5, <2>6, <2>7, <2>8 DEF Serves, Pays, Uninvolved
    <3>2. QED
      BY <1>3, <2>3, <2>6, <3>1 DEF OneTraderInv
  <2>13. InterestInv'
    <3>1. /\ positions = Start.positions /\ Interest(engine_state) <= Interest(Start.engine_state)
          /\ Interest(engine_state) \in Nat /\ Interest(Start.engine_state) \in Nat
      BY <1>1, <1>2, <1>6, AnswerInterest
    <3>2. Interest(engine_state') <= Interest(Start.engine_state)
      BY <1>11, <3>1, SMT
    <3>3. ~Settled'
      BY <2>5 DEF Settled
    <3>4. /\ Start'.positions[tmp_swap'.trader].exists
          /\ Start'.positions[tmp_swap'.trader].direction # tmp_swap'.side
          /\ positions'[tmp_swap'.trader] = Clear(old)
      BY <1>6, <2>6, <2>7, <2>8, <3>1
    <3>5. QED
      BY <1>8, <2>6, <2>8, <3>2, <3>3, <3>4 DEF InterestInv
  <2>14. QED
    BY <2>10, <2>11, <2>12, <2>13 DEF BookInv
<1>14. QED
  BY <1>1, <1>12, <1>13

\* A close: a loss greater than the notional lets the open interest rise.
LEMMA CloseBook ==
    ASSUME RecordInv, SafetyInv, BookInv, ClosePositionReply
    PROVE  BookInv'
<1> PICK trader : trader = tmp_swap.trader
  OBVIOUS
<1> DEFINE position == positions[trader]
           pnl == ClosingPnl(position, reply.output)
           margin == RemainMargin(position, pnl)
           value == pnl + position.notional
           paid == IF margin = 0 THEN <<>> ELSE Withdraw(trader, margin, 0)
           fees == TransferFees(trader, position.notional)
           lacking == Shortfall(margin, 0)
<1>1. /\ reply.id = ClosingPosition
      /\ OpenInterestAllowed(-value, value < 0 \/ (value = 0 /\ position.notional # 0), trader)
      /\ Reply(ClosingPosition, paid \o fees)
      /\ positions' = [positions EXCEPT ![trader] = NoPosition]
      /\ engine_state' = [engine_state EXCEPT !.open_interest_notional = OpenInterest(-value),
                                              !.prepaid_bad_debt = @ + lacking]
      /\ tmp_swap' = NoSwap
      /\ UNCHANGED <<vamm_map, tmp_liquidator, sent_funds>>
  BY Zenon DEF ClosePositionReply, RemoveTmpSwap
<1>2. ClosingPosition \in SwapIds /\ ClosingPosition \notin TradeIds
      /\ ClosingPosition # IncreasePosition
  BY DistinctIds
<1>3. /\ tmp_swap \in TmpSwap /\ trader \in Traders /\ position \in Position
      /\ Fits(ClosingPosition, position, tmp_swap) /\ reply.output \in Nat
  BY <1>1, <1>2, AnswerFacts
<1>4. /\ engine_state \in EngineState /\ vamm_map \in VammMap /\ positions \in [Traders -> Position]
      /\ balance \in [Holders -> Nat] /\ engine_config \in EngineConfig
  BY DEF BookInv, TypeInv, ContractTypeOK
<1>5. position.size # 0 /\ ~tmp_swap.fees_paid
  BY <1>2, <1>3 DEF Fits
<1>6. position.notional \in Nat /\ position.direction \in Direction
      /\ tmp_swap.open_notional \in Nat
  BY <1>3, PositionFields, SwapFields
<1> HIDE DEF position
<1>7. pnl \in Int
  <2>1. reply.output - tmp_swap.open_notional \in Int
    BY <1>3, <1>6, SMT
  <2>2. QED
    BY <1>6, <2>1, Amounts, Zenon DEF ClosingPnl
<1>8. value \in Int /\ -value \in Int /\ (~(value < 0) => -value <= 0)
  BY <1>6, <1>7, SMT
<1>9. margin \in Nat /\ margin \in Int /\ 0 \in Int
  BY <1>3, <1>4, <1>7, MarginTypes, SMT
<1> HIDE DEF value, margin
<1>10. lacking \in Nat
  BY <1>4, <1>9, ShortfallType
<1> HIDE DEF lacking
<1>11. engine_state' \in EngineState /\ Interest(engine_state') = OpenInterest(-value)
  <2> DEFINE total == engine_state.prepaid_bad_debt + lacking
  <2>1. OpenInterest(-value) \in Nat
    BY <1>4, <1>8, OpenInterestType
  <2>2. engine_state' = Updated(engine_state, OpenInterest(-value), total)
    BY <1>1 DEF Updated
  <2>3. total \in Nat
    BY <1>4, <1>10, StateUpdate
  <2> HIDE DEF total
  <2>4. QED
    BY <1>4, <2>1, <2>2, <2>3, StateUpdate
<1>12. Transfers(paid) /\ Pays(paid, trader)
  <2>1. trader \in Holders \ Uninvolved(trader) /\ trader # Engine
    BY <1>3, Payable
  <2>2. QED
    BY <1>4, <1>9, <2>1, PaysWithdraw, PaysNothing, NoTransfer, WithdrawTransfers
<1>13. Transfers(fees) /\ Pays(fees, trader)
  BY <1>3, <1>4, <1>6, PaysFees, FeesAreTransfers
<1> DEFINE msgs == paid \o fees
<1> HIDE DEF paid, fees
<1>14. Reply(ClosingPosition, msgs) /\ Transfers(msgs) /\ Pays(msgs, trader)
  BY <1>1, <1>12, <1>13, BothTransfers, PaysBoth
<1>15. ASSUME Start' = Start
       PROVE  InterestAllowed'
  <2>1. CASE ~(value < 0)
    <3>1. Interest(engine_state') <= Interest(engine_state)
      BY <1>4, <1>8, <1>11, <2>1, OpenInterestType
    <3>2. QED
      BY <1>1, <1>2, <1>11, <1>15, <3>1, InterestFalls
  <2>2. CASE value < 0
    <3>1. positions = Start.positions
      BY <1>1, <1>2, <1>5, AnswerInterest
    <3>2. positions'[trader] = NoPosition /\ NoPosition.size = 0
      BY <1>1, <1>3, <1>4 DEF NoPosition
    <3>3. positions'[trader] # Start.positions[trader]
      BY <1>5, <3>1, <3>2 DEF position
    <3>4. whitelist' = whitelist
      BY <1>14 DEF Reply, settings
    <3>5. \/ OpenInterestCap = 0
          \/ Interest(engine_state') <= OpenInterestCap
          \/ trader \in whitelist
      BY <1>1, <1>11, <2>2 DEF OpenInterestAllowed
    <3>6. CASE trader \in whitelist
      <4>1. trader \in whitelist' \intersect Traders /\ positions'[trader] # Start'.positions[trader]
        BY <1>3, <1>15, <3>3, <3>4, <3>6
      <4>2. QED
        BY <4>1 DEF InterestAllowed
    <3>7. CASE ~(trader \in whitelist)
      BY <3>5, <3>7 DEF InterestAllowed
    <3>8. QED
      BY <3>6, <3>7
  <2>3. QED
    BY <2>1, <2>2
<1> HIDE DEF msgs
<1>16. /\ vamm_map' \in VammMap /\ tmp_liquidator' \in {tmp_liquidator, NoAccount}
       /\ sent_funds' \in {sent_funds, NoFunds} /\ tmp_swap' = NoSwap
       /\ positions' = [positions EXCEPT ![tmp_swap.trader] = NoPosition]
       /\ Pays(msgs, tmp_swap.trader)
  BY <1>1, <1>4, <1>14
<1>17. NoPosition \in Position
  BY SMT DEF NoPosition, Position, Direction
<1>18. QED
  BY <1>2, <1>11, <1>14, <1>15, <1>16, <1>17, ReplyBook

\* A close in part.
LEMMA PartialCloseBook ==
    ASSUME RecordInv, SafetyInv, BookInv, PartialClosePositionReply
    PROVE  BookInv'
<1> PICK trader : trader = tmp_swap.trader
  OBVIOUS
<1> DEFINE old == positions[trader]
           realized == RealizedPnl(old, reply.output)
           change == Signed(tmp_swap.side, reply.output)
           margin == RemainMargin(old, realized)
           notional == RemainingNotional(old, realized)
           premium == vamm_map.cumulative_premium_fraction
           new == [old EXCEPT !.size = @ + change, !.margin = margin, !.notional = notional,
                              !.last_updated_premium_fraction = premium,
                              !.block_number = height]
           fees == TransferFees(trader, tmp_swap.open_notional)
<1>1. /\ reply.id = PartialClosePosition
      /\ Reply(PartialClosePosition, fees)
      /\ positions' = [positions EXCEPT ![trader] = new]
      /\ engine_state' = [engine_state EXCEPT !.open_interest_notional = OpenInterest(-reply.input)]
      /\ tmp_swap' = NoSwap
      /\ UNCHANGED <<vamm_map, tmp_liquidator, sent_funds>>
  BY Zenon DEF PartialClosePositionReply, RemoveTmpSwap
<1>2. PartialClosePosition \in SwapIds /\ PartialClosePosition \notin TradeIds
  BY DistinctIds
<1>3. /\ tmp_swap \in TmpSwap /\ trader \in Traders /\ old \in Position
      /\ Fits(PartialClosePosition, old, tmp_swap)
      /\ reply.output \in Nat /\ reply.input \in Nat
  BY <1>1, <1>2, AnswerFacts
<1>4. /\ engine_state \in EngineState /\ vamm_map \in VammMap /\ positions \in [Traders -> Position]
      /\ engine_config \in EngineConfig /\ height \in Nat /\ OnlyStored(positions)
  BY DEF BookInv, TypeInv, ContractTypeOK, SafetyInv, AmmInv, ReserveInv, TypeOK
<1>5. old.exists
  <2>1. old.size # 0
    BY <1>2, <1>3 DEF Fits
  <2>2. QED
    BY <1>3, <1>4, <2>1 DEF OnlyStored, NoPosition
<1>6. /\ IsPosition(old) /\ old.size \in Int /\ tmp_swap.side \in Direction
      /\ tmp_swap.open_notional \in Nat
  BY <1>3, PositionFields, SwapFields
<1> HIDE DEF old
<1>7. realized \in Int /\ notional \in Nat
  BY <1>3, <1>6, ProfitTypes
<1>8. margin \in Nat
  BY <1>3, <1>4, <1>7, MarginTypes
<1>9. premium \in Int /\ old.size + change \in Int
  <2>1. reply.output \in Int
    BY <1>3, SMT
  <2>2. change \in Int
    BY <1>6, <2>1, Amounts, Zenon
  <2>3. QED
    BY <1>4, <1>6, <2>2, SMT DEF VammMap
<1> HIDE DEF realized, change, margin, notional, premium
<1>10. new \in Position /\ new.exists
  <2> DEFINE size == old.size + change
             same == [old EXCEPT !.size = size, !.margin = margin, !.notional = notional,
                                 !.last_updated_premium_fraction = premium,
                                 !.block_number = height]
  <2>1. new = same
    OBVIOUS
  <2>2. size \in Int
    BY <1>9
  <2> HIDE DEF size
  <2>3. same \in Position
    BY <1>3, <1>4, <1>7, <1>8, <1>9, <2>2, PositionUpdate, PositionFields
  <2>4. same.exists
    BY <1>3, <1>5 DEF Position
  <2>5. QED
    BY <2>1, <2>3, <2>4
<1> HIDE DEF new
<1>11. /\ engine_state' \in EngineState
       /\ Interest(engine_state') <= Interest(engine_state)
  <2>1. -reply.input \in Int /\ -reply.input <= 0
    BY <1>3, SMT
  <2>2. OpenInterest(-reply.input) \in Nat
        /\ OpenInterest(-reply.input) <= Interest(engine_state)
    BY <1>4, <2>1, OpenInterestType
  <2>3. engine_state' = Opened(engine_state, OpenInterest(-reply.input))
    BY <1>1 DEF Opened
  <2>4. QED
    BY <1>4, <2>2, <2>3, StateUpdate
<1>12. Transfers(fees) /\ Pays(fees, tmp_swap.trader)
  BY <1>3, <1>4, <1>6, PaysFees, FeesAreTransfers
<1> HIDE DEF fees
<1>13. Start' = Start => InterestAllowed'
  BY <1>1, <1>2, <1>11, InterestFalls
<1>14. /\ vamm_map' \in VammMap /\ tmp_liquidator' \in {tmp_liquidator, NoAccount}
       /\ sent_funds' \in {sent_funds, NoFunds}
       /\ positions' = [positions EXCEPT ![tmp_swap.trader] = new]
  BY <1>1, <1>4
<1>15. QED
  BY <1>1, <1>2, <1>10, <1>11, <1>12, <1>13, <1>14, ReplyBook

\* The penalty of a liquidation.
LEMMA PenaltyTypes ==
    ASSUME engine_config \in EngineConfig, reply.output \in Nat
    PROVE  LiquidationPenalty \in Nat /\ LiquidationFee \in Nat
BY FeeTypes DEF LiquidationPenalty, LiquidationFee

\* A liquidation: the position goes, the open interest stays.
LEMMA LiquidationBook ==
    ASSUME RecordInv, SafetyInv, BookInv, LiquidateReply
    PROVE  BookInv'
<1> PICK trader : trader = tmp_swap.trader
  OBVIOUS
<1> DEFINE position == positions[trader]
           pnl == ClosingPnl(position, reply.output)
           margin == RemainMargin(position, pnl)
           badDebt == BadDebt(position, pnl) + AtLeastZero(LiquidationFee - margin)
           left == AtLeastZero(margin - LiquidationFee)
           prepaid == engine_state.prepaid_bad_debt
           fund == engine_config.insurance_fund
           realizes == badDebt # 0 /\ prepaid <= badDebt
           drawn == IF realizes THEN badDebt - prepaid ELSE 0
           first == IF realizes THEN <<Transfer(fund, Engine, drawn)>> ELSE <<>>
           second == TransferUnlessZero(Engine, fund, left)
           third == Withdraw(tmp_liquidator, LiquidationFee, drawn)
           owed == (IF realizes THEN 0 ELSE prepaid - badDebt) + Shortfall(LiquidationFee, drawn)
<1>1. /\ reply.id = Liquidation
      /\ Reply(Liquidation, first \o second \o third)
      /\ positions' = [positions EXCEPT ![trader] = NoPosition]
      /\ engine_state' = [engine_state EXCEPT !.prepaid_bad_debt = owed]
      /\ vamm_map' = [vamm_map EXCEPT !.last_restriction_block = height]
      /\ tmp_swap' = NoSwap /\ tmp_liquidator' = NoAccount /\ sent_funds' = sent_funds
  BY Zenon DEF LiquidateReply, RemoveTmpSwap, RemoveTmpLiquidator, Reply
<1>2. Liquidation \in SwapIds /\ Liquidation \in LiquidationIds
  BY DistinctIds
<1>3. /\ tmp_swap \in TmpSwap /\ trader \in Traders /\ position \in Position
      /\ reply.output \in Nat /\ tmp_liquidator \in Liquidators
  BY <1>1, <1>2, AnswerFacts
<1>4. /\ engine_state \in EngineState /\ vamm_map \in VammMap /\ positions \in [Traders -> Position]
      /\ balance \in [Holders -> Nat] /\ engine_config \in EngineConfig /\ height \in Nat
  BY DEF BookInv, TypeInv, ContractTypeOK, SafetyInv, AmmInv, ReserveInv, TypeOK
<1>5. position.direction \in Direction /\ tmp_swap.open_notional \in Nat
  BY <1>3, PositionFields, SwapFields
<1> HIDE DEF position
<1>6. pnl \in Int
  <2>1. reply.output - tmp_swap.open_notional \in Int
    BY <1>3, <1>5, SMT
  <2>2. QED
    BY <1>5, <2>1, Amounts, Zenon DEF ClosingPnl
<1>7. margin \in Nat /\ BadDebt(position, pnl) \in Nat
  BY <1>3, <1>4, <1>6, MarginTypes
<1>8. LiquidationFee \in Nat /\ prepaid \in Nat
  BY <1>3, <1>4, PenaltyTypes DEF EngineState
<1> HIDE DEF margin, prepaid
<1>9. badDebt \in Nat /\ left \in Nat
  BY <1>7, <1>8, SMT DEF AtLeastZero
<1> HIDE DEF badDebt, left
<1>10. drawn \in Nat
  BY <1>8, <1>9, SMT
<1>11. (IF realizes THEN 0 ELSE prepaid - badDebt) \in Nat
  <2>1. CASE badDebt = 0
    BY <1>8, <2>1, SMT
  <2>2. CASE badDebt # 0
    BY <1>8, <1>9, <2>2, SMT
  <2>3. QED
    BY <2>1, <2>2
<1> HIDE DEF realizes, drawn
<1>12. owed \in Nat
  <2>1. LiquidationFee \in Int /\ drawn \in Int
    BY <1>8, <1>10, SMT
  <2>2. Shortfall(LiquidationFee, drawn) \in Nat
    BY <1>4, <2>1, ShortfallType
  <2>3. QED
    BY <1>11, <2>2, SMT
<1> HIDE DEF owed
<1>13. engine_state' \in EngineState /\ Interest(engine_state') = Interest(engine_state)
  <2>1. engine_state' = Owing(engine_state, owed)
    BY <1>1 DEF Owing
  <2>2. QED
    BY <1>4, <1>12, <2>1, StateUpdate
<1>14. /\ fund \in Holders \ Uninvolved(trader) /\ Engine \in Holders \ Uninvolved(trader)
       /\ tmp_liquidator \in Holders \ Uninvolved(trader)
       /\ fund # Engine /\ tmp_liquidator # Engine
  BY <1>3, <1>4, Payable
<1>15. Transfers(first) /\ Pays(first, trader)
  BY <1>10, <1>14, OneTransfer, NoTransfer, PaysOne, PaysNothing
<1>16. Transfers(second) /\ Pays(second, trader)
  BY <1>9, <1>14, FeesAreTransfers, PaysOne, PaysNothing DEF TransferUnlessZero
<1>17. Transfers(third) /\ Pays(third, trader)
  <2>1. drawn \in Int
    BY <1>10, SMT
  <2>2. QED
    BY <1>4, <1>8, <1>14, <2>1, WithdrawTransfers, PaysWithdraw
<1> DEFINE msgs == first \o second \o third
<1> HIDE DEF first, second, third
<1>18. Reply(Liquidation, msgs) /\ Transfers(msgs) /\ Pays(msgs, tmp_swap.trader)
  BY <1>1, <1>15, <1>16, <1>17, BothTransfers, PaysBoth, Zenon
<1> HIDE DEF msgs
<1>19. Start' = Start => InterestAllowed'
  <2>1. Interest(engine_state') <= Interest(engine_state)
    BY <1>13, SMT DEF Interest, EngineState
  <2>2. QED
    BY <1>1, <1>2, <1>13, <2>1, InterestFalls
<1>20. vamm_map' \in VammMap
  BY <1>1, <1>4 DEF VammMap
<1>21. /\ tmp_liquidator' \in {tmp_liquidator, NoAccount} /\ sent_funds' \in {sent_funds, NoFunds}
       /\ tmp_swap' = NoSwap
       /\ positions' = [positions EXCEPT ![tmp_swap.trader] = NoPosition]
  BY <1>1
<1>22. NoPosition \in Position
  BY SMT DEF NoPosition, Position, Direction
<1>23. QED
  BY <1>2, <1>13, <1>18, <1>19, <1>20, <1>21, <1>22, ReplyBook

\* A liquidation in part.
LEMMA PartialLiquidationBook ==
    ASSUME RecordInv, SafetyInv, BookInv, PartialLiquidationReply
    PROVE  BookInv'
<1> PICK trader : trader = tmp_swap.trader
  OBVIOUS
<1> DEFINE old == positions[trader]
           size == IF old.size < 0 THEN old.size + reply.input ELSE old.size - reply.input
           negative == IF old.size < 0 THEN size <= 0 ELSE size < 0
           realized == Abs(TruncDiv(tmp_swap.unrealized_pnl
                                      * engine_config.partial_liquidation_ratio, Decimals))
           margin == old.margin - realized - LiquidationPenalty
           notional == IF negative THEN realized + old.notional - tmp_swap.open_notional
                                   ELSE old.notional - tmp_swap.open_notional - realized
           new == [old EXCEPT !.size = size, !.margin = margin, !.notional = notional]
           fund == engine_config.insurance_fund
           msgs == IF LiquidationFee = 0 THEN <<>>
                   ELSE <<Transfer(Engine, fund, LiquidationFee)>>
                          \o Withdraw(tmp_liquidator, LiquidationFee, 0)
           owed == engine_state.prepaid_bad_debt + Shortfall(LiquidationFee, 0)
<1>1. /\ reply.id = PartialLiquidation
      /\ margin >= 0 /\ notional >= 0
      /\ Reply(PartialLiquidation, msgs)
      /\ positions' = [positions EXCEPT ![trader] = new]
      /\ engine_state' = [engine_state EXCEPT !.prepaid_bad_debt = owed]
      /\ vamm_map' = [vamm_map EXCEPT !.last_restriction_block = height]
      /\ tmp_swap' = NoSwap /\ tmp_liquidator' = NoAccount /\ sent_funds' = sent_funds
  BY Zenon DEF PartialLiquidationReply, RemoveTmpSwap, RemoveTmpLiquidator
<1>2. PartialLiquidation \in SwapIds /\ PartialLiquidation \notin TradeIds
  BY DistinctIds
<1>3. /\ tmp_swap \in TmpSwap /\ trader \in Traders /\ old \in Position
      /\ Fits(PartialLiquidation, old, tmp_swap)
      /\ reply.output \in Nat /\ reply.input \in Nat /\ tmp_liquidator \in Liquidators
  BY <1>1, <1>2, AnswerFacts, DistinctIds
<1>4. /\ engine_state \in EngineState /\ vamm_map \in VammMap /\ positions \in [Traders -> Position]
      /\ balance \in [Holders -> Nat] /\ engine_config \in EngineConfig /\ height \in Nat
      /\ OnlyStored(positions)
  BY DEF BookInv, TypeInv, ContractTypeOK, SafetyInv, AmmInv, ReserveInv, TypeOK
<1>5. old.exists
  <2>1. old.size # 0
    BY <1>2, <1>3 DEF Fits
  <2>2. QED
    BY <1>3, <1>4, <2>1 DEF OnlyStored, NoPosition
<1>6. /\ old.size \in Int /\ old.margin \in Nat /\ old.notional \in Nat
      /\ tmp_swap.unrealized_pnl \in Int /\ tmp_swap.open_notional \in Nat
  BY <1>3, PositionFields, SwapFields
<1>7. LiquidationPenalty \in Nat /\ LiquidationFee \in Nat /\ LiquidationFee \in Int /\ 0 \in Int
  BY <1>3, <1>4, PenaltyTypes, SMT
<1>8. realized \in Int
  <2>1. engine_config.partial_liquidation_ratio \in Int
    BY <1>4, DecimalsAssumption, SMT DEF EngineConfig
  <2>2. tmp_swap.unrealized_pnl * engine_config.partial_liquidation_ratio \in Int
    BY <1>6, <2>1, SMT
  <2>3. QED
    BY <2>2, TruncDivType, Amounts, DecimalsAssumption, SMT
<1> HIDE DEF old, realized
<1>9. size \in Int
  BY <1>3, <1>6, SMT
<1>10. margin \in Nat
  BY <1>1, <1>6, <1>7, <1>8, SMT
<1>11. notional \in Nat
  BY <1>1, <1>6, <1>8, SMT
<1> HIDE DEF size, margin, notional
<1>12. new \in Position /\ new.exists
  <2>1. new \in Position
    <3>1. [[[old EXCEPT !.size = size] EXCEPT !.margin = margin] EXCEPT !.notional = notional]
            \in Position
      BY <1>3, <1>9, <1>10, <1>11, FieldUpdate, Zenon
    <3>2. QED
      BY <3>1
  <2>2. new.exists
    BY <1>3, <1>5 DEF Position
  <2>3. QED
    BY <2>1, <2>2
<1> HIDE DEF new
<1>13. engine_state' \in EngineState /\ Interest(engine_state') = Interest(engine_state)
  <2>1. Shortfall(LiquidationFee, 0) \in Nat
    BY <1>4, <1>7, ShortfallType
  <2>2. owed \in Nat
    BY <1>4, <2>1, StateUpdate
  <2>3. engine_state' = Owing(engine_state, owed)
    BY <1>1 DEF Owing
  <2> HIDE DEF owed
  <2>4. QED
    BY <1>4, <2>2, <2>3, StateUpdate
<1>14. /\ fund \in Holders \ Uninvolved(trader) /\ Engine \in Holders \ Uninvolved(trader)
       /\ tmp_liquidator \in Holders \ Uninvolved(trader)
       /\ fund # Engine /\ tmp_liquidator # Engine
  BY <1>3, <1>4, Payable
<1>15. Transfers(msgs) /\ Pays(msgs, tmp_swap.trader)
  <2> DEFINE first == <<Transfer(Engine, fund, LiquidationFee)>>
             second == Withdraw(tmp_liquidator, LiquidationFee, 0)
  <2>1. Transfers(first) /\ Pays(first, trader)
    BY <1>7, <1>14, OneTransfer, PaysOne
  <2>2. Transfers(second) /\ Pays(second, trader)
    BY <1>4, <1>7, <1>14, WithdrawTransfers, PaysWithdraw
  <2> HIDE DEF first, second
  <2>3. Transfers(first \o second) /\ Pays(first \o second, trader)
    BY <2>1, <2>2, BothTransfers, PaysBoth
  <2>4. Transfers(<<>>) /\ Pays(<<>>, trader)
    BY NoTransfer, PaysNothing
  <2>5. msgs = <<>> \/ msgs = first \o second
    BY DEF first, second
  <2>6. QED
    BY <2>3, <2>4, <2>5
<1> HIDE DEF msgs, owed
<1>16. Start' = Start => InterestAllowed'
  <2>1. Interest(engine_state') <= Interest(engine_state)
    BY <1>13, SMT DEF Interest, EngineState
  <2>2. QED
    BY <1>1, <1>2, <1>13, <2>1, InterestFalls
<1>17. vamm_map' \in VammMap
  BY <1>1, <1>4 DEF VammMap
<1>18. /\ tmp_liquidator' \in {tmp_liquidator, NoAccount} /\ sent_funds' \in {sent_funds, NoFunds}
       /\ tmp_swap' = NoSwap
       /\ positions' = [positions EXCEPT ![tmp_swap.trader] = new]
  BY <1>1
<1>19. QED
  BY <1>1, <1>2, <1>12, <1>13, <1>15, <1>16, <1>17, <1>18, ReplyBook

\* Funding is settled: nobody's position changes, and only the fund is paid.
LEMMA PayFundingReplyBook ==
    ASSUME RecordInv, SafetyInv, BookInv, PayFundingReply
    PROVE  BookInv'
<1> DEFINE premium == reply.input
           payment == TruncDiv(total_position_size * premium, Decimals)
           paid == IF balance[Engine] < payment THEN balance[Engine] ELSE payment
           fund == engine_config.insurance_fund
           msgs == IF payment < 0 THEN <<Transfer(fund, Engine, -payment)>>
                   ELSE IF payment > 0 THEN <<Transfer(Engine, fund, paid)>>
                   ELSE <<>>
           fraction == vamm_map.cumulative_premium_fraction + premium
<1>1. /\ Reply(Funding, msgs)
      /\ vamm_map' = [vamm_map EXCEPT !.cumulative_premium_fraction = fraction]
      /\ engine_state' = engine_state /\ positions' = positions
      /\ tmp_swap' = tmp_swap /\ tmp_liquidator' = tmp_liquidator /\ sent_funds' = sent_funds
  BY Zenon DEF PayFundingReply, temporary
<1>2. /\ reply.id = Funding /\ reply' = NoReply /\ queue' = msgs \o queue
      /\ UNCHANGED <<vars, settings, balance, checkpoint, txs>>
  BY <1>1 DEF Reply
<1>3. /\ Funding # "none" /\ Funding \notin SwapIds /\ Funding \notin LiquidationIds
      /\ "none" \notin SwapIds /\ "none" \notin LiquidationIds
  BY ReplyIds
<1>4. queue = <<>> /\ ~Idle
  BY <1>2, <1>3, AnswerHandled
<1>5. AwaitedId = Funding
  BY <1>2, <1>4, NoTransfer, QueueOfTransfers DEF AwaitedId, Awaits
<1>6. /\ premium \in Int /\ total_position_size \in Int /\ balance \in [Holders -> Nat]
      /\ balance[Engine] \in Nat
      /\ vamm_map \in VammMap /\ engine_config \in EngineConfig /\ engine_state \in EngineState
      /\ positions \in [Traders -> Position] /\ OnlyStored(positions) /\ SavedTypes(Start)
      /\ ContractTypeOK
  BY <1>2, <1>4 DEF BookInv, TypeInv, ContractTypeOK, SafetyInv, AmmInv, ReserveInv, TypeOK, Holders
<1>7. payment \in Int
  <2>1. total_position_size * premium \in Int
    BY <1>6, SMT
  <2>2. QED
    BY <2>1, TruncDivType, DecimalsAssumption
<1>8. PICK trader \in Traders \union {NoAccount} : Serves(trader)
  BY <1>4 DEF BookInv, OneTraderInv
<1>9. Transfers(msgs) /\ Pays(msgs, trader)
  <2>1. /\ fund \in Holders \ Uninvolved(trader) /\ Engine \in Holders \ Uninvolved(trader)
        /\ fund # Engine
    BY <1>6, Payable
  <2> HIDE DEF payment
  <2>2. (payment < 0 => -payment \in Nat) /\ (payment > 0 => paid \in Nat)
    BY <1>6, <1>7, SMT
  <2> HIDE DEF paid, fund
  <2>3. QED
    BY <2>1, <2>2, OneTransfer, NoTransfer, PaysOne, PaysNothing
<1>10. vamm_map' \in VammMap
  <2>1. fraction \in Int
    BY <1>6, SMT DEF VammMap
  <2> HIDE DEF fraction
  <2>2. QED
    BY <1>1, <1>6, <2>1 DEF VammMap
<1> HIDE DEF msgs, premium, payment, fraction
<1>11. queue' = msgs
  BY <1>1, <1>4, <1>9, RepliedQueue DEF Transfers
<1>12. AwaitedId' = "none" /\ reply'.id # Funding
  <2>1. AwaitedId' = reply'.id
    BY <1>9, <1>11, QueueOfTransfers DEF AwaitedId, Awaits
  <2>2. reply'.id = "none"
    BY <1>2 DEF NoReply
  <2>3. QED
    BY <2>1, <2>2, <1>3
<1>13. Start' = Start /\ ~Idle'
  BY <1>2, <1>4, StartKept
<1>14. TypeInv'
  <2>1. UNCHANGED <<engine_config, pauser, whitelist, registries, balance, txs>>
    BY <1>2 DEF settings
  <2>2. ContractTypeOK'
    BY <1>1, <1>6, <1>10, <2>1, Zenon DEF ContractTypeOK
  <2>3. SavedTypes(Start)' /\ OnlyStored(positions)'
    BY <1>1, <1>6, <1>13 DEF SavedTypes, OnlyStored
  <2>4. QED
    BY <1>3, <1>12, <2>2, <2>3 DEF TypeInv
<1>15. SwapInv'
  BY <1>3, <1>12 DEF SwapInv
<1>16. OneTraderInv'
  <2>1. Serves(trader)'
    BY <1>1, <1>2, <1>3, <1>8, <1>9, <1>11, <1>12, <1>13 DEF Serves, Pays, Uninvolved
  <2>2. QED
    BY <1>2, <1>4, <1>8, <1>13, <2>1 DEF OneTraderInv, BookInv
<1>17. InterestInv'
  <2>1. ~tmp_swap.fees_paid /\ ~Settled
    <3>1. tmp_swap = NoSwap
      BY <1>3, <1>5 DEF RecordInv, RecordsAreAwaited, AwaitedId
    <3>2. QED
      BY <1>5, <3>1 DEF NoSwap, Settled
  <2>2. positions = Start.positions /\ Interest(engine_state) = Interest(Start.engine_state)
    BY <1>4, <2>1 DEF BookInv, InterestInv
  <2>3. Interest(engine_state') <= Interest(Start'.engine_state)
    <3>1. Interest(engine_state) \in Nat
      BY <1>6 DEF Interest, EngineState
    <3>2. QED
      BY <1>1, <1>13, <2>2, <3>1, SMT DEF Interest
  <2>4. InterestAllowed'
    BY <2>3 DEF InterestAllowed
  <2>5. Settled'
    BY <1>3, <1>12 DEF Settled
  <2>6. QED
    BY <1>1, <2>1, <2>4, <2>5 DEF InterestInv
<1>18. QED
  BY <1>14, <1>15, <1>16, <1>17 DEF BookInv

-----------------------------------------------------------------------------
\* Every step of the engine keeps its books.
LEMMA NextBook == RecordInv /\ SafetyInv /\ BookInv /\ [EngineNext]_allVars => BookInv'
<1> SUFFICES ASSUME RecordInv, SafetyInv, BookInv, [EngineNext]_allVars
             PROVE  BookInv'
  OBVIOUS
<1>1. CASE Request
  <2>1. CASE \E trader \in Traders, side \in Direction, margin \in Margins,
                leverage \in Leverages, limit \in BaseLimits :
                \E funds \in Sent(FundsNeeded(trader, side, margin, leverage)) :
                   OpenPosition(trader, side, margin, leverage, limit, funds)
    BY <2>1, RequestsAssumption, OpenPositionBook
  <2>2. CASE \E trader \in Traders : \E limit : \E funds \in Stray :
                ClosePosition(trader, limit, funds)
    BY <2>2, StrayTypes, ClosePositionBook
  <2>3. CASE \E trader \in Traders : \E sender \in Liquidators : \E limit, oracle :
                \E funds \in Stray : Liquidate(sender, trader, limit, oracle, funds)
    BY <2>3, StrayTypes, LiquidateBook
  <2>4. CASE \E sender \in Liquidators : \E funds \in Stray : PayFunding(sender, funds)
    BY <2>4, StrayTypes, PayFundingBook
  <2>5. CASE \E trader \in Traders : \E amount \in Deposits : \E funds \in Sent(amount) :
                DepositMargin(trader, amount, funds)
    <3>1. PICK trader \in Traders, amount \in Deposits :
             \E funds \in Sent(amount) : DepositMargin(trader, amount, funds)
      BY <2>5
    <3>2. PICK funds \in Sent(amount) : DepositMargin(trader, amount, funds)
      BY <3>1
    <3>3. amount \in Nat /\ amount \in Int
      BY RequestsAssumption, SMT
    <3>4. QED
      BY <3>2, <3>3, SentTypes, DepositBook
  <2>6. CASE \E trader \in Traders : \E amount \in Withdrawals, funds \in Stray :
                WithdrawMargin(trader, amount, funds)
    BY <2>6, RequestsAssumption, StrayTypes, WithdrawBook
  <2>7. QED
    BY <1>1, <2>1, <2>2, <2>3, <2>4, <2>5, <2>6, Zenon DEF Request
<1>2. CASE Deliver
  BY <1>2, TransferBook, SwapBook, FundingBook DEF Deliver
<1>3. CASE Handle
  BY <1>3, IncreaseBook, DecreaseBook, ReverseBook, CloseBook, PartialCloseBook, LiquidationBook,
     PartialLiquidationBook, PayFundingReplyBook DEF Handle
<1>4. CASE Commit \/ Abort
  BY <1>4, EndBook
<1>5. CASE Govern \/ Surroundings
  BY <1>5, OutsideBook
<1>6. CASE UNCHANGED allVars
  BY <1>6, StutterBook
<1>7. QED
  BY <1>1, <1>2, <1>3, <1>4, <1>5, <1>6 DEF EngineNext

LEMMA BookInvariance == EngineSpec => [](RecordInv /\ SafetyInv /\ BookInv)
  BY SafetyInvariance, InitRecordInv, NextRecordInv, InitSafe, NextSafe, InitBook, NextBook, PTL
     DEF EngineSpec

-----------------------------------------------------------------------------
(* What has happened, and what of it the storage tells                     *)

Today == [traders: SUBSET Traders, liquidated: BOOLEAN]
\* The block number of a position tells that its trader has traded in this
\* block, and the restriction block that somebody was liquidated in it.
Remembers(coins, day, stored, map) ==
    /\ coins \in Nat /\ day \in Today
    /\ \A trader \in day.traders : stored[trader].block_number = height
    /\ day.liquidated => map.last_restriction_block = height
HistoryInv ==
    /\ Remembers(unasked, today, positions, vamm_map)
    /\ ~Idle => Remembers(Start.unasked, Start.today, Start.positions, Start.vamm_map)

\* A request touches what the history is about in no way but the coins it brings.
LEMMA BeginHistory ==
    ASSUME HistoryInv, NEW sender, NEW funds, NEW msgs, BeginWith(sender, funds, msgs),
           unasked' \in Nat, UNCHANGED vamm_map,
           \A t \in Traders : positions'[t].block_number = positions[t].block_number
    PROVE  HistoryInv'
<1>1. height' = height /\ today' = today /\ checkpoint' = <<Saved>>
  BY DEF BeginWith, vars
<1>2. Start' = Saved
  BY <1>1, HeadOfOne DEF Start
<1>3. Remembers(Saved.unasked, Saved.today, Saved.positions, Saved.vamm_map)
  BY DEF HistoryInv, Saved
<1>4. Remembers(Start.unasked, Start.today, Start.positions, Start.vamm_map)'
  BY <1>1, <1>2, <1>3 DEF Remembers
<1>5. Remembers(unasked, today, positions, vamm_map)'
  BY <1>1 DEF HistoryInv, Remembers, Today
<1>6. QED
  BY <1>4, <1>5 DEF HistoryInv

LEMMA RequestHistory ==
    ASSUME RecordInv, SafetyInv, BookInv, HistoryInv, Request
    PROVE  HistoryInv'
<1>1. unasked \in Nat /\ positions \in [Traders -> Position]
  BY DEF HistoryInv, Remembers, BookInv, TypeInv, ContractTypeOK
<1>2. \A funds \in Stray : unasked + funds \in Nat
  BY <1>1, StrayTypes, SMT
<1> DEFINE Dated == \A t \in Traders : positions'[t].block_number = positions[t].block_number
           Begun == /\ \E sender, funds, msgs : BeginWith(sender, funds, msgs)
                    /\ unasked' \in Nat /\ UNCHANGED vamm_map /\ Dated
<1>3. ASSUME NEW trader \in Traders, NEW side \in Direction, NEW margin \in Margins,
             NEW leverage \in Leverages, NEW limit \in BaseLimits, NEW funds,
             OpenPosition(trader, side, margin, leverage, limit, funds)
      PROVE  Begun
  BY <1>1, <1>3, Zenon DEF OpenPosition, book
<1>4. ASSUME NEW trader \in Traders, NEW limit, NEW funds \in Stray,
             ClosePosition(trader, limit, funds)
      PROVE  Begun
  BY <1>2, <1>4, Zenon DEF ClosePosition, Begin, book
<1>5. ASSUME NEW trader \in Traders, NEW sender, NEW limit, NEW oracle, NEW funds \in Stray,
             Liquidate(sender, trader, limit, oracle, funds)
      PROVE  Begun
  BY <1>2, <1>5, Zenon DEF Liquidate, Begin, book
<1>6. ASSUME NEW sender, NEW funds \in Stray, PayFunding(sender, funds)
      PROVE  Begun
  BY <1>2, <1>6, Zenon DEF PayFunding, Begin, book
<1>7. ASSUME NEW trader \in Traders, NEW amount, NEW funds, DepositMargin(trader, amount, funds)
      PROVE  Begun
  <2>1. positions' = [positions EXCEPT ![trader].margin = @ + amount]
    BY <1>7, Zenon DEF DepositMargin
  <2>2. Dated
    BY <1>1, <2>1 DEF Position
  <2>3. QED
    BY <1>1, <1>7, <2>2, Zenon DEF DepositMargin
<1>8. ASSUME NEW trader \in Traders, NEW amount, NEW funds \in Stray,
             WithdrawMargin(trader, amount, funds)
      PROVE  Begun
  <2> DEFINE margin == RemainMargin(positions[trader], -amount)
             premium == vamm_map.cumulative_premium_fraction
  <2>1. positions' = [positions EXCEPT ![trader].margin = margin,
                                       ![trader].last_updated_premium_fraction = premium]
    BY <1>8, Zenon DEF WithdrawMargin
  <2> HIDE DEF margin, premium
  <2>2. Dated
    BY <1>1, <2>1 DEF Position
  <2>3. QED
    BY <1>2, <1>8, <2>2, Zenon DEF WithdrawMargin, Begin
<1>9. Begun
  BY <1>3, <1>4, <1>5, <1>6, <1>7, <1>8, ZenonT(40) DEF Request
<1>10. QED
  BY <1>9, BeginHistory

\* What a reply has to do for the storage to tell that it happened.
LEMMA ReplyHistory ==
    ASSUME HistoryInv, tmp_swap.trader \in Traders \/ reply.id = Funding,
           NEW id, NEW msgs, Reply(id, msgs),
           \A t \in Traders \ {tmp_swap.trader} :
               positions'[t].block_number = positions[t].block_number,
           tmp_swap.trader \in Traders /\ id \notin RemovalReplies =>
              \/ positions'[tmp_swap.trader].block_number = height
              \/ /\ id \notin TradeReplies
                 /\ positions'[tmp_swap.trader].block_number
                      = positions[tmp_swap.trader].block_number,
           vamm_map'.last_restriction_block
             = IF id \in LiquidationIds THEN height ELSE vamm_map.last_restriction_block
    PROVE  HistoryInv'
<1>1. /\ height' = height /\ UNCHANGED <<checkpoint, unasked>>
      /\ today' = [traders |-> TradersAfter(id),
                   liquidated |-> today.liquidated \/ id \in LiquidationIds]
      /\ reply.id = id
  BY DEF Reply, vars
<1>2. Start' = Start /\ Idle' = Idle
  BY <1>1, StartKept
<1>3. Funding \notin TradeReplies /\ TradeReplies \intersect RemovalReplies = {}
  BY DEF TradeReplies, RemovalReplies, Funding, IncreasePosition, DecreasePosition,
     ReversePosition, PartialClosePosition, ClosingPosition, Liquidation
<1>4. today \in Today /\ unasked \in Nat
  BY DEF HistoryInv, Remembers
<1>5. TradersAfter(id) \subseteq Traders
  BY <1>1, <1>3, <1>4 DEF TradersAfter, Today
<1>6. today' \in Today
  BY <1>1, <1>4, <1>5 DEF Today
<1>7. ASSUME NEW t \in TradersAfter(id)
      PROVE  positions'[t].block_number = height
  <2>1. t \in Traders /\ (t \in today.traders => positions[t].block_number = height)
    BY <1>5, <1>7 DEF HistoryInv, Remembers
  <2>2. CASE t # tmp_swap.trader
    <3>1. t \in today.traders
      BY <1>7, <2>2 DEF TradersAfter
    <3>2. QED
      BY <2>1, <2>2, <3>1
  <2>3. CASE t = tmp_swap.trader
    <3>1. id \notin RemovalReplies
      BY <1>3, <1>7, <2>3 DEF TradersAfter
    <3>2. id \notin TradeReplies => t \in today.traders
      BY <1>7, <3>1 DEF TradersAfter
    <3>3. QED
      BY <2>1, <2>3, <3>1, <3>2
  <2>4. QED
    BY <2>2, <2>3
<1>8. today'.liquidated => vamm_map'.last_restriction_block = height
  BY <1>1 DEF HistoryInv, Remembers
<1>9. Remembers(unasked, today, positions, vamm_map)'
  BY <1>1, <1>4, <1>6, <1>7, <1>8 DEF Remembers
<1>10. QED
  BY <1>1, <1>2, <1>9 DEF HistoryInv, Remembers

\* Which replies are of which kind.
LEMMA KindsOfReplies ==
    /\ {IncreasePosition, DecreasePosition, ReversePosition, PartialClosePosition,
        ClosingPosition, Liquidation, PartialLiquidation} \subseteq SwapIds
    /\ TradeReplies \intersect LiquidationIds = {}
    /\ ClosingPosition \in RemovalReplies \ LiquidationIds
    /\ Liquidation \in RemovalReplies \intersect LiquidationIds
    /\ PartialLiquidation \in LiquidationIds \ TradeReplies
    /\ Funding \notin LiquidationIds \union TradeReplies
BY DEF SwapIds, TradeReplies, RemovalReplies, LiquidationIds, Funding, IncreasePosition,
   DecreasePosition, ReversePosition, PartialClosePosition, ClosingPosition, Liquidation,
   PartialLiquidation

\* A reply that stores the position of its trader with the block's number.
LEMMA TradeHistory ==
    ASSUME RecordInv, SafetyInv, BookInv, HistoryInv, NEW id \in TradeReplies, NEW msgs,
           Reply(id, msgs), UNCHANGED vamm_map, NEW new, new.block_number = height,
           positions' = [positions EXCEPT ![tmp_swap.trader] = new]
    PROVE  HistoryInv'
<1>1. id \in SwapIds /\ id \notin LiquidationIds /\ reply.id = id
  BY KindsOfReplies DEF TradeReplies, Reply
<1>2. tmp_swap.trader \in Traders /\ positions \in [Traders -> Position]
  BY <1>1, AnswerFacts DEF BookInv, TypeInv, ContractTypeOK
<1>3. /\ \A t \in Traders \ {tmp_swap.trader} :
            positions'[t].block_number = positions[t].block_number
      /\ positions'[tmp_swap.trader].block_number = height
  BY <1>2
<1>4. QED
  BY <1>1, <1>2, <1>3, ReplyHistory

\* One that removes it.
LEMMA RemovalHistory ==
    ASSUME RecordInv, SafetyInv, BookInv, HistoryInv, NEW id \in RemovalReplies, NEW msgs,
           Reply(id, msgs), NEW new, positions' = [positions EXCEPT ![tmp_swap.trader] = new],
           vamm_map'.last_restriction_block
             = IF id \in LiquidationIds THEN height ELSE vamm_map.last_restriction_block
    PROVE  HistoryInv'
<1>1. id \in SwapIds /\ reply.id = id
  BY KindsOfReplies DEF RemovalReplies, Reply
<1>2. tmp_swap.trader \in Traders /\ positions \in [Traders -> Position]
  BY <1>1, AnswerFacts DEF BookInv, TypeInv, ContractTypeOK
<1>3. \A t \in Traders \ {tmp_swap.trader} :
            positions'[t].block_number = positions[t].block_number
  BY <1>2
<1>4. QED
  BY <1>2, <1>3, ReplyHistory

LEMMA HandleHistory ==
    ASSUME RecordInv, SafetyInv, BookInv, HistoryInv, Handle
    PROVE  HistoryInv'
<1> DEFINE trader == tmp_swap.trader
           opened == GetPosition(tmp_swap.trader, tmp_swap.side)
<1>1. \A id \in SwapIds : reply.id = id =>
         /\ trader \in Traders /\ positions[trader] \in Position /\ opened \in Position
         /\ tmp_swap.side \in Direction
  <2>1. \A id \in SwapIds : reply.id = id =>
           trader \in Traders /\ positions[trader] \in Position /\ tmp_swap \in TmpSwap
    BY AnswerFacts
  <2>2. tmp_swap \in TmpSwap => tmp_swap.side \in Direction
    BY DEF TmpSwap
  <2>3. height \in Nat
    BY DEF SafetyInv, AmmInv, ReserveInv, TypeOK
  <2>4. trader \in Traders /\ positions[trader] \in Position /\ tmp_swap.side \in Direction
           => opened \in Position
    BY <2>3, NewPosition DEF GetPosition
  <2>5. QED
    BY <2>1, <2>2, <2>4
<1>2. ASSUME NEW id \in {IncreasePosition, DecreasePosition}, NEW direction, NEW interest,
             NEW swapMargin, NEW delta, NEW notional, reply.id = id,
             UpdatePosition(id, direction, interest, swapMargin, delta, notional)
      PROVE  HistoryInv'
  <2> DEFINE change == Signed(tmp_swap.side, reply.output)
             margin == RemainMargin(opened, delta)
             premium == vamm_map.cumulative_premium_fraction
             new == [opened EXCEPT
                        !.direction = direction, !.notional = notional, !.size = @ + change,
                        !.margin = margin, !.last_updated_premium_fraction = premium,
                        !.block_number = height]
  <2>1. \E msgs : Reply(id, msgs)
    BY <1>2, Zenon DEF UpdatePosition
  <2>2. positions' = [positions EXCEPT ![trader] = new] /\ UNCHANGED vamm_map
    BY <1>2, Zenon DEF UpdatePosition
  <2>3. opened \in Position /\ id \in TradeReplies
    BY <1>1, <1>2, KindsOfReplies DEF TradeReplies
  <2> HIDE DEF opened, change, margin, premium
  <2>4. new.block_number = height
    BY <2>3 DEF Position
  <2> HIDE DEF new
  <2>5. QED
    BY <2>1, <2>2, <2>3, <2>4, TradeHistory
<1>3. CASE IncreasePositionReply
  BY <1>2, <1>3, Zenon DEF IncreasePositionReply
<1>4. CASE DecreasePositionReply
  BY <1>2, <1>4, Zenon DEF DecreasePositionReply
<1>5. CASE ReversePositionReply
  <2>1. /\ reply.id = ReversePosition /\ \E msgs : Reply(ReversePosition, msgs)
        /\ positions' = [positions EXCEPT ![trader] = Clear(opened)] /\ UNCHANGED vamm_map
    BY <1>5, Zenon DEF ReversePositionReply
  <2>2. opened \in Position /\ ReversePosition \in TradeReplies
    BY <1>1, <2>1, KindsOfReplies DEF TradeReplies
  <2> HIDE DEF opened
  <2>3. Clear(opened).block_number = height
    BY <2>2 DEF Clear, Position
  <2>4. QED
    BY <2>1, <2>2, <2>3, TradeHistory
<1>6. CASE ClosePositionReply
  <2>1. /\ reply.id = ClosingPosition /\ \E msgs : Reply(ClosingPosition, msgs)
        /\ positions' = [positions EXCEPT ![trader] = NoPosition] /\ UNCHANGED vamm_map
    BY <1>6, Zenon DEF ClosePositionReply
  <2>2. QED
    BY <2>1, KindsOfReplies, RemovalHistory
<1>7. CASE PartialClosePositionReply
  <2> DEFINE position == positions[trader]
             change == Signed(tmp_swap.side, reply.output)
             realized == RealizedPnl(position, reply.output)
             margin == RemainMargin(position, realized)
             notional == RemainingNotional(position, realized)
             premium == vamm_map.cumulative_premium_fraction
             new == [position EXCEPT
                        !.size = @ + change, !.margin = margin, !.notional = notional,
                        !.last_updated_premium_fraction = premium, !.block_number = height]
  <2>1. /\ reply.id = PartialClosePosition /\ \E msgs : Reply(PartialClosePosition, msgs)
        /\ positions' = [positions EXCEPT ![trader] = new] /\ UNCHANGED vamm_map
    BY <1>7, Zenon DEF PartialClosePositionReply
  <2>2. position \in Position /\ PartialClosePosition \in TradeReplies
    BY <1>1, <2>1, KindsOfReplies DEF TradeReplies
  <2> HIDE DEF position, change, margin, notional, premium
  <2>3. new.block_number = height
    BY <2>2 DEF Position
  <2> HIDE DEF new
  <2>4. QED
    BY <2>1, <2>2, <2>3, TradeHistory
<1>8. CASE LiquidateReply
  <2>1. /\ \E msgs : Reply(Liquidation, msgs)
        /\ positions' = [positions EXCEPT ![trader] = NoPosition]
        /\ vamm_map' = [vamm_map EXCEPT !.last_restriction_block = height]
    BY <1>8, Zenon DEF LiquidateReply
  <2>2. vamm_map'.last_restriction_block = height
    BY <2>1 DEF BookInv, TypeInv, ContractTypeOK, VammMap
  <2>3. QED
    BY <2>1, <2>2, KindsOfReplies, RemovalHistory
<1>9. CASE PartialLiquidationReply
  <2>1. PICK size, margin, notional :
           positions' = [positions EXCEPT ![trader] =
                            [positions[trader] EXCEPT !.size = size, !.margin = margin,
                                                      !.notional = notional]]
    BY <1>9, Zenon DEF PartialLiquidationReply
  <2>2. PICK msgs : Reply(PartialLiquidation, msgs)
    BY <1>9, Zenon DEF PartialLiquidationReply
  <2>3. vamm_map' = [vamm_map EXCEPT !.last_restriction_block = height]
    BY <1>9, Zenon DEF PartialLiquidationReply
  <2>4. reply.id = PartialLiquidation /\ PartialLiquidation \in LiquidationIds \ TradeReplies
    BY <2>2, KindsOfReplies DEF Reply
  <2>5. /\ trader \in Traders /\ positions[trader] \in Position
        /\ positions \in [Traders -> Position] /\ vamm_map \in VammMap
    BY <1>1, <2>4, KindsOfReplies DEF BookInv, TypeInv, ContractTypeOK
  <2>6. \A t \in Traders : positions'[t].block_number = positions[t].block_number
    BY <2>1, <2>5 DEF Position
  <2>7. vamm_map'.last_restriction_block = height
    BY <2>3, <2>5 DEF VammMap
  <2>8. QED
    BY <2>2, <2>4, <2>5, <2>6, <2>7, ReplyHistory
<1>10. CASE PayFundingReply
  <2> DEFINE premium == reply.input
  <2>1. PICK msgs : Reply(Funding, msgs)
    BY <1>10, Zenon DEF PayFundingReply
  <2>2. /\ vamm_map' = [vamm_map EXCEPT !.cumulative_premium_fraction = @ + premium]
        /\ positions' = positions
    BY <1>10, Zenon DEF PayFundingReply
  <2>3. vamm_map'.last_restriction_block = vamm_map.last_restriction_block
    BY <2>2 DEF BookInv, TypeInv, ContractTypeOK, VammMap
  <2>4. reply.id = Funding /\ Funding \notin LiquidationIds \union TradeReplies
    BY <2>1, KindsOfReplies DEF Reply
  <2>5. QED
    BY <2>1, <2>2, <2>3, <2>4, ReplyHistory
<1>11. QED
  BY <1>3, <1>4, <1>5, <1>6, <1>7, <1>8, <1>9, <1>10 DEF Handle

LEMMA NextHistory ==
    RecordInv /\ SafetyInv /\ BookInv /\ HistoryInv /\ [EngineNext]_allVars => HistoryInv'
<1> SUFFICES ASSUME RecordInv, SafetyInv, BookInv, HistoryInv, [EngineNext]_allVars
             PROVE  HistoryInv'
  OBVIOUS
<1>1. ASSUME UNCHANGED <<positions, vamm_map, unasked, today, height>>,
             Start' = Start \/ Idle', ~Idle' => ~Idle
      PROVE  HistoryInv'
  BY <1>1 DEF HistoryInv, Remembers
<1>2. CASE Request
  BY <1>2, RequestHistory
<1>3. CASE Handle
  BY <1>3, HandleHistory
<1>4. CASE Deliver
  <2>1. UNCHANGED <<positions, vamm_map, unasked, today, checkpoint>>
    BY <1>4, Zenon DEF Deliver, ExecuteTransfer, ExecuteSwap, ExecuteFunding, Execute, book, past
  <2>2. height' = height
    BY <1>4, Zenon DEF Deliver, ExecuteTransfer, ExecuteSwap, ExecuteFunding, SwapInput,
       SwapOutput, UpdateReserve, SettleFunding, vars
  <2>3. QED
    BY <1>1, <2>1, <2>2, StartKept
<1>5. CASE Commit
  <2>1. UNCHANGED <<positions, vamm_map, unasked, today, height>> /\ Idle'
    BY <1>5 DEF Commit, book, past, vars, Idle
  <2>2. QED
    BY <1>1, <2>1
<1>6. CASE Abort
  <2>1. /\ ~Idle /\ Idle' /\ height' = height /\ positions' = Start.positions
        /\ vamm_map' = Start.vamm_map /\ unasked' = Start.unasked /\ today' = Start.today
    BY <1>6, Zenon DEF Abort, Start, Idle
  <2>2. QED
    BY <2>1 DEF HistoryInv, Remembers
<1>7. CASE Govern \/ (\E fund \in RegistryChoices : ChangeRegistry(fund)) \/ UNCHANGED allVars
  <2>1. UNCHANGED <<positions, vamm_map, unasked, today, checkpoint, height>>
    BY <1>7, Zenon DEF Govern, SetPause, UpdateEngineConfig, Administer, UpdatePauser, AddWhitelist,
       RemoveWhitelist, ChangeRegistry, allVars, engineVars, runtime, book, past, vars
  <2>2. QED
    BY <1>1, <2>1, StartKept
<1>8. CASE /\ Idle /\ UNCHANGED runtime
           /\ (Admin /\ UNCHANGED today) \/ (NextBlock /\ today' = NewDay)
  <2>1. UNCHANGED <<positions, vamm_map, unasked, checkpoint>>
    BY <1>8 DEF runtime, book
  <2>2. CASE Admin /\ UNCHANGED today
    <3>1. height' = height
      BY <2>2, Zenon DEF Admin, UpdateConfig, UpdateOwner, SetOpen
    <3>2. QED
      BY <1>1, <2>1, <2>2, <3>1, StartKept
  <2>3. CASE today' = NewDay
    <3>1. Idle'
      BY <1>8, <2>1 DEF Idle
    <3>2. today' \in Today /\ today'.traders = {} /\ ~today'.liquidated
      BY <2>3 DEF NewDay, Today
    <3>3. QED
      BY <2>1, <3>1, <3>2 DEF HistoryInv, Remembers
  <2>4. QED
    BY <1>8, <2>2, <2>3
<1>9. QED
  BY <1>2, <1>3, <1>4, <1>5, <1>6, <1>7, <1>8, Zenon DEF EngineNext, Surroundings

LEMMA InitHistory == EngineInit => HistoryInv
<1> SUFFICES ASSUME EngineInit PROVE HistoryInv
  OBVIOUS
<1>1. unasked = 0 /\ today = NewDay /\ Idle
  BY DEF EngineInit, Idle
<1>2. today \in Today /\ today.traders = {} /\ ~today.liquidated
  BY <1>1 DEF NewDay, Today
<1>3. QED
  BY <1>1, <1>2, SMT DEF HistoryInv, Remembers

LEMMA HistoryInvariance == EngineSpec => [](RecordInv /\ SafetyInv /\ BookInv /\ HistoryInv)
  BY BookInvariance, InitHistory, NextHistory, PTL DEF EngineSpec

-----------------------------------------------------------------------------
(* What the engine's books are right about                                 *)

\* The books, the records and the ledger keep their types through every reply:
\* no margin, notional, debt or balance that the code keeps unsigned goes
\* below zero, however trades, liquidations and funding follow one another.
THEOREM BooksKeepTheirTypes == EngineSpec => []EngineTypeOK
<1>1. BookInv /\ HistoryInv => EngineTypeOK
  BY DEF BookInv, TypeInv, HistoryInv, Remembers, HistoryTypeOK, EngineTypeOK, Today
<1>2. QED
  BY <1>1, HistoryInvariance, PTL

\* In a block where somebody was liquidated nobody trades or closes who has
\* traded in it and kept the position (require_not_restriction_mode): the two
\* block numbers it compares say of what has happened all that this takes,
\* through transactions that fail, reversals in two swaps and new blocks.
THEOREM LiquidationsRestrict == EngineSpec => []NobodyTradesAroundLiquidation
<1>1. RecordInv /\ SafetyInv /\ BookInv /\ HistoryInv => NobodyTradesAroundLiquidation
  <2> SUFFICES ASSUME RecordInv, SafetyInv, BookInv, HistoryInv, ~Idle,
                      reply.id \in TradeReplies \union {ClosingPosition}, Start.today.liquidated
               PROVE  tmp_swap.trader \notin Start.today.traders
    BY DEF NobodyTradesAroundLiquidation, Start
  <2>1. reply.id \in SwapIds /\ reply.id \notin LiquidationIds
    BY DEF TradeReplies, SwapIds, LiquidationIds, IncreasePosition, DecreasePosition,
       ReversePosition, PartialClosePosition, ClosingPosition, Liquidation, PartialLiquidation
  <2>2. ~Restricted(Start, tmp_swap.trader)
    BY <2>1, AnswerFacts
  <2>3. QED
    BY <2>2 DEF HistoryInv, Remembers, Restricted
<1>2. QED
  BY <1>1, HistoryInvariance, PTL

\* Open interest rises past the cap by no path through the replies (a close
\* at a great loss raises it too), unless for a trader of the whitelist
\* (update_open_interest_notional).
THEOREM OpenInterestIsCapped == EngineSpec => OpenInterestStaysCapped
<1> DEFINE Capped ==
             (/\ Commit /\ OpenInterestCap # 0
              /\ engine_state.open_interest_notional
                   > Head(checkpoint).engine_state.open_interest_notional)
               => \/ engine_state.open_interest_notional <= OpenInterestCap
                  \/ \E trader \in whitelist \intersect Traders :
                        positions[trader] # Head(checkpoint).positions[trader]
<1>1. ASSUME RecordInv, BookInv, Commit, OpenInterestCap # 0,
             engine_state.open_interest_notional
               > Head(checkpoint).engine_state.open_interest_notional
      PROVE  \/ engine_state.open_interest_notional <= OpenInterestCap
             \/ \E trader \in whitelist \intersect Traders :
                   positions[trader] # Head(checkpoint).positions[trader]
  <2>1. ~Idle /\ queue = <<>> /\ reply = NoReply
    BY <1>1 DEF Commit
  <2>2. Settled
    <3>1. AwaitedId = "none"
      BY <2>1, NoTransfer, QueueOfTransfers DEF AwaitedId, Awaits, NoReply
    <3>2. QED
      BY <3>1, ReplyIds DEF Settled
  <2>3. InterestAllowed
    BY <1>1, <2>1, <2>2 DEF BookInv, InterestInv
  <2>4. /\ engine_state.open_interest_notional \in Nat
        /\ Head(checkpoint).engine_state.open_interest_notional \in Nat
    BY <1>1, <2>1 DEF BookInv, TypeInv, ContractTypeOK, EngineState, SavedTypes, Start
  <2>5. ~(Interest(engine_state) <= Interest(Start.engine_state))
    BY <1>1, <2>4, SMT DEF Interest, Start
  <2>6. QED
    BY <1>1, <2>3, <2>5 DEF InterestAllowed, Interest, Start
<1>2. RecordInv /\ BookInv => [Capped]_allVars
  BY <1>1
<1> HIDE DEF Capped
<1>3. EngineSpec => [][Capped]_allVars
  BY <1>2, BookInvariance, PTL
<1>4. QED
  BY <1>3 DEF Capped, OpenInterestStaysCapped

-----------------------------------------------------------------------------
(* What the traders hold is what the AMM has sold, and growth is paid for  *)

Sizes(p) == [trader \in Traders |-> p[trader].size]
Total(p) == SumFunctionOnSet(Sizes(p), Traders)

\* A position is closed in the direction of its size.
Matches(p) ==
    /\ p.size > 0 => p.direction = AddToAmm
    /\ p.size < 0 => p.direction = RemoveFromAmm

\* The AMM has sold what the positions p hold, and what none of them has yet.
Balanced(total, p, moved) ==
    /\ total = Total(p) + moved
    /\ \A trader \in Traders : Matches(p[trader])

\* What the reply to be handled will add to the size of the position.
Moved ==
    LET size == positions[tmp_swap.trader].size
    IN  IF reply.id \in {IncreasePosition, DecreasePosition, PartialClosePosition}
        THEN Signed(tmp_swap.side, reply.output)
        ELSE IF reply.id \in {ReversePosition, ClosingPosition, Liquidation} THEN -size
        ELSE IF reply.id = PartialLiquidation
        THEN IF size < 0 THEN reply.input ELSE -reply.input
        ELSE 0

MatchInv ==
    /\ Balanced(total_position_size, positions, Moved)
    /\ reply.id \in {DecreasePosition, PartialClosePosition}
         => reply.output <= Abs(positions[tmp_swap.trader].size)
    /\ reply.id = PartialLiquidation => reply.input <= Abs(positions[tmp_swap.trader].size)
    /\ ~Idle => Balanced(Start.total_position_size, Start.positions, 0)

\* A position that a reply let grow: its margin suffices, its size is allowed,
\* and there was no liquidation about.
Backed(trader) ==
    \E p \in Position :
        /\ p = positions[trader]
        /\ MarginRatio(p) >= engine_config.maintenance_margin_ratio
        /\ HoldingAllowed(p.size, trader)
        /\ ~Restricted(Start, trader)

GrowthInv ==
    ~Idle => \A trader \in Traders :
        \/ Abs(positions[trader].size) <= Abs(Start.positions[trader].size)
        \/ Settled /\ Backed(trader)

LEMMA PartBounded ==
    ASSUME engine_config \in EngineConfig, NEW n \in Nat
    PROVE  Part(n) \in Nat /\ Part(n) <= n
<1> DEFINE ratio == engine_config.partial_liquidation_ratio
           product == n * ratio
           x == product \div Decimals
<1>1. ratio \in Nat /\ ratio <= Decimals /\ Decimals \in Nat \ {0}
  BY DecimalsAssumption, SMT DEF EngineConfig
<1> HIDE DEF ratio
<1>2. product \in Nat /\ product <= n * Decimals
  BY <1>1, ProductType, ProductMonotone
<1> HIDE DEF product
<1>3. x \in Nat /\ product % Decimals \in 0 .. (Decimals - 1)
      /\ product = Decimals * x + (product % Decimals)
  BY <1>1, <1>2, DivMod
<1> HIDE DEF x
<1>4. Decimals * x < Decimals * (n + 1)
  <2>1. Decimals * (n + 1) = n * Decimals + Decimals /\ Decimals * x \in Nat /\ n * Decimals \in Nat
    BY <1>1, <1>3, SMT
  <2>2. product % Decimals \in Nat
    BY <1>1, <1>3, SMT
  <2>3. QED
    BY <1>1, <1>2, <1>3, <2>1, <2>2, SMT
<1>5. x < n + 1
  BY <1>1, <1>3, <1>4, CancelLess, SMT
<1>6. x <= n
  BY <1>3, <1>5, SMT
<1>7. QED
  BY <1>3, <1>6 DEF x, product, ratio, Part

\* Selling back less than a position is worth takes off no more than its size.
LEMMA SellingBackForLess ==
    ASSUME NEW p \in Position, p.size # 0, SpotNotionalDefined(p), NEW amount \in Nat,
           amount < SpotNotional(p), quote_asset_reserve \in Nat, base_asset_reserve \in Nat,
           quote_asset_reserve >= Decimals, base_asset_reserve >= Decimals,
           GetInputPriceDefined(Flip(p.direction), amount,
                                quote_asset_reserve, base_asset_reserve)
    PROVE  GetInputPrice(Flip(p.direction), amount, quote_asset_reserve, base_asset_reserve)
             <= Abs(p.size)
<1>1. p.direction \in Direction /\ Abs(p.size) \in Nat \ {0}
  BY PositionFields, SMT DEF Abs
<1>2. CASE amount = 0
  BY <1>1, <1>2, SMT DEF GetInputPrice
<1>3. CASE amount # 0
  <2>1. /\ amount < Exchange(p.direction, Abs(p.size), base_asset_reserve, quote_asset_reserve)
        /\ After(p.direction, Abs(p.size), base_asset_reserve) \in 1 .. MaxUint
        /\ After(Flip(p.direction), amount, quote_asset_reserve) \in 1 .. MaxUint
    BY <1>1, <1>3 DEF SpotNotional, SpotNotionalDefined, GetOutputPrice, GetOutputPriceDefined,
       GetInputPriceDefined, ExchangeDefined
  <2>2. \A n \in 1 .. MaxUint : n \in Nat \ {0}
    BY MaxUintAssumption, SMT
  <2>3. amount \in Nat \ {0}
    BY <1>3
  <2>4. Exchange(Flip(p.direction), amount, quote_asset_reserve, base_asset_reserve)
          <= Abs(p.size)
    BY <1>1, <2>1, <2>2, <2>3, BuyingBackForLess
  <2>5. QED
    BY <1>3, <2>4 DEF GetInputPrice
<1>4. QED
  BY <1>2, <1>3

LEMMA TradersFinite == IsFiniteSet(Traders)
BY HoldersAssumption, FS_Subset DEF Holders

LEMMA TotalFacts ==
    /\ \A p \in [Traders -> Position] : Total(p) \in Int
    /\ \A p \in [Traders -> Position], q \in [Traders -> Position] :
          (\A trader \in Traders : p[trader].size = q[trader].size) => Total(p) = Total(q)
    /\ \A p \in [Traders -> Position], trader \in Traders, new \in Position :
          Total([p EXCEPT ![trader] = new]) = Total(p) + (new.size - p[trader].size)
<1>1. \A p \in [Traders -> Position] : \A trader \in Traders :
         Sizes(p)[trader] = p[trader].size /\ Sizes(p)[trader] \in Int
  BY PositionFields DEF Sizes
<1>2. \A p \in [Traders -> Position] : Total(p) \in Int
  BY <1>1, TradersFinite, SumType DEF Total
<1>3. \A p \in [Traders -> Position], q \in [Traders -> Position] :
         (\A trader \in Traders : p[trader].size = q[trader].size) => Total(p) = Total(q)
  BY <1>1, TradersFinite, SumOfEqual DEF Total
<1>4. ASSUME NEW p \in [Traders -> Position], NEW trader \in Traders, NEW new \in Position
      PROVE  Total([p EXCEPT ![trader] = new]) = Total(p) + (new.size - p[trader].size)
  <2> DEFINE q == [p EXCEPT ![trader] = new]
  <2>1. /\ q \in [Traders -> Position] /\ q[trader] = new
        /\ \A other \in Traders \ {trader} : q[other] = p[other]
    OBVIOUS
  <2> HIDE DEF q
  <2>2. /\ \A x \in Traders : Sizes(p)[x] \in Int
        /\ \A x \in Traders : Sizes(q)[x] \in Int
        /\ \A x \in Traders \ {trader} : Sizes(p)[x] = Sizes(q)[x]
    BY <1>1, <2>1
  <2>3. SumFunctionOnSet(Sizes(q), Traders)
          = SumFunctionOnSet(Sizes(p), Traders) + (Sizes(q)[trader] - Sizes(p)[trader])
    <3>1. SumFollows(Sizes(p), Sizes(q), trader, Traders)
      BY <2>2, TradersFinite, ChangeOne
    <3>2. QED
      BY <3>1 DEF SumFollows
  <2>4. Sizes(q)[trader] = new.size /\ Sizes(p)[trader] = p[trader].size
    BY <1>1, <2>1
  <2>5. Total(q) = Total(p) + (new.size - p[trader].size)
    BY <2>3, <2>4, Zenon DEF Total
  <2>6. QED
    BY <2>5 DEF q
<1>5. QED
  BY <1>2, <1>3, <1>4

\* The books are used by their facts.
LEMMA BookFacts ==
    ASSUME BookInv
    PROVE  /\ positions \in [Traders -> Position]
           /\ ~Idle => Start.positions \in [Traders -> Position]
           /\ AwaitedId \in SwapIds => tmp_swap.trader \in Traders
BY DEF BookInv, TypeInv, ContractTypeOK, SavedTypes, SwapInv

LEMMA SizesKept ==
    ASSUME NEW p \in [Traders -> Position], NEW q \in [Traders -> Position], NEW total,
           Balanced(total, p, 0),
           \A trader \in Traders : q[trader].size = p[trader].size
                                     /\ q[trader].direction = p[trader].direction
    PROVE  Balanced(total, q, 0)
<1>1. Total(q) = Total(p)
  BY TotalFacts
<1>2. \A trader \in Traders : Matches(q[trader])
  BY DEF Balanced, Matches
<1>3. QED
  BY <1>1, <1>2 DEF Balanced

\* Nothing is on its way from the AMM to a position.
LEMMA NothingMoved ==
    /\ reply.id \notin SwapIds => Moved = 0
    /\ reply'.id \notin SwapIds => Moved' = 0
    /\ NoReply.id \notin SwapIds
BY DEF Moved, SwapIds, TradeIds, LiquidationIds, NoReply, IncreasePosition, DecreasePosition,
       ReversePosition, ClosingPosition, PartialClosePosition, Liquidation, PartialLiquidation

\* A step that changes the size of no position and swaps nothing.
LEMMA QuietMatch ==
    ASSUME BookInv, BookInv', MatchInv, reply.id \notin SwapIds, reply'.id \notin SwapIds,
           total_position_size' = total_position_size,
           \A trader \in Traders : positions'[trader].size = positions[trader].size
                                     /\ positions'[trader].direction = positions[trader].direction,
           Idle' \/ (~Idle /\ Start' = Start) \/ (Idle /\ Start' = Saved)
    PROVE  MatchInv'
<1>1. Moved = 0 /\ Moved' = 0
  BY NothingMoved
<1>2. Balanced(total_position_size, positions, 0)
  BY <1>1 DEF MatchInv
<1>3. positions \in [Traders -> Position] /\ positions' \in [Traders -> Position]
  BY DEF BookInv, TypeInv, ContractTypeOK
<1>4. Balanced(total_position_size', positions', 0)
  BY <1>2, <1>3, SizesKept
<1>5. Balanced(total_position_size, positions, Moved)'
  BY <1>1, <1>4
<1>6. ~Idle' => Balanced(Start'.total_position_size, Start'.positions, 0)
  <2>1. Saved.total_position_size = total_position_size /\ Saved.positions = positions
    BY DEF Saved
  <2>2. CASE ~Idle /\ Start' = Start
    BY <2>2 DEF MatchInv
  <2>3. CASE Idle /\ Start' = Saved
    BY <1>2, <2>1, <2>3
  <2>4. QED
    BY <2>2, <2>3
<1>7. reply'.id \notin {DecreasePosition, PartialClosePosition, PartialLiquidation}
  BY DEF SwapIds, TradeIds, LiquidationIds
<1>8. QED
  BY <1>5, <1>6, <1>7 DEF MatchInv

LEMMA MovedType ==
    ASSUME SafetyInv, BookInv, reply.id \in SwapIds, AwaitedId = reply.id
    PROVE  Moved \in Int
<1>1. reply.input \in Int /\ reply.output \in Int /\ -reply.input \in Int /\ -reply.output \in Int
  BY SwapAnswers, SMT
<1>2. positions[tmp_swap.trader].size \in Int
  BY BookFacts, PositionFields
<1>3. -positions[tmp_swap.trader].size \in Int /\ 0 \in Int
  BY <1>2, SMT
<1>4. QED
  BY <1>1, <1>3, Zenon DEF Moved, Signed

-----------------------------------------------------------------------------
(* The AMM is called *)

\* A swap of which the AMM's answer will be added to the size of a position.
LEMMA SideSwapped ==
    ASSUME NEW total \in Int, NEW side \in Direction, NEW base \in Nat
    PROVE  After(side, base, total) = total + Signed(side, base) /\ Signed(side, base) \in Int
BY SMT DEF After, Signed

\* A swap_output in the direction of the position takes the amount off it.
LEMMA SizeSwapped ==
    ASSUME NEW total \in Int, NEW p \in Position, NEW n \in Nat, Matches(p), n # 0 => p.size # 0
    PROVE  After(Flip(p.direction), n, total) = total + IF p.size < 0 THEN n ELSE -n
<1> DEFINE d == p.direction
           z == p.size
<1>1. /\ d \in Direction /\ z \in Int
      /\ z > 0 => d = AddToAmm
      /\ z < 0 => d = RemoveFromAmm
      /\ n # 0 => z # 0
  BY PositionFields DEF Matches
<1> HIDE DEF d, z
<1>2. After(Flip(d), n, total) = total + IF z < 0 THEN n ELSE -n
  BY <1>1, SMT DEF After, Flip, Direction, AddToAmm, RemoveFromAmm
<1>3. QED
  BY <1>2 DEF d, z

\* What the AMM answers to a swap of which m is the message.
Swapped(m) ==
    \/ /\ m.kind = "swap_input"
       /\ \E base \in Nat :
             /\ base = GetInputPrice(m.direction, m.amount,
                                     quote_asset_reserve, base_asset_reserve)
             /\ GetInputPriceDefined(m.direction, m.amount,
                                     quote_asset_reserve, base_asset_reserve)
             /\ reply' = [id |-> m.id, input |-> m.amount, output |-> base]
             /\ total_position_size' = After(m.direction, base, total_position_size)
    \/ /\ m.kind = "swap_output"
       /\ \E quote \in Nat : reply' = [id |-> m.id, input |-> m.amount, output |-> quote]
       /\ total_position_size' = After(Flip(m.direction), m.amount, total_position_size)

LEMMA SwapIsAnswered ==
    ASSUME RecordInv, SafetyInv, ExecuteSwap
    PROVE  Swapped(Head(queue)) /\ SoundMessage(Head(queue))
<1> DEFINE message == Head(queue)
           quote == GetOutputPrice(message.direction, message.amount,
                                   quote_asset_reserve, base_asset_reserve)
           base == GetInputPrice(message.direction, message.amount,
                                 quote_asset_reserve, base_asset_reserve)
<1>1. /\ queue # <<>>
      /\ \/ /\ message.kind = "swap_input"
            /\ SwapInput(Engine, message.direction, message.amount, message.limit,
                         message.can_go_over)
            /\ reply' = [id |-> message.id, input |-> message.amount, output |-> base]
         \/ /\ message.kind = "swap_output"
            /\ SwapOutput(Engine, message.direction, message.amount, message.limit)
            /\ reply' = [id |-> message.id, input |-> message.amount, output |-> quote]
  BY Zenon DEF ExecuteSwap, Execute
<1>2. SoundMessage(message)
  BY <1>1, SoundRest DEF SafetyInv, RecordInv, RecordsAreAwaited
<1>3. CASE /\ message.kind = "swap_input"
           /\ SwapInput(Engine, message.direction, message.amount, message.limit,
                        message.can_go_over)
           /\ reply' = [id |-> message.id, input |-> message.amount, output |-> base]
  <2>1. /\ UpdateReserve(message.direction, message.amount, base, message.can_go_over)
        /\ GetInputPriceDefined(message.direction, message.amount,
                                quote_asset_reserve, base_asset_reserve)
    BY <1>3, Zenon DEF SwapInput
  <2>2. base \in Nat
    <3>1. \A n \in Uint : n \in Nat
      BY MaxUintAssumption, SMT DEF Uint
    <3>2. QED
      BY <2>1, <3>1 DEF GetInputPrice, GetInputPriceDefined, ExchangeDefined
  <2>3. total_position_size' = After(message.direction, base, total_position_size)
    BY <2>1, Zenon DEF UpdateReserve
  <2>4. base = GetInputPrice(message.direction, message.amount,
                             quote_asset_reserve, base_asset_reserve)
    OBVIOUS
  <2> HIDE DEF message, base
  <2>5. Swapped(message)
    BY <1>3, <2>1, <2>2, <2>3, <2>4, Zenon DEF Swapped
  <2>6. QED
    BY <1>2, <2>5 DEF message
<1>4. CASE /\ message.kind = "swap_output"
           /\ SwapOutput(Engine, message.direction, message.amount, message.limit)
           /\ reply' = [id |-> message.id, input |-> message.amount, output |-> quote]
  <2>1. UpdateReserve(Flip(message.direction), quote, message.amount, TRUE)
    BY <1>4, Zenon DEF SwapOutput
  <2>2. total_position_size' = After(Flip(message.direction), message.amount, total_position_size)
    BY <2>1, Zenon DEF UpdateReserve
  <2>3. quote \in Nat
    <3>1. message.direction \in Direction /\ message.amount \in Nat
      BY <1>2, <1>4 DEF SoundMessage
    <3>2. QED
      BY <1>4, <3>1, Amounts, Zenon DEF SwapOutput
  <2> HIDE DEF message, quote
  <2>4. Swapped(message)
    BY <1>4, <2>2, <2>3, Zenon DEF Swapped
  <2>5. QED
    BY <1>2, <2>4 DEF message
<1>5. QED
  BY <1>1, <1>3, <1>4

\* What selling back the whole or a part brings is what the reply takes off.
LEMMA TakenOff ==
    ASSUME NEW p \in Position, Matches(p), NEW s \in TmpSwap, NEW id, Fits(id, p, s),
           id \in {DecreasePosition, PartialClosePosition}, NEW m, Asks(m, p, s), m.id = id,
           SafetyInv, OrdinaryMarket,
           id = PartialClosePosition => s.open_notional < s.position_notional,
           GetInputPriceDefined(m.direction, m.amount, quote_asset_reserve, base_asset_reserve)
    PROVE  GetInputPrice(m.direction, m.amount, quote_asset_reserve, base_asset_reserve)
             <= Abs(p.size)
<1>1. /\ m.direction = s.side /\ m.amount = s.open_notional
      /\ SpotNotionalDefined(p) /\ s.open_notional < SpotNotional(p)
  BY Zenon DEF Asks
<1>2. s.open_notional \in Nat /\ s.side \in Direction
  BY DEF TmpSwap
<1>3. p.size \in Int /\ p.direction \in Direction
  BY PositionFields
<1>4. p.size # 0
  <2>1. CASE p.size = 0
    <3>1. Abs(p.size) = 0
      BY <2>1, SMT DEF Abs
    <3>2. SpotNotional(p) = 0
      BY <3>1 DEF SpotNotional, GetOutputPrice
    <3>3. QED
      BY <1>1, <1>2, <3>2, SMT
  <2>2. QED
    BY <2>1
<1>5. s.side = Flip(p.direction)
  <2>1. CASE id = DecreasePosition
    BY <1>2, <1>3, <2>1 DEF Fits, Flip, Direction
  <2>2. CASE id = PartialClosePosition
    <3>1. s.side = IF p.size > 0 THEN RemoveFromAmm ELSE AddToAmm
      BY <2>2 DEF Fits
    <3>2. QED
      BY <1>3, <1>4, <3>1, SMT DEF Matches, Flip, AddToAmm, RemoveFromAmm
  <2>3. QED
    BY <2>1, <2>2
<1>6. /\ quote_asset_reserve \in Nat /\ base_asset_reserve \in Nat
      /\ quote_asset_reserve >= Decimals /\ base_asset_reserve >= Decimals
  BY DEF SafetyInv, AmmInv, ReserveInv, TypeOK, OrdinaryMarket
<1>7. QED
  BY <1>1, <1>2, <1>4, <1>5, <1>6, SellingBackForLess

\* The answer to a swap is to be added to the position it was asked for.
LEMMA SwapMatch ==
    ASSUME RecordInv, SafetyInv, BookInv, MatchInv, OrdinaryMarket, ExecuteSwap
    PROVE  MatchInv'
<1> PICK m, s, p : m = Head(queue) /\ s = tmp_swap /\ p = positions[tmp_swap.trader]
  OBVIOUS
<1>1. Swapped(m) /\ SoundMessage(m)
  BY SwapIsAnswered
<1>2. PICK kind \in {"swap_input", "swap_output"} : Execute(kind)
  BY Zenon DEF ExecuteSwap
<1>3. m.kind = kind /\ reply'.id = m.id /\ reply'.input = m.amount
  BY <1>1, <1>2 DEF Swapped, Execute
<1>4. /\ ~Idle /\ ~Idle' /\ Start' = Start /\ reply = NoReply /\ AwaitedId = m.id
      /\ UNCHANGED <<positions, tmp_swap>>
      /\ CallsAmm(queue) /\ m = queue[Len(queue)] /\ IsSequence(queue)
  BY <1>2, <1>3, ExecutedFacts
<1>5. m.id \in SwapIds /\ m.direction \in Direction /\ m.amount \in Nat
  BY <1>1, <1>2, <1>3 DEF SoundMessage
<1>6. /\ tmp_swap.trader \in Traders /\ Fits(m.id, p, s) /\ Asks(m, p, s)
      /\ s \in TmpSwap /\ p \in Position
  <2>1. tmp_swap.trader \in Traders /\ Fits(m.id, p, s) /\ Asks(m, p, s)
    BY <1>4, <1>5, Zenon DEF BookInv, SwapInv
  <2>2. s \in TmpSwap /\ positions \in [Traders -> Position]
    BY DEF BookInv, TypeInv, ContractTypeOK
  <2>3. QED
    BY <2>1, <2>2
<1>7. /\ total_position_size = Total(positions) + 0 /\ Total(positions) \in Int
      /\ \A trader \in Traders : Matches(positions[trader])
      /\ Balanced(Start.total_position_size, Start.positions, 0)
  <2>1. Moved = 0
    BY <1>4, NothingMoved
  <2>2. positions \in [Traders -> Position]
    BY BookFacts
  <2>3. QED
    BY <1>4, <2>1, <2>2, TotalFacts DEF MatchInv, Balanced
<1>8. Matches(p) /\ p.size \in Int /\ s.side \in Direction
  BY <1>6, <1>7, PositionFields DEF TmpSwap
<1>9. total_position_size \in Int /\ total_position_size = Total(positions)
  BY <1>7, SMT
<1>10. /\ m.kind = "swap_input" => m.id # PartialLiquidation
       /\ m.kind = "swap_input" /\ m.id = PartialClosePosition
             => s.open_notional < s.position_notional
  <2>1. Len(queue) \in 1 .. Len(queue)
    <3>1. PICK S : queue \in Seq(S)
      BY <1>4 DEF IsSequence
    <3>2. Len(queue) # 0
      BY <1>4 DEF CallsAmm
    <3>3. QED
      BY <3>1, <3>2, SMT
  <2>2. QED
    BY <1>4, <2>1 DEF OrdinaryMarket
<1> DEFINE Done(moved) == /\ total_position_size' = total_position_size + moved
                          /\ moved \in Int /\ Moved' = moved
<1>11. Moved' = LET size == p.size
                IN  IF m.id \in {IncreasePosition, DecreasePosition, PartialClosePosition}
                    THEN Signed(s.side, reply'.output)
                    ELSE IF m.id \in {ReversePosition, ClosingPosition, Liquidation} THEN -size
                    ELSE IF m.id = PartialLiquidation
                    THEN IF size < 0 THEN m.amount ELSE -m.amount
                    ELSE 0
  BY <1>3, <1>4, Zenon DEF Moved
<1>12. CASE m.id \in {IncreasePosition, DecreasePosition, PartialClosePosition}
  <2>1. m.kind = "swap_input" /\ m.direction = s.side /\ m.amount = s.open_notional
    BY <1>6, <1>12 DEF Asks
  <2>2. PICK base \in Nat :
           /\ base = GetInputPrice(m.direction, m.amount,
                                   quote_asset_reserve, base_asset_reserve)
           /\ GetInputPriceDefined(m.direction, m.amount,
                                   quote_asset_reserve, base_asset_reserve)
           /\ reply' = [id |-> m.id, input |-> m.amount, output |-> base]
           /\ total_position_size' = After(m.direction, base, total_position_size)
    BY <1>1, <2>1 DEF Swapped
  <2>3. reply'.output = base
    BY <2>2
  <2>4. Moved' = Signed(s.side, base)
    BY <1>11, <1>12, <2>3
  <2>5. total_position_size' = total_position_size + Signed(s.side, base)
    BY <1>8, <1>9, <2>1, <2>2, SideSwapped
  <2>6. m.id \in {DecreasePosition, PartialClosePosition} => reply'.output <= Abs(p.size)
    <3>1. ASSUME m.id \in {DecreasePosition, PartialClosePosition}
          PROVE  GetInputPrice(m.direction, m.amount, quote_asset_reserve, base_asset_reserve)
                   <= Abs(p.size)
      <4>1. m.id = PartialClosePosition => s.open_notional < s.position_notional
        BY <1>10, <2>1
      <4>2. QED
        BY <1>6, <1>8, <2>2, <3>1, <4>1, TakenOff
    <3>2. QED
      BY <2>2, <2>3, <3>1
  <2>7. m.id # PartialLiquidation
    BY <1>12, DistinctIds DEF IncreasePosition, PartialLiquidation, DecreasePosition
  <2>8. Balanced(total_position_size, positions, Moved)'
    BY <1>4, <1>7, <1>9, <2>4, <2>5 DEF Balanced
  <2>9. QED
    BY <1>3, <1>4, <1>7, <2>6, <2>7, <2>8 DEF MatchInv
<1>13. CASE m.id \notin {IncreasePosition, DecreasePosition, PartialClosePosition}
  <2>1. m.id \in {ReversePosition, ClosingPosition, Liquidation, PartialLiquidation}
    BY <1>5, <1>13 DEF SwapIds, LiquidationIds
  <2>2. m.kind = "swap_output" /\ m.direction = p.direction
    BY <1>2, <1>3, <1>6, <1>10, <2>1 DEF Asks
  <2>3. total_position_size' = After(Flip(p.direction), m.amount, total_position_size)
    BY <1>1, <2>2 DEF Swapped
  <2>4. /\ m.id # PartialLiquidation => m.amount = Abs(p.size)
        /\ m.id = PartialLiquidation => p.size # 0 /\ m.amount = Part(Abs(p.size))
    <3>1. PartialLiquidation \in SwapIds \ TradeIds
      BY ReplyIds
    <3>2. QED
      BY <1>6, <2>1, <2>2, <3>1 DEF Asks, Fits
  <2>5. m.amount <= Abs(p.size) /\ (m.amount # 0 => p.size # 0)
    <3>1. Abs(p.size) \in Nat /\ (Abs(p.size) # 0 => p.size # 0)
      BY <1>8, SMT DEF Abs
    <3>2. CASE m.id # PartialLiquidation
      BY <2>4, <3>1, <3>2, SMT
    <3>3. CASE m.id = PartialLiquidation
      BY <2>4, <3>1, <3>3, PartBounded DEF SafetyInv
    <3>4. QED
      BY <3>2, <3>3
  <2>6. total_position_size' = total_position_size + IF p.size < 0 THEN m.amount ELSE -m.amount
    BY <1>5, <1>6, <1>8, <1>9, <2>3, <2>5, SizeSwapped
  <2>7. Moved' = IF p.size < 0 THEN m.amount ELSE -m.amount
    <3>1. CASE m.id = PartialLiquidation
      <4>1. m.id \notin {ReversePosition, ClosingPosition, Liquidation}
        BY <3>1 DEF PartialLiquidation, ReversePosition, ClosingPosition, Liquidation
      <4>2. QED
        BY <1>11, <1>13, <3>1, <4>1, Zenon
    <3>2. CASE m.id # PartialLiquidation
      <4>1. Moved' = -p.size
        BY <1>11, <1>13, <2>1, <3>2, Zenon
      <4>2. m.amount = Abs(p.size)
        BY <2>4, <3>2
      <4> PICK z : z = p.size
        OBVIOUS
      <4>3. -z = IF z < 0 THEN Abs(z) ELSE -Abs(z)
        BY <1>8, SMT DEF Abs
      <4>4. QED
        BY <4>1, <4>2, <4>3
    <3>3. QED
      BY <3>1, <3>2
  <2>8. Balanced(total_position_size, positions, Moved)'
    BY <1>4, <1>7, <1>9, <2>6, <2>7 DEF Balanced
  <2>9. QED
    BY <1>3, <1>4, <1>7, <1>13, <2>5, <2>8 DEF MatchInv
<1>14. QED
  BY <1>12, <1>13

-----------------------------------------------------------------------------
(* What a position is worth depends on the AMM and on the funding booked *)

LEMMA TwapKept ==
    ASSUME NEW direction, NEW amount, NEW interval, UNCHANGED <<snapshots, now>>
    PROVE  OutputTwap(direction, amount, interval)' = OutputTwap(direction, amount, interval)
<1> DEFINE price == [i \in 1 .. Last |->
                        GetOutputPrice(direction, amount, snapshots[i].quote_asset_reserve,
                                       snapshots[i].base_asset_reserve)]
           from == now - interval
           weighed == [i \in VisitedSnapshots(interval) |-> price[i] * Held(i, from)]
<1>1. snapshots' = snapshots /\ now' = now /\ Last' = Last
  BY DEF Last
<1>2. price' = price
  BY <1>1
<1>3. VisitedSnapshots(interval)' = VisitedSnapshots(interval)
  BY <1>1 DEF VisitedSnapshots
<1>4. \A i : Held(i, from)' = Held(i, from)
  BY <1>1, Zenon DEF Held
<1> HIDE DEF price
<1>5. weighed' = weighed
  BY <1>2, <1>3, <1>4
<1>6. OutputTwap(direction, amount, interval)
        = LET period == IF snapshots[1].timestamp <= from
                        THEN interval ELSE now - snapshots[1].timestamp
          IN  IF Last = 1 \/ snapshots[Last].timestamp <= from
              THEN price[Last] ELSE SumFunction(weighed) \div period
  BY DEF OutputTwap, CalcTwap, price
<1>7. OutputTwap(direction, amount, interval)'
        = LET period == IF snapshots'[1].timestamp <= from'
                        THEN interval ELSE now' - snapshots'[1].timestamp
          IN  IF Last' = 1 \/ snapshots'[Last'].timestamp <= from'
              THEN price'[Last'] ELSE SumFunction(weighed') \div period
  BY DEF OutputTwap, CalcTwap, price
<1> HIDE DEF weighed
<1>8. QED
  BY <1>1, <1>2, <1>5, <1>6, <1>7

LEMMA RatioKept ==
    ASSUME NEW p, UNCHANGED <<vars, vamm_map>>
    PROVE  MarginRatio(p)' = MarginRatio(p)
<1>1. UNCHANGED <<snapshots, now, quote_asset_reserve, base_asset_reserve, vamm_map>>
  BY DEF vars, state
<1>2. SpotNotional(p)' = SpotNotional(p)
  BY <1>1 DEF SpotNotional
<1>3. TwapNotional(p)' = TwapNotional(p)
  BY <1>1, TwapKept DEF TwapNotional
<1>4. PrudentNotional(p)' = PrudentNotional(p)
  BY <1>2, <1>3, Zenon DEF PrudentNotional
<1>5. FundingPayment(p)' = FundingPayment(p)
  BY <1>1 DEF FundingPayment
<1>6. \A n : RatioAt(p, n)' = RatioAt(p, n)
  BY <1>5, Zenon DEF RatioAt, Remaining
<1>7. QED
  BY <1>4, <1>6, Zenon DEF MarginRatio

-----------------------------------------------------------------------------
(* Replies: sizes follow the AMM, and growth is backed *)

\* A reply adds to the size of the position what the AMM has moved.
LEMMA HandledMatch ==
    ASSUME RecordInv, SafetyInv, BookInv, BookInv', MatchInv,
           NEW id \in SwapIds, NEW msgs, Reply(id, msgs),
           NEW new \in Position, positions' = [positions EXCEPT ![tmp_swap.trader] = new],
           new.size = positions[tmp_swap.trader].size + Moved, Matches(new)
    PROVE  MatchInv'
<1> PICK t : t = tmp_swap.trader
  OBVIOUS
<1>1. /\ reply.id = id /\ reply' = NoReply /\ UNCHANGED <<checkpoint, total_position_size>>
  BY DEF Reply, vars, state
<1>2. AwaitedId = id
  BY <1>1, AnswerFacts
<1>3. /\ ~Idle /\ t \in Traders /\ positions \in [Traders -> Position]
  BY <1>1, <1>2, AnswerFacts, BookFacts
<1>4. /\ Balanced(total_position_size, positions, Moved)
      /\ Balanced(Start.total_position_size, Start.positions, 0)
  BY <1>3 DEF MatchInv
<1>5. /\ Total(positions') = Total(positions) + (new.size - positions[t].size)
      /\ Total(positions) \in Int /\ positions[t].size \in Int /\ new.size \in Int
      /\ Moved \in Int
  BY <1>1, <1>2, <1>3, TotalFacts, PositionFields, MovedType
<1>6. total_position_size' = Total(positions') + 0
  <2>1. total_position_size = Total(positions) + Moved
    BY <1>4 DEF Balanced
  <2>2. new.size = positions[t].size + Moved
    OBVIOUS
  <2> PICK m, total, size : m = Moved /\ total = Total(positions) /\ size = positions[t].size
    OBVIOUS
  <2>3. QED
    BY <1>1, <1>5, <2>1, <2>2, SMT
<1>7. \A trader \in Traders : Matches(positions'[trader])
  BY <1>3, <1>4 DEF Balanced
<1>8. reply'.id \notin SwapIds /\ Moved' = 0
  BY <1>1, NothingMoved
<1>9. Balanced(total_position_size, positions, Moved)'
  BY <1>6, <1>7, <1>8 DEF Balanced
<1>10. Start' = Start
  BY <1>1 DEF Start
<1>11. reply'.id \notin {DecreasePosition, PartialClosePosition, PartialLiquidation}
  BY <1>8 DEF SwapIds, TradeIds, LiquidationIds
<1>12. QED
  BY <1>4, <1>9, <1>10, <1>11 DEF MatchInv

\* While an answer is awaited nobody's position has grown.
LEMMA NotGrownYet ==
    ASSUME GrowthInv, ~Idle, ~Settled
    PROVE  \A trader \in Traders :
              Abs(positions[trader].size) <= Abs(Start.positions[trader].size)
BY DEF GrowthInv

\* A reply that lets the position grow has it backed.
LEMMA HandledGrowth ==
    ASSUME RecordInv, SafetyInv, BookInv, BookInv', GrowthInv,
           NEW id \in SwapIds, NEW msgs, Reply(id, msgs),
           NEW new \in Position, positions' = [positions EXCEPT ![tmp_swap.trader] = new],
           \/ Abs(new.size) <= Abs(positions[tmp_swap.trader].size)
           \/ /\ Transfers(msgs) /\ vamm_map' = vamm_map /\ id \notin LiquidationIds
              /\ MarginRatio(new) >= engine_config.maintenance_margin_ratio
              /\ HoldingAllowed(new.size, tmp_swap.trader)
    PROVE  GrowthInv'
<1> PICK t : t = tmp_swap.trader
  OBVIOUS
<1>1. /\ reply.id = id /\ reply' = NoReply /\ queue' = msgs \o queue
      /\ UNCHANGED <<checkpoint, vars, engine_config, whitelist>>
  BY DEF Reply, settings
<1>2. /\ ~Idle /\ AwaitedId = id /\ t \in Traders /\ queue = <<>>
      /\ id \notin LiquidationIds => ~Restricted(Start, t)
  BY <1>1, AnswerFacts
<1>3. positions \in [Traders -> Position] /\ Start.positions \in [Traders -> Position]
  BY <1>2, BookFacts
<1>4. Start' = Start /\ ~Idle'
  BY <1>1, <1>2, StartKept
<1>5. \A trader \in Traders : Abs(positions[trader].size) <= Abs(Start.positions[trader].size)
  BY <1>2, NotGrownYet DEF Settled
<1>6. \A trader \in Traders \ {t} : positions'[trader] = positions[trader]
  BY <1>3
<1>7. positions'[t] = new
  BY <1>2, <1>3
<1>8. CASE Abs(new.size) <= Abs(positions[t].size)
  <2>1. Abs(new.size) <= Abs(Start.positions[t].size)
    <3>1. Abs(new.size) \in Int /\ Abs(positions[t].size) \in Int
          /\ Abs(Start.positions[t].size) \in Int
      <4>1. new.size \in Int /\ positions[t].size \in Int /\ Start.positions[t].size \in Int
        BY <1>2, <1>3, PositionFields
      <4>2. QED
        BY <4>1, SMT DEF Abs
    <3>2. Abs(positions[t].size) <= Abs(Start.positions[t].size)
      BY <1>2, <1>5
    <3>3. QED
      BY <1>8, <3>1, <3>2, SMT
  <2>2. QED
    BY <1>4, <1>5, <1>6, <1>7, <2>1 DEF GrowthInv
<1>9. CASE /\ Transfers(msgs) /\ vamm_map' = vamm_map /\ id \notin LiquidationIds
           /\ MarginRatio(new) >= engine_config.maintenance_margin_ratio
           /\ HoldingAllowed(new.size, t)
  <2>1. queue' = msgs
    BY <1>2, <1>9, RepliedQueue DEF Transfers
  <2>2. Settled'
    <3>1. AwaitedId' = reply'.id /\ reply'.id = "none"
      BY <1>1, <1>9, <2>1, QueueOfTransfers DEF AwaitedId, Awaits, NoReply
    <3>2. QED
      BY <3>1, ReplyIds DEF Settled
  <2>3. Backed(t)'
    <3>1. MarginRatio(new)' = MarginRatio(new)
      BY <1>1, <1>9, RatioKept
    <3>2. HoldingAllowed(new.size, t)'
      BY <1>1, <1>9 DEF HoldingAllowed
    <3>3. ~Restricted(Start, t)'
      BY <1>1, <1>2, <1>4, <1>9 DEF Restricted, vars
    <3>4. MarginRatio(new)' >= engine_config'.maintenance_margin_ratio
      BY <1>1, <1>9, <3>1
    <3>5. QED
      BY <1>7, <3>2, <3>3, <3>4 DEF Backed
  <2>4. QED
    BY <1>4, <1>5, <1>6, <2>2, <2>3 DEF GrowthInv
<1>10. QED
  BY <1>8, <1>9

LEMMA OldSize ==
    ASSUME BookInv, tmp_swap.trader \in Traders, tmp_swap.side \in Direction, height \in Nat
    PROVE  /\ GetPosition(tmp_swap.trader, tmp_swap.side) \in Position
           /\ GetPosition(tmp_swap.trader, tmp_swap.side).size = positions[tmp_swap.trader].size
           /\ positions[tmp_swap.trader].exists =>
                 GetPosition(tmp_swap.trader, tmp_swap.side) = positions[tmp_swap.trader]
           /\ ~positions[tmp_swap.trader].exists => positions[tmp_swap.trader].size = 0
<1> DEFINE p == positions[tmp_swap.trader]
           fresh == [NoPosition EXCEPT !.exists = TRUE, !.direction = tmp_swap.side,
                                       !.block_number = height]
<1>1. p \in Position /\ (~p.exists => p = NoPosition)
  BY BookFacts DEF BookInv, TypeInv, OnlyStored
<1>2. fresh \in Position
  BY NewPosition
<1>3. fresh.size = 0 /\ NoPosition.size = 0
  BY DEF NoPosition
<1> HIDE DEF fresh
<1>4. GetPosition(tmp_swap.trader, tmp_swap.side) = IF p.exists THEN p ELSE fresh
  BY DEF GetPosition, fresh
<1>5. p.exists \in BOOLEAN
  BY <1>1, PositionFields
<1>6. QED
  BY <1>1, <1>2, <1>3, <1>4, <1>5

\* What the answer makes of the size goes with the direction.
MatchesIn(direction) ==
    \A p \in Position :
        (/\ p.size = positions[tmp_swap.trader].size + Signed(tmp_swap.side, reply.output)
         /\ p.direction = direction)
            => Matches(p)

LEMMA UpdateMatch ==
    ASSUME RecordInv, SafetyInv, BookInv, BookInv', MatchInv, GrowthInv,
           NEW id \in {IncreasePosition, DecreasePosition},
           reply.id = id, NEW direction \in Direction, NEW interest \in Int,
           NEW swapMargin \in Int, NEW marginDelta \in Int, NEW notional \in Nat,
           UpdatePosition(id, direction, interest, swapMargin, marginDelta, notional),
           MatchesIn(direction)
    PROVE  MatchInv' /\ GrowthInv'
<1> DEFINE trader == tmp_swap.trader
           old == GetPosition(tmp_swap.trader, tmp_swap.side)
           change == Signed(tmp_swap.side, reply.output)
           margin == RemainMargin(old, marginDelta)
           premium == vamm_map.cumulative_premium_fraction
           new == [old EXCEPT !.direction = direction, !.notional = notional,
                              !.size = @ + change, !.margin = margin,
                              !.last_updated_premium_fraction = premium,
                              !.block_number = height]
           marginToVault == tmp_swap.margin_to_vault + swapMargin
           toVault ==
              IF marginToVault < 0 THEN Withdraw(tmp_swap.trader, -marginToVault, 0)
              ELSE IF Native THEN <<>>
              ELSE TransferUnlessZero(tmp_swap.trader, Engine, marginToVault)
           fees == IF tmp_swap.fees_paid THEN <<>>
                   ELSE TransferFees(tmp_swap.trader, tmp_swap.open_notional)
           msgs == toVault \o fees
<1>1. /\ HoldingAllowed(new.size, trader)
      /\ RequireAdditionalMargin(new)
      /\ Reply(id, msgs)
      /\ positions' = [positions EXCEPT ![trader] = new]
      /\ vamm_map' = vamm_map
  BY Zenon DEF UpdatePosition
<1>2. id \in SwapIds /\ id \notin LiquidationIds
  BY DistinctIds
<1>3. /\ tmp_swap \in TmpSwap /\ trader \in Traders /\ positions \in [Traders -> Position]
      /\ tmp_swap.side \in Direction /\ height \in Nat
  BY <1>2, AnswerFacts, SwapFields, BookFacts DEF SafetyInv, AmmInv, ReserveInv, TypeOK
<1>4. old \in Position /\ old.size = positions[trader].size
  BY <1>3, OldSize
<1> HIDE DEF old, change, margin, premium
<1>5. new.size = positions[trader].size + change /\ new.direction = direction
  BY <1>4 DEF Position
<1> HIDE DEF new
<1>6. new \in Position
  <2>1. positions' \in [Traders -> Position]
    BY DEF BookInv, TypeInv, ContractTypeOK
  <2>2. positions'[trader] = new
    BY <1>1, <1>3
  <2>3. QED
    BY <1>3, <2>1, <2>2
<1>7. Transfers(msgs)
  <2>1. Transfers(toVault)
    BY WithdrawTransfers, NoTransfer, FeesAreTransfers DEF TransferUnlessZero
  <2>2. Transfers(fees)
    BY NoTransfer, FeesAreTransfers
  <2> HIDE DEF toVault, fees
  <2>3. QED
    BY <2>1, <2>2, BothTransfers
<1>8. MarginRatio(new) >= engine_config.maintenance_margin_ratio
  BY <1>1 DEF RequireAdditionalMargin
<1>9. new.size = positions[trader].size + Moved /\ Matches(new)
  <2>1. Moved = change
    BY DEF Moved, change
  <2>2. QED
    BY <1>5, <1>6, <2>1 DEF change, MatchesIn
<1> HIDE DEF toVault, fees, msgs
<1>10. MatchInv'
  BY <1>1, <1>2, <1>6, <1>9, HandledMatch
<1>11. GrowthInv'
  BY <1>1, <1>2, <1>6, <1>7, <1>8, HandledGrowth
<1>12. QED
  BY <1>10, <1>11

LEMMA IncreaseMatch ==
    ASSUME RecordInv, SafetyInv, BookInv, BookInv', MatchInv, GrowthInv, IncreasePositionReply
    PROVE  MatchInv' /\ GrowthInv'
<1> DEFINE trader == tmp_swap.trader
           old == GetPosition(tmp_swap.trader, tmp_swap.side)
           swapMargin == (tmp_swap.open_notional * Decimals) \div tmp_swap.leverage
           notional == old.notional + tmp_swap.open_notional
<1>1. /\ reply.id = IncreasePosition
      /\ UpdatePosition(IncreasePosition, tmp_swap.side, reply.input, swapMargin, swapMargin,
                        notional)
  BY Zenon DEF IncreasePositionReply
<1>2. IncreasePosition \in SwapIds
  BY DistinctIds
<1>3. /\ tmp_swap \in TmpSwap /\ trader \in Traders /\ positions[trader] \in Position
      /\ Fits(IncreasePosition, positions[trader], tmp_swap) /\ ~Idle
      /\ reply.input \in Nat /\ reply.output \in Nat
  BY <1>1, <1>2, AnswerFacts
<1>4. /\ tmp_swap.side \in Direction /\ tmp_swap.open_notional \in Nat /\ tmp_swap.leverage \in Nat
      /\ tmp_swap.leverage # 0 /\ height \in Nat
  BY <1>3, SwapFields, DistinctIds DEF Fits, SafetyInv, AmmInv, ReserveInv, TypeOK
<1>5. /\ ~positions[trader].exists => positions[trader].size = 0
      /\ old.notional \in Nat
  BY <1>3, <1>4, OldSize, PositionFields
<1>6. swapMargin \in Int
  <2>1. tmp_swap.open_notional * Decimals \in Nat /\ tmp_swap.leverage \in Nat \ {0}
    BY <1>4, ProductType, DecimalsAssumption, SMT
  <2>2. swapMargin \in Nat
    BY <2>1, DivMod
  <2>3. QED
    BY <2>2, SMT
<1>7. notional \in Nat /\ reply.input \in Int
  BY <1>3, <1>4, <1>5, SMT
<1>8. ASSUME NEW p \in Position,
             p.size = positions[tmp_swap.trader].size + Signed(tmp_swap.side, reply.output),
             p.direction = tmp_swap.side
      PROVE  Matches(p)
  <2>1. positions[trader].direction = tmp_swap.side \/ positions[trader].size = 0
    BY <1>3, <1>5 DEF Fits
  <2>2. Matches(positions[trader])
    BY <1>3 DEF MatchInv, Balanced
  <2>3. positions[trader].size \in Int
    BY <1>3, PositionFields
  <2>4. QED
    BY <1>3, <1>4, <1>8, <2>1, <2>2, <2>3, SMT
       DEF Matches, Signed, Direction, AddToAmm, RemoveFromAmm
<1>9. MatchesIn(tmp_swap.side)
  BY <1>8 DEF MatchesIn
<1> HIDE DEF old, swapMargin, notional
<1>10. QED
  BY <1>1, <1>4, <1>6, <1>7, <1>9, UpdateMatch

\* A decrease takes off no more than there is, of either sign.
LEMMA StaysOnItsSide ==
    ASSUME NEW p \in Position, Matches(p), NEW side \in Direction, NEW amount \in Nat,
           amount <= Abs(p.size), amount # 0 => side = Flip(p.direction),
           NEW q \in Position, q.direction = p.direction,
           q.size = p.size + Signed(side, amount)
    PROVE  Matches(q) /\ Abs(q.size) <= Abs(p.size)
<1>1. p.size \in Int /\ q.size \in Int /\ p.direction \in Direction
  BY PositionFields
<1>2. QED
  BY <1>1, SMT DEF Matches, Signed, Abs, Flip, Direction, AddToAmm, RemoveFromAmm

LEMMA DecreaseMatch ==
    ASSUME RecordInv, SafetyInv, BookInv, BookInv', MatchInv, GrowthInv, DecreasePositionReply
    PROVE  MatchInv' /\ GrowthInv'
<1> DEFINE trader == tmp_swap.trader
           old == GetPosition(tmp_swap.trader, tmp_swap.side)
           realized == RealizedPnl(old, reply.output)
           notional == RemainingNotional(old, realized)
<1>1. /\ reply.id = DecreasePosition
      /\ UpdatePosition(DecreasePosition, old.direction, -reply.input, 0, realized, notional)
  BY Zenon DEF DecreasePositionReply
<1>2. DecreasePosition \in SwapIds
  BY DistinctIds
<1>3. /\ tmp_swap \in TmpSwap /\ trader \in Traders /\ positions[trader] \in Position
      /\ Fits(DecreasePosition, positions[trader], tmp_swap)
      /\ reply.input \in Nat /\ reply.output \in Nat
  BY <1>1, <1>2, AnswerFacts
<1>4. IsPosition(old) /\ tmp_swap.side \in Direction
  BY <1>3, SwapFields, StoredOrNew DEF SafetyInv
<1>5. /\ old.direction \in Direction /\ realized \in Int /\ notional \in Nat
  BY <1>3, <1>4, ProfitTypes DEF IsPosition
<1>6. -reply.input \in Int /\ 0 \in Int
  BY <1>3, SMT
<1>7. old = positions[trader] /\ positions[trader].direction # tmp_swap.side
  BY <1>3 DEF Fits, GetPosition
<1>8. ASSUME NEW p \in Position,
             p.size = positions[tmp_swap.trader].size + Signed(tmp_swap.side, reply.output),
             p.direction = old.direction
      PROVE  Matches(p)
  <2>1. reply.output <= Abs(positions[trader].size) /\ Matches(positions[trader])
    BY <1>1, <1>3 DEF MatchInv, Balanced
  <2>2. tmp_swap.side = Flip(positions[trader].direction)
    BY <1>3, <1>4, <1>7, PositionFields DEF Flip, Direction
  <2>3. QED
    BY <1>3, <1>4, <1>7, <1>8, <2>1, <2>2, StaysOnItsSide
<1>9. MatchesIn(old.direction)
  BY <1>8 DEF MatchesIn
<1> HIDE DEF old, realized, notional
<1>10. QED
  BY <1>1, <1>5, <1>6, <1>9, UpdateMatch

\* The replies that leave the position no larger.
Shrinks(p, new) == new.size = p.size + Moved /\ Matches(new) /\ Abs(new.size) <= Abs(p.size)

LEMMA ShrunkMatch ==
    ASSUME RecordInv, SafetyInv, BookInv, BookInv', MatchInv, GrowthInv,
           NEW id \in SwapIds, NEW msgs, Reply(id, msgs),
           NEW new, positions' = [positions EXCEPT ![tmp_swap.trader] = new],
           Shrinks(positions[tmp_swap.trader], new)
    PROVE  MatchInv' /\ GrowthInv'
<1>1. tmp_swap.trader \in Traders /\ positions \in [Traders -> Position]
  BY AnswerFacts, BookFacts DEF Reply
<1>2. new \in Position
  <2>1. positions' \in [Traders -> Position]
    BY DEF BookInv, TypeInv, ContractTypeOK
  <2>2. positions'[tmp_swap.trader] = new
    BY <1>1
  <2>3. QED
    BY <1>1, <2>1, <2>2
<1>3. MatchInv'
  BY <1>2, HandledMatch DEF Shrinks
<1>4. GrowthInv'
  BY <1>2, HandledGrowth DEF Shrinks
<1>5. QED
  BY <1>3, <1>4

\* A position of no size: a reversal's, or one that is closed.
LEMMA ClosedMatch ==
    ASSUME RecordInv, SafetyInv, BookInv, BookInv', MatchInv, GrowthInv,
           NEW id \in {ReversePosition, ClosingPosition, Liquidation}, NEW msgs, Reply(id, msgs),
           NEW new, positions' = [positions EXCEPT ![tmp_swap.trader] = new], new.size = 0
    PROVE  MatchInv' /\ GrowthInv'
<1> PICK size : size = positions[tmp_swap.trader].size
  OBVIOUS
<1>1. id \in SwapIds /\ reply.id = id
      /\ id \notin {IncreasePosition, DecreasePosition, PartialClosePosition}
  BY DistinctIds DEF Reply
<1>2. size \in Int
  BY <1>1, AnswerFacts, PositionFields
<1>3. Moved = -size
  BY <1>1, Zenon DEF Moved
<1>4. Shrinks(positions[tmp_swap.trader], new)
  BY <1>2, <1>3, SMT DEF Shrinks, Matches, Abs
<1>5. QED
  BY <1>1, <1>4, ShrunkMatch

LEMMA CloseMatch ==
    ASSUME RecordInv, SafetyInv, BookInv, BookInv', MatchInv, GrowthInv,
           ReversePositionReply \/ ClosePositionReply \/ LiquidateReply
    PROVE  MatchInv' /\ GrowthInv'
<1>1. NoPosition.size = 0
  BY DEF NoPosition
<1>2. CASE ReversePositionReply
  <2> PICK old : old = GetPosition(tmp_swap.trader, tmp_swap.side)
    OBVIOUS
  <2>1. /\ positions' = [positions EXCEPT ![tmp_swap.trader] = Clear(old)]
        /\ reply.id = ReversePosition
        /\ \E msgs : Reply(ReversePosition, msgs)
    BY <1>2, Zenon DEF ReversePositionReply
  <2>2. Clear(old).size = 0
    <3>1. old \in Position
      <4>1. /\ tmp_swap \in TmpSwap /\ tmp_swap.trader \in Traders
            /\ height \in Nat /\ tmp_swap.side \in Direction
        BY <2>1, AnswerFacts, DistinctIds, SwapFields DEF SafetyInv, AmmInv, ReserveInv, TypeOK
      <4>2. QED
        BY <4>1, OldSize
    <3>2. height \in Nat
      BY DEF SafetyInv, AmmInv, ReserveInv, TypeOK
    <3>3. QED
      BY <3>1, <3>2, ClearedPosition
  <2>3. QED
    BY <2>1, <2>2, ClosedMatch
<1>3. CASE ClosePositionReply
  <2>1. /\ positions' = [positions EXCEPT ![tmp_swap.trader] = NoPosition]
        /\ \E msgs : Reply(ClosingPosition, msgs)
    BY <1>3, Zenon DEF ClosePositionReply
  <2>2. QED
    BY <1>1, <2>1, ClosedMatch
<1>4. CASE LiquidateReply
  <2>1. /\ positions' = [positions EXCEPT ![tmp_swap.trader] = NoPosition]
        /\ \E msgs : Reply(Liquidation, msgs)
    BY <1>4, Zenon DEF LiquidateReply
  <2>2. QED
    BY <1>1, <2>1, ClosedMatch
<1>5. QED
  BY <1>2, <1>3, <1>4

LEMMA PartialCloseMatch ==
    ASSUME RecordInv, SafetyInv, BookInv, BookInv', MatchInv, GrowthInv,
           PartialClosePositionReply
    PROVE  MatchInv' /\ GrowthInv'
<1> DEFINE old == positions[tmp_swap.trader]
           realized == RealizedPnl(old, reply.output)
           change == Signed(tmp_swap.side, reply.output)
           margin == RemainMargin(old, realized)
           notional == RemainingNotional(old, realized)
           premium == vamm_map.cumulative_premium_fraction
           new == [old EXCEPT !.size = @ + change, !.margin = margin, !.notional = notional,
                              !.last_updated_premium_fraction = premium,
                              !.block_number = height]
           fees == TransferFees(tmp_swap.trader, tmp_swap.open_notional)
<1>1. /\ reply.id = PartialClosePosition
      /\ Reply(PartialClosePosition, fees)
      /\ positions' = [positions EXCEPT ![tmp_swap.trader] = new]
  BY Zenon DEF PartialClosePositionReply
<1>2. PartialClosePosition \in SwapIds /\ PartialClosePosition \notin TradeIds
  BY DistinctIds
<1>3. /\ tmp_swap \in TmpSwap /\ tmp_swap.trader \in Traders /\ old \in Position
      /\ Fits(PartialClosePosition, old, tmp_swap) /\ reply.output \in Nat
  BY <1>1, <1>2, AnswerFacts
<1>4. Moved = change
  BY <1>1 DEF Moved
<1> HIDE DEF change, margin, notional, premium
<1>5. new.size = old.size + change /\ new.direction = old.direction
  BY <1>3 DEF Position
<1> HIDE DEF new
<1>6. new \in Position
  <2>1. positions' \in [Traders -> Position]
    BY DEF BookInv, TypeInv, ContractTypeOK
  <2>2. positions'[tmp_swap.trader] = new
    BY <1>1, <1>3, BookFacts
  <2>3. QED
    BY <1>3, <2>1, <2>2
<1>7. reply.output <= Abs(old.size) /\ Matches(old)
  BY <1>1, <1>3 DEF MatchInv, Balanced
<1>8. tmp_swap.side \in Direction /\ tmp_swap.side = Flip(old.direction)
  <2>1. tmp_swap.side = IF old.size > 0 THEN RemoveFromAmm ELSE AddToAmm
    BY <1>3 DEF Fits
  <2>2. old.size # 0 /\ old.size \in Int /\ old.direction \in Direction
    BY <1>2, <1>3, PositionFields DEF Fits
  <2> HIDE DEF old
  <2>3. QED
    BY <1>7, <2>1, <2>2, SMT DEF Matches, Flip, Direction, AddToAmm, RemoveFromAmm
<1>9. Shrinks(old, new)
  <2>1. new.size = old.size + Signed(tmp_swap.side, reply.output)
    BY <1>5 DEF change
  <2>2. Matches(new) /\ Abs(new.size) <= Abs(old.size)
    BY <1>3, <1>5, <1>6, <1>7, <1>8, <2>1, StaysOnItsSide
  <2>3. QED
    BY <1>4, <1>5, <2>2 DEF Shrinks
<1> HIDE DEF fees
<1>10. QED
  BY <1>1, <1>2, <1>9, ShrunkMatch

LEMMA PartialLiquidationMatch ==
    ASSUME RecordInv, SafetyInv, BookInv, BookInv', MatchInv, GrowthInv, PartialLiquidationReply
    PROVE  MatchInv' /\ GrowthInv'
<1> PICK old : old = positions[tmp_swap.trader]
  OBVIOUS
<1> DEFINE size == IF old.size < 0 THEN old.size + reply.input ELSE old.size - reply.input
<1>1. PICK margin, notional, msgs :
         /\ reply.id = PartialLiquidation
         /\ Reply(PartialLiquidation, msgs)
         /\ positions' = [positions EXCEPT ![tmp_swap.trader] =
                             [old EXCEPT !.size = size, !.margin = margin, !.notional = notional]]
  BY Zenon DEF PartialLiquidationReply
<1> DEFINE new == [old EXCEPT !.size = size, !.margin = margin, !.notional = notional]
<1>2. PartialLiquidation \in SwapIds /\ PartialLiquidation \notin TradeIds
      /\ PartialLiquidation \notin {IncreasePosition, DecreasePosition, PartialClosePosition,
                                    ReversePosition, ClosingPosition, Liquidation}
  BY DistinctIds
<1>3. tmp_swap.trader \in Traders /\ old \in Position /\ reply.input \in Nat
  BY <1>1, <1>2, AnswerFacts
<1>4. Moved = IF old.size < 0 THEN reply.input ELSE -reply.input
  BY <1>1, <1>2, Zenon DEF Moved
<1>5. new.size = size /\ new.direction = old.direction
  BY <1>3 DEF Position
<1> HIDE DEF new
<1>6. reply.input <= Abs(old.size) /\ Matches(old)
  BY <1>1, <1>3 DEF MatchInv, Balanced
<1>7. old.size \in Int
  BY <1>3, PositionFields
<1>8. Shrinks(old, new)
  <2> PICK n, d, m, q : n = old.size /\ d = old.direction /\ m = Moved /\ q = reply.input
    OBVIOUS
  <2>1. /\ new.size = IF n < 0 THEN n + q ELSE n - q
        /\ new.size \in Int /\ new.direction = d
        /\ m = IF n < 0 THEN q ELSE -q
    BY <1>3, <1>4, <1>5, <1>7, SMT
  <2>2. q <= Abs(n) /\ n \in Int /\ q \in Nat /\ (n > 0 => d = AddToAmm)
        /\ (n < 0 => d = RemoveFromAmm)
    BY <1>3, <1>6, <1>7 DEF Matches
  <2>3. new.size = n + m /\ Abs(new.size) <= Abs(n)
    BY <2>1, <2>2, SMT DEF Abs
  <2>4. Matches(new)
    BY <2>1, <2>2, SMT DEF Matches, Abs
  <2>5. QED
    BY <2>3, <2>4 DEF Shrinks
<1>9. positions' = [positions EXCEPT ![tmp_swap.trader] = new]
  BY <1>1 DEF new
<1>10. QED
  BY <1>1, <1>2, <1>8, <1>9, ShrunkMatch

-----------------------------------------------------------------------------
(* The other steps *)

\* A transaction begins: the sizes are those it is compared with.
LEMMA BegunMatch ==
    ASSUME RecordInv, BookInv, BookInv', MatchInv,
           NEW sender, NEW funds, NEW msgs, BeginWith(sender, funds, msgs),
           \A trader \in Traders : positions'[trader].size = positions[trader].size
                                     /\ positions'[trader].direction = positions[trader].direction
    PROVE  MatchInv' /\ GrowthInv'
<1>1. Idle /\ checkpoint' = <<Saved>> /\ UNCHANGED <<vars, reply>>
  BY DEF BeginWith
<1>2. Start' = Saved
  <2>1. Head(<<Saved>>) = Saved
    BY HeadOfOne
  <2>2. QED
    BY <1>1, <2>1 DEF Start
<1>3. reply.id \notin SwapIds /\ reply'.id \notin SwapIds
  BY <1>1, IdleIsClean, NothingMoved
<1>4. total_position_size' = total_position_size
  BY <1>1 DEF vars, state
<1>5. MatchInv'
  BY <1>1, <1>2, <1>3, <1>4, QuietMatch
<1>6. Saved.positions = positions
  BY DEF Saved
<1>7. \A trader \in Traders : positions[trader].size \in Int
  BY BookFacts, PositionFields
<1>8. \A trader \in Traders : Abs(positions[trader].size) <= Abs(positions[trader].size)
  BY <1>7, SMT DEF Abs
<1>9. GrowthInv'
  BY <1>2, <1>6, <1>8 DEF GrowthInv
<1>10. QED
  BY <1>5, <1>9

LEMMA RequestMatch ==
    ASSUME RecordInv, BookInv, BookInv', MatchInv, Request
    PROVE  MatchInv' /\ GrowthInv'
<1>1. positions \in [Traders -> Position]
  BY BookFacts
<1> DEFINE Begun == \E sender, funds, msgs : BeginWith(sender, funds, msgs)
<1>2. ASSUME Begun, UNCHANGED book
      PROVE  MatchInv' /\ GrowthInv'
  BY <1>2, BegunMatch DEF book
<1>3. ASSUME NEW trader, NEW side, NEW margin, NEW leverage, NEW limit, NEW funds,
             OpenPosition(trader, side, margin, leverage, limit, funds)
      PROVE  Begun /\ UNCHANGED book
  BY <1>3, Zenon DEF OpenPosition
<1>4. ASSUME NEW trader, NEW limit, NEW funds,
           ClosePosition(trader, limit, funds)
      PROVE  Begun /\ UNCHANGED book
  BY <1>4, Zenon DEF ClosePosition, Begin
<1>5. ASSUME NEW sender, NEW trader, NEW limit, NEW oracle, NEW funds,
             Liquidate(sender, trader, limit, oracle, funds)
      PROVE  Begun /\ UNCHANGED book
  BY <1>5, Zenon DEF Liquidate, Begin
<1>6. ASSUME NEW sender, NEW funds, PayFunding(sender, funds)
      PROVE  Begun /\ UNCHANGED book
  BY <1>6, Zenon DEF PayFunding, Begin
<1>7. ASSUME NEW trader, NEW amount, NEW funds, DepositMargin(trader, amount, funds)
      PROVE  MatchInv' /\ GrowthInv'
  <2>1. Begun /\ positions' = [positions EXCEPT ![trader].margin = @ + amount]
    BY <1>7, Zenon DEF DepositMargin
  <2>2. \A other \in Traders : positions'[other].size = positions[other].size
                                 /\ positions'[other].direction = positions[other].direction
    BY <1>1, <2>1 DEF Position
  <2>3. QED
    BY <2>1, <2>2, BegunMatch
<1>8. ASSUME NEW trader, NEW amount, NEW funds,
             WithdrawMargin(trader, amount, funds)
      PROVE  MatchInv' /\ GrowthInv'
  <2> DEFINE margin == RemainMargin(positions[trader], -amount)
             premium == vamm_map.cumulative_premium_fraction
  <2>1. Begun /\ positions' = [positions EXCEPT ![trader].margin = margin,
                                                ![trader].last_updated_premium_fraction = premium]
    BY <1>8, Zenon DEF WithdrawMargin, Begin
  <2> HIDE DEF margin, premium
  <2>2. \A other \in Traders : positions'[other].size = positions[other].size
                                 /\ positions'[other].direction = positions[other].direction
    BY <1>1, <2>1 DEF Position
  <2>3. QED
    BY <2>1, <2>2, BegunMatch
<1> HIDE DEF Begun
<1>9. QED
  BY <1>2, <1>3, <1>4, <1>5, <1>6, <1>7, <1>8, Zenon DEF Request

\* Within a transaction, a step that leaves the positions alone.
LEMMA KeptGrowth ==
    ASSUME GrowthInv, ~Idle, Start' = Start, positions' = positions,
           Settled => Settled' /\ UNCHANGED <<vars, vamm_map, engine_config, whitelist>>
    PROVE  GrowthInv'
<1>1. ASSUME Settled, NEW trader, Backed(trader)
      PROVE  Backed(trader)'
  <2>1. UNCHANGED <<vars, vamm_map, engine_config, whitelist>>
    BY <1>1
  <2>2. PICK p \in Position :
           /\ p = positions[trader] /\ HoldingAllowed(p.size, trader)
           /\ MarginRatio(p) >= engine_config.maintenance_margin_ratio
           /\ ~Restricted(Start, trader)
    BY <1>1 DEF Backed
  <2>3. MarginRatio(p)' = MarginRatio(p)
    BY <2>1, RatioKept
  <2>4. HoldingAllowed(p.size, trader)'
    BY <2>1, <2>2 DEF HoldingAllowed
  <2>5. ~Restricted(Start, trader)'
    BY <2>1, <2>2 DEF Restricted, vars
  <2>6. MarginRatio(p)' >= engine_config'.maintenance_margin_ratio /\ p = positions'[trader]
    BY <2>1, <2>2, <2>3
  <2>7. QED
    BY <2>4, <2>5, <2>6 DEF Backed
<1>2. QED
  BY <1>1 DEF GrowthInv

LEMMA TransferMatch ==
    ASSUME RecordInv, BookInv, BookInv', MatchInv, GrowthInv, ExecuteTransfer
    PROVE  MatchInv' /\ GrowthInv'
<1>1. Execute("transfer") /\ reply' = reply /\ UNCHANGED vars
  BY Zenon DEF ExecuteTransfer
<1>2. /\ ~Idle /\ Start' = Start /\ AwaitedId' = AwaitedId /\ reply = NoReply
      /\ UNCHANGED <<engine_config, whitelist, vamm_map, positions>>
  BY <1>1, ExecutedFacts
<1>3. reply.id \notin SwapIds /\ reply'.id \notin SwapIds
  BY <1>1, <1>2, NothingMoved
<1>4. total_position_size' = total_position_size
  BY <1>1 DEF vars, state
<1>5. MatchInv'
  BY <1>2, <1>3, <1>4, QuietMatch
<1>6. Settled => Settled'
  BY <1>2 DEF Settled
<1>7. GrowthInv'
  BY <1>1, <1>2, <1>6, KeptGrowth
<1>8. QED
  BY <1>5, <1>7

LEMMA FundingMatch ==
    ASSUME RecordInv, BookInv, BookInv', MatchInv, GrowthInv, NEW underlying,
           ExecuteFunding(underlying)
    PROVE  MatchInv' /\ GrowthInv'
<1>1. /\ Execute("settle_funding") /\ reply'.id = Funding
      /\ total_position_size' = total_position_size
  BY DEF ExecuteFunding, SettleFunding
<1>2. Head(queue).id = Funding
  BY <1>1, RestOfQueue DEF Execute, RecordInv, RecordsAreAwaited
<1>3. /\ ~Idle /\ Start' = Start /\ AwaitedId = Funding /\ reply = NoReply
      /\ positions' = positions
  BY <1>1, <1>2, ExecutedFacts
<1>4. reply.id \notin SwapIds /\ reply'.id \notin SwapIds
  BY <1>1, <1>3, NothingMoved, ReplyIds
<1>5. MatchInv'
  BY <1>1, <1>3, <1>4, QuietMatch
<1>6. GrowthInv'
  BY <1>3, KeptGrowth DEF Settled
<1>7. QED
  BY <1>5, <1>6

LEMMA SwapGrowth ==
    ASSUME RecordInv, SafetyInv, BookInv, GrowthInv, ExecuteSwap
    PROVE  GrowthInv'
<1> PICK m : m = Head(queue)
  OBVIOUS
<1>1. Swapped(m) /\ SoundMessage(m)
  BY SwapIsAnswered
<1>2. PICK kind \in {"swap_input", "swap_output"} : Execute(kind)
  BY Zenon DEF ExecuteSwap
<1>3. m.kind = kind /\ reply'.id = m.id
  BY <1>1, <1>2 DEF Swapped, Execute
<1>4. ~Idle /\ Start' = Start /\ AwaitedId = m.id /\ positions' = positions
  BY <1>2, <1>3, ExecutedFacts
<1>5. m.id \in SwapIds
  BY <1>1, <1>2, <1>3 DEF SoundMessage
<1>6. QED
  BY <1>4, <1>5, KeptGrowth DEF Settled

LEMMA PayFundingReplyMatch ==
    ASSUME RecordInv, BookInv, BookInv', MatchInv, GrowthInv, PayFundingReply
    PROVE  MatchInv' /\ GrowthInv'
<1>1. /\ reply.id = Funding /\ reply' = NoReply /\ positions' = positions
      /\ UNCHANGED <<total_position_size, checkpoint>>
  BY Zenon DEF PayFundingReply, Reply, vars, state
<1>2. queue = <<>> /\ ~Idle
  BY <1>1, ReplyIds, AnswerHandled
<1>3. AwaitedId = Funding
  BY <1>1, <1>2, NoTransfer, QueueOfTransfers DEF AwaitedId, Awaits
<1>4. Start' = Start
  BY <1>1 DEF Start
<1>5. reply.id \notin SwapIds /\ reply'.id \notin SwapIds
  BY <1>1, NothingMoved, ReplyIds
<1>6. MatchInv'
  BY <1>1, <1>2, <1>4, <1>5, QuietMatch
<1>7. GrowthInv'
  BY <1>1, <1>2, <1>3, <1>4, KeptGrowth DEF Settled
<1>8. QED
  BY <1>6, <1>7

\* Undone, the transaction leaves the sizes it began with.
LEMMA EndMatch ==
    ASSUME RecordInv, BookInv, BookInv', MatchInv, Commit \/ Abort
    PROVE  MatchInv' /\ GrowthInv'
<1>1. Idle'
  BY Zenon DEF Commit, Abort, Idle
<1>2. GrowthInv'
  BY <1>1 DEF GrowthInv
<1>3. CASE Commit
  <2>1. /\ reply = NoReply /\ reply' = reply /\ positions' = positions
        /\ total_position_size' = total_position_size
    BY <1>3, Zenon DEF Commit, book, vars, state
  <2>2. reply.id \notin SwapIds /\ reply'.id \notin SwapIds
    BY <2>1, NothingMoved
  <2>3. QED
    BY <1>1, <1>2, <2>1, <2>2, QuietMatch
<1>4. CASE Abort
  <2>1. /\ ~Idle /\ reply' = NoReply /\ positions' = Start.positions
        /\ total_position_size' = Start.total_position_size
    BY <1>4, Zenon DEF Abort, Start
  <2>2. reply'.id \notin SwapIds /\ Moved' = 0
    BY <2>1, NothingMoved
  <2>3. Balanced(Start.total_position_size, Start.positions, 0)
    BY <2>1 DEF MatchInv
  <2>4. Balanced(total_position_size, positions, Moved)'
    BY <2>1, <2>2, <2>3
  <2>5. reply'.id \notin {DecreasePosition, PartialClosePosition, PartialLiquidation}
    BY <2>2 DEF SwapIds, TradeIds, LiquidationIds
  <2>6. QED
    BY <1>1, <1>2, <2>4, <2>5 DEF MatchInv
<1>5. QED
  BY <1>3, <1>4

LEMMA OutsideMatch ==
    ASSUME RecordInv, BookInv, BookInv', MatchInv, Govern \/ Surroundings
    PROVE  MatchInv' /\ GrowthInv'
<1>1. /\ Idle /\ UNCHANGED <<positions, reply, checkpoint, total_position_size>>
  <2>1. CASE Govern
    <3>1. UNCHANGED book => UNCHANGED positions
      BY DEF book
    <3>2. UNCHANGED vars => UNCHANGED total_position_size
      BY DEF vars, state
    <3>3. /\ Idle /\ UNCHANGED <<vars, reply, checkpoint>>
          /\ UNCHANGED positions \/ UNCHANGED book
      BY <2>1, Zenon DEF Govern, SetPause, UpdateEngineConfig, Administer, UpdatePauser,
         AddWhitelist, RemoveWhitelist
    <3>4. QED
      BY <3>1, <3>2, <3>3
  <2>2. CASE Idle /\ (Admin \/ NextBlock) /\ UNCHANGED runtime
    <3>1. UNCHANGED <<positions, reply, checkpoint>>
      BY <2>2 DEF runtime, book
    <3>2. UNCHANGED total_position_size \/ UNCHANGED state
      BY <2>2 DEF Admin, NextBlock, UpdateConfig, UpdateOwner, SetOpen
    <3>3. QED
      BY <2>2, <3>1, <3>2 DEF state
  <2>3. CASE \E fund \in RegistryChoices : ChangeRegistry(fund)
    BY <2>3 DEF ChangeRegistry, book, vars, state
  <2>4. QED
    BY <2>1, <2>2, <2>3 DEF Surroundings
<1>2. Idle'
  BY <1>1 DEF Idle
<1>3. reply.id \notin SwapIds /\ reply'.id \notin SwapIds
  BY <1>1, IdleIsClean, NothingMoved
<1>4. MatchInv'
  BY <1>1, <1>2, <1>3, QuietMatch
<1>5. GrowthInv'
  BY <1>2 DEF GrowthInv
<1>6. QED
  BY <1>4, <1>5

LEMMA StutterMatch ==
    ASSUME MatchInv, GrowthInv, UNCHANGED allVars
    PROVE  MatchInv' /\ GrowthInv'
<1>1. UNCHANGED <<positions, reply, checkpoint, total_position_size, vars, vamm_map,
                  engine_config, whitelist, tmp_swap, queue>>
  BY DEF allVars, engineVars, runtime, settings, book, temporary, vars, state
<1>2. Start' = Start /\ Idle' = Idle /\ Moved' = Moved /\ Settled' = Settled
  BY <1>1 DEF Start, Idle, Moved, Settled, AwaitedId, Awaits, CallsAmm
<1>3. MatchInv'
  BY <1>1, <1>2 DEF MatchInv
<1>4. CASE Idle
  BY <1>2, <1>3, <1>4 DEF GrowthInv
<1>5. CASE ~Idle
  <2>1. GrowthInv'
    BY <1>1, <1>2, <1>5, KeptGrowth
  <2>2. QED
    BY <1>3, <2>1
<1>6. QED
  BY <1>3, <1>4, <1>5

\* Every step, in a market that is ordinary before it.
LEMMA NextMatch ==
    ASSUME RecordInv, SafetyInv, BookInv, MatchInv, GrowthInv, OrdinaryMarket,
           [EngineNext]_allVars
    PROVE  MatchInv' /\ GrowthInv'
<1>1. BookInv'
  BY NextBook
<1>2. CASE Request
  BY <1>1, <1>2, RequestMatch
<1>3. CASE Deliver
  BY <1>1, <1>3, TransferMatch, SwapMatch, SwapGrowth, FundingMatch DEF Deliver
<1>4. CASE Handle
  BY <1>1, <1>4, IncreaseMatch, DecreaseMatch, CloseMatch, PartialCloseMatch,
     PartialLiquidationMatch, PayFundingReplyMatch DEF Handle
<1>5. CASE Commit \/ Abort
  BY <1>1, <1>5, EndMatch
<1>6. CASE Govern \/ Surroundings
  BY <1>1, <1>6, OutsideMatch
<1>7. CASE UNCHANGED allVars
  BY <1>7, StutterMatch
<1>8. QED
  BY <1>2, <1>3, <1>4, <1>5, <1>6, <1>7 DEF EngineNext

LEMMA InitMatch ==
    ASSUME EngineInit
    PROVE  MatchInv /\ GrowthInv
<1>1. /\ Idle /\ reply = NoReply /\ total_position_size = 0
      /\ positions = [trader \in Traders |-> NoPosition]
  BY DEF EngineInit, Idle, Init
<1>2. Moved = 0
  BY <1>1, NothingMoved
<1>3. reply.id \notin {DecreasePosition, PartialClosePosition, PartialLiquidation}
  BY <1>1, NothingMoved DEF SwapIds, TradeIds, LiquidationIds
<1>4. Total(positions) = 0
  <2>1. /\ \A x \in Traders : Sizes(positions)[x] = 0
    BY <1>1 DEF Sizes, NoPosition
  <2>2. QED
    BY <2>1, TradersFinite, SumOfZeros DEF Total
<1>5. \A trader \in Traders : Matches(positions[trader])
  BY <1>1, SMT DEF Matches, NoPosition
<1>6. QED
  BY <1>1, <1>2, <1>3, <1>4, <1>5, SMT DEF MatchInv, GrowthInv, Balanced

\* The inductive invariant of what follows, while the market is ordinary.
LEMMA MatchInvariance ==
    EngineSpec /\ []OrdinaryMarket
      => [](RecordInv /\ SafetyInv /\ BookInv /\ MatchInv /\ GrowthInv)
<1>1. EngineInit => MatchInv /\ GrowthInv
  BY InitMatch
<1>2. RecordInv /\ SafetyInv /\ BookInv /\ MatchInv /\ GrowthInv /\ OrdinaryMarket
        /\ [EngineNext]_allVars
      => (MatchInv /\ GrowthInv)'
  BY NextMatch
<1>3. QED
  BY <1>1, <1>2, BookInvariance, PTL DEF EngineSpec

\* What the engine's books add up to is what the AMM has sold: between
\* transactions, after whatever trades, reversals, closes, liquidations, fundings
\* and failures, while the market is ordinary.
THEOREM PositionsAgreeWithAmm == EngineSpec /\ []OrdinaryMarket => []PositionsMatchAmm
<1>1. RecordInv /\ BookInv /\ MatchInv => PositionsMatchAmm
  <2>1. SUFFICES ASSUME RecordInv, BookInv, MatchInv, Idle
                 PROVE  SumFunction(Sizes(positions)) = total_position_size
    BY DEF PositionsMatchAmm, Sizes
  <2>2. Moved = 0
    BY <2>1, IdleIsClean, NothingMoved
  <2>3. total_position_size = Total(positions) + 0
    BY <2>1, <2>2 DEF MatchInv, Balanced
  <2>4. Total(positions) \in Int
    BY <2>1, BookFacts, TotalFacts
  <2>5. DOMAIN Sizes(positions) = Traders
    BY DEF Sizes
  <2>6. SumFunction(Sizes(positions)) = Total(positions)
    BY <2>5, Zenon DEF SumFunction, SumFunctionOnSet, FoldFunction, FoldFunctionOnSet, Total
  <2>7. QED
    BY <2>3, <2>4, <2>6, SMT
<1>2. QED
  BY <1>1, MatchInvariance, PTL

\* No reply leaves a position whose direction, by which it is closed, is not
\* that of its size, while the market is ordinary.
THEOREM DirectionsFollowSizes == EngineSpec /\ []OrdinaryMarket => []DirectionMatchesSize
<1>1. MatchInv => DirectionMatchesSize
  BY DEF MatchInv, Balanced, Matches, DirectionMatchesSize
<1>2. QED
  BY <1>1, MatchInvariance, PTL

\* What a transaction that ends has let grow is backed.
LEMMA GrownIsBacked ==
    ASSUME BookInv, GrowthInv, Commit, NEW trader \in Traders,
           Abs(positions[trader].size) > Abs(Head(checkpoint).positions[trader].size)
    PROVE  Backed(trader)
<1>1. ~Idle
  BY DEF Commit
<1>2. positions[trader].size \in Int /\ Start.positions[trader].size \in Int
  BY <1>1, BookFacts, PositionFields
<1>3. ~(Abs(positions[trader].size) <= Abs(Start.positions[trader].size))
  BY <1>2, SMT DEF Abs, Start
<1>4. QED
  BY <1>1, <1>3 DEF GrowthInv

\* Whoever holds more after a transaction than before has the maintenance
\* margin for it (require_additional_margin), also at the end of a reversal, and
\* no close or liquidation lets a position grow, while the market is ordinary.
THEOREM GrowthIsPaidFor == EngineSpec /\ []OrdinaryMarket => GrowthLeavesMargin
<1> DEFINE Backs == Commit => \A trader \in Traders :
              Abs(positions[trader].size) > Abs(Head(checkpoint).positions[trader].size)
                => MarginRatio(positions[trader]) >= engine_config.maintenance_margin_ratio
<1>1. BookInv /\ GrowthInv => [Backs]_allVars
  BY GrownIsBacked DEF Backed
<1> HIDE DEF Backs
<1>2. EngineSpec /\ []OrdinaryMarket => [][Backs]_allVars
  BY <1>1, MatchInvariance, PTL
<1>3. QED
  BY <1>2 DEF Backs, GrowthLeavesMargin

\* Whoever holds more after a transaction than before holds no more than the
\* cap (check_base_asset_holding_cap), by no path through the replies, while
\* the market is ordinary.
THEOREM HoldingsAreCapped == EngineSpec /\ []OrdinaryMarket => HoldingStaysCapped
<1> DEFINE Capped == (Commit /\ HoldingCap # 0) => \A trader \in Traders \ whitelist :
              Abs(positions[trader].size) > Abs(Head(checkpoint).positions[trader].size)
                => Abs(positions[trader].size) <= HoldingCap
<1>1. BookInv /\ GrowthInv => [Capped]_allVars
  BY GrownIsBacked DEF Backed, HoldingAllowed
<1> HIDE DEF Capped
<1>2. EngineSpec /\ []OrdinaryMarket => [][Capped]_allVars
  BY <1>1, MatchInvariance, PTL
<1>3. QED
  BY <1>2 DEF Capped, HoldingStaysCapped

-----------------------------------------------------------------------------
(* The engine implements the book of PerpetualBook *)

\* What is held, sold and in the purses between transactions.
HeldNow == [trader \in Traders |-> Committed(positions, Head(checkpoint).positions)[trader].size]
SoldNow == Committed(total_position_size, Head(checkpoint).total_position_size)
PurseNow == Committed(balance, Head(checkpoint).balance)
BookKept == HeldNow' = HeldNow /\ SoldNow' = SoldNow /\ PurseNow' = PurseNow

LEMMA InBetween ==
    /\ Idle => HeldNow = Sizes(positions) /\ SoldNow = total_position_size /\ PurseNow = balance
    /\ ~Idle => /\ HeldNow = Sizes(Start.positions) /\ SoldNow = Start.total_position_size
                /\ PurseNow = Start.balance
    /\ Idle' => /\ HeldNow' = Sizes(positions') /\ SoldNow' = total_position_size'
                /\ PurseNow' = balance'
    /\ ~Idle' => /\ HeldNow' = Sizes(Start'.positions) /\ SoldNow' = Start'.total_position_size
                 /\ PurseNow' = Start'.balance
BY DEF HeldNow, SoldNow, PurseNow, Committed, Sizes, Start

\* Until a transaction commits nothing of it shows.
LEMMA OnlyCommitShows ==
    ASSUME RecordInv, [EngineNext]_allVars, ~Commit
    PROVE  BookKept
<1>1. CASE Idle /\ checkpoint' = <<Saved>>
  <2>1. ~Idle' /\ Start' = Saved
    BY <1>1, HeadOfOne DEF Idle, Start
  <2>2. /\ Saved.positions = positions /\ Saved.total_position_size = total_position_size
        /\ Saved.balance = balance
    BY DEF Saved
  <2>3. QED
    BY <1>1, <2>1, <2>2, InBetween DEF BookKept
<1>2. CASE checkpoint' = checkpoint /\ (~Idle \/ UNCHANGED <<positions, total_position_size, balance>>)
  <2>1. Idle' = Idle /\ Start' = Start
    BY <1>2 DEF Idle, Start
  <2>2. QED
    BY <1>2, <2>1, InBetween DEF BookKept
<1>3. CASE Abort
  <2>1. /\ ~Idle /\ Idle' /\ positions' = Start.positions /\ balance' = Start.balance
        /\ total_position_size' = Start.total_position_size
    BY <1>3, Zenon DEF Abort, Start, Idle
  <2>2. QED
    BY <2>1, InBetween DEF BookKept
<1>4. Request => Idle /\ checkpoint' = <<Saved>>
  <2> DEFINE Begun == \E sender, funds, msgs : BeginWith(sender, funds, msgs)
  <2>1. ASSUME NEW trader, NEW side, NEW margin, NEW leverage, NEW limit, NEW funds,
               OpenPosition(trader, side, margin, leverage, limit, funds)
        PROVE  Begun
    BY <2>1, Zenon DEF OpenPosition
  <2>2. ASSUME NEW trader, NEW limit, NEW funds, ClosePosition(trader, limit, funds)
        PROVE  Begun
    BY <2>2, Zenon DEF ClosePosition, Begin
  <2>3. ASSUME NEW sender, NEW trader, NEW limit, NEW oracle, NEW funds,
               Liquidate(sender, trader, limit, oracle, funds)
        PROVE  Begun
    BY <2>3, Zenon DEF Liquidate, Begin
  <2>4. ASSUME NEW sender, NEW funds, PayFunding(sender, funds)
        PROVE  Begun
    BY <2>4, Zenon DEF PayFunding, Begin
  <2>5. ASSUME NEW trader, NEW amount, NEW funds,
               DepositMargin(trader, amount, funds) \/ WithdrawMargin(trader, amount, funds)
        PROVE  Begun
    BY <2>5, Zenon DEF DepositMargin, WithdrawMargin, Begin
  <2>6. Begun => Idle /\ checkpoint' = <<Saved>>
    BY DEF BeginWith
  <2> HIDE DEF Begun
  <2>7. Request => Begun
    BY <2>1, <2>2, <2>3, <2>4, <2>5, ZenonT(60) DEF Request
  <2>8. QED
    BY <2>6, <2>7
<1>5. Deliver => checkpoint' = checkpoint /\ ~Idle
  <2>1. Deliver => queue # <<>> /\ checkpoint' = checkpoint
    BY Zenon DEF Deliver, ExecuteTransfer, ExecuteSwap, ExecuteFunding, Execute
  <2>2. QED
    BY <2>1, IdleIsClean
<1>6. Handle => checkpoint' = checkpoint /\ ~Idle
  <2>1. Handle => \E id \in SwapIds \union {Funding} : \E msgs : Reply(id, msgs)
    BY DistinctIds, Zenon DEF Handle, IncreasePositionReply, DecreasePositionReply,
       ReversePositionReply, ClosePositionReply, PartialClosePositionReply, LiquidateReply,
       PartialLiquidationReply, PayFundingReply, UpdatePosition
  <2>2. \A id, msgs : Reply(id, msgs) => checkpoint' = checkpoint /\ reply.id = id
    BY DEF Reply
  <2>3. NoReply.id \notin SwapIds \union {Funding}
    BY NothingMoved DEF NoReply, Funding
  <2>4. QED
    BY <2>1, <2>2, <2>3, IdleIsClean
<1>7. Govern => checkpoint' = checkpoint /\ UNCHANGED <<vars, balance>>
  BY Zenon DEF Govern, SetPause, UpdateEngineConfig, Administer, UpdatePauser, AddWhitelist,
     RemoveWhitelist
<1>8. Govern => UNCHANGED <<positions, total_position_size>>
  <2>1. Govern => UNCHANGED positions \/ UNCHANGED book
    BY Zenon DEF Govern, SetPause, UpdateEngineConfig, Administer, UpdatePauser, AddWhitelist,
       RemoveWhitelist
  <2>2. QED
    BY <1>7, <2>1 DEF book, vars, state
<1>9. Surroundings => checkpoint' = checkpoint /\ UNCHANGED <<positions, total_position_size, balance>>
  <2>1. CASE Idle /\ (Admin \/ NextBlock) /\ UNCHANGED runtime
    <3>1. UNCHANGED <<positions, balance, checkpoint>>
      BY <2>1 DEF runtime, book
    <3>2. UNCHANGED total_position_size \/ UNCHANGED state
      BY <2>1 DEF Admin, NextBlock, UpdateConfig, UpdateOwner, SetOpen
    <3>3. QED
      BY <3>1, <3>2 DEF state
  <2>2. CASE \E fund \in RegistryChoices : ChangeRegistry(fund)
    BY <2>2 DEF ChangeRegistry, book, vars, state
  <2>3. QED
    BY <2>1, <2>2 DEF Surroundings
<1>10. UNCHANGED allVars => checkpoint' = checkpoint
                              /\ UNCHANGED <<positions, total_position_size, balance>>
  BY DEF allVars, engineVars, runtime, book, vars, state
<1>11. QED
  BY <1>1, <1>2, <1>3, <1>4, <1>5, <1>6, <1>7, <1>8, <1>9, <1>10 DEF EngineNext

\* A transaction that commits serves a trader, or settles funding.
LEMMA CommitShows ==
    ASSUME BookInv, MatchInv, Commit
    PROVE  Book!Next
<1>1. /\ ~Idle /\ Idle' /\ reply = NoReply
      /\ UNCHANGED <<positions, total_position_size, balance>>
  BY Zenon DEF Commit, Idle, book, vars, state
<1>2. /\ HeldNow = Sizes(Start.positions) /\ SoldNow = Start.total_position_size
      /\ PurseNow = Start.balance
      /\ HeldNow' = Sizes(positions) /\ SoldNow' = total_position_size /\ PurseNow' = balance
  BY <1>1, InBetween
<1>3. PICK trader \in Traders \union {NoAccount} : Serves(trader)
  BY <1>1 DEF BookInv, OneTraderInv
<1>4. /\ \A other \in Traders \ {trader} : positions[other] = Start.positions[other]
      /\ \A other \in Uninvolved(trader) : balance[other] = Start.balance[other]
  BY <1>3 DEF Serves
<1>5. /\ positions \in [Traders -> Position] /\ Start.positions \in [Traders -> Position]
  BY <1>1, BookFacts
<1>6. /\ total_position_size = Total(positions) /\ Start.total_position_size = Total(Start.positions)
      /\ Total(positions) \in Int /\ Total(Start.positions) \in Int
  <2>1. Moved = 0
    BY <1>1, NothingMoved
  <2>2. QED
    BY <1>1, <1>5, <2>1, TotalFacts, SMT DEF MatchInv, Balanced
<1>7. Book!Supply(PurseNow') = Book!Supply(PurseNow)
  BY <1>1, <1>2 DEF BookInv, OneTraderInv
<1>8. CASE trader \in Traders
  <2>1. positions = [Start.positions EXCEPT ![trader] = positions[trader]]
    BY <1>4, <1>5, <1>8
  <2>2. Total(positions)
          = Total(Start.positions) + (positions[trader].size - Start.positions[trader].size)
    BY <1>5, <1>8, <2>1, TotalFacts
  <2>3. /\ HeldNow'[trader] = positions[trader].size
        /\ HeldNow[trader] = Start.positions[trader].size
        /\ \A other \in Traders \ {trader} : HeldNow'[other] = HeldNow[other]
    BY <1>2, <1>4, <1>8, Zenon DEF Sizes
  <2>4. positions[trader].size \in Int /\ Start.positions[trader].size \in Int
    BY <1>5, <1>8, PositionFields
  <2>5. SoldNow' - SoldNow = HeldNow'[trader] - HeldNow[trader]
    BY <1>2, <1>6, <2>2, <2>3, <2>4, SMT
  <2>6. \A other \in (Traders \ Liquidators) \ {trader} : PurseNow'[other] = PurseNow[other]
    BY <1>2, <1>4, Zenon DEF Uninvolved
  <2>7. Book!Serve(trader)
    BY <1>7, <2>3, <2>5, <2>6, Zenon DEF Book!Serve, HeldNow, SoldNow, PurseNow
  <2>8. QED
    BY <1>8, <2>7 DEF Book!Next
<1>9. CASE trader \notin Traders
  <2>1. positions = Start.positions
    BY <1>4, <1>5, <1>9
  <2>2. HeldNow' = HeldNow /\ SoldNow' = SoldNow
    BY <1>2, <1>6, <2>1
  <2>3. \A other \in Traders \ Liquidators : PurseNow'[other] = PurseNow[other]
    BY <1>2, <1>4, <1>9, Zenon DEF Uninvolved
  <2>4. Book!Settle
    BY <1>7, <2>2, <2>3, Zenon DEF Book!Settle, HeldNow, SoldNow, PurseNow
  <2>5. QED
    BY <2>4 DEF Book!Next
<1>10. QED
  BY <1>8, <1>9

\* While the market is ordinary every transaction, however many submessages and
\* replies it takes, is for a user one step of the book: one trader's position
\* and purse, the AMM following, and collateral neither made nor lost.
THEOREM ExchangeImplementsBook == EngineSpec /\ []OrdinaryMarket => ImplementsBook
<1>1. EngineInit => Book!Init
  <2>1. SUFFICES ASSUME EngineInit PROVE Book!Init
    OBVIOUS
  <2>2. /\ Idle /\ total_position_size = 0
        /\ positions = [trader \in Traders |-> NoPosition]
    BY <2>1 DEF EngineInit, Init, Idle
  <2>3. HeldNow = [trader \in Traders |-> 0] /\ SoldNow = 0
    BY <2>2, InBetween DEF Sizes, NoPosition
  <2>4. QED
    BY <2>3, Zenon DEF Book!Init, HeldNow, SoldNow
<1>2. RecordInv /\ BookInv /\ MatchInv /\ [EngineNext]_allVars
        => Book!Next \/ BookKept
  BY OnlyCommitShows, CommitShows
<1>3. BookKept => UNCHANGED <<[trader \in Traders |->
                                  Committed(positions, Head(checkpoint).positions)[trader].size],
                              Committed(total_position_size, Head(checkpoint).total_position_size),
                              Committed(balance, Head(checkpoint).balance)>>
  BY DEF BookKept, HeldNow, SoldNow, PurseNow
<1>4. QED
  BY <1>1, <1>2, <1>3, MatchInvariance, PTL DEF ImplementsBook, Book!Spec, EngineSpec

-----------------------------------------------------------------------------
(* Withdrawals                                                             *)

\* The value of a position is a natural number wherever a margin is computed.
LEMMA PrudentType ==
    ASSUME SafetyInv, NEW p \in Position, p.size # 0, PrudentNotionalDefined(p)
    PROVE  PrudentNotional(p) \in Nat
<1>1. /\ SpotNotionalDefined(p)
      /\ OutputTwapDefined(p.direction, Abs(p.size), FifteenMinutes)
  BY Zenon DEF PrudentNotionalDefined
<1>2. SpotNotional(p) \in Nat
  BY <1>1, Amounts, Zenon DEF SpotNotional, SpotNotionalDefined
<1> DEFINE price == [i \in 1 .. Last |->
                        GetOutputPrice(p.direction, Abs(p.size), snapshots[i].quote_asset_reserve,
                                       snapshots[i].base_asset_reserve)]
<1>3. \A i \in VisitedSnapshots(FifteenMinutes) : price[i] \in Nat
  <2>1. ASSUME NEW i \in VisitedSnapshots(FifteenMinutes)
        PROVE  GetOutputPrice(p.direction, Abs(p.size), snapshots[i].quote_asset_reserve,
                              snapshots[i].base_asset_reserve) \in Nat
    BY <1>1, Amounts, Zenon DEF OutputTwapDefined
  <2>2. VisitedSnapshots(FifteenMinutes) \subseteq 1 .. Last
    BY DEF VisitedSnapshots
  <2>3. QED
    BY <2>1, <2>2
<1> HIDE DEF price
<1>4. CalcTwap(price, FifteenMinutes) \in Nat
  BY <1>3, EngineConstantsAssumption, TwapType DEF SafetyInv, AmmInv, ReserveInv
<1>5. TwapNotional(p) \in Nat
  BY <1>4, Zenon DEF TwapNotional, OutputTwap, price
<1>6. QED
  BY <1>2, <1>5, Zenon DEF PrudentNotional

\* A margin, less a loss, that covers the initial one is above the maintenance
\* margin, whoever is to gain: of a long the initial margin is that of what the
\* position cost, of a short that of what it is worth.
LEMMA FreeMarginSuffices ==
    ASSUME NEW value \in Nat, NEW cost \in Nat, NEW margin \in Nat, NEW pnl \in Int,
           NEW exposure \in Nat,
           \/ exposure = cost /\ pnl = value - cost
           \/ exposure = value /\ pnl = cost - value,
           NEW initial \in 0 .. Decimals, NEW maintenance \in 0 .. Decimals,
           (initial - maintenance - 1) * value >= Decimals,
           (IF pnl >= 0 THEN margin ELSE margin + pnl) >= (exposure * initial) \div Decimals
    PROVE  TruncDiv((pnl + margin) * Decimals, value) > maintenance
<1> DEFINE asked == exposure * initial
           quotient == asked \div Decimals
           worth == pnl + margin
           kept == value * initial
           product == worth * Decimals
           least == (maintenance + 1) * value
<1>1. /\ initial \in Nat /\ maintenance \in Nat /\ Decimals \in Nat \ {0}
      /\ initial <= Decimals /\ asked \in Nat /\ kept \in Nat /\ worth \in Int
      /\ product \in Int /\ least \in Nat
  BY DecimalsAssumption, SMT
<1>2. quotient \in Nat /\ asked < (quotient + 1) * Decimals
  <2> HIDE DEF asked
  <2>1. QED
    BY <1>1, NaturalQuotient
<1>3. kept >= least + Decimals
  BY <1>1, SMT
<1>4. product + Decimals > kept
  <2>1. CASE exposure = value /\ worth >= quotient
    <3>1. (worth + 1) * Decimals >= (quotient + 1) * Decimals
      <4> HIDE DEF worth, quotient
      <4> QED BY <1>1, <1>2, <2>1, SMT
    <3>2. (worth + 1) * Decimals = product + Decimals
      <4> HIDE DEF worth
      <4> QED BY <1>1, SMT
    <3>3. asked = kept
      BY <2>1
    <3>4. (quotient + 1) * Decimals \in Int
      <4> HIDE DEF quotient
      <4> QED BY <1>1, <1>2, SMT
    <3> HIDE DEF asked, kept, quotient, worth, product
    <3>5. QED
      BY <1>1, <1>2, <3>1, <3>2, <3>3, <3>4, SMT
  <2>2. CASE exposure = cost /\ pnl = value - cost
    <3>1. pnl * Decimals >= pnl * initial \/ pnl < 0
      BY <1>1, SMT
    <3>2. kept = asked + pnl * initial
      BY <1>1, <2>2, SMT
    <3>3. product = pnl * Decimals + margin * Decimals
      BY <1>1, SMT
    <3>4. CASE pnl >= 0
      <4>1. margin >= quotient
        BY <3>4
      <4>2. (margin + 1) * Decimals >= (quotient + 1) * Decimals
        <5> HIDE DEF quotient
        <5> QED BY <1>1, <1>2, <4>1, SMT
      <4>3. (margin + 1) * Decimals = margin * Decimals + Decimals
        BY <1>1, SMT
      <4>4. /\ (quotient + 1) * Decimals \in Int /\ margin * Decimals \in Int
            /\ pnl * Decimals \in Int /\ pnl * initial \in Int
        <5> HIDE DEF quotient
        <5> QED BY <1>1, <1>2, SMT
      <4> HIDE DEF asked, kept, quotient, worth, product
      <4>5. QED
        BY <1>1, <1>2, <3>1, <3>2, <3>3, <3>4, <4>2, <4>3, <4>4, SMT
    <3>5. CASE pnl < 0
      <4>1. worth >= quotient
        BY <1>1, <1>2, <3>5, SMT
      <4>2. (worth + 1) * Decimals >= (quotient + 1) * Decimals
        <5> HIDE DEF worth, quotient
        <5> QED BY <1>1, <1>2, <4>1, SMT
      <4>3. (worth + 1) * Decimals = product + Decimals
        <5> HIDE DEF worth
        <5> QED BY <1>1, SMT
      <4>4. pnl * initial <= 0 /\ pnl * initial \in Int
        BY <1>1, <3>5, SMT
      <4>5. (quotient + 1) * Decimals \in Int
        <5> HIDE DEF quotient
        <5> QED BY <1>1, <1>2, SMT
      <4> HIDE DEF asked, kept, quotient, worth, product
      <4>6. QED
        BY <1>1, <1>2, <3>2, <4>2, <4>3, <4>4, <4>5, SMT
    <3>6. QED
      BY <3>4, <3>5, SMT
  <2>3. exposure = value => worth >= quotient
    BY <1>1, <1>2, SMT
  <2>4. QED
    BY <2>1, <2>2, <2>3
<1>5. product >= least /\ value \in Nat \ {0}
  <2>1. value # 0
    BY <1>1, SMT
  <2> HIDE DEF kept, product, least
  <2>2. QED
    BY <1>1, <1>3, <1>4, <2>1, SMT
<1> HIDE DEF worth, product
<1>6. product >= 0
  BY <1>1, <1>5, SMT
<1>7. TruncDiv(product, value) = product \div value
  BY <1>6 DEF TruncDiv
<1>8. product \div value > maintenance
  <2>1. product \in Nat
    BY <1>1, <1>6, SMT
  <2> DEFINE q == product \div value
  <2>2. q \in Nat /\ product < (q + 1) * value
    BY <1>5, <2>1, NaturalQuotient
  <2> HIDE DEF q
  <2>3. ~(q + 1 <= maintenance + 1)
    <3>1. SUFFICES ASSUME q + 1 <= maintenance + 1 PROVE FALSE
      OBVIOUS
    <3>2. (q + 1) * value <= (maintenance + 1) * value
      BY <1>1, <2>2, <3>1, SMT
    <3>3. (q + 1) * value \in Int
      BY <1>1, <2>2, SMT
    <3>4. QED
      BY <1>1, <1>5, <2>2, <3>2, <3>3, SMT
  <2>4. QED
    BY <1>1, <2>2, <2>3, SMT DEF q
<1>9. QED
  BY <1>7, <1>8 DEF product, worth

\* What a withdrawal leaves in a position covers the initial margin, so that
\* the ratio a liquidator asks for is above the maintenance ratio.
LEMMA WithdrawalCovered ==
    ASSUME SafetyInv, BookInv, MatchInv, NEW trader \in Traders, NEW amount \in Withdrawals,
           NEW funds, WithdrawMargin(trader, amount, funds), positions[trader].size # 0,
           MarginsDiffer(positions[trader])
    PROVE  MarginRatio(positions'[trader]) > engine_config.maintenance_margin_ratio
<1> DEFINE p == positions[trader]
           q == positions'[trader]
           value == PrudentNotional(p)
           pnl == UnrealizedPnl(p, value)
           funding == FundingPayment(p)
           left == p.margin - funding - amount
           exposure == IF p.size >= 0 THEN p.notional ELSE value
           initial == engine_config.initial_margin_ratio
           maintenance == engine_config.maintenance_margin_ratio
<1>1. /\ positions \in [Traders -> Position] /\ p \in Position /\ vamm_map \in VammMap
      /\ engine_config \in EngineConfig
  BY DEF BookInv, TypeInv, ContractTypeOK
<1>2. /\ p.size \in Int /\ p.size # 0 /\ p.margin \in Nat /\ p.notional \in Nat
      /\ p.direction \in Direction /\ IsPosition(p)
  BY <1>1, PositionFields
<1>3. amount \in Nat /\ initial \in 0 .. Decimals /\ maintenance \in 0 .. Decimals
  BY <1>1, RequestsAssumption DEF EngineConfig
<1>4. PrudentNotionalDefined(p) /\ FreeCollateral(p) >= amount /\ BadDebt(p, -amount) = 0
  BY Zenon DEF WithdrawMargin
<1>5. value \in Nat
  BY <1>1, <1>4, PrudentType
<1>6. funding \in Int /\ pnl \in Int
  <2>1. 0 \in Int /\ value \in Int
    BY <1>5, SMT
  <2>2. QED
    BY <1>1, <1>2, <2>1, MarginTypes, PnlType
<1>7. left \in Nat /\ RemainMargin(p, -amount) = left
  <2>1. Remaining(p, -amount) = -amount - funding + p.margin
    BY DEF Remaining
  <2> HIDE DEF p, funding
  <2>2. QED
    BY <1>2, <1>3, <1>4, <1>6, <2>1, SMT DEF BadDebt, RemainMargin, AtLeastZero
<1>8. /\ q.size = p.size /\ q.direction = p.direction /\ q.notional = p.notional
      /\ q.margin = left
      /\ q.last_updated_premium_fraction = vamm_map.cumulative_premium_fraction
  <2>1. positions' =
          [positions EXCEPT ![trader].margin = RemainMargin(p, -amount),
                            ![trader].last_updated_premium_fraction =
                                vamm_map.cumulative_premium_fraction]
    BY Zenon DEF WithdrawMargin
  <2>2. QED
    BY <1>1, <1>7, <2>1 DEF Position
<1>9. PrudentNotional(q) = value /\ UnrealizedPnl(q, value) = pnl
  <2>1. /\ SpotNotional(q) = SpotNotional(p) /\ TwapNotional(q) = TwapNotional(p)
        /\ \A n : UnrealizedPnl(q, n) = UnrealizedPnl(p, n)
    BY <1>8, Zenon DEF SpotNotional, TwapNotional, UnrealizedPnl
  <2> HIDE DEF p, q, value
  <2>2. /\ UnrealizedPnl(q, SpotNotional(q)) = UnrealizedPnl(p, SpotNotional(p))
        /\ UnrealizedPnl(q, TwapNotional(q)) = UnrealizedPnl(p, TwapNotional(p))
    BY <2>1, Zenon
  <2>3. PrudentNotional(q) = PrudentNotional(p)
    BY <2>1, <2>2, Zenon DEF PrudentNotional
  <2>4. QED
    BY <2>1, <2>3, Zenon DEF value
<1>10. FundingPayment(q) = 0
  <2> DEFINE fraction == vamm_map.cumulative_premium_fraction
  <2>1. fraction \in Int
    BY <1>1 DEF VammMap
  <2>2. (fraction - fraction) * p.size = 0
    BY <1>2, <2>1, SMT
  <2>3. FundingPayment(q) = TruncDiv((fraction - fraction) * p.size, Decimals)
    BY <1>8, Zenon DEF FundingPayment
  <2>4. TruncDiv(0, Decimals) = 0
    BY DecimalsAssumption, SMT DEF TruncDiv
  <2>5. QED
    BY <2>2, <2>3, <2>4, Zenon
<1>11. MarginRatio(q) = TruncDiv((pnl + left) * Decimals, value)
  <2>1. Remaining(q, pnl) = pnl - 0 + left
    BY <1>8, <1>10, Zenon DEF Remaining
  <2>2. pnl - 0 + left = pnl + left
    BY <1>6, <1>7, SMT
  <2>3. q.size # 0
    BY <1>2, <1>8
  <2>4. QED
    BY <1>9, <2>1, <2>2, <2>3, Zenon DEF MarginRatio, RatioAt
<1>12. /\ exposure \in Nat
       /\ \/ exposure = p.notional /\ pnl = value - p.notional
          \/ exposure = value /\ pnl = p.notional - value
  <2>1. Matches(p)
    BY DEF MatchInv, Balanced
  <2>2. pnl = IF p.direction = AddToAmm THEN value - p.notional ELSE p.notional - value
    BY <1>2 DEF UnrealizedPnl
  <2> HIDE DEF value, pnl
  <2>3. CASE p.size > 0
    BY <1>2, <2>1, <2>2, <2>3, SMT DEF Matches
  <2>4. CASE p.size < 0
    <3>1. p.direction # AddToAmm
      BY <2>1, <2>4 DEF Matches, AddToAmm, RemoveFromAmm
    <3>2. QED
      BY <1>2, <1>5, <2>2, <2>4, <3>1, SMT
  <2>5. QED
    BY <1>2, <2>3, <2>4, SMT
<1>13. (IF pnl >= 0 THEN left ELSE left + pnl) >= (exposure * initial) \div Decimals
  <2> DEFINE kept == AtLeastZero(p.margin - funding)
             asked == (exposure * initial) \div Decimals
  <2>1. (IF pnl >= 0 THEN kept ELSE kept + pnl) - asked >= amount
    BY <1>4, Zenon DEF FreeCollateral
  <2>2. kept = left + amount
    BY <1>2, <1>3, <1>6, <1>7, SMT DEF AtLeastZero
  <2>3. asked \in Nat
    <3>1. exposure * initial \in Nat
      BY <1>3, <1>12, SMT
    <3>2. QED
      BY <3>1, NaturalQuotient, DecimalsAssumption
  <2> HIDE DEF kept, asked, pnl, left
  <2>4. QED
    BY <1>3, <1>6, <1>7, <2>1, <2>2, <2>3, SMT DEF asked
<1>14. (initial - maintenance - 1) * value >= Decimals
  BY DEF MarginsDiffer
<1> HIDE DEF value, pnl, left, exposure, initial, maintenance
<1>15. TruncDiv((pnl + left) * Decimals, value) > maintenance
  BY <1>2, <1>3, <1>5, <1>6, <1>7, <1>12, <1>13, <1>14, FreeMarginSuffices
<1>16. QED
  BY <1>11, <1>15 DEF maintenance

\* A withdrawal leaves more than the maintenance margin, whatever the profit
\* that is not realized and the funding that is not paid yet, at the reserves of
\* now or their average: what counts as free (query_free_collateral) is so also
\* for a liquidator, while the market is ordinary.
THEOREM WithdrawalsLeaveMargin == EngineSpec /\ []OrdinaryMarket => WithdrawalLeavesMargin
<1> DEFINE Leaves == \A trader \in Traders, amount \in Withdrawals, funds \in Stray :
              (/\ WithdrawMargin(trader, amount, funds)
               /\ positions[trader].size # 0 /\ MarginsDiffer(positions[trader]))
                => MarginRatio(positions'[trader]) > engine_config.maintenance_margin_ratio
<1>1. SafetyInv /\ BookInv /\ MatchInv => [Leaves]_allVars
  BY WithdrawalCovered
<1> HIDE DEF Leaves
<1>2. EngineSpec /\ []OrdinaryMarket => [][Leaves]_allVars
  BY <1>1, MatchInvariance, PTL
<1>3. QED
  BY <1>2 DEF Leaves, WithdrawalLeavesMargin
=============================================================================

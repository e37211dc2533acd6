------------------------- MODULE MarginEngineProofs -------------------------
(***************************************************************************)
(* What the engine hands from a handler to a reply, and the AMM under the  *)
(* engine: what VammProofs shows of the AMM called by anybody holds when   *)
(* the engine computes the swaps, in requests and in replies to earlier    *)
(* swaps, and when the chain undoes them.                                  *)
(***************************************************************************)
EXTENDS MarginEngine, VammProofs, OperatorProofs, SequenceTheorems, TLAPS

-----------------------------------------------------------------------------
(* The submessages still to run                                            *)

TradeIds == {IncreasePosition, DecreasePosition, ReversePosition}
SwapIds == {IncreasePosition, DecreasePosition, ReversePosition, ClosingPosition,
            PartialClosePosition} \union LiquidationIds

\* Sequences of submessages, all of them transfers.
IsSequence(s) == \E S : s \in Seq(S)
Transfers(s) == IsSequence(s) /\ \A i \in 1 .. Len(s) : s[i].kind = "transfer"

\* A message to the AMM runs after all transfers that are queued with it.
OnlyLastCallsAmm(s) ==
    /\ IsSequence(s)
    /\ \A i \in 1 .. Len(s) - 1 : s[i].kind = "transfer"
    /\ \A i \in 1 .. Len(s) : s[i].kind = "settle_funding" => s[i].id = Funding

\* The AMM has been or will be called: the id its answer has.
CallsAmm(s) == Len(s) # 0 /\ s[Len(s)].kind # "transfer"
Awaits(s, answer) == IF CallsAmm(s) THEN s[Len(s)].id ELSE answer.id

\* Messages the last of which calls the AMM for the answer `id'.
Calls(msgs, id) == OnlyLastCallsAmm(msgs) /\ Awaits(msgs, NoReply) = id

\* The records exist only while the answer they are kept for is awaited.
RecordsAreAwaited ==
    /\ OnlyLastCallsAmm(queue)
    /\ reply # NoReply => queue = <<>>
    /\ tmp_swap # NoSwap => Awaits(queue, reply) \in SwapIds
    /\ tmp_liquidator # NoAccount => Awaits(queue, reply) \in LiquidationIds
    /\ sent_funds # NoFunds => Awaits(queue, reply) \in TradeIds

\* Between transactions nothing is queued, and a transaction that fails goes
\* back to such a state.
TransactionsAreClean ==
    /\ Idle => queue = <<>> /\ reply = NoReply
    /\ ~Idle => /\ Head(checkpoint).tmp_swap = NoSwap
                /\ Head(checkpoint).tmp_liquidator = NoAccount
                /\ Head(checkpoint).sent_funds = NoFunds

RecordInv == RecordsAreAwaited /\ TransactionsAreClean

-----------------------------------------------------------------------------
LEMMA OneTransfer ==
    ASSUME NEW from, NEW to, NEW amount
    PROVE  Transfers(<<Transfer(from, to, amount)>>)
<1> DEFINE m == Transfer(from, to, amount)
<1>1. m.kind = "transfer"
  BY DEF Transfer
<1> HIDE DEF m
<1>2. <<m>> \in Seq({m}) /\ Len(<<m>>) = 1 /\ <<m>>[1] = m
  BY SMT
<1>3. \A i \in 1 .. Len(<<m>>) : <<m>>[i].kind = "transfer"
  BY <1>1, <1>2, SMT
<1>4. Transfers(<<m>>)
  BY <1>2, <1>3, Zenon DEF Transfers, IsSequence
<1>5. QED
  BY <1>4 DEF m

LEMMA NoTransfer == Transfers(<<>>)
BY SMT DEF Transfers, IsSequence

LEMMA BothTransfers ==
    ASSUME NEW s, NEW t, Transfers(s), Transfers(t)
    PROVE  Transfers(s \o t)
<1>1. PICK S : s \in Seq(S)
  BY DEF Transfers, IsSequence
<1>2. PICK T : t \in Seq(T)
  BY DEF Transfers, IsSequence
<1>3. s \in Seq(S \union T) /\ t \in Seq(S \union T)
  BY <1>1, <1>2, SMT
<1>4. /\ s \o t \in Seq(S \union T)
      /\ Len(s \o t) = Len(s) + Len(t)
      /\ \A i \in 1 .. Len(s) + Len(t) :
            (s \o t)[i] = IF i <= Len(s) THEN s[i] ELSE t[i - Len(s)]
  BY <1>3, SMT
<1>5. Len(s) \in Nat /\ Len(t) \in Nat
  BY <1>3, SMT
<1>6. ASSUME NEW i \in 1 .. Len(s \o t)
      PROVE  (s \o t)[i].kind = "transfer"
  <2>1. CASE i <= Len(s)
    BY <2>1, <1>4, <1>5, SMT DEF Transfers
  <2>2. CASE ~(i <= Len(s))
    <3>1. i - Len(s) \in 1 .. Len(t)
      BY <2>2, <1>4, <1>5, SMT
    <3>2. (s \o t)[i] = t[i - Len(s)]
      BY <2>2, <1>4, <1>5, SMT
    <3>3. QED
      BY <3>1, <3>2 DEF Transfers
  <2>3. QED
    BY <2>1, <2>2
<1>7. QED
  BY <1>4, <1>6 DEF Transfers, IsSequence

LEMMA WithdrawTransfers ==
    ASSUME NEW receiver, NEW amount, NEW prepaid
    PROVE  Transfers(Withdraw(receiver, amount, prepaid))
BY OneTransfer, NoTransfer, BothTransfers, Zenon DEF Withdraw

LEMMA FeesAreTransfers ==
    ASSUME NEW from, NEW to, NEW amount
    PROVE  /\ Transfers(TransferUnlessZero(from, to, amount))
           /\ Transfers(TransferFees(from, amount))
<1>1. \A a, b, c : Transfers(TransferUnlessZero(a, b, c))
  BY OneTransfer, NoTransfer, Zenon DEF TransferUnlessZero
<1>2. QED
  BY <1>1, BothTransfers, Zenon DEF TransferFees

LEMMA QueueOfTransfers ==
    ASSUME NEW s, Transfers(s)
    PROVE  OnlyLastCallsAmm(s) /\ ~CallsAmm(s)
<1>1. PICK S : s \in Seq(S)
  BY DEF Transfers, IsSequence
<1>2. Len(s) \in Nat
  BY <1>1, SMT
<1>3. \A i \in 1 .. Len(s) : s[i].kind = "transfer"
  BY DEF Transfers
<1>4. \A i \in 1 .. Len(s) - 1 : i \in 1 .. Len(s)
  BY <1>2, SMT
<1>5. Len(s) # 0 => Len(s) \in 1 .. Len(s)
  BY <1>2, SMT
<1>6. IsSequence(s)
  BY DEF Transfers
<1>7. "transfer" # "settle_funding"
  OBVIOUS
<1>8. QED
  BY <1>3, <1>4, <1>5, <1>6, <1>7, Zenon DEF OnlyLastCallsAmm, CallsAmm

LEMMA QueueEndingInCall ==
    ASSUME NEW s, NEW m, NEW answer, Transfers(s),
           m.kind # "transfer", m.kind = "settle_funding" => m.id = Funding
    PROVE  /\ OnlyLastCallsAmm(s \o <<m>>)
           /\ Awaits(s \o <<m>>, answer) = m.id
<1>1. PICK S : s \in Seq(S)
  BY DEF Transfers, IsSequence
<1>2. s \in Seq(S \union {m}) /\ <<m>> \in Seq(S \union {m})
      /\ Len(<<m>>) = 1 /\ <<m>>[1] = m
  BY <1>1, SMT
<1>3. /\ s \o <<m>> \in Seq(S \union {m})
      /\ Len(s \o <<m>>) = Len(s) + 1
      /\ Len(s) \in Nat
  BY <1>2, SMT
<1>4. \A i \in 1 .. Len(s) + 1 :
         (s \o <<m>>)[i] = IF i <= Len(s) THEN s[i] ELSE m
  BY <1>2, SMT
<1>5. (s \o <<m>>)[Len(s) + 1] = m
  BY <1>3, <1>4, SMT
<1>6. \A i \in 1 .. Len(s) : (s \o <<m>>)[i].kind = "transfer"
  BY <1>3, <1>4, SMT DEF Transfers
<1>7. OnlyLastCallsAmm(s \o <<m>>)
  <2>1. IsSequence(s \o <<m>>)
    BY <1>3 DEF IsSequence
  <2>2. \A i \in 1 .. Len(s \o <<m>>) - 1 : (s \o <<m>>)[i].kind = "transfer"
    BY <1>3, <1>6, SMT
  <2>3. \A i \in 1 .. Len(s \o <<m>>) : i \in 1 .. Len(s) \/ i = Len(s) + 1
    BY <1>3, SMT
  <2>4. "transfer" # "settle_funding"
    OBVIOUS
  <2>5. \A i \in 1 .. Len(s \o <<m>>) :
           (s \o <<m>>)[i].kind = "settle_funding" => (s \o <<m>>)[i].id = Funding
    BY <2>3, <2>4, <1>5, <1>6, Zenon
  <2>6. QED
    BY <2>1, <2>2, <2>5 DEF OnlyLastCallsAmm
<1>8. Awaits(s \o <<m>>, answer) = m.id
  <2>1. Len(s \o <<m>>) # 0
    BY <1>3, SMT
  <2>2. QED
    BY <2>1, <1>3, <1>5, Zenon DEF Awaits, CallsAmm
<1>9. QED
  BY <1>7, <1>8

LEMMA QueueOfCall ==
    ASSUME NEW m, NEW answer,
           m.kind # "transfer", m.kind = "settle_funding" => m.id = Funding
    PROVE  OnlyLastCallsAmm(<<m>>) /\ Awaits(<<m>>, answer) = m.id
<1>1. <<>> \o <<m>> = <<m>>
  BY SMT
<1>2. QED
  BY <1>1, NoTransfer, QueueEndingInCall, Zenon

LEMMA RestOfQueue ==
    ASSUME NEW s, NEW answer, OnlyLastCallsAmm(s), s # <<>>
    PROVE  /\ OnlyLastCallsAmm(Tail(s))
           /\ Head(s).kind = "transfer" => Awaits(Tail(s), answer) = Awaits(s, answer)
           /\ Head(s).kind # "transfer" => /\ Tail(s) = <<>>
                                           /\ Awaits(s, answer) = Head(s).id
           /\ Head(s).kind = "settle_funding" => Head(s).id = Funding
<1>1. PICK S : s \in Seq(S)
  BY DEF OnlyLastCallsAmm, IsSequence
<1>2. /\ Len(s) \in Nat \ {0} /\ Head(s) = s[1]
      /\ Tail(s) \in Seq(S) /\ Len(Tail(s)) = Len(s) - 1
  BY <1>1, SMT
<1>3. \A i \in 1 .. Len(s) - 1 : Tail(s)[i] = s[i + 1]
  BY <1>1, SMT
<1>4. \A i \in 1 .. Len(Tail(s)) - 1 : i \in 1 .. Len(s) - 1 /\ i + 1 \in 1 .. Len(s) - 1
  BY <1>2, SMT
<1>5. \A i \in 1 .. Len(Tail(s)) : i \in 1 .. Len(s) - 1 /\ i + 1 \in 1 .. Len(s)
  BY <1>2, SMT
<1>6. OnlyLastCallsAmm(Tail(s))
  BY <1>2, <1>3, <1>4, <1>5, Zenon DEF OnlyLastCallsAmm, IsSequence
<1>7. Head(s).kind = "settle_funding" => Head(s).id = Funding
  <2>1. 1 \in 1 .. Len(s)
    BY <1>2, SMT
  <2>2. QED
    BY <2>1, <1>2 DEF OnlyLastCallsAmm
<1>8. CASE Len(s) = 1
  <2>1. Len(Tail(s)) = 0 /\ Head(s) = s[Len(s)] /\ Len(s) # 0
    BY <1>2, <1>8, SMT
  <2>2. Tail(s) = <<>>
    BY <2>1, <1>2, EmptySeq
  <2>3. QED
    BY <2>1, <2>2, <1>6, <1>7, Zenon DEF Awaits, CallsAmm
<1>9. CASE Len(s) # 1
  <2>1. 1 \in 1 .. Len(s) - 1
    BY <1>2, <1>9, SMT
  <2>2. Head(s).kind = "transfer"
    BY <2>1, <1>2 DEF OnlyLastCallsAmm
  <2>3. Len(Tail(s)) # 0 /\ Len(s) # 0 /\ Tail(s)[Len(Tail(s))] = s[Len(s)]
    BY <1>2, <1>3, <1>9, SMT
  <2>4. QED
    BY <2>2, <2>3, <1>6, <1>7, Zenon DEF Awaits, CallsAmm
<1>10. QED
  BY <1>8, <1>9

LEMMA NothingAwaited ==
    /\ Awaits(<<>>, NoReply) \notin SwapIds
    /\ OnlyLastCallsAmm(<<>>)
<1>1. ~CallsAmm(<<>>) /\ OnlyLastCallsAmm(<<>>)
  BY NoTransfer, QueueOfTransfers
<1>2. Awaits(<<>>, NoReply) = "none"
  BY <1>1 DEF Awaits, NoReply
<1>3. QED
  BY <1>1, <1>2 DEF SwapIds, LiquidationIds, IncreasePosition, DecreasePosition,
     ReversePosition, ClosingPosition, PartialClosePosition, Liquidation, PartialLiquidation

-----------------------------------------------------------------------------
(* Steps that begin a transaction and steps that handle an answer          *)

LEMMA IdleIsClean ==
    ASSUME RecordInv, Idle
    PROVE  /\ queue = <<>> /\ reply = NoReply
           /\ tmp_swap = NoSwap /\ tmp_liquidator = NoAccount /\ sent_funds = NoFunds
<1>1. queue = <<>> /\ reply = NoReply
  BY DEF RecordInv, TransactionsAreClean
<1>2. Awaits(queue, reply) \notin SwapIds \union LiquidationIds \union TradeIds
  BY <1>1, NothingAwaited DEF SwapIds, TradeIds
<1>3. QED
  BY <1>1, <1>2 DEF RecordInv, RecordsAreAwaited

LEMMA BeginStep ==
    ASSUME RecordInv, NEW sender, NEW funds, NEW msgs, BeginWith(sender, funds, msgs),
           OnlyLastCallsAmm(msgs),
           tmp_swap' # NoSwap => Awaits(msgs, NoReply) \in SwapIds,
           tmp_liquidator' # NoAccount => Awaits(msgs, NoReply) \in LiquidationIds,
           sent_funds' # NoFunds => Awaits(msgs, NoReply) \in TradeIds
    PROVE  RecordInv'
<1>1. Idle /\ queue' = msgs /\ reply' = reply /\ checkpoint' = <<Saved>>
  BY DEF BeginWith
<1>2. /\ reply = NoReply
      /\ tmp_swap = NoSwap /\ tmp_liquidator = NoAccount /\ sent_funds = NoFunds
  BY <1>1, IdleIsClean
<1>3. RecordsAreAwaited'
  BY <1>1, <1>2 DEF RecordsAreAwaited
<1>4. /\ Saved.tmp_swap = NoSwap /\ Saved.tmp_liquidator = NoAccount
      /\ Saved.sent_funds = NoFunds
  BY <1>2 DEF Saved
<1>5. <<Saved>> # <<>> /\ Head(<<Saved>>) = Saved
  <2> DEFINE saved == Saved
  <2> HIDE DEF saved
  <2>1. <<saved>> # <<>> /\ Head(<<saved>>) = saved
    BY SMT
  <2>2. QED
    BY <2>1 DEF saved
<1>6. TransactionsAreClean'
  BY <1>1, <1>4, <1>5 DEF TransactionsAreClean, Idle
<1>7. QED
  BY <1>3, <1>6 DEF RecordInv

LEMMA AnswerHandled ==
    ASSUME RecordInv, NEW id, reply.id = id, id # "none"
    PROVE  /\ queue = <<>> /\ ~Idle
           /\ tmp_liquidator # NoAccount => id \in LiquidationIds
           /\ sent_funds # NoFunds => id \in TradeIds
<1>1. reply # NoReply
  BY DEF NoReply
<1>2. queue = <<>> /\ ~Idle
  BY <1>1 DEF RecordInv, RecordsAreAwaited, TransactionsAreClean
<1>3. Awaits(queue, reply) = id
  BY <1>2, NoTransfer, QueueOfTransfers DEF Awaits
<1>4. QED
  BY <1>2, <1>3 DEF RecordInv, RecordsAreAwaited

LEMMA ReplyStep ==
    ASSUME RecordInv, NEW id, id # "none", NEW msgs, Reply(id, msgs), OnlyLastCallsAmm(msgs),
           tmp_swap' # NoSwap => Awaits(msgs, NoReply) \in SwapIds,
           tmp_liquidator' # NoAccount => Awaits(msgs, NoReply) \in LiquidationIds,
           sent_funds' # NoFunds => Awaits(msgs, NoReply) \in TradeIds
    PROVE  RecordInv'
<1>1. /\ reply' = NoReply /\ queue' = msgs \o queue
      /\ checkpoint' = checkpoint /\ reply.id = id
  BY DEF Reply
<1>2. queue = <<>> /\ ~Idle
  BY <1>1, AnswerHandled
<1>3. PICK S : msgs \in Seq(S)
  BY DEF OnlyLastCallsAmm, IsSequence
<1>4. queue' = msgs
  BY <1>1, <1>2, <1>3, ConcatEmptySeq
<1>5. RecordsAreAwaited'
  BY <1>1, <1>4 DEF RecordsAreAwaited
<1>6. TransactionsAreClean'
  BY <1>1, <1>2 DEF TransactionsAreClean, Idle, RecordInv
<1>7. QED
  BY <1>5, <1>6 DEF RecordInv

-----------------------------------------------------------------------------
(* The actions                                                             *)

LEMMA SwapMessages ==
    /\ \A id, direction, quote, limit, over :
          Calls(<<SwapInputMsg(id, direction, quote, limit, over)>>, id)
    /\ \A id, direction, base, limit :
          Calls(<<SwapOutputMsg(id, direction, base, limit)>>, id)
<1>1. ASSUME NEW id, NEW direction, NEW quote, NEW limit, NEW over
      PROVE  Calls(<<SwapInputMsg(id, direction, quote, limit, over)>>, id)
  <2> DEFINE m == SwapInputMsg(id, direction, quote, limit, over)
  <2>1. m.kind = "swap_input" /\ m.id = id
    BY DEF SwapInputMsg
  <2>2. m.kind # "transfer" /\ m.kind # "settle_funding"
    BY <2>1
  <2>3. QED
    BY <2>1, <2>2, QueueOfCall DEF Calls
<1>2. ASSUME NEW id, NEW direction, NEW base, NEW limit
      PROVE  Calls(<<SwapOutputMsg(id, direction, base, limit)>>, id)
  <2> DEFINE m == SwapOutputMsg(id, direction, base, limit)
  <2>1. m.kind = "swap_output" /\ m.id = id
    BY DEF SwapOutputMsg
  <2>2. m.kind # "transfer" /\ m.kind # "settle_funding"
    BY <2>1
  <2>3. QED
    BY <2>1, <2>2, QueueOfCall DEF Calls
<1>3. QED
  BY <1>1, <1>2, Zenon

LEMMA ReplyIds ==
    /\ SwapIds \intersect {"none", Funding} = {}
    /\ LiquidationIds \subseteq SwapIds /\ TradeIds \subseteq SwapIds \ LiquidationIds
    /\ IncreasePosition \in TradeIds
    /\ DecreasePosition \in TradeIds
    /\ ReversePosition \in TradeIds
    /\ ClosingPosition \in SwapIds \ (LiquidationIds \union TradeIds)
    /\ PartialClosePosition \in SwapIds \ (LiquidationIds \union TradeIds)
    /\ Liquidation \in LiquidationIds /\ PartialLiquidation \in LiquidationIds
    /\ Funding # "none"
BY DEF SwapIds, LiquidationIds, TradeIds, IncreasePosition, DecreasePosition,
       ReversePosition, ClosingPosition, PartialClosePosition, Liquidation,
       PartialLiquidation, Funding

LEMMA OpenPositionStep ==
    ASSUME RecordInv, NEW trader, NEW side, NEW margin, NEW leverage, NEW limit,
           NEW funds, OpenPosition(trader, side, margin, leverage, limit, funds)
    PROVE  RecordInv'
<1> DEFINE position == GetPosition(trader, side)
           open_notional == (margin * leverage) \div Decimals
           message ==
            IF position.direction = side
            THEN SwapInputMsg(IncreasePosition, side, open_notional, limit, FALSE)
            ELSE IF SpotNotional(position) > open_notional
            THEN SwapInputMsg(DecreasePosition, side, open_notional, limit, FALSE)
            ELSE SwapOutputMsg(ReversePosition, position.direction, Abs(position.size), 0)
<1>1. BeginWith(trader, funds, <<message>>) /\ tmp_liquidator' = tmp_liquidator
  BY Zenon DEF OpenPosition
<1>2. \E id \in TradeIds : Calls(<<message>>, id)
  <2>1. CASE position.direction = side
    BY <2>1, SwapMessages, ReplyIds, Zenon
  <2>2. CASE position.direction # side /\ SpotNotional(position) > open_notional
    BY <2>2, SwapMessages, ReplyIds, Zenon
  <2>3. CASE position.direction # side /\ ~(SpotNotional(position) > open_notional)
    BY <2>3, SwapMessages, ReplyIds, Zenon
  <2>4. QED
    BY <2>1, <2>2, <2>3, Zenon
<1>3. tmp_liquidator = NoAccount
  BY <1>1, IdleIsClean DEF BeginWith
<1> HIDE DEF message
<1>4. QED
  BY <1>1, <1>2, <1>3, ReplyIds, BeginStep, Zenon DEF Calls

LEMMA ClosePositionStep ==
    ASSUME RecordInv, NEW trader, NEW limit, NEW funds,
           ClosePosition(trader, limit, funds)
    PROVE  RecordInv'
<1>1. /\ \E msgs, id : BeginWith(trader, funds, msgs) /\ Calls(msgs, id) /\ id \in SwapIds
      /\ tmp_liquidator' = tmp_liquidator /\ sent_funds' = sent_funds
  <2>1. PICK id \in {PartialClosePosition, ClosingPosition} :
           \E direction, amount, limit_, over :
              \/ BeginWith(trader, funds, <<SwapInputMsg(id, direction, amount, limit_, over)>>)
              \/ BeginWith(trader, funds, <<SwapOutputMsg(id, direction, amount, limit_)>>)
    BY Zenon DEF ClosePosition, CloseMsg, Begin
  <2>2. id \in SwapIds /\ tmp_liquidator' = tmp_liquidator /\ sent_funds' = sent_funds
    BY ReplyIds, Zenon DEF ClosePosition
  <2>3. QED
    BY <2>1, <2>2, SwapMessages, Zenon
<1>2. tmp_liquidator = NoAccount /\ sent_funds = NoFunds
  BY <1>1, IdleIsClean DEF BeginWith
<1>3. QED
  BY <1>1, <1>2, BeginStep, Zenon DEF Calls

LEMMA LiquidateStep ==
    ASSUME RecordInv, NEW sender, NEW trader, NEW limit, NEW oracle, NEW funds,
           Liquidate(sender, trader, limit, oracle, funds)
    PROVE  RecordInv'
<1>1. \E msgs, id : BeginWith(sender, funds, msgs) /\ Calls(msgs, id) /\ id \in LiquidationIds
  <2>1. PICK id \in LiquidationIds :
           \E direction, amount, limit_, over :
              \/ BeginWith(sender, funds, <<SwapInputMsg(id, direction, amount, limit_, over)>>)
              \/ BeginWith(sender, funds, <<SwapOutputMsg(id, direction, amount, limit_)>>)
    <3>1. \A position : \E direction, amount, limit_, over :
             \/ PartialLiquidationMsg(position, limit)
                  = SwapInputMsg(PartialLiquidation, direction, amount, limit_, over)
             \/ PartialLiquidationMsg(position, limit)
                  = SwapOutputMsg(PartialLiquidation, direction, amount, limit_)
      BY Zenon DEF PartialLiquidationMsg
    <3>2. QED
      BY <3>1, ReplyIds, Zenon DEF Liquidate, CloseMsg, Begin
  <2>2. QED
    BY <2>1, SwapMessages, Zenon
<1>2. sent_funds' = NoFunds
  <2>1. sent_funds' = sent_funds /\ Idle
    BY <1>1, Zenon DEF Liquidate, BeginWith
  <2>2. QED
    BY <2>1, IdleIsClean
<1>3. QED
  BY <1>1, <1>2, ReplyIds, BeginStep, Zenon DEF Calls

LEMMA OtherRequestSteps ==
    ASSUME RecordInv,
           \/ \E sender, funds : PayFunding(sender, funds)
           \/ \E trader, amount, funds : DepositMargin(trader, amount, funds)
           \/ \E trader, amount, funds : WithdrawMargin(trader, amount, funds)
    PROVE  RecordInv'
<1>1. PICK sender, funds, msgs :
         /\ BeginWith(sender, funds, msgs) /\ UNCHANGED temporary
         /\ Transfers(msgs) \/ msgs = <<FundingMsg>>
  <2>1. CASE \E sender, funds : PayFunding(sender, funds)
    BY <2>1, Zenon DEF PayFunding, Begin
  <2>2. CASE \E trader, amount, funds : DepositMargin(trader, amount, funds)
    BY <2>2, OneTransfer, NoTransfer, Zenon DEF DepositMargin
  <2>3. CASE \E trader, amount, funds : WithdrawMargin(trader, amount, funds)
    BY <2>3, WithdrawTransfers, Zenon DEF WithdrawMargin, Begin
  <2>4. QED
    BY <2>1, <2>2, <2>3
<1>2. tmp_swap' = NoSwap /\ tmp_liquidator' = NoAccount /\ sent_funds' = NoFunds
  BY <1>1, IdleIsClean DEF BeginWith, temporary
<1>3. OnlyLastCallsAmm(<<FundingMsg>>)
  <2>1. FundingMsg.kind = "settle_funding" /\ FundingMsg.id = Funding
    BY DEF FundingMsg
  <2>2. QED
    BY <2>1, QueueOfCall
<1>4. OnlyLastCallsAmm(msgs)
  BY <1>1, <1>3, QueueOfTransfers
<1>5. QED
  BY <1>1, <1>2, <1>4, BeginStep, Zenon

LEMMA ReplyWithTransfers ==
    ASSUME RecordInv, NEW id, id # "none", NEW msgs, Reply(id, msgs), Transfers(msgs),
           tmp_swap' = NoSwap,
           tmp_liquidator' = NoAccount \/ (tmp_liquidator' = tmp_liquidator
                                             /\ id \notin LiquidationIds),
           sent_funds' = NoFunds \/ (sent_funds' = sent_funds /\ id \notin TradeIds)
    PROVE  RecordInv'
<1>1. reply.id = id
  BY DEF Reply
<1>2. tmp_liquidator' = NoAccount /\ sent_funds' = NoFunds
  BY <1>1, AnswerHandled
<1>3. QED
  BY <1>2, QueueOfTransfers, ReplyStep

LEMMA UpdatePositionStep ==
    ASSUME RecordInv, NEW id \in SwapIds \ LiquidationIds, NEW direction, NEW interest,
           NEW swapMargin, NEW marginDelta, NEW notional,
           UpdatePosition(id, direction, interest, swapMargin, marginDelta, notional)
    PROVE  RecordInv'
<1>1. \E s, t : Reply(id, s \o t) /\ Transfers(s) /\ Transfers(t)
  BY WithdrawTransfers, FeesAreTransfers, NoTransfer, Zenon DEF UpdatePosition
<1>2. tmp_swap' = NoSwap /\ tmp_liquidator' = tmp_liquidator /\ sent_funds' = NoFunds
  BY Zenon DEF UpdatePosition, RemoveTmpSwap, RemoveSentFunds
<1>3. id # "none"
  BY ReplyIds
<1>4. QED
  BY <1>1, <1>2, <1>3, BothTransfers, ReplyWithTransfers, Zenon

LEMMA ReverseStep ==
    ASSUME RecordInv, ReversePositionReply
    PROVE  RecordInv'
<1> DEFINE fees == TransferFees(tmp_swap.trader, tmp_swap.open_notional)
<1>1. /\ reply.id = ReversePosition /\ ReversePosition # "none"
      /\ tmp_liquidator' = tmp_liquidator /\ ReversePosition \notin LiquidationIds
  BY ReplyIds, Zenon DEF ReversePositionReply
<1>2. tmp_liquidator' = NoAccount
  BY <1>1, AnswerHandled
<1>3. CASE \E amount :
              /\ Reply(ReversePosition, fees \o <<Transfer(Engine, tmp_swap.trader, amount)>>)
              /\ tmp_swap' = NoSwap /\ sent_funds' = NoFunds
  <2>1. \E msgs : Reply(ReversePosition, msgs) /\ Transfers(msgs)
    BY <1>3, FeesAreTransfers, OneTransfer, BothTransfers, Zenon
  <2>2. QED
    BY <2>1, <1>1, <1>2, <1>3, ReplyWithTransfers, Zenon
<1>4. CASE \E side, rest :
              Reply(ReversePosition,
                    fees \o <<SwapInputMsg(IncreasePosition, side, rest, 0, FALSE)>>)
  <2>1. PICK side, rest :
           Reply(ReversePosition,
                 fees \o <<SwapInputMsg(IncreasePosition, side, rest, 0, FALSE)>>)
    BY <1>4, Zenon
  <2> DEFINE m == SwapInputMsg(IncreasePosition, side, rest, 0, FALSE)
  <2>2. m.kind # "transfer" /\ m.kind # "settle_funding" /\ m.id = IncreasePosition
    BY DEF SwapInputMsg
  <2>3. Transfers(fees)
    BY FeesAreTransfers
  <2> HIDE DEF m, fees
  <2>4. OnlyLastCallsAmm(fees \o <<m>>) /\ Awaits(fees \o <<m>>, NoReply) = IncreasePosition
    BY <2>2, <2>3, QueueEndingInCall
  <2>5. Reply(ReversePosition, fees \o <<m>>)
    BY <2>1 DEF m
  <2>6. QED
    BY <2>4, <2>5, <1>1, <1>2, ReplyIds, ReplyStep
<1>5. QED
  BY <1>3, <1>4, Zenon DEF ReversePositionReply, RemoveTmpSwap, RemoveSentFunds

LEMMA CloseReplySteps ==
    ASSUME RecordInv, ClosePositionReply \/ PartialClosePositionReply
    PROVE  RecordInv'
<1>1. \E id \in {ClosingPosition, PartialClosePosition} : \E msgs :
         Reply(id, msgs) /\ Transfers(msgs)
  <2>1. CASE ClosePositionReply
    <3>1. \E s, t : Reply(ClosingPosition, s \o t) /\ Transfers(s) /\ Transfers(t)
      BY <2>1, WithdrawTransfers, FeesAreTransfers, NoTransfer, Zenon DEF ClosePositionReply
    <3>2. QED
      BY <3>1, BothTransfers, Zenon
  <2>2. CASE PartialClosePositionReply
    BY <2>2, FeesAreTransfers, Zenon DEF PartialClosePositionReply
  <2>3. QED
    BY <2>1, <2>2
<1>2. tmp_swap' = NoSwap /\ tmp_liquidator' = tmp_liquidator /\ sent_funds' = sent_funds
  BY Zenon DEF ClosePositionReply, PartialClosePositionReply, RemoveTmpSwap
<1>3. \A id \in {ClosingPosition, PartialClosePosition} :
         id # "none" /\ id \notin LiquidationIds /\ id \notin TradeIds
  BY ReplyIds, Zenon
<1>4. QED
  BY <1>1, <1>2, <1>3, ReplyWithTransfers, Zenon

LEMMA LiquidationReplySteps ==
    ASSUME RecordInv, LiquidateReply \/ PartialLiquidationReply
    PROVE  RecordInv'
<1>1. \E id \in LiquidationIds : \E msgs : Reply(id, msgs) /\ Transfers(msgs)
  <2>1. CASE LiquidateReply
    <3> DEFINE position == positions[tmp_swap.trader]
               pnl == ClosingPnl(position, reply.output)
               margin == RemainMargin(position, pnl)
               badDebt == BadDebt(position, pnl) + AtLeastZero(LiquidationFee - margin)
               fund == engine_config.insurance_fund
               realizes == badDebt # 0 /\ engine_state.prepaid_bad_debt <= badDebt
               drawn == IF realizes THEN badDebt - engine_state.prepaid_bad_debt ELSE 0
               first == IF realizes THEN <<Transfer(fund, Engine, drawn)>> ELSE <<>>
               second == TransferUnlessZero(Engine, fund, AtLeastZero(margin - LiquidationFee))
               third == Withdraw(tmp_liquidator, LiquidationFee, drawn)
    <3>1. Reply(Liquidation, first \o second \o third)
      BY <2>1, Zenon DEF LiquidateReply
    <3>2. Transfers(first)
      BY OneTransfer, NoTransfer, Zenon
    <3>3. Transfers(second) /\ Transfers(third)
      BY FeesAreTransfers, WithdrawTransfers
    <3> HIDE DEF first, second, third
    <3>4. QED
      BY <3>1, <3>2, <3>3, ReplyIds, BothTransfers, Zenon
  <2>2. CASE PartialLiquidationReply
    BY <2>2, ReplyIds, OneTransfer, NoTransfer, BothTransfers, WithdrawTransfers, Zenon
       DEF PartialLiquidationReply
  <2>3. QED
    BY <2>1, <2>2
<1>2. tmp_swap' = NoSwap /\ tmp_liquidator' = NoAccount /\ sent_funds' = sent_funds
  BY Zenon DEF LiquidateReply, PartialLiquidationReply, RemoveTmpSwap, RemoveTmpLiquidator
<1>3. \A id \in LiquidationIds : id # "none" /\ id \notin TradeIds
  BY ReplyIds, Zenon
<1>4. QED
  BY <1>1, <1>2, <1>3, ReplyWithTransfers, Zenon

LEMMA PayFundingReplyStep ==
    ASSUME RecordInv, PayFundingReply
    PROVE  RecordInv'
<1>1. \E msgs : Reply(Funding, msgs) /\ Transfers(msgs)
  BY OneTransfer, NoTransfer, Zenon DEF PayFundingReply
<1>2. reply.id = Funding /\ UNCHANGED temporary
  BY <1>1, Zenon DEF PayFundingReply, Reply
<1>3. Awaits(queue, reply) = Funding
  BY <1>2, ReplyIds, AnswerHandled, NoTransfer, QueueOfTransfers, Zenon DEF Awaits
<1>4. tmp_swap = NoSwap /\ tmp_liquidator = NoAccount /\ sent_funds = NoFunds
  BY <1>3, ReplyIds, Zenon DEF RecordInv, RecordsAreAwaited
<1>5. QED
  BY <1>1, <1>2, <1>4, ReplyIds, ReplyWithTransfers, Zenon DEF temporary

LEMMA DeliverStep ==
    ASSUME RecordInv, Deliver
    PROVE  RecordInv'
<1>1. \E kind \in {"transfer", "swap_input", "swap_output", "settle_funding"} : Execute(kind)
  BY Zenon DEF Deliver, ExecuteTransfer, ExecuteSwap, ExecuteFunding
<1>2. /\ reply = NoReply /\ queue # <<>> /\ queue' = Tail(queue)
      /\ checkpoint' = checkpoint
      /\ tmp_swap' = tmp_swap /\ tmp_liquidator' = tmp_liquidator /\ sent_funds' = sent_funds
  BY <1>1 DEF Execute, temporary
<1>3. ~Idle /\ TransactionsAreClean'
  BY <1>2 DEF RecordInv, TransactionsAreClean, Idle
<1>4. /\ OnlyLastCallsAmm(queue')
      /\ Head(queue).kind = "transfer" => \A a : Awaits(queue', a) = Awaits(queue, a)
      /\ Head(queue).kind # "transfer" =>
            queue' = <<>> /\ \A a : Awaits(queue, a) = Head(queue).id
      /\ Head(queue).kind = "settle_funding" => Head(queue).id = Funding
  BY <1>2, RestOfQueue, Zenon DEF RecordInv, RecordsAreAwaited
<1>5. CASE ExecuteTransfer
  <2>1. Head(queue).kind = "transfer" /\ reply' = reply
    BY <1>5, Zenon DEF ExecuteTransfer, Execute
  <2>2. RecordsAreAwaited'
    BY <1>2, <1>4, <2>1, Zenon DEF RecordInv, RecordsAreAwaited
  <2>3. QED
    BY <1>3, <2>2 DEF RecordInv
<1>6. CASE ~ExecuteTransfer
  <2>1. /\ Head(queue).kind # "transfer"
        /\ reply'.id = Head(queue).id
    <3>1. CASE ExecuteSwap
      <4>1. Head(queue).kind \in {"swap_input", "swap_output"}
        BY <3>1, Zenon DEF ExecuteSwap, Execute
      <4>2. \E i, o : reply' = [id |-> Head(queue).id, input |-> i, output |-> o]
        BY <3>1, Zenon DEF ExecuteSwap
      <4>3. QED
        BY <4>1, <4>2
    <3>2. CASE \E underlying \in OraclePrices : ExecuteFunding(underlying)
      <4>1. Head(queue).kind = "settle_funding"
        BY <3>2, Zenon DEF ExecuteFunding, Execute
      <4>2. \E i, o : reply' = [id |-> Funding, input |-> i, output |-> o]
        BY <3>2, Zenon DEF ExecuteFunding
      <4>3. QED
        BY <1>4, <4>1, <4>2
    <3>3. QED
      BY <1>6, <3>1, <3>2 DEF Deliver
  <2>2. queue' = <<>> /\ \A a : Awaits(queue, a) = reply'.id
    BY <1>4, <2>1
  <2>3. Awaits(queue', reply') = reply'.id
    BY <2>2, NoTransfer, QueueOfTransfers, Zenon DEF Awaits
  <2>4. RecordsAreAwaited'
    BY <1>2, <1>4, <2>2, <2>3, Zenon DEF RecordInv, RecordsAreAwaited
  <2>5. QED
    BY <1>3, <2>4 DEF RecordInv
<1>7. QED
  BY <1>5, <1>6

LEMMA EndSteps ==
    ASSUME RecordInv, Commit \/ Abort
    PROVE  RecordInv'
<1>1. CASE Commit
  <2>1. /\ ~Idle /\ queue = <<>> /\ reply = NoReply
        /\ UNCHANGED <<queue, reply, temporary>> /\ checkpoint' = <<>>
    BY <1>1 DEF Commit
  <2>2. RecordsAreAwaited'
    BY <2>1 DEF RecordInv, RecordsAreAwaited, temporary
  <2>3. TransactionsAreClean'
    BY <2>1 DEF TransactionsAreClean, Idle
  <2>4. QED
    BY <2>2, <2>3 DEF RecordInv
<1>2. CASE Abort
  <2>1. /\ queue' = <<>> /\ reply' = NoReply /\ checkpoint' = <<>>
        /\ tmp_swap' = NoSwap /\ tmp_liquidator' = NoAccount /\ sent_funds' = NoFunds
    BY <1>2, Zenon DEF Abort, RecordInv, TransactionsAreClean
  <2>2. RecordsAreAwaited'
    BY <2>1, NothingAwaited DEF RecordsAreAwaited
  <2>3. TransactionsAreClean'
    BY <2>1 DEF TransactionsAreClean, Idle
  <2>4. QED
    BY <2>2, <2>3 DEF RecordInv
<1>3. QED
  BY <1>1, <1>2

LEMMA UndisturbedRecords ==
    ASSUME RecordInv, UNCHANGED <<queue, reply, checkpoint, temporary>>
    PROVE  RecordInv'
BY DEF RecordInv, RecordsAreAwaited, TransactionsAreClean, Idle, temporary

LEMMA NextRecordInv == RecordInv /\ [EngineNext]_allVars => RecordInv'
<1> SUFFICES ASSUME RecordInv, [EngineNext]_allVars
             PROVE  RecordInv'
  OBVIOUS
<1>1. CASE Request
  BY <1>1, OpenPositionStep, ClosePositionStep, LiquidateStep, OtherRequestSteps, Zenon
     DEF Request
<1>2. CASE Deliver
  BY <1>2, DeliverStep
<1>3. CASE Handle
  <2>1. CASE IncreasePositionReply \/ DecreasePositionReply
    BY <2>1, UpdatePositionStep, ReplyIds, Zenon
       DEF IncreasePositionReply, DecreasePositionReply
  <2>2. QED
    BY <1>3, <2>1, ReverseStep, CloseReplySteps, LiquidationReplySteps, PayFundingReplyStep
       DEF Handle
<1>4. CASE Commit \/ Abort
  BY <1>4, EndSteps
<1>5. CASE Govern \/ Surroundings \/ UNCHANGED allVars
  <2>1. UNCHANGED <<queue, reply, checkpoint, temporary>>
    BY <1>5, Zenon DEF Govern, SetPause, UpdateEngineConfig, Administer, UpdatePauser, AddWhitelist,
       RemoveWhitelist, ChangeRegistry, Surroundings, allVars, engineVars, runtime
  <2>2. QED
    BY <2>1, UndisturbedRecords
<1>6. QED
  BY <1>1, <1>2, <1>3, <1>4, <1>5 DEF EngineNext

LEMMA InitRecordInv == EngineInit => RecordInv
<1> SUFFICES ASSUME EngineInit PROVE RecordInv
  OBVIOUS
<1>1. /\ queue = <<>> /\ reply = NoReply /\ checkpoint = <<>>
      /\ tmp_swap = NoSwap /\ tmp_liquidator = NoAccount /\ sent_funds = NoFunds
  BY DEF EngineInit
<1>2. QED
  BY <1>1, NothingAwaited DEF RecordInv, RecordsAreAwaited, TransactionsAreClean, Idle

-----------------------------------------------------------------------------
\* No reply path leaves a record of a swap or of a liquidator for the next
\* transaction, and none leaves a submessage or an answer behind: whatever the
\* request, and wherever it fails (the removals at the end of the replies).
THEOREM NothingIsLeftBehind == EngineSpec => []NoTemporaries
<1>1. RecordInv => NoTemporaries
  BY IdleIsClean DEF NoTemporaries
<1>2. QED
  BY <1>1, InitRecordInv, NextRecordInv, PTL DEF EngineSpec

-----------------------------------------------------------------------------
(* The inductive invariant of the AMM under the engine                     *)

\* What of a stored position and of the record of a swap decides which swaps
\* are asked of the AMM.
IsPosition(p) ==
    /\ {"direction", "size", "notional"} \subseteq DOMAIN p
    /\ p.direction \in Direction /\ p.size \in Int /\ p.notional \in Nat
AreBooks(p) ==
    /\ p = [trader \in Traders |-> p[trader]]
    /\ \A trader \in Traders : IsPosition(p[trader])
IsSwap(s) ==
    /\ s.side \in Direction
    /\ s.open_notional \in Nat /\ s.position_notional \in Int /\ s.unrealized_pnl \in Int

\* A swap of a natural amount, unrestricted only if it neither increases nor
\* decreases a position.
BandedIds == {IncreasePosition, DecreasePosition}
SoundMessage(m) ==
    /\ m.kind = "swap_input" =>
          /\ m.direction \in Direction /\ m.amount \in Nat /\ m.id \in SwapIds
          /\ m.id \in BandedIds => m.can_go_over = FALSE
    /\ m.kind = "swap_output" =>
          m.direction \in Direction /\ m.amount \in Nat /\ m.id \in SwapIds \ BandedIds
SoundQueue(s) == CallsAmm(s) => SoundMessage(s[Len(s)])

AmmInv == ReserveInv /\ SnapshotInv

\* What ReserveInv and SnapshotInv say of the state a failed transaction goes
\* back to, in which the block, the configuration and the owner are today's.
PriceBefore(s) ==
    LET i == IF s[Len(s)].block_height = height /\ Len(s) > 1 THEN Len(s) - 1 ELSE Len(s)
    IN  SpotPrice(s[i].quote_asset_reserve, s[i].base_asset_reserve)
SoundRestart(r) ==
    /\ r.quote_asset_reserve \in Nat \ {0} /\ r.base_asset_reserve \in Nat \ {0}
    /\ r.total_position_size \in Int
    /\ r.next_funding_time \in Nat /\ r.settled_at \in Nat
    /\ r.snapshots \in Seq(Snapshot) /\ r.snapshots # <<>>
    /\ r.base_asset_reserve + r.total_position_size = InitialBase
    /\ InvariantK(InitialQuote, InitialBase) * Decimals
         <= r.quote_asset_reserve * r.base_asset_reserve
    /\ r.snapshots[Len(r.snapshots)].quote_asset_reserve = r.quote_asset_reserve
    /\ r.snapshots[Len(r.snapshots)].base_asset_reserve = r.base_asset_reserve
    /\ r.snapshots[Len(r.snapshots)].block_height <= height
    /\ r.snapshots[1].block_height = 1
    /\ height > 1 => PriceBefore(r.snapshots) = closing_price
    /\ InOrder(r.snapshots, now, height)
    /\ AreBooks(r.positions) /\ IsSwap(r.tmp_swap)

\* The answer to a swap that may not go over the limit finds the price within.
AnswerInv ==
    /\ reply.id # Funding => reply.input \in Nat /\ reply.output \in Nat
    /\ (/\ reply.id \in BandedIds
        /\ height > 1 /\ config.fluctuation_limit_ratio # 0)
         => WithinLimits(CurrentPrice, closing_price, config.fluctuation_limit_ratio)

SafetyInv ==
    /\ AmmInv
    /\ AnswerInv
    /\ engine_config \in EngineConfig
    /\ AreBooks(positions) /\ IsSwap(tmp_swap)
    /\ SoundQueue(queue)
    /\ ~Idle => SoundRestart(Head(checkpoint))

LEMMA PositionUpdates ==
    ASSUME NEW p, IsPosition(p), NEW m, NEW l, NEW b
    PROVE  /\ IsPosition([p EXCEPT !.margin = m])
           /\ IsPosition([p EXCEPT !.margin = m, !.last_updated_premium_fraction = l])
           /\ IsPosition(Clear(p))
           /\ \A n \in Nat, s \in Int :
                 IsPosition([p EXCEPT !.size = s, !.margin = m, !.notional = n])
           /\ \A n \in Nat, a \in Int :
                 IsPosition([p EXCEPT !.size = @ + a, !.margin = m, !.notional = n,
                                      !.last_updated_premium_fraction = l, !.block_number = b])
           /\ \A n \in Nat, a \in Int, d \in Direction :
                 IsPosition([p EXCEPT !.direction = d, !.notional = n, !.size = @ + a,
                                      !.margin = m, !.last_updated_premium_fraction = l,
                                      !.block_number = b])
<1>1. IsPosition([p EXCEPT !.margin = m])
  BY SMT DEF IsPosition
<1>2. IsPosition([p EXCEPT !.margin = m, !.last_updated_premium_fraction = l])
  BY SMT DEF IsPosition
<1>3. IsPosition(Clear(p))
  BY SMT DEF IsPosition, Clear
<1>4. \A n \in Nat, s \in Int : IsPosition([p EXCEPT !.size = s, !.margin = m, !.notional = n])
  BY SMT DEF IsPosition
<1>5. \A n \in Nat, a \in Int :
         IsPosition([p EXCEPT !.size = @ + a, !.margin = m, !.notional = n,
                              !.last_updated_premium_fraction = l, !.block_number = b])
  BY SMT DEF IsPosition
<1>6. \A n \in Nat, a \in Int, d \in Direction :
         IsPosition([p EXCEPT !.direction = d, !.notional = n, !.size = @ + a, !.margin = m,
                              !.last_updated_premium_fraction = l, !.block_number = b])
  BY SMT DEF IsPosition
<1>7. QED
  BY <1>1, <1>2, <1>3, <1>4, <1>5, <1>6

LEMMA BooksUpdate ==
    ASSUME NEW p, AreBooks(p), NEW trader, NEW new, trader \in Traders => IsPosition(new)
    PROVE  AreBooks([p EXCEPT ![trader] = new])
BY SMT DEF AreBooks

LEMMA NewRecords ==
    /\ IsPosition(NoPosition) /\ IsSwap(NoSwap)
    /\ \A t, l : \A s \in Direction, n \in Nat, v \in Int, p \in Int :
          IsSwap(Swapping(t, s, l, n, v, p))
<1>1. IsPosition(NoPosition)
  BY DEF IsPosition, NoPosition, Direction
<1>2. IsSwap(NoSwap)
  BY DEF IsSwap, NoSwap, Direction
<1>3. \A t, l : \A s \in Direction, n \in Nat, v \in Int, p \in Int :
          IsSwap(Swapping(t, s, l, n, v, p))
  BY DEF IsSwap, Swapping
<1>4. QED
  BY <1>1, <1>2, <1>3

-----------------------------------------------------------------------------
(* Queues of submessages                                                   *)

LEMMA SoundTransfers ==
    ASSUME NEW s, Transfers(s)
    PROVE  SoundQueue(s) /\ IsSequence(s)
BY QueueOfTransfers DEF SoundQueue, Transfers

LEMMA SoundEnding ==
    ASSUME NEW s, NEW m, Transfers(s), SoundMessage(m)
    PROVE  SoundQueue(s \o <<m>>) /\ IsSequence(s \o <<m>>)
<1>1. PICK S : s \in Seq(S)
  BY DEF Transfers, IsSequence
<1>2. s \in Seq(S \union {m}) /\ <<m>> \in Seq(S \union {m})
      /\ Len(<<m>>) = 1 /\ <<m>>[1] = m
  BY <1>1, SMT
<1>3. /\ s \o <<m>> \in Seq(S \union {m})
      /\ (s \o <<m>>)[Len(s \o <<m>>)] = m
  BY <1>2, SMT
<1>4. QED
  BY <1>3 DEF SoundQueue, IsSequence

LEMMA SoundCall ==
    ASSUME NEW m, SoundMessage(m)
    PROVE  SoundQueue(<<m>>) /\ IsSequence(<<m>>)
<1>1. <<>> \o <<m>> = <<m>>
  BY SMT
<1>2. QED
  BY <1>1, NoTransfer, SoundEnding, Zenon

LEMMA SoundRest ==
    ASSUME NEW s, OnlyLastCallsAmm(s), s # <<>>, SoundQueue(s)
    PROVE  SoundQueue(Tail(s)) /\ SoundMessage(Head(s))
<1>1. PICK S : s \in Seq(S)
  BY DEF OnlyLastCallsAmm, IsSequence
<1>2. /\ Len(s) \in Nat \ {0} /\ Head(s) = s[1]
      /\ Tail(s) \in Seq(S) /\ Len(Tail(s)) = Len(s) - 1
  BY <1>1, SMT
<1>3. CASE Len(s) = 1
  <2>1. ~CallsAmm(Tail(s)) /\ Head(s) = s[Len(s)] /\ Len(s) # 0
    BY <1>2, <1>3, SMT DEF CallsAmm
  <2>2. CASE CallsAmm(s)
    BY <2>1, <2>2 DEF SoundQueue
  <2>3. CASE ~CallsAmm(s)
    <3>1. Head(s).kind = "transfer"
      BY <2>1, <2>3 DEF CallsAmm
    <3>2. QED
      BY <2>1, <3>1 DEF SoundQueue, SoundMessage
  <2>4. QED
    BY <2>2, <2>3
<1>4. CASE Len(s) # 1
  <2>1. Len(s) # 0 /\ Tail(s)[Len(Tail(s))] = s[Len(s)] /\ 1 \in 1 .. Len(s) - 1
    BY <1>1, <1>2, <1>4, SMT
  <2>2. SoundQueue(Tail(s))
    BY <2>1 DEF SoundQueue, CallsAmm
  <2>3. Head(s).kind = "transfer"
    BY <1>2, <2>1 DEF OnlyLastCallsAmm
  <2>4. QED
    BY <2>2, <2>3 DEF SoundMessage
<1>5. QED
  BY <1>3, <1>4

-----------------------------------------------------------------------------
(* The AMM, and the state to go back to                                    *)

LEMMA AmmStep ==
    ASSUME AmmInv, Traded \/ [Next]_vars
    PROVE  AmmInv'
BY NextReserveInv, TradedReserveInv, TradedSnapshotInv, NextSnapshotInv DEF AmmInv

LEMMA SoundSaved ==
    ASSUME AmmInv, AreBooks(positions), IsSwap(tmp_swap), NEW r, r = Saved
    PROVE  SoundRestart(r)
<1>1. /\ r.quote_asset_reserve = quote_asset_reserve
      /\ r.base_asset_reserve = base_asset_reserve
      /\ r.total_position_size = total_position_size
      /\ r.next_funding_time = next_funding_time /\ r.settled_at = settled_at
      /\ r.snapshots = snapshots /\ r.positions = positions /\ r.tmp_swap = tmp_swap
  BY DEF Saved
<1>2. PriceBefore(snapshots) = PriceOfLastBlock
  BY DEF PriceBefore, PriceOfLastBlock, SnapshotPrice, Last
<1>3. QED
  BY <1>1, <1>2 DEF SoundRestart, AmmInv, ReserveInv, TypeOK, NetPositionMatchesReserve,
     ReservesCoverInvariant, ReservesNotEmpty, SnapshotInv, LastSnapshotIsCurrent,
     BoundaryIsClosingPrice, Last

LEMMA Restarted ==
    ASSUME AmmInv, NEW r, SoundRestart(r),
           /\ quote_asset_reserve' = r.quote_asset_reserve
           /\ base_asset_reserve' = r.base_asset_reserve
           /\ total_position_size' = r.total_position_size
           /\ next_funding_time' = r.next_funding_time /\ settled_at' = r.settled_at
           /\ snapshots' = r.snapshots
           /\ UNCHANGED <<owner, config, open, height, now, closing_price>>
    PROVE  AmmInv'
<1>1. TypeOK' /\ ReservesNotEmpty'
  BY DEF SoundRestart, AmmInv, ReserveInv, TypeOK, ReservesNotEmpty
<1>2. NetPositionMatchesReserve' /\ ReservesCoverInvariant'
  BY DEF SoundRestart, NetPositionMatchesReserve, ReservesCoverInvariant
<1>3. LastSnapshotIsCurrent'
  BY DEF SoundRestart, LastSnapshotIsCurrent, Last, AmmInv, SnapshotInv
<1>4. PriceOfLastBlock' = PriceBefore(r.snapshots)
  BY DEF PriceBefore, PriceOfLastBlock, SnapshotPrice, Last
<1>5. BoundaryIsClosingPrice' /\ InOrder(snapshots, now, height)'
  BY <1>4 DEF SoundRestart, BoundaryIsClosingPrice
<1>6. QED
  BY <1>1, <1>2, <1>3, <1>5 DEF AmmInv, ReserveInv, SnapshotInv

-----------------------------------------------------------------------------
(* What every request and every reply has to show                          *)

LEMMA NoAnswer == NoReply.id \notin BandedIds \union {Funding} /\ NoReply.input \in Nat
                    /\ NoReply.output \in Nat
BY DEF NoReply, BandedIds, Funding, IncreasePosition, DecreasePosition

LEMMA RestartKept ==
    ASSUME ~Idle => SoundRestart(Head(checkpoint)),
           UNCHANGED <<checkpoint, height, now, closing_price>>
    PROVE  (~Idle => SoundRestart(Head(checkpoint)))'
BY DEF Idle, SoundRestart, PriceBefore

\* A handler that begins a transaction.
LEMMA BeginKeeps ==
    ASSUME RecordInv, SafetyInv, NEW sender, NEW funds, NEW msgs,
           BeginWith(sender, funds, msgs), SoundQueue(msgs),
           AreBooks(positions'), IsSwap(tmp_swap')
    PROVE  SafetyInv'
<1>1. /\ Idle /\ checkpoint' = <<Saved>> /\ queue' = msgs
      /\ UNCHANGED <<vars, engine_config, reply>>
  BY DEF BeginWith, settings
<1>2. AmmInv'
  BY <1>1, AmmStep DEF SafetyInv
<1>3. UNCHANGED <<height, now, closing_price, config, quote_asset_reserve, base_asset_reserve>>
  BY <1>1 DEF vars, state, history
<1>4. AnswerInv'
  BY <1>1, <1>3 DEF SafetyInv, AnswerInv, CurrentPrice
<1>5. SoundRestart(Head(checkpoint))'
  <2>1. PICK r : r = Saved
    OBVIOUS
  <2>2. SoundRestart(r)
    BY <2>1, SoundSaved DEF SafetyInv
  <2>3. Head(checkpoint') = r
    <3>1. Head(<<r>>) = r
      BY SMT
    <3>2. QED
      BY <1>1, <2>1, <3>1
  <2>4. QED
    BY <1>3, <2>2, <2>3 DEF SoundRestart, PriceBefore
<1>6. QED
  BY <1>1, <1>2, <1>4, <1>5 DEF SafetyInv

\* A reply: it ends the wait for its answer, and leaves the AMM alone.
LEMMA ReplyKeeps ==
    ASSUME RecordInv, SafetyInv, NEW id, id # "none", NEW msgs, Reply(id, msgs),
           SoundQueue(msgs), IsSequence(msgs), AreBooks(positions'), IsSwap(tmp_swap')
    PROVE  SafetyInv'
<1>1. /\ reply.id = id /\ reply' = NoReply /\ queue' = msgs \o queue
      /\ UNCHANGED <<vars, engine_config, checkpoint>>
  BY DEF Reply, settings
<1>2. queue' = msgs
  <2>1. queue = <<>>
    BY <1>1, AnswerHandled
  <2>2. PICK S : msgs \in Seq(S)
    BY DEF IsSequence
  <2>3. QED
    BY <1>1, <2>1, <2>2, ConcatEmptySeq
<1>3. AmmInv'
  BY <1>1, AmmStep DEF SafetyInv
<1>4. AnswerInv'
  BY <1>1, NoAnswer DEF AnswerInv
<1>5. UNCHANGED <<height, now, closing_price>>
  BY <1>1 DEF vars, history
<1>6. (~Idle => SoundRestart(Head(checkpoint)))'
  BY <1>1, <1>5, RestartKept DEF SafetyInv
<1>7. QED
  BY <1>1, <1>2, <1>3, <1>4, <1>6 DEF SafetyInv

\* Steps that touch nothing the invariant speaks of.
LEMMA UndisturbedSafety ==
    ASSUME SafetyInv, UNCHANGED <<vars, positions, tmp_swap, queue, reply, checkpoint>>,
           engine_config' \in EngineConfig
    PROVE  SafetyInv'
<1>1. AmmInv'
  BY AmmStep DEF SafetyInv
<1>2. UNCHANGED <<height, now, closing_price, config, quote_asset_reserve, base_asset_reserve>>
  BY DEF vars, state, history
<1>3. AnswerInv'
  BY <1>2 DEF SafetyInv, AnswerInv, CurrentPrice
<1>4. (~Idle => SoundRestart(Head(checkpoint)))'
  BY <1>2, RestartKept DEF SafetyInv
<1>5. QED
  BY <1>1, <1>3, <1>4 DEF SafetyInv

-----------------------------------------------------------------------------
(* Requests *)

LEMMA Amounts ==
    /\ \A n \in Int : Abs(n) \in Nat
    /\ \A x \in Int, y \in Int : Gap(x, y) \in Nat
    /\ \A direction, amount, q, b :
          GetOutputPriceDefined(direction, amount, q, b)
            => GetOutputPrice(direction, amount, q, b) \in Nat
    /\ \A d \in Direction : Flip(d) \in Direction
    /\ \A d \in Direction, n \in Int : Signed(d, n) \in Int
<1>1. \A n \in Int : Abs(n) \in Nat
  BY SMT DEF Abs
<1>2. \A x \in Int, y \in Int : Gap(x, y) \in Nat
  BY SMT DEF Gap
<1>3. ASSUME NEW direction, NEW amount, NEW q, NEW b,
             GetOutputPriceDefined(direction, amount, q, b)
      PROVE  GetOutputPrice(direction, amount, q, b) \in Nat
  <2>1. CASE amount = 0
    BY <2>1 DEF GetOutputPrice
  <2>2. CASE amount # 0
    <3>1. Exchange(direction, amount, b, q) \in Uint
      BY <1>3, <2>2 DEF GetOutputPriceDefined, ExchangeDefined
    <3>2. \A n \in Uint : n \in Nat
      BY MaxUintAssumption, SMT DEF Uint
    <3>3. QED
      BY <2>2, <3>1, <3>2 DEF GetOutputPrice
  <2>3. QED
    BY <2>1, <2>2
<1>4. \A d \in Direction : Flip(d) \in Direction
  BY DEF Flip, Direction
<1>5. \A d \in Direction, n \in Int : Signed(d, n) \in Int
  BY SMT DEF Signed
<1>6. QED
  BY <1>1, <1>2, <1>3, <1>4, <1>5

LEMMA ScaledAmounts ==
    /\ \A n \in Nat : (engine_config \in EngineConfig) => Part(n) \in Nat
    /\ \A n \in Nat, l \in Nat : (n * l) \div Decimals \in Nat
<1>1. \A n \in Nat, l \in Nat : (n * l) \div Decimals \in Nat
  <2> TAKE n \in Nat, l \in Nat
  <2>1. n * l \in Nat
    BY ProductType
  <2>2. QED
    BY <2>1, DivMod, DecimalsAssumption
<1>2. engine_config \in EngineConfig => engine_config.partial_liquidation_ratio \in Nat
  BY DecimalsAssumption, SMT DEF EngineConfig
<1>3. QED
  BY <1>1, <1>2 DEF Part

LEMMA PnlType ==
    ASSUME NEW position, IsPosition(position), NEW notional \in Int
    PROVE  UnrealizedPnl(position, notional) \in Int
<1>1. position.notional \in Int
  BY SMT DEF IsPosition
<1>2. QED
  BY <1>1, SMT DEF UnrealizedPnl

LEMMA SoundSwaps ==
    /\ \A id, direction, amount, limit, over :
          id \in SwapIds /\ direction \in Direction /\ amount \in Nat
            /\ (id \in BandedIds => over = FALSE)
            => SoundMessage(SwapInputMsg(id, direction, amount, limit, over))
    /\ \A id, direction, amount, limit :
          id \in SwapIds \ BandedIds /\ direction \in Direction /\ amount \in Nat
            => SoundMessage(SwapOutputMsg(id, direction, amount, limit))
    /\ SoundMessage(FundingMsg)
<1>1. ASSUME NEW id, NEW direction, NEW amount, NEW limit, NEW over,
             id \in SwapIds /\ direction \in Direction /\ amount \in Nat
               /\ (id \in BandedIds => over = FALSE)
      PROVE  SoundMessage(SwapInputMsg(id, direction, amount, limit, over))
  BY <1>1 DEF SoundMessage, SwapInputMsg
<1>2. ASSUME NEW id, NEW direction, NEW amount, NEW limit,
             id \in SwapIds \ BandedIds /\ direction \in Direction /\ amount \in Nat
      PROVE  SoundMessage(SwapOutputMsg(id, direction, amount, limit))
  BY <1>2 DEF SoundMessage, SwapOutputMsg
<1>3. SoundMessage(FundingMsg)
  BY DEF SoundMessage, FundingMsg
<1>4. QED
  BY <1>1, <1>2, <1>3, Zenon

LEMMA UnbandedIds ==
    /\ BandedIds \intersect {ReversePosition, ClosingPosition, PartialClosePosition,
                             Liquidation, PartialLiquidation, Funding} = {}
    /\ {IncreasePosition, DecreasePosition, ReversePosition, ClosingPosition,
        PartialClosePosition, Liquidation, PartialLiquidation} \subseteq SwapIds
BY DEF BandedIds, SwapIds, TradeIds, LiquidationIds, IncreasePosition, DecreasePosition, ReversePosition, ClosingPosition,
       PartialClosePosition, Liquidation, PartialLiquidation, Funding

LEMMA StoredOrNew ==
    ASSUME AreBooks(positions), NEW trader \in Traders, NEW side \in Direction
    PROVE  IsPosition(positions[trader]) /\ IsPosition(GetPosition(trader, side))
<1>1. IsPosition(positions[trader])
  BY DEF AreBooks
<1>2. IsPosition([NoPosition EXCEPT !.exists = TRUE, !.direction = side, !.block_number = height])
  BY NewRecords, SMT DEF IsPosition
<1>3. QED
  BY <1>1, <1>2 DEF GetPosition

LEMMA OpenPositionSafe ==
    ASSUME RecordInv, SafetyInv, NEW trader \in Traders, NEW side \in Direction,
           NEW margin \in Nat, NEW leverage \in Nat, NEW limit, NEW funds,
           OpenPosition(trader, side, margin, leverage, limit, funds)
    PROVE  SafetyInv'
<1> DEFINE position == GetPosition(trader, side)
           open_notional == (margin * leverage) \div Decimals
           value == SpotNotional(position)
           message ==
            IF position.direction = side
            THEN SwapInputMsg(IncreasePosition, side, open_notional, limit, FALSE)
            ELSE IF value > open_notional
            THEN SwapInputMsg(DecreasePosition, side, open_notional, limit, FALSE)
            ELSE SwapOutputMsg(ReversePosition, position.direction, Abs(position.size), 0)
<1>1. /\ BeginWith(trader, funds, <<message>>)
      /\ tmp_swap' = Swapping(trader, side, leverage, open_notional, value,
                              UnrealizedPnl(position, value))
      /\ positions' = positions /\ SpotNotionalDefined(position)
  BY Zenon DEF OpenPosition, book
<1>2. IsPosition(position)
  BY StoredOrNew DEF SafetyInv
<1>3. open_notional \in Nat
  BY ScaledAmounts
<1>4. value \in Nat
  BY <1>1, Amounts, Zenon DEF SpotNotional, SpotNotionalDefined
<1> HIDE DEF position, open_notional, value
<1>5. UnrealizedPnl(position, value) \in Int
  BY <1>2, <1>4, PnlType, SMT
<1>6. open_notional \in Int /\ value \in Int
  BY <1>3, <1>4, SMT
<1>7. IsSwap(tmp_swap')
  BY <1>1, <1>3, <1>5, <1>6, NewRecords
<1>8. SoundMessage(message)
  <2>1. position.direction \in Direction /\ Abs(position.size) \in Nat
    BY <1>2, Amounts DEF IsPosition
  <2>2. ReversePosition \notin BandedIds
    BY UnbandedIds
  <2>3. QED
    BY <2>1, <2>2, <1>3, SoundSwaps, UnbandedIds, Zenon
<1> HIDE DEF message
<1>9. SoundQueue(<<message>>)
  BY <1>8, SoundCall
<1>10. QED
  BY <1>1, <1>7, <1>9, BeginKeeps DEF SafetyInv

LEMMA ClosePositionSafe ==
    ASSUME RecordInv, SafetyInv, NEW trader \in Traders, NEW limit, NEW funds,
           ClosePosition(trader, limit, funds)
    PROVE  SafetyInv'
<1> DEFINE position == positions[trader]
           direction == IF position.size > 0 THEN AddToAmm ELSE RemoveFromAmm
           quote == GetOutputPrice(direction, Part(Abs(position.size)),
                                   quote_asset_reserve, base_asset_reserve)
           value == SpotNotional(position)
           part == SwapInputMsg(PartialClosePosition, Flip(direction), quote, 0, TRUE)
           whole == CloseMsg(ClosingPosition, position, limit)
<1>1. /\ positions' = positions
      /\ \/ /\ GetOutputPriceDefined(direction, Part(Abs(position.size)),
                                     quote_asset_reserve, base_asset_reserve)
            /\ SpotNotionalDefined(position)
            /\ BeginWith(trader, funds, <<part>>)
            /\ tmp_swap' = Swapping(trader, Flip(direction), Decimals, quote, value,
                                    UnrealizedPnl(position, value))
         \/ /\ BeginWith(trader, funds, <<whole>>)
            /\ tmp_swap' = CloseSwap(trader, position)
  BY Zenon DEF ClosePosition, Begin, book
<1>2. /\ IsPosition(position)
      /\ position.direction \in Direction /\ position.size \in Int
      /\ position.notional \in Nat /\ position.notional \in Int
      /\ Abs(position.size) \in Nat
  BY Amounts, SMT DEF SafetyInv, AreBooks, IsPosition
<1>3. direction \in Direction /\ Flip(direction) \in Direction
  BY Amounts DEF Direction
<1>4. /\ PartialClosePosition \notin BandedIds
      /\ ClosingPosition \notin BandedIds
  BY UnbandedIds
<1> HIDE DEF direction
<1>5. CASE /\ GetOutputPriceDefined(direction, Part(Abs(position.size)),
                                     quote_asset_reserve, base_asset_reserve)
           /\ SpotNotionalDefined(position)
           /\ BeginWith(trader, funds, <<part>>)
           /\ tmp_swap' = Swapping(trader, Flip(direction), Decimals, quote, value,
                                   UnrealizedPnl(position, value))
  <2>1. quote \in Nat
    BY <1>5, Amounts, Zenon
  <2>2. value \in Nat
    BY <1>5, Amounts, Zenon DEF SpotNotional, SpotNotionalDefined
  <2> HIDE DEF quote, value, position
  <2>3. quote \in Int /\ value \in Int
    BY <2>1, <2>2, SMT
  <2>4. UnrealizedPnl(position, value) \in Int
    BY <1>2, <2>3, PnlType
  <2>5. IsSwap(tmp_swap')
    BY <1>3, <1>5, <2>1, <2>3, <2>4, NewRecords
  <2>6. SoundMessage(part)
    BY <1>3, <1>4, <2>1, SoundSwaps, UnbandedIds, Zenon
  <2> HIDE DEF part
  <2>7. SoundQueue(<<part>>)
    BY <2>6, SoundCall
  <2>8. QED
    BY <1>1, <1>5, <2>5, <2>7, BeginKeeps DEF SafetyInv
<1>6. CASE /\ BeginWith(trader, funds, <<whole>>)
           /\ tmp_swap' = CloseSwap(trader, position)
  <2> HIDE DEF position
  <2>1. IsSwap(tmp_swap')
    BY <1>2, <1>6, NewRecords DEF CloseSwap
  <2>2. SoundMessage(whole)
    BY <1>2, <1>4, SoundSwaps, UnbandedIds, Zenon DEF CloseMsg
  <2> HIDE DEF whole
  <2>3. SoundQueue(<<whole>>)
    BY <2>2, SoundCall
  <2>4. QED
    BY <1>1, <1>6, <2>1, <2>3, BeginKeeps DEF SafetyInv
<1>7. QED
  BY <1>1, <1>5, <1>6

LEMMA LiquidateSafe ==
    ASSUME RecordInv, SafetyInv, NEW sender, NEW trader \in Traders, NEW limit, NEW oracle, NEW funds,
           Liquidate(sender, trader, limit, oracle, funds)
    PROVE  SafetyInv'
<1> DEFINE position == positions[trader]
           part == PartialLiquidationMsg(position, limit)
           whole == CloseMsg(Liquidation, position, limit)
<1>1. /\ positions' = positions
      /\ position.size # 0 /\ MarginRatioDefined(position)
      /\ \/ /\ PartialLiquidationDefined(position)
            /\ BeginWith(sender, funds, <<part>>)
            /\ tmp_swap' = PartialLiquidationSwap(trader, position)
         \/ /\ BeginWith(sender, funds, <<whole>>)
            /\ tmp_swap' = CloseSwap(trader, position)
  BY Zenon DEF Liquidate, Begin, book
<1>2. /\ IsPosition(position)
      /\ position.direction \in Direction /\ position.size \in Int
      /\ position.notional \in Nat /\ position.notional \in Int
      /\ Abs(position.size) \in Nat
  BY Amounts, SMT DEF SafetyInv, AreBooks, IsPosition
<1>3. /\ PartialLiquidation \notin BandedIds
      /\ Liquidation \notin BandedIds
  BY UnbandedIds
<1>4. CASE /\ PartialLiquidationDefined(position)
           /\ BeginWith(sender, funds, <<part>>)
           /\ tmp_swap' = PartialLiquidationSwap(trader, position)
  <2>1. PartNotional(position) \in Nat
    BY <1>4, Amounts, Zenon DEF PartNotional, PartialLiquidationDefined
  <2>2. SpotNotional(position) \in Nat
    <3>1. SpotNotionalDefined(position)
      BY <1>1, Zenon DEF MarginRatioDefined, PrudentNotionalDefined
    <3>2. QED
      BY <3>1, Amounts, Zenon DEF SpotNotional, SpotNotionalDefined
  <2>3. Part(Abs(position.size)) \in Nat
    BY <1>2, ScaledAmounts DEF SafetyInv
  <2> HIDE DEF position
  <2>4. PartNotional(position) \in Int /\ SpotNotional(position) \in Int
    BY <2>1, <2>2, SMT
  <2>5. UnrealizedPnl(position, SpotNotional(position)) \in Int
    BY <1>2, <2>4, PnlType
  <2>6. (IF position.size > 0 THEN RemoveFromAmm ELSE AddToAmm) \in Direction
    BY DEF Direction
  <2>7. IsSwap(tmp_swap')
    <3> DEFINE side == IF position.size > 0 THEN RemoveFromAmm ELSE AddToAmm
               pnl == UnrealizedPnl(position, SpotNotional(position))
    <3>1. tmp_swap' = Swapping(trader, side, 0, PartNotional(position), 0, pnl)
      BY <1>4, Zenon DEF PartialLiquidationSwap
    <3>2. side \in Direction /\ pnl \in Int /\ 0 \in Int
      BY <2>5, <2>6
    <3> HIDE DEF side, pnl
    <3>3. QED
      BY <3>1, <3>2, <2>1, NewRecords
  <2>8. SoundMessage(part)
    BY <1>2, <1>3, <2>3, SoundSwaps, UnbandedIds, Zenon DEF PartialLiquidationMsg
  <2> HIDE DEF part
  <2>9. SoundQueue(<<part>>)
    BY <2>8, SoundCall
  <2>10. QED
    BY <1>1, <1>4, <2>7, <2>9, BeginKeeps DEF SafetyInv
<1>5. CASE /\ BeginWith(sender, funds, <<whole>>)
           /\ tmp_swap' = CloseSwap(trader, position)
  <2> HIDE DEF position
  <2>1. IsSwap(tmp_swap')
    BY <1>2, <1>5, NewRecords DEF CloseSwap
  <2>2. SoundMessage(whole)
    BY <1>2, <1>3, SoundSwaps, UnbandedIds, Zenon DEF CloseMsg
  <2> HIDE DEF whole
  <2>3. SoundQueue(<<whole>>)
    BY <2>2, SoundCall
  <2>4. QED
    BY <1>1, <1>5, <2>1, <2>3, BeginKeeps DEF SafetyInv
<1>6. QED
  BY <1>1, <1>4, <1>5

LEMMA OtherRequestsSafe ==
    ASSUME RecordInv, SafetyInv,
           \/ \E sender, funds : PayFunding(sender, funds)
           \/ \E trader \in Traders : \E amount, funds : DepositMargin(trader, amount, funds)
           \/ \E trader \in Traders : \E amount, funds : WithdrawMargin(trader, amount, funds)
    PROVE  SafetyInv'
<1>1. IsSwap(tmp_swap) /\ AreBooks(positions)
  BY DEF SafetyInv
<1>2. CASE \E sender, funds : PayFunding(sender, funds)
  <2>1. PICK sender, funds : PayFunding(sender, funds)
    BY <1>2
  <2>2. BeginWith(sender, funds, <<FundingMsg>>) /\ UNCHANGED <<positions, tmp_swap>>
    BY <2>1 DEF PayFunding, Begin, book, temporary
  <2>3. SoundQueue(<<FundingMsg>>)
    BY SoundSwaps, SoundCall
  <2>4. QED
    BY <1>1, <2>2, <2>3, BeginKeeps
<1>3. CASE \E trader \in Traders : \E amount, funds : DepositMargin(trader, amount, funds)
  <2>1. PICK trader \in Traders : \E amount, funds : DepositMargin(trader, amount, funds)
    BY <1>3
  <2>2. PICK amount, funds : DepositMargin(trader, amount, funds)
    BY <2>1
  <2> DEFINE msgs == IF Native THEN <<>> ELSE <<Transfer(trader, Engine, amount)>>
  <2>3. /\ BeginWith(trader, funds, msgs) /\ tmp_swap' = tmp_swap
        /\ positions' = [positions EXCEPT ![trader].margin = @ + amount]
    BY <2>2 DEF DepositMargin, temporary
  <2>4. SoundQueue(msgs)
    BY OneTransfer, NoTransfer, SoundTransfers
  <2> HIDE DEF msgs
  <2>5. AreBooks(positions')
    <3>1. IsPosition([positions[trader] EXCEPT !.margin = @ + amount])
      BY <1>1, PositionUpdates DEF AreBooks
    <3>2. QED
      BY <2>3, <3>1, <1>1, BooksUpdate
  <2>6. QED
    BY <1>1, <2>3, <2>4, <2>5, BeginKeeps
<1>4. CASE \E trader \in Traders : \E amount, funds : WithdrawMargin(trader, amount, funds)
  <2>1. PICK trader \in Traders : \E amount, funds : WithdrawMargin(trader, amount, funds)
    BY <1>4
  <2>2. PICK amount, funds : WithdrawMargin(trader, amount, funds)
    BY <2>1
  <2> DEFINE position == positions[trader]
             margin == RemainMargin(position, -amount)
             premium == vamm_map.cumulative_premium_fraction
             new == [position EXCEPT !.margin = margin, !.last_updated_premium_fraction = premium]
  <2>3. /\ BeginWith(trader, funds, Withdraw(trader, amount, funds)) /\ tmp_swap' = tmp_swap
        /\ positions' = [positions EXCEPT ![trader].margin = margin,
                                          ![trader].last_updated_premium_fraction = premium]
    BY <2>2 DEF WithdrawMargin, Begin, temporary
  <2>4. SoundQueue(Withdraw(trader, amount, funds))
    BY WithdrawTransfers, SoundTransfers
  <2>5. AreBooks(positions')
    <3>1. IsPosition(new)
      BY <1>1, PositionUpdates DEF AreBooks
    <3> HIDE DEF margin, premium
    <3>2. positions' = [positions EXCEPT ![trader] = new]
      BY <2>3
    <3>3. QED
      BY <3>1, <3>2, <1>1, BooksUpdate
  <2>6. QED
    BY <1>1, <2>3, <2>4, <2>5, BeginKeeps
<1>5. QED
  BY <1>2, <1>3, <1>4

-----------------------------------------------------------------------------
(* Replies *)

LEMMA ProfitTypes ==
    ASSUME SafetyInv, NEW position, IsPosition(position), NEW output \in Nat
    PROVE  /\ RealizedPnl(position, output) \in Int
           /\ RemainingNotional(position, RealizedPnl(position, output)) \in Nat
<1>1. /\ tmp_swap.unrealized_pnl \in Int /\ tmp_swap.position_notional \in Int
      /\ tmp_swap.open_notional \in Int /\ position.size \in Int
  BY SMT DEF SafetyInv, IsSwap, IsPosition
<1>2. RealizedPnl(position, output) \in Int
  <2>1. CASE position.size = 0
    BY <2>1 DEF RealizedPnl
  <2>2. CASE position.size # 0
    <3>1. Abs(position.size) \in Nat \ {0}
      BY <1>1, <2>2, SMT DEF Abs
    <3>2. tmp_swap.unrealized_pnl * output \in Int
      BY <1>1, SMT
    <3>3. QED
      BY <2>2, <3>1, <3>2, TruncDivType DEF RealizedPnl
  <2>3. QED
    BY <2>1, <2>2
<1> DEFINE realized == RealizedPnl(position, output)
<1> HIDE DEF realized
<1>3. realized \in Int
  BY <1>2 DEF realized
<1>4. RemainingNotional(position, realized) \in Nat
  BY <1>1, <1>3, SMT DEF RemainingNotional, SignedNotional, Abs
<1>5. QED
  BY <1>2, <1>4 DEF realized

LEMMA SwapAnswers ==
    ASSUME SafetyInv, NEW id \in SwapIds, reply.id = id
    PROVE  reply.input \in Nat /\ reply.output \in Nat /\ id # "none"
<1>1. id # Funding /\ id # "none"
  BY ReplyIds
<1>2. QED
  BY <1>1 DEF SafetyInv, AnswerInv

LEMMA UpdatePositionSafe ==
    ASSUME RecordInv, SafetyInv, NEW id \in SwapIds, NEW direction, NEW interest,
           NEW swapMargin, NEW marginDelta, NEW notional,
           tmp_swap.trader \in Traders => direction \in Direction /\ notional \in Nat,
           reply.id = id,
           UpdatePosition(id, direction, interest, swapMargin, marginDelta, notional)
    PROVE  SafetyInv'
<1> DEFINE old == GetPosition(tmp_swap.trader, tmp_swap.side)
           change == Signed(tmp_swap.side, reply.output)
           margin == RemainMargin(old, marginDelta)
           premium == vamm_map.cumulative_premium_fraction
           new == [old EXCEPT !.direction = direction, !.notional = notional,
                              !.size = @ + change, !.margin = margin,
                              !.last_updated_premium_fraction = premium,
                              !.block_number = height]
<1>1. /\ \E s, t : Reply(id, s \o t) /\ Transfers(s) /\ Transfers(t)
      /\ positions' = [positions EXCEPT ![tmp_swap.trader] = new]
      /\ tmp_swap' = NoSwap
  BY WithdrawTransfers, FeesAreTransfers, NoTransfer, Zenon DEF UpdatePosition, RemoveTmpSwap
<1>2. \E msgs : Reply(id, msgs) /\ Transfers(msgs)
  BY <1>1, BothTransfers, Zenon
<1>3. ASSUME tmp_swap.trader \in Traders
      PROVE  IsPosition(new)
  <2>1. tmp_swap.side \in Direction /\ reply.output \in Int
    BY SwapAnswers, SMT DEF SafetyInv, IsSwap
  <2>2. IsPosition(old) /\ change \in Int
    BY <1>3, <2>1, StoredOrNew, Amounts DEF SafetyInv
  <2>3. direction \in Direction /\ notional \in Nat
    BY <1>3
  <2> HIDE DEF old, change, margin, premium
  <2>4. QED
    BY <2>2, <2>3, PositionUpdates
<1> HIDE DEF new
<1>4. AreBooks(positions')
  BY <1>1, <1>3, BooksUpdate DEF SafetyInv
<1>5. IsSwap(tmp_swap')
  BY <1>1, NewRecords
<1>6. QED
  BY <1>2, <1>4, <1>5, SwapAnswers, SoundTransfers, ReplyKeeps

LEMMA IncreaseSafe ==
    ASSUME RecordInv, SafetyInv, IncreasePositionReply
    PROVE  SafetyInv'
<1> DEFINE old == GetPosition(tmp_swap.trader, tmp_swap.side)
           swapMargin == (tmp_swap.open_notional * Decimals) \div tmp_swap.leverage
           notional == old.notional + tmp_swap.open_notional
<1>1. /\ reply.id = IncreasePosition
      /\ UpdatePosition(IncreasePosition, tmp_swap.side, reply.input, swapMargin, swapMargin,
                        notional)
  BY Zenon DEF IncreasePositionReply
<1>2. ASSUME tmp_swap.trader \in Traders
      PROVE  tmp_swap.side \in Direction /\ notional \in Nat
  <2>1. tmp_swap.side \in Direction /\ tmp_swap.open_notional \in Nat
    BY DEF SafetyInv, IsSwap
  <2>2. old.notional \in Nat
    BY <1>2, <2>1, StoredOrNew DEF SafetyInv, IsPosition
  <2>3. QED
    BY <2>1, <2>2, SMT
<1> HIDE DEF notional, swapMargin
<1>3. QED
  BY <1>1, <1>2, ReplyIds, UpdatePositionSafe

LEMMA DecreaseSafe ==
    ASSUME RecordInv, SafetyInv, DecreasePositionReply
    PROVE  SafetyInv'
<1> DEFINE old == GetPosition(tmp_swap.trader, tmp_swap.side)
           realized == RealizedPnl(old, reply.output)
           notional == RemainingNotional(old, realized)
<1>1. /\ reply.id = DecreasePosition
      /\ UpdatePosition(DecreasePosition, old.direction, -reply.input, 0, realized, notional)
  BY Zenon DEF DecreasePositionReply
<1>2. ASSUME tmp_swap.trader \in Traders
      PROVE  old.direction \in Direction /\ notional \in Nat
  <2>1. tmp_swap.side \in Direction /\ reply.output \in Nat
    BY <1>1, ReplyIds, SwapAnswers DEF SafetyInv, IsSwap
  <2>2. IsPosition(old)
    BY <1>2, <2>1, StoredOrNew DEF SafetyInv
  <2> HIDE DEF old
  <2>3. QED
    BY <2>1, <2>2, ProfitTypes DEF IsPosition
<1> HIDE DEF old, realized, notional
<1>3. QED
  BY <1>1, <1>2, ReplyIds, UpdatePositionSafe

LEMMA ReverseSafe ==
    ASSUME RecordInv, SafetyInv, ReversePositionReply
    PROVE  SafetyInv'
<1> DEFINE fees == TransferFees(tmp_swap.trader, tmp_swap.open_notional)
           old == GetPosition(tmp_swap.trader, tmp_swap.side)
           rest == Gap(tmp_swap.open_notional, reply.output)
           again == SwapInputMsg(IncreasePosition, tmp_swap.side, rest, 0, FALSE)
<1>1. /\ reply.id = ReversePosition
      /\ positions' = [positions EXCEPT ![tmp_swap.trader] = Clear(old)]
      /\ \/ /\ tmp_swap' = NoSwap
            /\ \E amount : Reply(ReversePosition,
                                fees \o <<Transfer(Engine, tmp_swap.trader, amount)>>)
         \/ /\ \E m : tmp_swap' = [tmp_swap EXCEPT !.open_notional = rest, !.unrealized_pnl = 0,
                                                  !.margin_to_vault = m, !.fees_paid = TRUE]
            /\ Reply(ReversePosition, fees \o <<again>>)
  BY Zenon DEF ReversePositionReply, RemoveTmpSwap
<1>2. /\ reply.output \in Nat /\ ReversePosition # "none"
      /\ tmp_swap.side \in Direction /\ tmp_swap.open_notional \in Nat
  BY <1>1, ReplyIds, SwapAnswers DEF SafetyInv, IsSwap
<1>3. rest \in Nat
  <2>1. tmp_swap.open_notional \in Int /\ reply.output \in Int
    BY <1>2, SMT
  <2>2. QED
    BY <2>1, Amounts
<1>4. AreBooks(positions')
  <2>1. tmp_swap.trader \in Traders => IsPosition(Clear(old))
    BY <1>2, StoredOrNew, PositionUpdates DEF SafetyInv
  <2> HIDE DEF old
  <2>2. QED
    BY <1>1, <2>1, BooksUpdate DEF SafetyInv
<1>5. Transfers(fees)
  BY FeesAreTransfers
<1> HIDE DEF fees, rest, old
<1>6. CASE /\ tmp_swap' = NoSwap
           /\ \E amount : Reply(ReversePosition,
                                fees \o <<Transfer(Engine, tmp_swap.trader, amount)>>)
  <2>1. \E msgs : Reply(ReversePosition, msgs) /\ Transfers(msgs)
    BY <1>5, <1>6, OneTransfer, BothTransfers, Zenon
  <2>2. QED
    BY <1>2, <1>4, <1>6, <2>1, NewRecords, SoundTransfers, ReplyKeeps
<1>7. CASE /\ \E m : tmp_swap' = [tmp_swap EXCEPT !.open_notional = rest, !.unrealized_pnl = 0,
                                                  !.margin_to_vault = m, !.fees_paid = TRUE]
           /\ Reply(ReversePosition, fees \o <<again>>)
  <2>1. IsSwap(tmp_swap')
    BY <1>3, <1>7, SMT DEF SafetyInv, IsSwap
  <2>2. SoundMessage(again)
    BY <1>2, <1>3, SoundSwaps, UnbandedIds, Zenon
  <2> HIDE DEF again
  <2>3. SoundQueue(fees \o <<again>>) /\ IsSequence(fees \o <<again>>)
    BY <1>5, <2>2, SoundEnding
  <2>4. QED
    BY <1>2, <1>4, <1>7, <2>1, <2>3, ReplyKeeps
<1>8. QED
  BY <1>1, <1>6, <1>7

LEMMA CloseRepliesSafe ==
    ASSUME RecordInv, SafetyInv, ClosePositionReply \/ PartialClosePositionReply
    PROVE  SafetyInv'
<1> DEFINE trader == tmp_swap.trader
           old == positions[trader]
<1>1. CASE ClosePositionReply
  <2>1. /\ \E s, t : Reply(ClosingPosition, s \o t) /\ Transfers(s) /\ Transfers(t)
        /\ positions' = [positions EXCEPT ![trader] = NoPosition]
        /\ tmp_swap' = NoSwap
    BY <1>1, WithdrawTransfers, FeesAreTransfers, NoTransfer, Zenon
       DEF ClosePositionReply, RemoveTmpSwap
  <2>2. \E msgs : Reply(ClosingPosition, msgs) /\ Transfers(msgs)
    BY <2>1, BothTransfers, Zenon
  <2>3. AreBooks(positions') /\ IsSwap(tmp_swap')
    BY <2>1, NewRecords, BooksUpdate DEF SafetyInv
  <2>4. ClosingPosition # "none"
    BY ReplyIds
  <2>5. QED
    BY <2>2, <2>3, <2>4, SoundTransfers, ReplyKeeps
<1>2. CASE PartialClosePositionReply
  <2> DEFINE realized == RealizedPnl(old, reply.output)
             change == Signed(tmp_swap.side, reply.output)
             margin == RemainMargin(old, realized)
             notional == RemainingNotional(old, realized)
             premium == vamm_map.cumulative_premium_fraction
             new == [old EXCEPT !.size = @ + change, !.margin = margin, !.notional = notional,
                                !.last_updated_premium_fraction = premium,
                                !.block_number = height]
  <2>1. /\ \E msgs : Reply(PartialClosePosition, msgs) /\ Transfers(msgs)
        /\ positions' = [positions EXCEPT ![trader] = new]
        /\ tmp_swap' = NoSwap
        /\ reply.id = PartialClosePosition /\ PartialClosePosition # "none"
    BY <1>2, FeesAreTransfers, ReplyIds, Zenon DEF PartialClosePositionReply, RemoveTmpSwap
  <2>2. ASSUME trader \in Traders
        PROVE  IsPosition(new)
    <3>1. /\ tmp_swap.side \in Direction /\ reply.output \in Nat /\ reply.output \in Int
          /\ IsPosition(old)
      BY <2>1, <2>2, ReplyIds, SwapAnswers, SMT DEF SafetyInv, IsSwap, AreBooks
    <3> HIDE DEF old
    <3>2. change \in Int /\ notional \in Nat
      BY <3>1, Amounts, ProfitTypes
    <3> HIDE DEF realized, change, margin, notional, premium
    <3>3. QED
      BY <3>1, <3>2, PositionUpdates
  <2> HIDE DEF new
  <2>3. AreBooks(positions') /\ IsSwap(tmp_swap')
    BY <2>1, <2>2, NewRecords, BooksUpdate DEF SafetyInv
  <2>4. QED
    BY <2>1, <2>3, SoundTransfers, ReplyKeeps
<1>3. QED
  BY <1>1, <1>2

LEMMA LiquidateReplySafe ==
    ASSUME RecordInv, SafetyInv, LiquidateReply
    PROVE  SafetyInv'
<1> DEFINE position == positions[tmp_swap.trader]
           pnl == ClosingPnl(position, reply.output)
           margin == RemainMargin(position, pnl)
           badDebt == BadDebt(position, pnl) + AtLeastZero(LiquidationFee - margin)
           fund == engine_config.insurance_fund
           realizes == badDebt # 0 /\ engine_state.prepaid_bad_debt <= badDebt
           drawn == IF realizes THEN badDebt - engine_state.prepaid_bad_debt ELSE 0
           first == IF realizes THEN <<Transfer(fund, Engine, drawn)>> ELSE <<>>
           second == TransferUnlessZero(Engine, fund, AtLeastZero(margin - LiquidationFee))
           third == Withdraw(tmp_liquidator, LiquidationFee, drawn)
<1>1. /\ Reply(Liquidation, first \o second \o third)
      /\ positions' = [positions EXCEPT ![tmp_swap.trader] = NoPosition]
      /\ tmp_swap' = NoSwap
  BY Zenon DEF LiquidateReply, RemoveTmpSwap
<1>2. Transfers(first) /\ Transfers(second) /\ Transfers(third)
  BY OneTransfer, NoTransfer, FeesAreTransfers, WithdrawTransfers
<1> HIDE DEF first, second, third
<1>3. Transfers(first \o second \o third)
  BY <1>2, BothTransfers, Zenon
<1>4. AreBooks(positions') /\ IsSwap(tmp_swap')
  BY <1>1, NewRecords, BooksUpdate DEF SafetyInv
<1>5. Liquidation # "none"
  BY ReplyIds
<1>6. QED
  BY <1>1, <1>3, <1>4, <1>5, SoundTransfers, ReplyKeeps

LEMMA PartialLiquidationReplySafe ==
    ASSUME RecordInv, SafetyInv, PartialLiquidationReply
    PROVE  SafetyInv'
<1> DEFINE old == positions[tmp_swap.trader]
           size == IF old.size < 0 THEN old.size + reply.input ELSE old.size - reply.input
           negative == IF old.size < 0 THEN size <= 0 ELSE size < 0
           realized == Abs(TruncDiv(tmp_swap.unrealized_pnl
                                      * engine_config.partial_liquidation_ratio, Decimals))
           margin == old.margin - realized - LiquidationPenalty
           notional == IF negative THEN realized + old.notional - tmp_swap.open_notional
                                   ELSE old.notional - tmp_swap.open_notional - realized
           new == [old EXCEPT !.size = size, !.margin = margin, !.notional = notional]
<1>1. /\ reply.id = PartialLiquidation /\ PartialLiquidation # "none"
      /\ \E msgs : Reply(PartialLiquidation, msgs) /\ Transfers(msgs)
      /\ notional >= 0
      /\ positions' = [positions EXCEPT ![tmp_swap.trader] = new]
      /\ tmp_swap' = NoSwap
  BY ReplyIds, OneTransfer, NoTransfer, BothTransfers, WithdrawTransfers, Zenon
     DEF PartialLiquidationReply, RemoveTmpSwap
<1>2. /\ reply.input \in Nat
      /\ tmp_swap.unrealized_pnl \in Int /\ tmp_swap.open_notional \in Nat
  BY <1>1, ReplyIds, SwapAnswers DEF SafetyInv, IsSwap
<1>3. realized \in Int
  <2>1. engine_config.partial_liquidation_ratio \in Int
    BY DecimalsAssumption, SMT DEF SafetyInv, EngineConfig
  <2>2. tmp_swap.unrealized_pnl * engine_config.partial_liquidation_ratio \in Int
    BY <1>2, <2>1, SMT
  <2>3. QED
    BY <2>2, TruncDivType, Amounts, DecimalsAssumption, SMT
<1>4. ASSUME tmp_swap.trader \in Traders
      PROVE  IsPosition(new)
  <2>1. IsPosition(old)
    BY <1>4 DEF SafetyInv, AreBooks
  <2> HIDE DEF old, realized
  <2>2. old.size \in Int /\ old.notional \in Nat
    BY <2>1 DEF IsPosition
  <2>3. size \in Int
    BY <1>2, <2>2, SMT
  <2>4. notional \in Nat
    BY <1>1, <1>2, <1>3, <2>2, SMT
  <2> HIDE DEF size, notional, margin
  <2>5. QED
    BY <2>1, <2>3, <2>4, PositionUpdates
<1> HIDE DEF new
<1>5. AreBooks(positions') /\ IsSwap(tmp_swap')
  BY <1>1, <1>4, NewRecords, BooksUpdate DEF SafetyInv
<1>6. QED
  BY <1>1, <1>5, SoundTransfers, ReplyKeeps

LEMMA PayFundingReplySafe ==
    ASSUME RecordInv, SafetyInv, PayFundingReply
    PROVE  SafetyInv'
<1>1. /\ \E msgs : Reply(Funding, msgs) /\ Transfers(msgs)
      /\ positions' = positions /\ tmp_swap' = tmp_swap
  BY OneTransfer, NoTransfer, Zenon DEF PayFundingReply, temporary
<1>2. AreBooks(positions') /\ IsSwap(tmp_swap')
  BY <1>1 DEF SafetyInv
<1>3. QED
  BY <1>1, <1>2, ReplyIds, SoundTransfers, ReplyKeeps

-----------------------------------------------------------------------------
(* Submessages, and the end of a transaction *)

LEMMA SwapExecuted ==
    ASSUME SafetyInv, OnlyLastCallsAmm(queue), ExecuteSwap
    PROVE  AmmInv' /\ AnswerInv'
<1> DEFINE message == Head(queue)
           quote == GetOutputPrice(message.direction, message.amount,
                                   quote_asset_reserve, base_asset_reserve)
           base == GetInputPrice(message.direction, message.amount,
                                 quote_asset_reserve, base_asset_reserve)
<1>1. /\ queue # <<>>
      /\ \/ /\ message.kind = "swap_input"
            /\ SwapInput(Engine, message.direction, message.amount, message.limit,
                         message.can_go_over)
            /\ reply' = [id |-> message.id, input |-> message.amount, output |-> base]
         \/ /\ message.kind = "swap_output"
            /\ SwapOutput(Engine, message.direction, message.amount, message.limit)
            /\ reply' = [id |-> message.id, input |-> message.amount, output |-> quote]
  BY Zenon DEF ExecuteSwap, Execute
<1>2. SoundMessage(message)
  BY <1>1, SoundRest DEF SafetyInv
<1>3. TypeOK /\ ReservesNotEmpty
  BY DEF SafetyInv, AmmInv, ReserveInv
<1>4. CASE /\ message.kind = "swap_input"
           /\ SwapInput(Engine, message.direction, message.amount, message.limit,
                        message.can_go_over)
           /\ reply' = [id |-> message.id, input |-> message.amount, output |-> base]
  <2>1. /\ message.direction \in Direction /\ message.amount \in Nat
        /\ message.id \in BandedIds => message.can_go_over = FALSE
    BY <1>2, <1>4 DEF SoundMessage
  <2>2. UpdateReserve(message.direction, message.amount, base, message.can_go_over)
    BY <1>4, Zenon DEF SwapInput
  <2> HIDE DEF message, quote
  <2>3. PICK paid \in Nat : /\ ReserveStep(message.direction, message.amount, paid)
                            /\ UpdateReserve(message.direction, message.amount, paid,
                                             message.can_go_over)
    BY <1>3, <1>4, <2>1, SwapInputReserves
  <2>4. base \in Nat
    <3>1. GetInputPriceDefined(message.direction, message.amount,
                               quote_asset_reserve, base_asset_reserve)
      BY <1>4, Zenon DEF SwapInput
    <3>2. \A n \in Uint : n \in Nat
      BY MaxUintAssumption, SMT DEF Uint
    <3>3. QED
      BY <3>1, <3>2 DEF GetInputPrice, GetInputPriceDefined, ExchangeDefined
  <2> HIDE DEF base
  <2>5. Traded
    <3> DEFINE over == IF message.can_go_over = TRUE THEN TRUE ELSE FALSE
    <3>1. UpdateReserve(message.direction, message.amount, paid, over)
      BY <2>3 DEF UpdateReserve, WithinFluctuationLimit
    <3>2. QED
      BY <2>1, <2>3, <3>1 DEF Traded
  <2>6. AmmInv'
    BY <2>5, AmmStep DEF SafetyInv
  <2>7. ASSUME message.id \in BandedIds, height > 1, config.fluctuation_limit_ratio # 0
        PROVE  WithinLimits(CurrentPrice', closing_price, config.fluctuation_limit_ratio)
    <3>1. UpdateReserve(message.direction, message.amount, base, FALSE)
      BY <2>1, <2>2, <2>7
    <3>2. WithinLimits(CurrentPrice', PriceOfLastBlock, config.fluctuation_limit_ratio)
      BY <2>7, <3>1 DEF UpdateReserve, WithinFluctuationLimit, CurrentPrice
    <3>3. PriceOfLastBlock = closing_price
      BY <2>7 DEF SafetyInv, AmmInv, SnapshotInv, BoundaryIsClosingPrice
    <3>4. QED
      BY <3>2, <3>3
  <2>8. UNCHANGED <<height, config, closing_price>>
    BY <2>2 DEF UpdateReserve, history
  <2>9. AnswerInv'
    BY <1>4, <2>1, <2>4, <2>7, <2>8 DEF AnswerInv
  <2>10. QED
    BY <2>6, <2>9
<1>5. CASE /\ message.kind = "swap_output"
           /\ SwapOutput(Engine, message.direction, message.amount, message.limit)
           /\ reply' = [id |-> message.id, input |-> message.amount, output |-> quote]
  <2>1. /\ message.direction \in Direction /\ message.amount \in Nat
        /\ message.id \notin BandedIds
    BY <1>2, <1>5 DEF SoundMessage
  <2>2. Flip(message.direction) \in Direction
    BY <2>1, Amounts
  <2> HIDE DEF message, base
  <2>3. PICK paid \in Nat : /\ ReserveStep(Flip(message.direction), paid, message.amount)
                            /\ UpdateReserve(Flip(message.direction), paid, message.amount, TRUE)
    BY <1>3, <1>5, <2>1, SwapOutputReserves
  <2>4. quote \in Nat
    BY <1>5, Amounts, Zenon DEF SwapOutput
  <2> HIDE DEF quote
  <2>5. Traded
    BY <2>1, <2>2, <2>3 DEF Traded
  <2>6. AmmInv'
    BY <2>5, AmmStep DEF SafetyInv
  <2>7. AnswerInv'
    BY <1>5, <2>1, <2>4 DEF AnswerInv
  <2>8. QED
    BY <2>6, <2>7
<1>6. QED
  BY <1>1, <1>4, <1>5

LEMMA DeliverSafe ==
    ASSUME RecordInv, SafetyInv, Deliver
    PROVE  SafetyInv'
<1>1. \E kind : Execute(kind)
  BY Zenon DEF Deliver, ExecuteTransfer, ExecuteSwap, ExecuteFunding
<1>2. /\ reply = NoReply /\ queue # <<>> /\ queue' = Tail(queue)
      /\ UNCHANGED <<engine_config, positions, tmp_swap, checkpoint>>
  BY <1>1 DEF Execute, settings, book, temporary
<1>3. OnlyLastCallsAmm(queue)
  BY DEF RecordInv, RecordsAreAwaited
<1>4. SoundQueue(queue')
  BY <1>2, <1>3, SoundRest DEF SafetyInv
<1>5. AmmInv' /\ AnswerInv' /\ UNCHANGED <<height, now, closing_price>>
  <2>1. CASE ExecuteTransfer
    <3>1. UNCHANGED <<vars, reply>>
      BY <2>1, Zenon DEF ExecuteTransfer
    <3>2. UNCHANGED <<height, now, closing_price, config, quote_asset_reserve, base_asset_reserve>>
      BY <3>1 DEF vars, state, history
    <3>3. AmmInv'
      BY <3>1, AmmStep DEF SafetyInv
    <3>4. AnswerInv'
      BY <3>1, <3>2 DEF SafetyInv, AnswerInv, CurrentPrice
    <3>5. QED
      BY <3>2, <3>3, <3>4
  <2>2. CASE ExecuteSwap
    <3>1. UNCHANGED <<height, now, closing_price>>
      BY <2>2, Zenon DEF ExecuteSwap, SwapInput, SwapOutput, UpdateReserve, history
    <3>2. QED
      BY <2>2, <3>1, <1>3, SwapExecuted
  <2>3. CASE \E underlying \in OraclePrices : ExecuteFunding(underlying)
    <3>1. PICK underlying \in OraclePrices : ExecuteFunding(underlying)
      BY <2>3
    <3>2. /\ SettleFunding(Engine, underlying)
          /\ \E i, o : reply' = [id |-> Funding, input |-> i, output |-> o]
      BY <3>1, Zenon DEF ExecuteFunding
    <3>3. AmmInv'
      BY <3>2, PartiesAssumption, AmmStep DEF SafetyInv, Next
    <3>4. AnswerInv'
      BY <3>2, UnbandedIds DEF AnswerInv
    <3>5. QED
      BY <3>2, <3>3, <3>4 DEF SettleFunding
  <2>4. QED
    BY <2>1, <2>2, <2>3 DEF Deliver
<1>6. (~Idle => SoundRestart(Head(checkpoint)))'
  BY <1>2, <1>5, RestartKept DEF SafetyInv
<1>7. QED
  BY <1>2, <1>4, <1>5, <1>6 DEF SafetyInv

LEMMA EndSafe ==
    ASSUME RecordInv, SafetyInv, Commit \/ Abort
    PROVE  SafetyInv'
<1>1. CASE Commit
  <2>1. /\ checkpoint' = <<>>
        /\ UNCHANGED <<vars, engine_config, positions, tmp_swap, queue, reply>>
    BY <1>1 DEF Commit, settings, book, temporary
  <2>2. UNCHANGED <<height, closing_price, config, quote_asset_reserve, base_asset_reserve>>
    BY <2>1 DEF vars, state, history
  <2>3. AmmInv'
    BY <2>1, AmmStep DEF SafetyInv
  <2>4. AnswerInv'
    BY <2>1, <2>2 DEF SafetyInv, AnswerInv, CurrentPrice
  <2>5. QED
    BY <2>1, <2>3, <2>4 DEF SafetyInv, Idle
<1>2. CASE Abort
  <2> DEFINE saved == Head(checkpoint)
  <2>1. /\ ~Idle
        /\ quote_asset_reserve' = saved.quote_asset_reserve
        /\ base_asset_reserve' = saved.base_asset_reserve
        /\ total_position_size' = saved.total_position_size
        /\ next_funding_time' = saved.next_funding_time
        /\ settled_at' = saved.settled_at
        /\ snapshots' = saved.snapshots
        /\ positions' = saved.positions /\ tmp_swap' = saved.tmp_swap
        /\ queue' = <<>> /\ reply' = NoReply /\ checkpoint' = <<>>
        /\ engine_config' = engine_config
        /\ UNCHANGED <<owner, config, open, height, now, closing_price>>
    BY <1>2, Zenon DEF Abort, settings
  <2>2. SoundRestart(saved)
    BY <2>1 DEF SafetyInv
  <2> HIDE DEF saved
  <2>3. AmmInv'
    BY <2>1, <2>2, Restarted DEF SafetyInv
  <2>4. AreBooks(positions') /\ IsSwap(tmp_swap')
    BY <2>1, <2>2 DEF SoundRestart
  <2>5. AnswerInv' /\ SoundQueue(queue')
    BY <2>1, NoAnswer, NoTransfer, SoundTransfers DEF AnswerInv
  <2>6. QED
    BY <2>1, <2>3, <2>4, <2>5 DEF SafetyInv, Idle
<1>3. QED
  BY <1>1, <1>2

LEMMA OutsideSafe ==
    ASSUME RecordInv, SafetyInv, Govern \/ Surroundings \/ UNCHANGED allVars
    PROVE  SafetyInv'
<1>1. CASE Govern \/ (\E fund \in RegistryChoices : ChangeRegistry(fund)) \/ UNCHANGED allVars
  <2>1. UNCHANGED <<vars, positions, tmp_swap, queue, reply, checkpoint>>
    BY <1>1, Zenon DEF Govern, SetPause, UpdateEngineConfig, Administer, UpdatePauser,
       AddWhitelist, RemoveWhitelist, ChangeRegistry, allVars, engineVars, runtime, book, temporary
  <2>2. engine_config' \in EngineConfig
    BY <1>1, Zenon DEF Govern, SetPause, UpdateEngineConfig, Administer, UpdatePauser,
       AddWhitelist, RemoveWhitelist, ChangeRegistry, allVars, engineVars, runtime, settings, SafetyInv
  <2>3. QED
    BY <2>1, <2>2, UndisturbedSafety
<1>2. CASE Idle /\ (Admin \/ NextBlock) /\ UNCHANGED runtime
  <2>1. UNCHANGED <<engine_config, positions, tmp_swap, queue, reply, checkpoint>>
    BY <1>2 DEF runtime, settings, book, temporary
  <2>2. AmmInv'
    BY <1>2, AmmStep DEF SafetyInv, Next
  <2>3. AnswerInv'
    BY <1>2, <2>1, IdleIsClean, NoAnswer DEF AnswerInv
  <2>4. Idle'
    BY <1>2, <2>1 DEF Idle
  <2>5. QED
    BY <2>1, <2>2, <2>3, <2>4 DEF SafetyInv
<1>3. QED
  BY <1>1, <1>2 DEF Surroundings

LEMMA InitSafe == EngineInit => SafetyInv
<1> SUFFICES ASSUME EngineInit PROVE SafetyInv
  OBVIOUS
<1>1. /\ Init
      /\ positions = [trader \in Traders |-> NoPosition] /\ tmp_swap = NoSwap
      /\ queue = <<>> /\ reply = NoReply /\ checkpoint = <<>>
      /\ \E collateral \in Collaterals :
            engine_config = [InitialEngineConfig EXCEPT !.eligible_collateral = collateral]
  BY DEF EngineInit
<1>2. AmmInv
  BY <1>1, InitReserveInv, InitSnapshotInv DEF AmmInv
<1>3. AreBooks(positions) /\ IsSwap(tmp_swap)
  BY <1>1, NewRecords DEF AreBooks
<1>4. engine_config \in EngineConfig
  BY <1>1, EngineConfigAssumption DEF EngineConfig
<1>5. AnswerInv /\ SoundQueue(queue) /\ Idle
  BY <1>1, NoAnswer, NoTransfer, SoundTransfers DEF AnswerInv, Idle
<1>6. QED
  BY <1>2, <1>3, <1>4, <1>5 DEF SafetyInv

LEMMA NextSafe == RecordInv /\ SafetyInv /\ [EngineNext]_allVars => SafetyInv'
<1> SUFFICES ASSUME RecordInv, SafetyInv, [EngineNext]_allVars
             PROVE  SafetyInv'
  OBVIOUS
<1>1. CASE Request
  <2>1. CASE \E trader \in Traders : \E side \in Direction, margin \in Margins,
                leverage \in Leverages, limit \in BaseLimits : \E funds :
                   OpenPosition(trader, side, margin, leverage, limit, funds)
    BY <2>1, RequestsAssumption, OpenPositionSafe
  <2>2. CASE \E trader \in Traders : \E limit, funds : ClosePosition(trader, limit, funds)
    BY <2>2, ClosePositionSafe
  <2>3. CASE \E trader \in Traders : \E sender, limit, oracle, funds :
                Liquidate(sender, trader, limit, oracle, funds)
    BY <2>3, LiquidateSafe
  <2>4. CASE \/ \E sender, funds : PayFunding(sender, funds)
             \/ \E trader \in Traders : \E amount, funds : DepositMargin(trader, amount, funds)
             \/ \E trader \in Traders : \E amount, funds : WithdrawMargin(trader, amount, funds)
    BY <2>4, OtherRequestsSafe
  <2>5. QED
    BY <1>1, <2>1, <2>2, <2>3, <2>4, Zenon DEF Request
<1>2. CASE Deliver
  BY <1>2, DeliverSafe
<1>3. CASE Handle
  BY <1>3, IncreaseSafe, DecreaseSafe, ReverseSafe, CloseRepliesSafe, LiquidateReplySafe,
     PartialLiquidationReplySafe, PayFundingReplySafe DEF Handle
<1>4. CASE Commit \/ Abort
  BY <1>4, EndSafe
<1>5. CASE Govern \/ Surroundings \/ UNCHANGED allVars
  BY <1>5, OutsideSafe
<1>6. QED
  BY <1>1, <1>2, <1>3, <1>4, <1>5 DEF EngineNext

LEMMA SafetyInvariance == EngineSpec => [](RecordInv /\ SafetyInv)
  BY InitRecordInv, NextRecordInv, InitSafe, NextSafe, PTL DEF EngineSpec

\* The engine, whose swaps it computes itself, and the chain, which undoes
\* those of a failed transaction, keep what VammProofs proves of the AMM on
\* its own: its types, its net position, and the band of the block.
THEOREM AmmIsSafeUnderEngine ==
    EngineSpec => [](TypeOK /\ NetPositionMatchesReserve /\ BoundaryIsClosingPrice)
<1>1. SafetyInv => TypeOK /\ NetPositionMatchesReserve /\ BoundaryIsClosingPrice
  BY DEF SafetyInv, AmmInv, ReserveInv, SnapshotInv
<1>2. QED
  BY <1>1, SafetyInvariance, PTL

\* However trades, reversals, closes and liquidations of any number of traders
\* follow one another and fail, when the traders are flat again the AMM has at
\* least the quote asset it began with: nobody is paid for rounding.
THEOREM EngineRoundTripsDoNotProfit == EngineSpec => []NoProfitFromRoundTrips
<1>1. SafetyInv => NoProfitFromRoundTrips
  BY CoveredRoundTrips DEF SafetyInv, AmmInv
<1>2. QED
  BY <1>1, SafetyInvariance, PTL

\* Whoever increases or decreases a position, a reversal's second swap
\* included, leaves the price within the band around the last close.
THEOREM TradesAreBanded == EngineSpec => TradesStayInBand
<1> DEFINE Banded == (/\ reply.id \in {IncreasePosition, DecreasePosition}
                      /\ reply' = NoReply /\ ~Idle'
                      /\ height > 1 /\ config.fluctuation_limit_ratio # 0)
                       => WithinLimits(CurrentPrice, closing_price, config.fluctuation_limit_ratio)
<1>1. SafetyInv => [Banded]_allVars
  BY DEF SafetyInv, AnswerInv, BandedIds
<1>2. QED
  BY <1>1, SafetyInvariance, PTL DEF TradesStayInBand
=============================================================================

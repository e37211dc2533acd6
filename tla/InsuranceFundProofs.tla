------------------------- MODULE InsuranceFundProofs -------------------------
(***************************************************************************)
(* The registry and the emergency shutdown of the insurance fund, for any  *)
(* number of AMMs and any capacity.                                        *)
(***************************************************************************)
EXTENDS InsuranceFund, OperatorProofs

-----------------------------------------------------------------------------
(* The registry                                                            *)

ListInv ==
    /\ vamm_list \in Seq(Vamms)
    /\ NoDuplicates(vamm_list)
    /\ Len(vamm_list) <= VAMM_LIMIT

\* The actions that leave the registry alone.
LEMMA OthersKeepList ==
    ASSUME [Next]_vars,
           ~ \E sender \in Accounts, vamm \in Vamms :
                AddVamm(sender, vamm) \/ RemoveVamm(sender, vamm)
    PROVE  vamm_list' = vamm_list
BY DEF Next, vars, Admin, UpdateOwner, ShutdownAllVamm, Withdraw, Begin, OwnerSetsOpen,
       OwnerSetsFund, Accrue, Deliver, Commit, Abort

LEMMA RegistryCardinality == \A S : R!Cardinality(S) = Cardinality(S)
BY DEF R!Cardinality, Cardinality

\* Each step keeps the list sound, and does to its set what Registry allows.
LEMMA RegistryStep ==
    ASSUME ListInv, [Next]_vars
    PROVE  ListInv' /\ [R!Next]_(Listed(vamm_list))
<1>1. ASSUME NEW sender \in Accounts, NEW vamm \in Vamms, AddVamm(sender, vamm)
      PROVE  ListInv' /\ [R!Next]_(Listed(vamm_list))
  <2>1. /\ vamm \notin Listed(vamm_list)
        /\ Len(vamm_list) < VAMM_LIMIT
        /\ vamm_list' = Pushed(vamm_list, vamm)
    BY <1>1 DEF AddVamm, SaveVamm
  <2>2. /\ vamm_list' \in Seq(Vamms) /\ NoDuplicates(vamm_list')
        /\ Len(vamm_list') = Len(vamm_list) + 1
        /\ Listed(vamm_list') = Listed(vamm_list) \union {vamm}
    BY <2>1, PushedFacts DEF ListInv
  <2>3. Cardinality(Listed(vamm_list)) < VAMM_LIMIT
    BY <2>1, ListedSize DEF ListInv
  <2>4. ListInv'
    BY <2>1, <2>2, FundAssumption DEF ListInv
  <2>5. R!Next
    BY <2>1, <2>2, <2>3, RegistryCardinality DEF R!Next, R!Add
  <2> QED BY <2>4, <2>5
<1>2. ASSUME NEW sender \in Accounts, NEW vamm \in Vamms, RemoveVamm(sender, vamm)
      PROVE  ListInv' /\ [R!Next]_(Listed(vamm_list))
  <2>1. vamm \in Listed(vamm_list) /\ vamm_list' = SwapRemove(vamm_list, vamm)
    BY <1>2 DEF RemoveVamm
  <2>2. /\ vamm_list' \in Seq(Vamms) /\ NoDuplicates(vamm_list')
        /\ Len(vamm_list') = Len(vamm_list) - 1
        /\ Listed(vamm_list') = Listed(vamm_list) \ {vamm}
    BY <2>1, SwapRemoveFacts DEF ListInv
  <2>3. ListInv'
    BY <2>2, FundAssumption DEF ListInv
  <2>4. R!Next
    BY <2>1, <2>2 DEF R!Next, R!Remove
  <2> QED BY <2>3, <2>4
<1>3. CASE ~ \E sender \in Accounts, vamm \in Vamms :
               AddVamm(sender, vamm) \/ RemoveVamm(sender, vamm)
  <2>1. vamm_list' = vamm_list
    BY <1>3, OthersKeepList
  <2> QED BY <2>1 DEF ListInv
<1> QED BY <1>1, <1>2, <1>3

LEMMA RegistryInit == Init => ListInv /\ R!Init
BY FundAssumption DEF Init, ListInv, R!Init, Listed, NoDuplicates

\* The list that save_vamm and remove_vamm keep implements a set of at most
\* VAMM_LIMIT AMMs, whatever the capacity.
THEOREM ListImplementsRegistry == Spec => ImplementsRegistry
<1>1. Spec => []ListInv
  <2>1. Init => ListInv
    BY RegistryInit
  <2>2. ListInv /\ [Next]_vars => ListInv'
    BY RegistryStep
  <2> QED BY <2>1, <2>2, PTL DEF Spec
<1>2. Init => R!Init
  BY RegistryInit
<1>3. ListInv /\ [Next]_vars => [R!Next]_(Listed(vamm_list))
  BY RegistryStep
<1> QED BY <1>1, <1>2, <1>3, PTL DEF Spec, ImplementsRegistry, R!Spec

-----------------------------------------------------------------------------
(* Transactions                                                            *)

ShutdownMsgs == [kind : {"set_open"}, vamm : Vamms]
TransferMsgs == [kind : {"transfer"}, to : {Engine}, token : Tokens, amount : Nat]
Msgs == ShutdownMsgs \union TransferMsgs

\* A transaction that has begun has its checkpoint; only a withdrawal moves
\* tokens, in its one message, and only a shutdown touches AMMs.
TransactionInv ==
    /\ Idle => queue = <<>>
    /\ queue \in Seq(Msgs)
    /\ ~Idle /\ request # "shutdown" => Len(queue) <= 1 /\ request = "withdraw"
    /\ ~Idle /\ queue # <<>> => balance = checkpoint[1].balance
    /\ ~Idle /\ request = "shutdown" => queue \in Seq(ShutdownMsgs)

FundInv == Typed /\ TransactionInv

LEMMA FundInvInit == Init => FundInv
<1> SUFFICES ASSUME Init PROVE FundInv
  OBVIOUS
<1> USE FundAssumption DEF Init
<1>1. amm \in Amms
  BY DEF Amms
<1>2. balance \in Ledger
  BY DEF Ledger
<1>3. Typed
  BY <1>1, <1>2 DEF Typed, Idle
<1>4. TransactionInv
  BY DEF TransactionInv, Idle
<1> QED BY <1>3, <1>4 DEF FundInv

LEMMA BeginKeepsInv ==
    ASSUME FundInv, NEW kind \in {"shutdown", "withdraw"}, NEW msgs \in Seq(Msgs),
           Begin(kind, msgs),
           kind = "withdraw" => Len(msgs) <= 1,
           kind = "shutdown" => msgs \in Seq(ShutdownMsgs)
    PROVE  FundInv'
<1>1. /\ request' = kind /\ queue' = msgs
      /\ checkpoint' = <<[amm |-> amm, balance |-> balance]>>
      /\ UNCHANGED <<owner, vamm_list, amm, balance>>
  BY DEF Begin
<1>2. checkpoint'[1] = [amm |-> amm, balance |-> balance] /\ checkpoint' # <<>>
  BY <1>1
<1>3. Typed'
  BY <1>1, <1>2 DEF FundInv, Typed, Idle
<1>4. TransactionInv'
  BY <1>1, <1>2 DEF TransactionInv, Idle
<1> QED BY <1>3, <1>4 DEF FundInv

LEMMA DeliverKeepsInv == FundInv /\ Deliver => FundInv'
<1> SUFFICES ASSUME FundInv, Deliver PROVE FundInv'
  OBVIOUS
<1> DEFINE msg == Head(queue)
<1>1. /\ queue # <<>> /\ queue' = Tail(queue)
      /\ UNCHANGED <<owner, vamm_list, checkpoint, request>>
  BY DEF Deliver
<1>2. /\ queue \in Seq(Msgs) /\ Tail(queue) \in Seq(Msgs) /\ msg \in Msgs
      /\ Len(Tail(queue)) = Len(queue) - 1 /\ Len(queue) \in Nat
      /\ ~Idle /\ ~Idle'
  BY <1>1 DEF FundInv, TransactionInv, Idle
<1>3. CASE msg.kind = "set_open"
  <2>1. /\ SetOpen(Fund, msg.vamm, FALSE) /\ UNCHANGED balance
    BY <1>3 DEF Deliver
  <2>2. amm' \in Amms
    BY <2>1 DEF SetOpen, FundInv, Typed, Amms
  <2>3. Typed'
    BY <1>1, <1>2, <2>1, <2>2 DEF FundInv, Typed, Idle
  <2>4. ~Idle /\ request = "shutdown" => Tail(queue) \in Seq(ShutdownMsgs)
    BY <1>1 DEF FundInv, TransactionInv
  <2>5. TransactionInv'
    BY <1>1, <1>2, <2>1, <2>4 DEF FundInv, TransactionInv, Idle
  <2> QED BY <2>3, <2>5 DEF FundInv
<1>4. CASE msg.kind = "transfer"
  <2>1. /\ CanTransfer(msg) /\ UNCHANGED amm
        /\ balance' = [balance EXCEPT
              ![msg.token] = [h \in {Fund, Engine} |->
                  IF h = Fund THEN @[h] - msg.amount
                  ELSE IF h = msg.to THEN @[h] + msg.amount ELSE @[h]]]
    BY <1>4 DEF Deliver
  <2>2. msg \in TransferMsgs
    BY <1>2, <1>4 DEF Msgs, ShutdownMsgs
  <2>3. /\ msg.token \in Tokens /\ msg.amount \in Nat
        /\ balance[msg.token] \in [{Fund, Engine} -> Nat]
        /\ balance[msg.token][Fund] - msg.amount \in Nat
    <3>1. msg.token \in Tokens /\ msg.amount \in Nat
      BY <2>2 DEF TransferMsgs
    <3>2. balance[msg.token] \in [{Fund, Engine} -> Nat]
      BY <3>1 DEF FundInv, Typed, Ledger
    <3>3. balance[msg.token][Fund] \in Nat
      BY <3>2
    <3> QED BY <2>1, <3>1, <3>2, <3>3 DEF CanTransfer
  <2>4. balance' \in Ledger
    <3>1. [h \in {Fund, Engine} |->
             IF h = Fund THEN balance[msg.token][h] - msg.amount
             ELSE IF h = msg.to THEN balance[msg.token][h] + msg.amount
             ELSE balance[msg.token][h]] \in [{Fund, Engine} -> Nat]
      BY <2>3
    <3> QED BY <2>1, <3>1 DEF FundInv, Typed, Ledger
  <2>5. Typed'
    BY <1>1, <1>2, <2>1, <2>4 DEF FundInv, Typed, Idle
  <2>6. request # "shutdown"
    <3> SUFFICES ASSUME request = "shutdown" PROVE FALSE
      OBVIOUS
    <3>1. queue \in Seq(ShutdownMsgs)
      BY <1>2 DEF FundInv, TransactionInv
    <3>2. msg \in ShutdownMsgs
      BY <1>1, <3>1
    <3> QED BY <1>4, <3>2 DEF ShutdownMsgs
  <2>7. queue' = <<>>
    BY <1>1, <1>2, <2>6 DEF FundInv, TransactionInv
  <2>8. TransactionInv'
    BY <1>1, <1>2, <2>6, <2>7 DEF FundInv, TransactionInv, Idle
  <2> QED BY <2>5, <2>8 DEF FundInv
<1> QED BY <1>2, <1>3, <1>4 DEF Msgs, ShutdownMsgs, TransferMsgs

LEMMA FundInvStep == ListInv /\ FundInv /\ [Next]_vars => FundInv'
<1> SUFFICES ASSUME ListInv, FundInv, [Next]_vars PROVE FundInv'
  OBVIOUS
<1>1. vamm_list' \in Seq(Vamms)
  BY RegistryStep DEF ListInv
<1>2. ASSUME NEW sender \in Accounts, NEW new_owner \in Accounts, UpdateOwner(sender, new_owner)
      PROVE  FundInv'
  BY <1>2 DEF UpdateOwner, FundInv, Typed, TransactionInv, Idle, transaction
<1>3. ASSUME NEW sender \in Accounts, NEW vamm \in Vamms,
             AddVamm(sender, vamm) \/ RemoveVamm(sender, vamm)
      PROVE  FundInv'
  BY <1>1, <1>3
     DEF AddVamm, RemoveVamm, FundInv, Typed, TransactionInv, Idle, transaction
<1>4. ASSUME NEW sender \in Accounts, ShutdownAllVamm(sender) PROVE FundInv'
  <2> DEFINE keys == Taken(vamm_list, VAMM_LIMIT)
             msgs == [i \in DOMAIN keys |-> ShutdownMsg(keys[i])]
  <2>1. Begin("shutdown", msgs)
    BY <1>4 DEF ShutdownAllVamm
  <2>2. Taken(vamm_list, VAMM_LIMIT) = vamm_list
    BY TakenWhole, FundAssumption DEF ListInv
  <2>3. msgs \in Seq(ShutdownMsgs)
    <3>1. /\ Len(vamm_list) \in Nat /\ DOMAIN vamm_list = 1 .. Len(vamm_list)
          /\ \A i \in 1 .. Len(vamm_list) : vamm_list[i] \in Vamms
      BY DEF ListInv
    <3>2. \A i \in 1 .. Len(vamm_list) : ShutdownMsg(vamm_list[i]) \in ShutdownMsgs
      BY <3>1 DEF ShutdownMsg, ShutdownMsgs
    <3>3. msgs = [i \in 1 .. Len(vamm_list) |-> ShutdownMsg(vamm_list[i])]
      BY <2>2, <3>1
    <3> QED BY <3>1, <3>2, <3>3
  <2>4. msgs \in Seq(Msgs)
    BY <2>3 DEF Msgs
  <2> HIDE DEF msgs
  <2> QED BY <2>1, <2>3, <2>4, BeginKeepsInv
<1>5. ASSUME NEW sender \in Accounts, NEW token \in Tokens, NEW amount \in 0 .. MaxTransfer,
             Withdraw(sender, token, amount)
      PROVE  FundInv'
  <2> DEFINE msgs == <<Transfer(Engine, token, amount)>>
  <2>1. Begin("withdraw", msgs)
    BY <1>5 DEF Withdraw
  <2>2. msgs \in Seq(Msgs) /\ Len(msgs) <= 1
    BY FundAssumption DEF Msgs, TransferMsgs, Transfer
  <2> HIDE DEF msgs
  <2> QED BY <2>1, <2>2, BeginKeepsInv
<1>6. ASSUME NEW vamm \in Vamms, NEW open \in BOOLEAN, OwnerSetsOpen(vamm, open)
      PROVE  FundInv'
  <2>1. amm' \in Amms
    BY <1>6 DEF OwnerSetsOpen, SetOpen, FundInv, Typed, Amms
  <2> QED BY <1>6, <2>1
          DEF OwnerSetsOpen, FundInv, Typed, TransactionInv, Idle, transaction
<1>7. ASSUME NEW vamm \in Vamms, NEW account \in Accounts, OwnerSetsFund(vamm, account)
      PROVE  FundInv'
  <2>1. amm' \in Amms
    BY <1>7 DEF OwnerSetsFund, FundInv, Typed, Amms
  <2> QED BY <1>7, <2>1
          DEF OwnerSetsFund, FundInv, Typed, TransactionInv, Idle, transaction
<1>8. ASSUME NEW token \in Tokens, NEW amount \in 1 .. MaxTransfer, Accrue(token, amount)
      PROVE  FundInv'
  <2>1. balance' \in Ledger
    BY <1>8, FundAssumption DEF Accrue, FundInv, Typed, Ledger
  <2> QED BY <1>8, <2>1 DEF Accrue, FundInv, Typed, TransactionInv, Idle, transaction
<1>9. ASSUME Commit PROVE FundInv'
  BY <1>9 DEF Commit, Ended, FundInv, Typed, TransactionInv, Idle
<1>10. ASSUME Abort PROVE FundInv'
  <2>1. ~Idle
    BY <1>10 DEF Abort, FundInv, TransactionInv
  <2>2. amm' \in Amms /\ balance' \in Ledger
    BY <1>10, <2>1 DEF Abort, FundInv, Typed
  <2> QED BY <1>10, <2>2 DEF Abort, Ended, FundInv, Typed, TransactionInv, Idle
<1>11. ASSUME UNCHANGED vars PROVE FundInv'
  BY <1>11 DEF vars, transaction, FundInv, Typed, TransactionInv, Idle
<1> QED BY <1>2, <1>3, <1>4, <1>5, <1>6, <1>7, <1>8, <1>9, <1>10, <1>11, DeliverKeepsInv
        DEF Next, Admin

-----------------------------------------------------------------------------
(* The emergency shutdown                                                  *)

Queued == {queue[i].vamm : i \in DOMAIN queue}
Distinct == \A i, j \in DOMAIN queue : queue[i].vamm = queue[j].vamm => i = j
Shutting == ~Idle /\ request = "shutdown"

\* Half way through a shutdown: the AMMs reached were open and answered to the
\* fund, and are closed; those still queued, and the others, are as they were.
ShutdownInv ==
    Shutting =>
        /\ Distinct
        /\ Queued \subseteq Listed(vamm_list)
        /\ \A v \in Vamms : v \in Queued \/ v \notin Listed(vamm_list)
                              => amm[v] = checkpoint[1].amm[v]
        /\ \A v \in Listed(vamm_list) \ Queued :
              /\ checkpoint[1].amm[v].open
              /\ checkpoint[1].amm[v].insurance_fund = Fund
              /\ ~amm[v].open

LEMMA ListedAreVamms == ListInv => Listed(vamm_list) \subseteq Vamms
BY DEF ListInv, Listed

LEMMA ShutdownBegins ==
    ASSUME ListInv, FundInv, NEW sender \in Accounts, ShutdownAllVamm(sender)
    PROVE  ShutdownInv'
<1> DEFINE keys == Taken(vamm_list, VAMM_LIMIT)
           msgs == [i \in DOMAIN keys |-> ShutdownMsg(keys[i])]
<1>1. Begin("shutdown", msgs)
  BY DEF ShutdownAllVamm
<1>2. keys = vamm_list
  BY TakenWhole, FundAssumption DEF ListInv
<1>3. /\ queue' = [i \in DOMAIN vamm_list |-> ShutdownMsg(vamm_list[i])]
      /\ checkpoint' = <<[amm |-> amm, balance |-> balance]>>
      /\ UNCHANGED <<vamm_list, amm>>
  BY <1>1, <1>2 DEF Begin
<1>4. /\ DOMAIN queue' = DOMAIN vamm_list
      /\ \A i \in DOMAIN vamm_list : queue'[i].vamm = vamm_list[i]
  BY <1>3 DEF ShutdownMsg
<1>5. Distinct'
  BY <1>4 DEF Distinct, ListInv, NoDuplicates
<1>6. Queued' = Listed(vamm_list)
  BY <1>4 DEF Queued, Listed
<1>7. checkpoint'[1].amm = amm
  BY <1>3
<1> QED BY <1>3, <1>5, <1>6, <1>7 DEF ShutdownInv

LEMMA ShutdownDelivers ==
    ASSUME ListInv, FundInv, ShutdownInv, Deliver
    PROVE  ShutdownInv'
<1> SUFFICES ASSUME Shutting' PROVE ShutdownInv'
  BY DEF ShutdownInv
<1> DEFINE n == Len(queue)
           v0 == queue[1].vamm
<1>1. /\ queue # <<>> /\ queue' = Tail(queue)
      /\ UNCHANGED <<vamm_list, checkpoint, request>>
  BY DEF Deliver
<1>2. Shutting
  BY <1>1 DEF Shutting, Idle
<1>3. queue \in Seq(ShutdownMsgs)
  BY <1>2 DEF Shutting, FundInv, TransactionInv
<1>4. n \in Nat /\ n >= 1 /\ DOMAIN queue = 1 .. n /\ Head(queue) = queue[1]
  BY <1>1, <1>3
<1>5. queue[1] \in ShutdownMsgs
  BY <1>3, <1>4
<1>6. queue[1].kind = "set_open" /\ v0 \in Vamms
  BY <1>5 DEF ShutdownMsgs
<1>7. DOMAIN queue' = 1 .. n - 1 /\ \A i \in 1 .. n - 1 : queue'[i] = queue[i + 1]
  BY <1>1, <1>3, <1>4
<1>8. SetOpen(Fund, v0, FALSE)
  BY <1>4, <1>6 DEF Deliver
<1>9. /\ amm[v0].open /\ ~amm'[v0].open
      /\ \A v \in Vamms \ {v0} : amm'[v] = amm[v]
  BY <1>6, <1>8 DEF SetOpen, FundInv, Typed, Amms
<1>10. Distinct'
  <2> SUFFICES ASSUME NEW i \in 1 .. n - 1, NEW j \in 1 .. n - 1,
                      queue'[i].vamm = queue'[j].vamm
               PROVE  i = j
    BY <1>7 DEF Distinct
  <2>1. i + 1 \in 1 .. n /\ j + 1 \in 1 .. n /\ queue[i + 1].vamm = queue[j + 1].vamm
    BY <1>4, <1>7
  <2>2. i + 1 = j + 1
    BY <1>2, <1>4, <2>1 DEF ShutdownInv, Distinct
  <2> QED BY <1>4, <2>2
<1>11. Queued' = Queued \ {v0}
  <2>1. ASSUME NEW v \in Queued' PROVE v \in Queued \ {v0}
    <3>1. PICK i \in 1 .. n - 1 : v = queue'[i].vamm
      BY <1>7 DEF Queued
    <3>2. i + 1 \in 1 .. n /\ i + 1 # 1 /\ v = queue[i + 1].vamm /\ 1 \in 1 .. n
      BY <1>4, <1>7, <3>1
    <3> QED BY <1>2, <1>4, <3>2 DEF ShutdownInv, Distinct, Queued
  <2>2. ASSUME NEW v \in Queued \ {v0} PROVE v \in Queued'
    <3>1. PICK i \in 1 .. n : v = queue[i].vamm
      BY <1>4 DEF Queued
    <3>2. i - 1 \in 1 .. n - 1 /\ (i - 1) + 1 = i
      BY <1>4, <2>2, <3>1
    <3>3. v = queue'[i - 1].vamm
      BY <1>7, <3>1, <3>2
    <3> QED BY <1>7, <3>2, <3>3 DEF Queued
  <2> QED BY <2>1, <2>2
<1>12. v0 \in Queued
  BY <1>4 DEF Queued
<1>13. /\ checkpoint[1].amm[v0].open /\ v0 \in Listed(vamm_list)
       /\ amm[v0] = checkpoint[1].amm[v0]
  BY <1>2, <1>6, <1>9, <1>12 DEF ShutdownInv
<1>14. checkpoint[1].amm[v0].insurance_fund = Fund
  BY <1>8, <1>13, FundAssumption DEF SetOpen
<1>15. \A v \in Vamms : v \in Queued' \/ v \notin Listed(vamm_list)
                          => amm'[v] = checkpoint[1].amm[v]
  BY <1>2, <1>9, <1>11, <1>13 DEF ShutdownInv
<1>16. ASSUME NEW v \in Listed(vamm_list) \ Queued'
       PROVE  /\ checkpoint[1].amm[v].open
              /\ checkpoint[1].amm[v].insurance_fund = Fund
              /\ ~amm'[v].open
  <2>1. CASE v = v0
    BY <1>9, <1>13, <1>14, <2>1
  <2>2. CASE v # v0
    <3>1. v \in Listed(vamm_list) \ Queued /\ v \in Vamms
      BY <1>11, <2>2, ListedAreVamms
    <3> QED BY <1>2, <1>9, <2>2, <3>1 DEF ShutdownInv
  <2> QED BY <2>1, <2>2
<1>17. Queued' \subseteq Listed(vamm_list)
  BY <1>2, <1>11 DEF ShutdownInv
<1> QED BY <1>1, <1>10, <1>15, <1>16, <1>17 DEF ShutdownInv

LEMMA ShutdownInvStep == ListInv /\ FundInv /\ ShutdownInv /\ [Next]_vars => ShutdownInv'
<1> SUFFICES ASSUME ListInv, FundInv, ShutdownInv, [Next]_vars PROVE ShutdownInv'
  OBVIOUS
<1>1. ASSUME NEW sender \in Accounts, ShutdownAllVamm(sender) PROVE ShutdownInv'
  BY <1>1, ShutdownBegins
<1>2. ASSUME NEW sender \in Accounts, NEW token \in Tokens, NEW amount \in 0 .. MaxTransfer,
             Withdraw(sender, token, amount)
      PROVE  ShutdownInv'
  BY <1>2 DEF Withdraw, Begin, ShutdownInv, Shutting
<1>3. ASSUME Commit \/ Abort PROVE ShutdownInv'
  BY <1>3 DEF Commit, Abort, Ended, ShutdownInv, Shutting
<1>4. ASSUME UNCHANGED vars PROVE ShutdownInv'
  BY <1>4 DEF vars, transaction, ShutdownInv, Shutting, Idle, Distinct, Queued
<1>5. ASSUME Idle, UNCHANGED transaction PROVE ShutdownInv'
  BY <1>5 DEF transaction, ShutdownInv, Shutting, Idle
<1>6. ASSUME NEW sender \in Accounts,
             \/ \E new_owner \in Accounts : UpdateOwner(sender, new_owner)
             \/ \E vamm \in Vamms : AddVamm(sender, vamm) \/ RemoveVamm(sender, vamm)
      PROVE  ShutdownInv'
  BY <1>5, <1>6 DEF UpdateOwner, AddVamm, RemoveVamm
<1>7. ASSUME NEW vamm \in Vamms,
             \/ \E open \in BOOLEAN : OwnerSetsOpen(vamm, open)
             \/ \E account \in Accounts : OwnerSetsFund(vamm, account)
      PROVE  ShutdownInv'
  BY <1>5, <1>7 DEF OwnerSetsOpen, OwnerSetsFund
<1>8. ASSUME NEW token \in Tokens, NEW amount \in 1 .. MaxTransfer, Accrue(token, amount)
      PROVE  ShutdownInv'
  BY <1>5, <1>8 DEF Accrue
<1> QED BY <1>1, <1>2, <1>3, <1>4, <1>6, <1>7, <1>8, ShutdownDelivers DEF Next, Admin

LEMMA InvariantsHold == Spec => [](ListInv /\ FundInv /\ ShutdownInv)
<1>1. Init => ListInv /\ FundInv /\ ShutdownInv
  <2>1. Init => ShutdownInv
    BY DEF Init, ShutdownInv, Shutting, Idle
  <2> QED BY <2>1, RegistryInit, FundInvInit
<1>2. ListInv /\ FundInv /\ ShutdownInv /\ [Next]_vars => (ListInv /\ FundInv /\ ShutdownInv)'
  BY RegistryStep, FundInvStep, ShutdownInvStep
<1> QED BY <1>1, <1>2, PTL DEF Spec

\* Type correctness, for every choice of the accounts, AMMs, tokens and bounds.
THEOREM FundTypeCorrect == Spec => []TypeOK
<1>1. ListInv /\ FundInv => TypeOK
  BY DEF ListInv, FundInv, TypeOK
<1> QED BY <1>1, InvariantsHold, PTL

-----------------------------------------------------------------------------
(* Steps that end a transaction, and steps that move tokens                *)

LEMMA OnlyCommitOrAbortEnds ==
    ASSUME [Next]_vars, Ending
    PROVE  Commit \/ Abort
BY DEF Next, vars, transaction, Admin, UpdateOwner, AddVamm, RemoveVamm, ShutdownAllVamm,
       Withdraw, Begin, OwnerSetsOpen, OwnerSetsFund, Accrue, Deliver, Ending, Idle

\* The shutdown of any number of AMMs closes all of them or changes none.
THEOREM ShutdownClosesAllOrNone == Spec => ShutdownIsAllOrNothing
<1> DEFINE saved == checkpoint[1].amm
           A == Ending /\ request = "shutdown" =>
                   IF ClosableByFund(saved)
                   THEN \A v \in Vamms :
                          amm'[v].open = (saved[v].open /\ v \notin Listed(vamm_list))
                   ELSE amm' = saved
<1>1. ListInv /\ FundInv /\ ShutdownInv /\ [Next]_vars => A
  <2> SUFFICES ASSUME ListInv, FundInv, ShutdownInv, [Next]_vars,
                      Ending, request = "shutdown"
               PROVE  IF ClosableByFund(saved)
                      THEN \A v \in Vamms :
                             amm'[v].open = (saved[v].open /\ v \notin Listed(vamm_list))
                      ELSE amm' = saved
    OBVIOUS
  <2>1. Shutting
    BY DEF Ending, Shutting
  <2>2. saved \in Amms /\ amm \in Amms
    BY <2>1 DEF Shutting, FundInv, Typed
  <2>3. CASE Commit
    <3>1. amm' = amm /\ Queued = {}
      BY <2>3 DEF Commit, Queued
    <3>2. ClosableByFund(saved)
      BY <2>1, <3>1 DEF ShutdownInv, ClosableByFund
    <3>3. ASSUME NEW v \in Vamms
          PROVE  amm'[v].open = (saved[v].open /\ v \notin Listed(vamm_list))
      <4>1. CASE v \in Listed(vamm_list)
        <5>1. ~amm[v].open
          BY <2>1, <3>1, <4>1 DEF ShutdownInv
        <5>2. amm[v].open \in BOOLEAN
          BY <2>2 DEF Amms
        <5> QED BY <3>1, <4>1, <5>1, <5>2
      <4>2. CASE v \notin Listed(vamm_list)
        <5>1. amm[v] = saved[v]
          BY <2>1, <4>2 DEF ShutdownInv
        <5>2. saved[v].open \in BOOLEAN
          BY <2>2 DEF Amms
        <5> QED BY <3>1, <4>2, <5>1, <5>2
      <4> QED BY <4>1, <4>2
    <3> QED BY <3>2, <3>3
  <2>4. CASE Abort
    <3> DEFINE v0 == queue[1].vamm
    <3>1. amm' = saved /\ queue # <<>> /\ ~CanRun(Head(queue))
      BY <2>4 DEF Abort
    <3>2. queue \in Seq(ShutdownMsgs)
      BY <2>1 DEF Shutting, FundInv, TransactionInv
    <3>3. Head(queue) = queue[1] /\ 1 \in DOMAIN queue /\ queue[1] \in ShutdownMsgs
      BY <3>1, <3>2
    <3>4. v0 \in Vamms /\ queue[1].kind = "set_open" /\ v0 \in Queued
      BY <3>3 DEF ShutdownMsgs, Queued
    <3>5. v0 \in Listed(vamm_list) /\ amm[v0] = saved[v0]
      BY <2>1, <3>4 DEF ShutdownInv
    <3>6. ~(amm[v0].insurance_fund = Fund /\ amm[v0].open)
      BY <3>1, <3>3, <3>4 DEF CanRun
    <3>7. ~ClosableByFund(saved)
      BY <3>5, <3>6 DEF ClosableByFund
    <3> QED BY <3>1, <3>7
  <2> QED BY <2>3, <2>4, OnlyCommitOrAbortEnds
<1>2. A <=> (Ending /\ request = "shutdown" =>
               LET was == checkpoint[1].amm
               IN  IF ClosableByFund(was)
                   THEN \A v \in Vamms :
                          amm'[v].open = (was[v].open /\ v \notin Listed(vamm_list))
                   ELSE amm' = was)
  OBVIOUS
<1> HIDE DEF A
<1> QED BY <1>1, <1>2, InvariantsHold, PTL DEF Spec, ShutdownIsAllOrNothing

\* What leaves the fund arrives at the engine.
THEOREM FundPaysOnlyEngine == Spec => OnlyEngineIsPaid
<1> DEFINE Paid == \A t \in Tokens :
              balance'[t][Fund] < balance[t][Fund] =>
                balance'[t][Fund] + balance'[t][Engine] = balance[t][Fund] + balance[t][Engine]
<1>1. ASSUME UNCHANGED balance, balance \in Ledger PROVE Paid
  BY <1>1 DEF Ledger
<1>2. FundInv /\ [Next]_vars => Paid
  <2> SUFFICES ASSUME FundInv, [Next]_vars PROVE Paid
    OBVIOUS
  <2>1. balance \in Ledger
    BY DEF FundInv, Typed
  <2>2. ASSUME NEW token \in Tokens, NEW amount \in 1 .. MaxTransfer, Accrue(token, amount)
        PROVE  Paid
    BY <2>1, <2>2, FundAssumption DEF Accrue, Ledger
  <2>3. CASE Deliver
    <3> DEFINE msg == Head(queue)
    <3>1. queue # <<>> /\ queue \in Seq(Msgs) /\ msg \in Msgs
      BY <2>3 DEF Deliver, FundInv, TransactionInv
    <3>2. CASE msg.kind = "set_open"
      BY <1>1, <2>1, <2>3, <3>2 DEF Deliver
    <3>3. CASE msg.kind = "transfer"
      <4>1. msg \in TransferMsgs
        BY <3>1, <3>3 DEF Msgs, ShutdownMsgs
      <4>2. msg.to = Engine /\ msg.token \in Tokens /\ msg.amount \in Nat
        BY <4>1 DEF TransferMsgs
      <4>3. balance' = [balance EXCEPT
              ![msg.token] = [h \in {Fund, Engine} |->
                  IF h = Fund THEN @[h] - msg.amount
                  ELSE IF h = msg.to THEN @[h] + msg.amount ELSE @[h]]]
        BY <2>3, <3>3 DEF Deliver
      <4>4. /\ \A t \in Tokens \ {msg.token} : balance'[t] = balance[t]
            /\ balance'[msg.token][Fund] = balance[msg.token][Fund] - msg.amount
            /\ balance'[msg.token][Engine] = balance[msg.token][Engine] + msg.amount
        <5> HIDE DEF msg
        <5> QED BY <2>1, <4>2, <4>3, FundAssumption DEF Ledger
      <4>5. \A t \in Tokens : balance[t][Fund] \in Nat /\ balance[t][Engine] \in Nat
        BY <2>1 DEF Ledger
      <4> HIDE DEF msg
      <4> QED BY <4>2, <4>4, <4>5
    <3> QED BY <2>3, <3>2, <3>3 DEF Deliver
  <2>4. CASE Abort
    <3>1. balance' = checkpoint[1].balance /\ queue # <<>>
      BY <2>4 DEF Abort
    <3>2. UNCHANGED balance
      BY <3>1 DEF FundInv, TransactionInv
    <3> QED BY <1>1, <2>1, <3>2
  <2>5. CASE ~(Deliver \/ Abort \/ \E token \in Tokens, amount \in 1 .. MaxTransfer :
                                      Accrue(token, amount))
    <3>1. UNCHANGED balance
      BY <2>5 DEF Next, vars, Admin, UpdateOwner, AddVamm, RemoveVamm, ShutdownAllVamm,
                  Withdraw, Begin, OwnerSetsOpen, OwnerSetsFund, Commit
    <3> QED BY <1>1, <2>1, <3>1
  <2> QED BY <2>2, <2>3, <2>4, <2>5
<1> QED BY <1>2, InvariantsHold, PTL DEF Spec, OnlyEngineIsPaid

=============================================================================

---------------------------- MODULE InsuranceFund ----------------------------
(***************************************************************************)
(* The insurance fund (contracts/margined_insurance_fund): the registry of *)
(* the virtual AMMs that the engine trades on, their emergency shutdown,   *)
(* and the payments to the engine.                                         *)
(*                                                                         *)
(* Of an AMM only its open flag, and who may change it, are kept (Vamm has *)
(* the rest).  A message is a transaction: shutdown_all_vamm emits one     *)
(* submessage per AMM and withdraw one transfer, run one at a time; when   *)
(* one fails the chain restores `checkpoint', what there was before.       *)
(***************************************************************************)
EXTENDS EntryList, FiniteSets

CONSTANTS
    Accounts,                   \* who sends messages and owns contracts
    Vamms,                      \* the contracts proposed as virtual AMMs
    Tokens,                     \* the assets the fund may hold
    Fund, Engine,               \* this contract, and the engine in its Config
    Deployer,                   \* who instantiates the contracts
    VAMM_LIMIT,                 \* the capacity of the registry
    EngineDecimals, VammDecimals,   \* the decimals the engine and each AMM work with
    InitialBalance,             \* what the fund holds of each token at first
    MaxTransfer                 \* bound: the largest amount of one transfer

ASSUME FundAssumption ==
    /\ Fund \in Accounts /\ Engine \in Accounts /\ Deployer \in Accounts
    /\ Fund \notin {Engine, Deployer}
    /\ VAMM_LIMIT \in Nat \ {0}
    /\ VammDecimals \in [Vamms -> Nat] /\ EngineDecimals \in Nat
    /\ InitialBalance \in Nat /\ MaxTransfer \in Nat

VARIABLES
    owner,          \* OWNER
    vamm_list,      \* VAMM_LIST, empty also before it is first stored
    amm,            \* of each AMM: open, and the insurance_fund of its Config
    balance,        \* of each token: what the fund and the engine hold (external)
    queue, checkpoint,      \* the transaction being executed
    request         \* what that transaction was asked for

transaction == <<queue, checkpoint, request>>
vars == <<owner, vamm_list, amm, balance, transaction>>

Amms == [Vamms -> [open : BOOLEAN, insurance_fund : Accounts]]
Ledger == [Tokens -> [{Fund, Engine} -> Nat]]

Idle == checkpoint = <<>>

Init ==
    /\ owner = Deployer
    /\ vamm_list = <<>>
    /\ \E funds \in [Vamms -> Accounts] :     \* a new AMM is closed
          amm = [v \in Vamms |-> [open |-> FALSE, insurance_fund |-> funds[v]]]
    /\ balance = [t \in Tokens |-> [h \in {Fund, Engine} |-> InitialBalance]]
    /\ queue = <<>> /\ checkpoint = <<>> /\ request = "none"

-----------------------------------------------------------------------------
(* The registry                                                            *)

UpdateOwner(sender, new_owner) ==
    /\ Idle
    /\ sender = owner
    /\ owner' = new_owner
    /\ UNCHANGED <<vamm_list, amm, balance, transaction>>

\* Mutants: an AMM is added again, or over the capacity.
SaveAgain(vamm) ==
    /\ Len(vamm_list) < VAMM_LIMIT
    /\ vamm_list' = Pushed(vamm_list, vamm)
SaveUnbounded(vamm) ==
    /\ vamm \notin Listed(vamm_list)
    /\ Len(vamm_list) <= VAMM_LIMIT
    /\ vamm_list' = Pushed(vamm_list, vamm)
\* save_vamm
SaveVamm(vamm) ==
    /\ vamm \notin Listed(vamm_list)
    /\ Len(vamm_list) < VAMM_LIMIT
    /\ vamm_list' = Pushed(vamm_list, vamm)

AddVamm(sender, vamm) ==
    /\ Idle
    /\ sender = owner
    /\ VammDecimals[vamm] = EngineDecimals
    /\ SaveVamm(vamm)
    /\ UNCHANGED <<owner, amm, balance, transaction>>

RemoveVamm(sender, vamm) ==
    /\ Idle
    /\ sender = owner
    /\ vamm \in Listed(vamm_list)
    /\ vamm_list' = SwapRemove(vamm_list, vamm)
    /\ UNCHANGED <<owner, amm, balance, transaction>>

\* require_vamm of the engine: what it opens, liquidates and pays funding on.
Tradable(vamm) == vamm \in Listed(vamm_list) /\ amm[vamm].open

-----------------------------------------------------------------------------
(* The virtual AMMs                                                        *)

\* Vamm!SetOpen: its owner and its insurance fund may, and only to change it.
SetOpen(sender, vamm, open) ==
    /\ sender \in {Deployer, amm[vamm].insurance_fund}
    /\ amm[vamm].open # open
    /\ amm' = [amm EXCEPT ![vamm].open = open]

OwnerSetsOpen(vamm, open) ==
    /\ Idle
    /\ SetOpen(Deployer, vamm, open)
    /\ UNCHANGED <<owner, vamm_list, balance, transaction>>

\* The insurance_fund option of Vamm!UpdateConfig.
OwnerSetsFund(vamm, insurance_fund) ==
    /\ Idle
    /\ amm' = [amm EXCEPT ![vamm].insurance_fund = insurance_fund]
    /\ UNCHANGED <<owner, vamm_list, balance, transaction>>

-----------------------------------------------------------------------------
(* Transactions of several steps                                           *)

Begin(kind, msgs) ==
    /\ Idle
    /\ request' = kind
    /\ checkpoint' = <<[amm |-> amm, balance |-> balance]>>
    /\ queue' = msgs
    /\ UNCHANGED <<owner, vamm_list, amm, balance>>

\* execute_vamm_shutdown
ShutdownMsg(vamm) == [kind |-> "set_open", vamm |-> vamm]
\* Mutant: the last AMM of a full list is left out.
ShutdownShort(sender) ==
    /\ sender \in {owner, Fund}
    /\ Begin("shutdown", [i \in DOMAIN Taken(vamm_list, VAMM_LIMIT - 1)
                            |-> ShutdownMsg(vamm_list[i])])
\* (Of a fund that has never listed an AMM read_vammlist finds no list and the
\* shutdown fails, where here it closes none: no state tells the two apart.)
ShutdownAllVamm(sender) ==
    /\ sender \in {owner, Fund}
    /\ LET keys == Taken(vamm_list, VAMM_LIMIT)
       IN  Begin("shutdown", [i \in DOMAIN keys |-> ShutdownMsg(keys[i])])

Transfer(to, token, amount) ==
    [kind |-> "transfer", to |-> to, token |-> token, amount |-> amount]
\* Mutant: the owner is sent the tokens that the engine asks for.
WithdrawToOwner(sender, token, amount) ==
    /\ sender = Engine
    /\ Begin("withdraw", <<Transfer(owner, token, amount)>>)
Withdraw(sender, token, amount) ==
    /\ sender = Engine
    /\ Begin("withdraw", <<Transfer(Engine, token, amount)>>)

\* What the engine sends to the fund: fees, funding, what liquidations leave.
Accrue(token, amount) ==
    /\ Idle
    /\ amount \in 1 .. balance[token][Engine]
    /\ balance' = [balance EXCEPT ![token][Engine] = @ - amount, ![token][Fund] = @ + amount]
    /\ UNCHANGED <<owner, vamm_list, amm, transaction>>

\* A transfer of nothing, or of more than there is, is refused (cw20 and bank).
CanTransfer(msg) == msg.amount \in 1 .. balance[msg.token][Fund]
CanRun(msg) ==
    IF msg.kind = "transfer" THEN CanTransfer(msg)
    ELSE amm[msg.vamm].insurance_fund = Fund /\ amm[msg.vamm].open

Deliver ==
    /\ queue # <<>>
    /\ queue' = Tail(queue)
    /\ LET msg == Head(queue)
       IN  \/ /\ msg.kind = "set_open"
              /\ SetOpen(Fund, msg.vamm, FALSE)
              /\ UNCHANGED balance
           \/ /\ msg.kind = "transfer"
              /\ CanTransfer(msg)
              /\ balance' = [balance EXCEPT
                    ![msg.token] = [h \in {Fund, Engine} |->
                        IF h = Fund THEN @[h] - msg.amount
                        ELSE IF h = msg.to THEN @[h] + msg.amount ELSE @[h]]]
              /\ UNCHANGED amm
    /\ UNCHANGED <<owner, vamm_list, checkpoint, request>>

Ended == checkpoint' = <<>> /\ queue' = <<>> /\ request' = "none"

Commit ==
    /\ ~Idle /\ queue = <<>>
    /\ Ended
    /\ UNCHANGED <<owner, vamm_list, amm, balance>>

\* (Mutant: the submessages that succeeded before the failure stay.)
AbortKeepingAll ==
    /\ queue # <<>> /\ ~CanRun(Head(queue))
    /\ Ended
    /\ UNCHANGED <<owner, vamm_list, amm, balance>>
Abort ==
    /\ queue # <<>> /\ ~CanRun(Head(queue))
    /\ amm' = checkpoint[1].amm /\ balance' = checkpoint[1].balance
    /\ Ended
    /\ UNCHANGED <<owner, vamm_list>>

Admin(sender) ==
    \/ \E new_owner \in Accounts : UpdateOwner(sender, new_owner)
    \/ \E vamm \in Vamms : AddVamm(sender, vamm) \/ RemoveVamm(sender, vamm)
    \/ ShutdownAllVamm(sender)
    \/ \E token \in Tokens, amount \in 0 .. MaxTransfer : Withdraw(sender, token, amount)

Next ==
    \/ \E sender \in Accounts : Admin(sender)
    \/ \E vamm \in Vamms :
          \/ \E open \in BOOLEAN : OwnerSetsOpen(vamm, open)
          \/ \E account \in Accounts : OwnerSetsFund(vamm, account)
    \/ \E token \in Tokens, amount \in 1 .. MaxTransfer : Accrue(token, amount)
    \/ Deliver \/ Commit \/ Abort

Spec == Init /\ [][Next]_vars

-----------------------------------------------------------------------------
(* Properties                                                              *)

Typed ==
    /\ owner \in Accounts
    /\ vamm_list \in Seq(Vamms)
    /\ amm \in Amms
    /\ balance \in Ledger
    /\ ~Idle => /\ checkpoint = <<checkpoint[1]>>
                /\ checkpoint[1] \in [amm : Amms, balance : Ledger]
    /\ request \in {"none", "shutdown", "withdraw"}

\* The types, and the list in storage is short enough and names no AMM twice
\* (save_vamm).
TypeOK == Typed /\ NoDuplicates(vamm_list) /\ Len(vamm_list) <= VAMM_LIMIT

\* The list in storage acts as a set of at most VAMM_LIMIT AMMs: each addition
\* adds the one AMM it names, each removal takes out that one and, although it
\* moves another AMM to its place, no other (save_vamm, remove_vamm).
R == INSTANCE Registry WITH Entries <- Vamms, Limit <- VAMM_LIMIT,
                            registered <- Listed(vamm_list)
ImplementsRegistry == R!Spec

Ending == ~Idle /\ checkpoint' = <<>>
ClosableByFund(state) ==
    \A v \in Listed(vamm_list) : state[v].open /\ state[v].insurance_fund = Fund

\* An emergency shutdown closes every AMM of the registry, and no other, when
\* all of them are open and answer to this fund; otherwise it changes none
\* (shutdown_all_vamm: set_open refuses an AMM that is closed already, and
\* the submessages never ask for a reply).
ShutdownIsAllOrNothing ==
    [][Ending /\ request = "shutdown" =>
         LET saved == checkpoint[1].amm
         IN  IF ClosableByFund(saved)
             THEN \A v \in Vamms :
                    amm'[v].open = (saved[v].open /\ v \notin Listed(vamm_list))
             ELSE amm' = saved]_vars

\* What leaves the fund goes to the engine (withdraw).
OnlyEngineIsPaid ==
    [][\A t \in Tokens :
         balance'[t][Fund] < balance[t][Fund] =>
           balance'[t][Fund] + balance'[t][Engine] = balance[t][Fund] + balance[t][Engine]]_vars

\* After the emergency shutdown nothing can be traded, as the README of the
\* contract has it.
ShutdownHaltsTrading ==
    [][Ending /\ request = "shutdown" => \A v \in Vamms : ~Tradable(v)']_vars

=============================================================================

------------------------------- MODULE FeePool -------------------------------
(***************************************************************************)
(* The fee pool (contracts/margined_fee_pool): it holds the fees that the  *)
(* engine sends it, keeps a registry of tokens, and lets its owner send    *)
(* tokens of the registry on.  send_token emits the transfer, which runs   *)
(* before the transaction ends.                                            *)
(***************************************************************************)
EXTENDS EntryList, FiniteSets

CONSTANTS
    Accounts,               \* who sends messages and receives tokens
    Pool, Deployer,         \* this contract, and who instantiates it
    NativeDenoms,           \* the native denominations the code knows
    Contracts,              \* and the addresses of cw20 tokens
    TOKEN_LIMIT,            \* the capacity of the registry
    InitialBalance,         \* what each account but the pool holds at first
    MaxTransfer             \* bound: the largest amount of one transfer

ASSUME PoolAssumption ==
    /\ Pool \notin Accounts /\ Deployer \in Accounts
    /\ NativeDenoms \intersect Contracts = {}
    /\ TOKEN_LIMIT \in Nat \ {0}
    /\ InitialBalance \in Nat /\ MaxTransfer \in Nat

VARIABLES
    owner,                  \* OWNER
    token_list,             \* TOKEN_LIST, empty also before it is first stored
    balance,                \* of each token: what each account holds (external)
    pending                 \* the transfer that send_token has emitted, if any

vars == <<owner, token_list, balance, pending>>

Names == NativeDenoms \union Contracts
\* validate_eligible_collateral: a known denomination, or else an address.
AssetInfo(name) ==
    IF name \in NativeDenoms THEN [kind |-> "native_token", denom |-> name]
    ELSE [kind |-> "token", contract_addr |-> name]
Tokens == {AssetInfo(name) : name \in Names}

Holders == Accounts \union {Pool}
Idle == pending = <<>>

Init ==
    /\ owner = Deployer
    /\ token_list = <<>>
    /\ balance = [t \in Tokens |->
                    [a \in Holders |-> IF a = Pool THEN 0 ELSE InitialBalance]]
    /\ pending = <<>>

UpdateOwner(sender, new_owner) ==
    /\ Idle
    /\ sender = owner
    /\ owner' = new_owner
    /\ UNCHANGED <<token_list, balance, pending>>

\* Mutant: the capacity is checked after the push.
SaveUnbounded(token) ==
    /\ token \notin Listed(token_list)
    /\ Len(token_list) <= TOKEN_LIMIT
    /\ token_list' = Pushed(token_list, token)
\* save_token
SaveToken(token) ==
    /\ token \notin Listed(token_list)
    /\ Len(token_list) < TOKEN_LIMIT
    /\ token_list' = Pushed(token_list, token)

AddToken(sender, name) ==
    /\ Idle
    /\ sender = owner
    /\ SaveToken(AssetInfo(name))
    /\ UNCHANGED <<owner, balance, pending>>

RemoveToken(sender, name) ==
    /\ Idle
    /\ sender = owner
    /\ AssetInfo(name) \in Listed(token_list)
    /\ token_list' = SwapRemove(token_list, AssetInfo(name))
    /\ UNCHANGED <<owner, balance, pending>>

\* Mutant: the pool does not look at what it holds.
SendUncovered(sender, name, amount, recipient) ==
    /\ Idle
    /\ amount # 0
    /\ sender = owner
    /\ AssetInfo(name) \in Listed(token_list)
    /\ pending' = <<[token |-> AssetInfo(name), amount |-> amount, to |-> recipient]>>
    /\ UNCHANGED <<owner, token_list, balance>>
\* Mutant: any token the pool holds may be sent.
SendUnlisted(sender, name, amount, recipient) ==
    /\ Idle
    /\ amount # 0
    /\ sender = owner
    /\ balance[AssetInfo(name)][Pool] >= amount
    /\ pending' = <<[token |-> AssetInfo(name), amount |-> amount, to |-> recipient]>>
    /\ UNCHANGED <<owner, token_list, balance>>
SendToken(sender, name, amount, recipient) ==
    /\ Idle
    /\ amount # 0
    /\ sender = owner
    /\ AssetInfo(name) \in Listed(token_list)
    /\ balance[AssetInfo(name)][Pool] >= amount
    /\ pending' = <<[token |-> AssetInfo(name), amount |-> amount, to |-> recipient]>>
    /\ UNCHANGED <<owner, token_list, balance>>

\* A cw20 or a bank transfer, which is refused when it is not covered.
Pay(token, from, to, amount) ==
    /\ amount \in 1 .. balance[token][from]
    /\ balance' = [balance EXCEPT ![token] =
                     [a \in Holders |-> @[a] - (IF a = from THEN amount ELSE 0)
                                              + (IF a = to THEN amount ELSE 0)]]
Deliver ==
    /\ ~Idle
    /\ Pay(pending[1].token, Pool, pending[1].to, pending[1].amount)
    /\ pending' = <<>>
    /\ UNCHANGED <<owner, token_list>>

\* The token refuses the transfer, as a paused cw20 token may, and the request is
\* undone, which had stored nothing.
Refuse ==
    /\ ~Idle
    /\ pending' = <<>>
    /\ UNCHANGED <<owner, token_list, balance>>

\* Fees arrive in whatever token the payer chooses, listed or not.
Accrue(payer, token, amount) ==
    /\ Idle
    /\ Pay(token, payer, Pool, amount)
    /\ UNCHANGED <<owner, token_list, pending>>

Next ==
    \/ \E sender \in Accounts :
          \/ \E new_owner \in Accounts : UpdateOwner(sender, new_owner)
          \/ \E name \in Names : AddToken(sender, name) \/ RemoveToken(sender, name)
          \/ \E name \in Names, amount \in 0 .. MaxTransfer, recipient \in Holders :
                SendToken(sender, name, amount, recipient)
    \/ \E payer \in Accounts, token \in Tokens, amount \in 1 .. MaxTransfer :
          Accrue(payer, token, amount)
    \/ Deliver
    \/ Refuse

Spec == Init /\ [][Next]_vars

-----------------------------------------------------------------------------
(* Properties                                                              *)

Typed ==
    /\ owner \in Accounts
    /\ token_list \in Seq(Tokens)
    /\ balance \in [Tokens -> [Holders -> Nat]]
    /\ ~Idle => /\ pending = <<pending[1]>>
                /\ pending[1] \in [token : Tokens, amount : Nat, to : Holders]

\* The types, and the list in storage is short enough and names no token twice
\* (save_token).
TypeOK == Typed /\ NoDuplicates(token_list) /\ Len(token_list) <= TOKEN_LIMIT

\* The list in storage acts as a set of at most TOKEN_LIMIT tokens (save_token,
\* remove_token).
R == INSTANCE Registry WITH Entries <- Tokens, Limit <- TOKEN_LIMIT,
                            registered <- Listed(token_list)
ImplementsRegistry == R!Spec

\* The transfer that the pool has emitted is one the token will accept: of a
\* token in the registry, of something, and of no more than the pool holds.
PendingIsCovered ==
    ~Idle => /\ pending[1].token \in Listed(token_list)
             /\ pending[1].amount \in 1 .. balance[pending[1].token][Pool]

\* Of a token that is not in the registry nothing leaves the pool, and of one
\* that is only what its owner sends: a token that was removed keeps its fees
\* in the pool until it is added again (send_token, remove_token).
UnlistedTokensStay ==
    [][\A t \in Tokens \ Listed(token_list) : balance'[t][Pool] >= balance[t][Pool]]_vars

=============================================================================

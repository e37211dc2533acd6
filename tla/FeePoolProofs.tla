---------------------------- MODULE FeePoolProofs ----------------------------
(***************************************************************************)
(* The registry of the fee pool and what it sends, for any number of       *)
(* tokens and accounts and any capacity.                                   *)
(***************************************************************************)
EXTENDS FeePool, OperatorProofs

ListInv ==
    /\ token_list \in Seq(Tokens)
    /\ NoDuplicates(token_list)
    /\ Len(token_list) <= TOKEN_LIMIT

LEMMA NamesAreTokens == \A name \in Names : AssetInfo(name) \in Tokens
BY DEF Tokens

LEMMA RegistryCardinality == \A S : R!Cardinality(S) = Cardinality(S)
BY DEF R!Cardinality, Cardinality

\* The actions that leave the registry alone.
LEMMA OthersKeepList ==
    ASSUME [Next]_vars,
           ~ \E sender \in Accounts, name \in Names :
                AddToken(sender, name) \/ RemoveToken(sender, name)
    PROVE  token_list' = token_list
BY DEF Next, vars, UpdateOwner, SendToken, Deliver, Refuse, Accrue

LEMMA RegistryStep ==
    ASSUME ListInv, [Next]_vars
    PROVE  ListInv' /\ [R!Next]_(Listed(token_list))
<1>1. ASSUME NEW sender \in Accounts, NEW name \in Names, AddToken(sender, name)
      PROVE  ListInv' /\ [R!Next]_(Listed(token_list))
  <2> DEFINE token == AssetInfo(name)
  <2>1. /\ token \in Tokens
        /\ token \notin Listed(token_list)
        /\ Len(token_list) < TOKEN_LIMIT
        /\ token_list' = Pushed(token_list, token)
    BY <1>1, NamesAreTokens DEF AddToken, SaveToken
  <2> HIDE DEF token
  <2>2. /\ token_list' \in Seq(Tokens) /\ NoDuplicates(token_list')
        /\ Len(token_list') = Len(token_list) + 1
        /\ Listed(token_list') = Listed(token_list) \union {token}
    BY <2>1, PushedFacts DEF ListInv
  <2>3. Cardinality(Listed(token_list)) < TOKEN_LIMIT
    BY <2>1, ListedSize DEF ListInv
  <2>4. ListInv'
    BY <2>1, <2>2, PoolAssumption DEF ListInv
  <2>5. R!Next
    BY <2>1, <2>2, <2>3, RegistryCardinality DEF R!Next, R!Add
  <2> QED BY <2>4, <2>5
<1>2. ASSUME NEW sender \in Accounts, NEW name \in Names, RemoveToken(sender, name)
      PROVE  ListInv' /\ [R!Next]_(Listed(token_list))
  <2> DEFINE token == AssetInfo(name)
  <2>1. /\ token \in Tokens
        /\ token \in Listed(token_list)
        /\ token_list' = SwapRemove(token_list, token)
    BY <1>2, NamesAreTokens DEF RemoveToken
  <2> HIDE DEF token
  <2>2. /\ token_list' \in Seq(Tokens) /\ NoDuplicates(token_list')
        /\ Len(token_list') = Len(token_list) - 1
        /\ Listed(token_list') = Listed(token_list) \ {token}
    BY <2>1, SwapRemoveFacts DEF ListInv
  <2>3. ListInv'
    BY <2>2, PoolAssumption DEF ListInv
  <2>4. R!Next
    BY <2>1, <2>2 DEF R!Next, R!Remove
  <2> QED BY <2>3, <2>4
<1>3. CASE ~ \E sender \in Accounts, name \in Names :
               AddToken(sender, name) \/ RemoveToken(sender, name)
  <2>1. token_list' = token_list
    BY <1>3, OthersKeepList
  <2> QED BY <2>1 DEF ListInv
<1> QED BY <1>1, <1>2, <1>3

LEMMA RegistryInit == Init => ListInv /\ R!Init
BY PoolAssumption DEF Init, ListInv, R!Init, Listed, NoDuplicates

\* The list that save_token and remove_token keep implements a set of at most
\* TOKEN_LIMIT tokens.
THEOREM TokensImplementRegistry == Spec => ImplementsRegistry
<1>1. Init => ListInv /\ R!Init
  BY RegistryInit
<1>2. ListInv /\ [Next]_vars => ListInv' /\ [R!Next]_(Listed(token_list))
  BY RegistryStep
<1> QED BY <1>1, <1>2, PTL DEF Spec, ImplementsRegistry, R!Spec

-----------------------------------------------------------------------------
(* What is sent                                                            *)

PoolInv == Typed /\ PendingIsCovered

LEMMA PayKeepsLedger ==
    ASSUME balance \in [Tokens -> [Holders -> Nat]],
           NEW token \in Tokens, NEW from \in Holders, NEW to \in Holders,
           NEW amount \in Nat, Pay(token, from, to, amount)
    PROVE  /\ balance' \in [Tokens -> [Holders -> Nat]]
           /\ \A t \in Tokens \ {token} : balance'[t] = balance[t]
           /\ from # Pool => balance'[token][Pool] >= balance[token][Pool]
<1>1. amount \in 1 .. balance[token][from]
  BY DEF Pay
<1> DEFINE row == [a \in Holders |-> balance[token][a] - (IF a = from THEN amount ELSE 0)
                                       + (IF a = to THEN amount ELSE 0)]
<1>2. balance' = [balance EXCEPT ![token] = row]
  BY DEF Pay
<1>3. row \in [Holders -> Nat]
  <2> SUFFICES ASSUME NEW a \in Holders PROVE row[a] \in Nat
    OBVIOUS
  <2>1. balance[token][a] \in Nat
    OBVIOUS
  <2> QED BY <1>1, <2>1
<1>4. from # Pool => row[Pool] >= balance[token][Pool]
  BY DEF Holders
<1> HIDE DEF row
<1> QED BY <1>2, <1>3, <1>4

LEMMA PoolInvStep == PoolInv /\ ListInv /\ [Next]_vars => PoolInv'
<1> SUFFICES ASSUME PoolInv, ListInv, [Next]_vars PROVE PoolInv'
  OBVIOUS
<1>1. token_list' \in Seq(Tokens)
  BY RegistryStep DEF ListInv
<1>2. balance \in [Tokens -> [Holders -> Nat]]
  BY DEF PoolInv, Typed
<1>3. ASSUME Idle, UNCHANGED <<balance, pending>>, owner' \in Accounts PROVE PoolInv'
  BY <1>1, <1>3 DEF PoolInv, Typed, PendingIsCovered, Idle
<1>4. ASSUME NEW sender \in Accounts, NEW new_owner \in Accounts, UpdateOwner(sender, new_owner)
      PROVE  PoolInv'
  BY <1>3, <1>4 DEF UpdateOwner
<1>5. ASSUME NEW sender \in Accounts, NEW name \in Names,
             AddToken(sender, name) \/ RemoveToken(sender, name)
      PROVE  PoolInv'
  BY <1>3, <1>5 DEF AddToken, RemoveToken, PoolInv, Typed
<1>6. ASSUME NEW sender \in Accounts, NEW name \in Names, NEW amount \in 0 .. MaxTransfer,
             NEW recipient \in Holders, SendToken(sender, name, amount, recipient)
      PROVE  PoolInv'
  <2> DEFINE token == AssetInfo(name)
  <2>1. token \in Tokens /\ amount \in Nat /\ amount # 0
    BY <1>6, NamesAreTokens, PoolAssumption DEF SendToken
  <2>2. /\ pending' = <<[token |-> token, amount |-> amount, to |-> recipient]>>
        /\ token \in Listed(token_list) /\ balance[token][Pool] >= amount
        /\ UNCHANGED <<owner, token_list, balance>>
    BY <1>6 DEF SendToken
  <2> HIDE DEF token
  <2>3. /\ pending'[1].token = token /\ pending'[1].amount = amount
        /\ pending'[1].to = recipient /\ pending' = <<pending'[1]>>
        /\ pending'[1] \in [token : Tokens, amount : Nat, to : Holders]
    BY <2>1, <2>2
  <2>4. balance[token][Pool] \in Nat
    BY <1>2, <2>1 DEF Holders
  <2> QED BY <1>1, <2>1, <2>2, <2>3, <2>4 DEF PoolInv, Typed, PendingIsCovered, Idle
<1>7. ASSUME Deliver PROVE PoolInv'
  <2>1. ~Idle /\ pending' = <<>> /\ UNCHANGED <<owner, token_list>>
    BY <1>7 DEF Deliver
  <2>2. pending[1] \in [token : Tokens, amount : Nat, to : Holders]
    BY <2>1 DEF PoolInv, Typed
  <2>3. Pay(pending[1].token, Pool, pending[1].to, pending[1].amount)
    BY <1>7 DEF Deliver
  <2>4. balance' \in [Tokens -> [Holders -> Nat]]
    BY <1>2, <2>2, <2>3, PayKeepsLedger DEF Holders
  <2> QED BY <1>1, <2>1, <2>4 DEF PoolInv, Typed, PendingIsCovered, Idle
<1>8. ASSUME NEW payer \in Accounts, NEW token \in Tokens, NEW amount \in 1 .. MaxTransfer,
             Accrue(payer, token, amount)
      PROVE  PoolInv'
  <2>1. /\ Pay(token, payer, Pool, amount) /\ amount \in Nat
        /\ Idle /\ UNCHANGED <<owner, token_list, pending>>
    BY <1>8, PoolAssumption DEF Accrue
  <2>2. balance' \in [Tokens -> [Holders -> Nat]]
    BY <1>2, <2>1, PayKeepsLedger DEF Holders
  <2> QED BY <2>1, <2>2 DEF PoolInv, Typed, PendingIsCovered, Idle
<1>9. ASSUME Refuse PROVE PoolInv'
  BY <1>1, <1>9 DEF Refuse, PoolInv, Typed, PendingIsCovered, Idle
<1>10. ASSUME UNCHANGED vars PROVE PoolInv'
  BY <1>10 DEF vars, PoolInv, Typed, PendingIsCovered, Idle
<1> QED BY <1>4, <1>5, <1>6, <1>7, <1>8, <1>9, <1>10 DEF Next

LEMMA PoolInvHolds == Spec => [](PoolInv /\ ListInv)
<1>1. Init => PoolInv /\ ListInv
  <2>1. Init => Typed
    BY PoolAssumption DEF Init, Typed, Idle, Holders
  <2>2. Init => PendingIsCovered
    BY DEF Init, PendingIsCovered, Idle
  <2> QED BY <2>1, <2>2, RegistryInit DEF PoolInv
<1>2. PoolInv /\ ListInv /\ [Next]_vars => (PoolInv /\ ListInv)'
  BY PoolInvStep, RegistryStep
<1> QED BY <1>1, <1>2, PTL DEF Spec

\* Type correctness, and the registry holds no more than its limit, nor anything
\* twice, for every choice of the accounts, tokens and bounds.
THEOREM PoolTypeCorrect == Spec => []TypeOK
<1>1. PoolInv /\ ListInv => TypeOK
  BY DEF PoolInv, ListInv, TypeOK
<1> QED BY <1>1, PoolInvHolds, PTL

\* Every transfer the pool emits is of a token of its registry and covered.
THEOREM PoolSendsWhatItHolds == Spec => []PendingIsCovered
BY PoolInvHolds, PTL DEF PoolInv

\* Nothing of a token outside the registry leaves the pool.
THEOREM PoolKeepsUnlisted == Spec => UnlistedTokensStay
<1> DEFINE Kept == \A t \in Tokens \ Listed(token_list) :
                      balance'[t][Pool] >= balance[t][Pool]
<1>1. PoolInv /\ [Next]_vars => Kept
  <2> SUFFICES ASSUME PoolInv, [Next]_vars, NEW t \in Tokens \ Listed(token_list)
               PROVE  balance'[t][Pool] >= balance[t][Pool]
    OBVIOUS
  <2>1. /\ balance \in [Tokens -> [Holders -> Nat]] /\ Pool \in Holders
        /\ balance[t][Pool] \in Nat
    BY DEF PoolInv, Typed, Holders
  <2>2. CASE Deliver
    <3>1. /\ pending[1] \in [token : Tokens, amount : Nat, to : Holders]
          /\ pending[1].token # t
          /\ Pay(pending[1].token, Pool, pending[1].to, pending[1].amount)
      BY <2>2 DEF Deliver, PoolInv, Typed, PendingIsCovered
    <3>2. balance'[t] = balance[t]
      BY <2>1, <3>1, PayKeepsLedger
    <3> QED BY <2>1, <3>2
  <2>3. ASSUME NEW payer \in Accounts, NEW token \in Tokens, NEW amount \in 1 .. MaxTransfer,
               Accrue(payer, token, amount)
        PROVE  balance'[t][Pool] >= balance[t][Pool]
    <3>1. Pay(token, payer, Pool, amount) /\ amount \in Nat /\ payer \in Holders
          /\ payer # Pool
      BY <2>3, PoolAssumption DEF Accrue, Holders
    <3>2. /\ \A u \in Tokens \ {token} : balance'[u] = balance[u]
          /\ balance'[token][Pool] >= balance[token][Pool]
      BY <2>1, <3>1, PayKeepsLedger
    <3> QED BY <2>1, <3>2
  <2>4. CASE UNCHANGED balance
    BY <2>1, <2>4
  <2> QED BY <2>2, <2>3, <2>4
          DEF Next, vars, UpdateOwner, AddToken, RemoveToken, SendToken, Refuse
<1> QED BY <1>1, PoolInvHolds, PTL DEF Spec, UnlistedTokensStay

=============================================================================

---------------------------- MODULE PerpetualBook ----------------------------
(***************************************************************************)
(* What a user is promised of the exchange, each transaction being one     *)
(* step: it belongs to one trader, whose position and purse alone it       *)
(* changes; what the traders hold is what the AMM has sold; and collateral *)
(* only moves between purses.                                              *)
(***************************************************************************)
EXTENDS Integers, Functions

CONSTANTS Traders, Bystanders,  \* the traders, those who never liquidate among them
          Holders               \* whoever holds collateral

VARIABLES held,                 \* the base asset each trader holds, short if negative
          sold,                 \* what the AMM has sold, net
          purse                 \* the collateral of each holder

Supply(ledger) == SumFunctionOnSet(ledger, Holders)

Init ==
    /\ held = [trader \in Traders |-> 0]
    /\ sold = 0

\* Whatever `trader' trades, is liquidated for, deposits or withdraws.
Serve(trader) ==
    /\ \A other \in Traders \ {trader} : held'[other] = held[other]
    /\ \A other \in Bystanders \ {trader} : purse'[other] = purse[other]
    /\ sold' - sold = held'[trader] - held[trader]
    /\ Supply(purse') = Supply(purse)

\* Funding moves collateral between the vault and the insurance fund.
Settle ==
    /\ UNCHANGED <<held, sold>>
    /\ \A trader \in Bystanders : purse'[trader] = purse[trader]
    /\ Supply(purse') = Supply(purse)

Next == Settle \/ \E trader \in Traders : Serve(trader)

Spec == Init /\ [][Next]_<<held, sold, purse>>
=============================================================================

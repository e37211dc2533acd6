----------------------------- MODULE MCFeePool -----------------------------
(* Small instances of FeePool for TLC: one native token, two cw20 tokens.   *)
EXTENDS FeePool

CONSTANTS Owner, Trader     \* model values

MCAccounts == {Owner, Trader}

=============================================================================

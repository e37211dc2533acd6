--------------------------- MODULE MCInsuranceFund ---------------------------
(* Small instances of InsuranceFund for TLC: an AMM of other decimals than *)
(* the engine's, and of the others one more than fit into the registry.    *)
EXTENDS InsuranceFund

CONSTANTS Owner, OtherOwner,        \* model values
          Vamm1, Vamm2, Vamm3, Vamm4, OddVamm

MCAccounts == {Owner, OtherOwner, Fund, Engine}
MCVammDecimals == [v \in Vamms |-> IF v = OddVamm THEN 7 ELSE 6]

\* The ownership stays with accounts that are no contracts.
FundIsPassive == owner \in {Owner, OtherOwner}
\* Of the accounts an AMM may answer to, the fund and another one.
FundOrOther ==
    \A v \in Vamms : amm[v].insurance_fund \in {Fund, OtherOwner}
\* Only the fund.
AllAnswerToFund == \A v \in Vamms : amm[v].insurance_fund = Fund

=============================================================================

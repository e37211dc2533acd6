--------------------------- MODULE MCMarginEngine ---------------------------
(* Small instances of MarginEngine for TLC.                                *)
EXTENDS MarginEngine, TLC

CONSTANTS
    Owner,                      \* of both contracts
    Fund, FeePool,              \* that the engine is instantiated with
    FluctuationLimit,           \* of the AMM
    PartialRatios,              \* the partial liquidation ratios the owner sets
    TraderFunds, FundFunds      \* the initial balances

MCAccounts ==
    Traders \union Liquidators \union InsuranceFunds \union FeePools \union {Engine, Pauser, Owner}

MCInitialConfig ==
    [margin_engine |-> Engine, insurance_fund |-> Fund,
     fluctuation_limit_ratio |-> FluctuationLimit, spot_price_twap_interval |-> 2]

MCEngineConfig(partial) ==
    [owner |-> Owner, insurance_fund |-> Fund, fee_pool |-> FeePool,
     eligible_collateral |-> CHOOSE kind \in Collaterals : TRUE, initial_margin_ratio |-> 20,
     maintenance_margin_ratio |-> 10, partial_liquidation_ratio |-> partial, liquidation_fee |-> 5]
MCInitialEngineConfig == MCEngineConfig(0)
MCEngineConfigChoices == {MCEngineConfig(partial) : partial \in PartialRatios}

\* Enough to send coins along that nothing asks for.
LiquidatorFunds == 5
MCInitialBalance ==
    [holder \in Holders |-> IF holder \in Traders THEN TraderFunds
                            ELSE IF holder \in InsuranceFunds THEN FundFunds
                            ELSE IF holder \in Liquidators THEN LiquidatorFunds ELSE 0]

\* What the tool computes leaves out the spread.
MCNativeErrors == {-20, 0, 2}

\* The AMM keeps its owner, and once opened and the engine once configured
\* they stay so; nobody asks for what would change nothing.
OwnerStays == owner = Owner

\* One departure at a time from how the engine was instantiated.
OneDeparture ==
    Cardinality({departure \in 1 .. 5 :
        <<engine_state.pause, pauser # Pauser, whitelist # {}, registries # {Fund}, ~open>>
            [departure]}) <= 1

NeverPaused == ~engine_state.pause
NeverShut == open \/ txs = 0

TraderSymmetry == Permutations(Traders)
=============================================================================

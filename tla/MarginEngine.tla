---------------------------- MODULE MarginEngine ----------------------------
(***************************************************************************)
(* The margin engine (contracts/margined_engine) over one virtual AMM, with *)
(* the collateral a cw20 token, of which the engine takes what it needs, or *)
(* a native one, of which the trader sends coins along with the message.   *)
(*                                                                         *)
(* A message to the engine is a transaction of several steps.  The handler *)
(* checks the request, leaves a temporary record of it in storage and      *)
(* emits a submessage for the AMM (an action of Vamm); the reply to that   *)
(* submessage updates the position and emits the token transfers.          *)
(* Submessages run one at a time, those of a reply before what is left of  *)
(* its caller's.  `queue' holds the submessages still to run, `reply' the  *)
(* answer of the AMM to be handled.  If any step fails the chain undoes    *)
(* the whole transaction: Abort restores `checkpoint', what the storage    *)
(* was before it.  No other transaction runs in between.                   *)
(*                                                                         *)
(* Side::Buy and Side::Sell are AddToAmm and RemoveFromAmm, to which the   *)
(* code maps them.  The AMM's arithmetic is checked against MaxUint; the   *)
(* engine's is checked where it subtracts or divides.                      *)
(***************************************************************************)
EXTENDS Vamm, FiniteSetsExt

CONSTANTS
    Traders, Liquidators,       \* who trades, and who liquidates
    Engine, InsuranceFunds, FeePools,   \* the contracts
    Pauser,                     \* whom instantiate makes the pauser
    Collaterals,                \* the kinds of collateral the engine is deployed with
    InitialEngineConfig, EngineConfigChoices,
    PauserChoices, WhitelistChoices, RegistryChoices,   \* whom the roles are given to
    Margins, Leverages,         \* the arguments of open_position
    Deposits, Withdrawals,      \* and of deposit_margin and withdraw_margin
    BaseLimits, QuoteLimits,    \* and the slippage limits of trades and closes
    NativeErrors,               \* by how much the coins sent differ from those computed
    StrayCoins,                 \* and the coins sent with what asks for none
    TollRatio, SpreadRatio, OpenInterestCap, HoldingCap,   \* of the AMM's Config
    FifteenMinutes,             \* the interval of query_output_twap
    InitialBalance,             \* the collateral each account starts with
    MaxTxs                      \* bound: the transactions explored

ASSUME PartiesAssumption ==
    /\ Traders \union Liquidators \union InsuranceFunds \union FeePools \subseteq Accounts
    /\ Engine \in Accounts /\ Pauser \in Accounts
    /\ Engine \notin InsuranceFunds \union FeePools \union Traders \union Liquidators
    /\ (InsuranceFunds \union FeePools) \intersect (Traders \union Liquidators) = {}
    /\ Collaterals \subseteq {"token", "native_token"}
    /\ WhitelistChoices \union PauserChoices \subseteq Accounts
    /\ RegistryChoices \subseteq InsuranceFunds
ASSUME RequestsAssumption ==
    /\ Margins \subseteq Nat /\ Leverages \subseteq Nat /\ Deposits \subseteq Nat
    /\ Withdrawals \subseteq Nat /\ NativeErrors \subseteq Int
    /\ BaseLimits \subseteq Nat /\ QuoteLimits \subseteq Nat /\ StrayCoins \subseteq Nat
ASSUME EngineConstantsAssumption ==
    /\ TollRatio \in 0 .. Decimals /\ SpreadRatio \in 0 .. Decimals
    /\ OpenInterestCap \in Nat /\ HoldingCap \in Nat
    /\ FifteenMinutes \in Nat \ {0}
    /\ MaxTxs \in Nat

VARIABLES
    engine_config,       \* Config, but for the decimals
    pauser, whitelist,   \* PAUSER, and WHITELIST, exempt from the caps
    registries,          \* the insurance funds that list the AMM (their storage)
    engine_state,        \* State: open interest, prepaid bad debt, pause
    vamm_map,            \* VammMap: restriction block, last cumulative premium
    positions,           \* the position bucket, NoPosition when absent
    tmp_swap, tmp_liquidator, sent_funds,   \* handed from a handler to its reply
    balance,             \* the ledger of the collateral (external)
    queue, reply, checkpoint,   \* the transaction being executed
    unasked,             \* history: the coins received that nothing asked for
    today,               \* history: who traded in this block, was anybody liquidated
    txs                  \* the number of transactions so far, for the bound

book == <<engine_state, vamm_map, positions>>
temporary == <<tmp_swap, tmp_liquidator, sent_funds>>
settings == <<engine_config, pauser, whitelist, registries>>
past == <<unasked, today>>
runtime == <<settings, book, temporary, balance, queue, reply, checkpoint, unasked, txs>>
engineVars == <<runtime, today>>
allVars == <<vars, engineVars>>

Holders == Traders \union Liquidators \union {Engine} \union InsuranceFunds \union FeePools
ASSUME HoldersAssumption == IsFiniteSet(Holders)
ASSUME BalanceAssumption == InitialBalance \in [Holders -> Nat]

EngineConfig == [owner: Accounts,
                 insurance_fund: InsuranceFunds,
                 fee_pool: FeePools,
                 eligible_collateral: Collaterals,
                 initial_margin_ratio: 0 .. Decimals,
                 maintenance_margin_ratio: 0 .. Decimals,
                 partial_liquidation_ratio: 0 .. Decimals,
                 liquidation_fee: 0 .. Decimals]
ASSUME EngineConfigAssumption ==
    /\ InitialEngineConfig \in EngineConfig
    /\ InitialEngineConfig.initial_margin_ratio >= InitialEngineConfig.maintenance_margin_ratio
    /\ InitialEngineConfig.partial_liquidation_ratio = 0

\* Position::default(), which stands for a position that is not stored.
NoPosition == [exists |-> FALSE, direction |-> AddToAmm, size |-> 0, margin |-> 0,
               notional |-> 0, last_updated_premium_fraction |-> 0, block_number |-> 0]

NoSwap == [trader |-> NoAccount, side |-> AddToAmm, leverage |-> 0, open_notional |-> 0,
           position_notional |-> 0, unrealized_pnl |-> 0, margin_to_vault |-> 0,
           fees_paid |-> FALSE]

\* SentFunds: the coins of the collateral that came with a trade, and how many
\* its replies have found to be due.  NoFunds when it is not stored.
NoFunds == [stored |-> FALSE, amount |-> 0, required |-> 0]

Native == engine_config.eligible_collateral = "native_token"

Swapping(trader, side, leverage, open_notional, position_notional, unrealized_pnl) ==
    [trader |-> trader, side |-> side, leverage |-> leverage,
     open_notional |-> open_notional, position_notional |-> position_notional,
     unrealized_pnl |-> unrealized_pnl, margin_to_vault |-> 0, fees_paid |-> FALSE]

-----------------------------------------------------------------------------
(* Submessages and replies                                                 *)

\* The reply ids of the submessages to the AMM.
IncreasePosition == "increase_position"
DecreasePosition == "decrease_position"
ReversePosition == "reverse_position"
ClosingPosition == "close_position"
PartialClosePosition == "partial_close_position"
Liquidation == "liquidation"
PartialLiquidation == "partial_liquidation"
Funding == "pay_funding"
NoReply == [id |-> "none", input |-> 0, output |-> 0]

\* Mutant: every swap may go over the fluctuation limit.
SwapInputMsgUnbound(id, direction, quote, limit, can_go_over) ==
    [kind |-> "swap_input", id |-> id, direction |-> direction, amount |-> quote,
     limit |-> limit, can_go_over |-> TRUE]
SwapInputMsg(id, direction, quote, limit, can_go_over) ==
    [kind |-> "swap_input", id |-> id, direction |-> direction, amount |-> quote,
     limit |-> limit, can_go_over |-> can_go_over]
SwapOutputMsg(id, direction, base, limit) ==
    [kind |-> "swap_output", id |-> id, direction |-> direction, amount |-> base,
     limit |-> limit]
FundingMsg == [kind |-> "settle_funding", id |-> Funding]
\* execute_transfer and, with the fund as `from', the fund's own withdraw
\* handler, whose only effect is such a transfer.
Transfer(from, to, amount) ==
    [kind |-> "transfer", from |-> from, to |-> to, amount |-> amount]
Idle == checkpoint = <<>>
NewDay == [traders |-> {}, liquidated |-> FALSE]

Saved ==
    [engine_state |-> engine_state, vamm_map |-> vamm_map, positions |-> positions,
     tmp_swap |-> tmp_swap, tmp_liquidator |-> tmp_liquidator, sent_funds |-> sent_funds,
     balance |-> balance,
     quote_asset_reserve |-> quote_asset_reserve,
     base_asset_reserve |-> base_asset_reserve,
     total_position_size |-> total_position_size, snapshots |-> snapshots,
     funding_rate |-> funding_rate, next_funding_time |-> next_funding_time,
     settled_at |-> settled_at, unasked |-> unasked, today |-> today, txs |-> txs]

\* A transaction of `sender' that brings `funds' of the collateral, which are
\* the engine's before the handler runs, and emits the submessages `msgs'.
Received(sender, funds) == [balance EXCEPT ![sender] = @ - funds, ![Engine] = @ + funds]
BeginWith(sender, funds, msgs) ==
    /\ Idle
    /\ txs < MaxTxs
    /\ funds <= balance[sender]
    /\ txs' = txs + 1
    /\ checkpoint' = <<Saved>>
    /\ queue' = msgs
    /\ balance' = Received(sender, funds)
    /\ UNCHANGED <<vars, settings, reply, today>>
\* One whose handler never looks at the coins that came with it: the engine
\* keeps them.
Begin(sender, funds, msgs) ==
    /\ BeginWith(sender, funds, msgs)
    /\ unasked' = unasked + funds

\* The replies that trade for the trader who asked for it, and those that
\* remove the position; the replies of a liquidation; who has then traded and
\* kept the position.
TradeReplies == {IncreasePosition, DecreasePosition, ReversePosition, PartialClosePosition}
RemovalReplies == {ClosingPosition, Liquidation}
LiquidationIds == {Liquidation, PartialLiquidation}
TradersAfter(id) ==
    IF id \in TradeReplies THEN today.traders \union {tmp_swap.trader}
    ELSE IF id \in RemovalReplies THEN today.traders \ {tmp_swap.trader}
    ELSE today.traders

\* The handler of reply `id' ends, emitting `msgs'.
Reply(id, msgs) ==
    /\ reply.id = id
    /\ reply' = NoReply
    /\ today' = [traders |-> TradersAfter(id),
                 liquidated |-> today.liquidated \/ id \in LiquidationIds]
    /\ UNCHANGED unasked
    /\ queue' = msgs \o queue
    /\ UNCHANGED <<vars, settings, balance, checkpoint, txs>>

-----------------------------------------------------------------------------
(* The value of a position                                                 *)

Abs(n) == IF n < 0 THEN -n ELSE n
AtLeastZero(n) == IF n < 0 THEN 0 ELSE n

\* get_position
GetPosition(trader, side) ==
    IF positions[trader].exists THEN positions[trader]
    ELSE [NoPosition EXCEPT !.exists = TRUE, !.direction = side, !.block_number = height]

\* get_position_notional_unrealized_pnl: what closing the position at the
\* reserves of now, or at their average of the last minutes, would exchange.
SpotNotional(position) ==
    GetOutputPrice(position.direction, Abs(position.size),
                   quote_asset_reserve, base_asset_reserve)
SpotNotionalDefined(position) ==
    GetOutputPriceDefined(position.direction, Abs(position.size),
                          quote_asset_reserve, base_asset_reserve)
TwapNotional(position) ==
    OutputTwap(position.direction, Abs(position.size), FifteenMinutes)

UnrealizedPnl(position, notional) ==
    IF position.size = 0 THEN 0
    ELSE IF position.direction = AddToAmm
         THEN notional - position.notional
         ELSE position.notional - notional

\* What the position pays (or, if negative, receives) for the funding settled
\* since it was last updated.
FundingPayment(position) ==
    TruncDiv((vamm_map.cumulative_premium_fraction - position.last_updated_premium_fraction)
                * position.size, Decimals)

\* Mutant: funding is added to the margin of who owes it.
RemainingMisfunded(position, margin_delta) ==
    margin_delta + FundingPayment(position) + position.margin
\* Mutant: no debt is ever found.
NoBadDebt(position, margin_delta) == 0

\* calc_remain_margin_with_funding_payment: the margin if positive, and
\* otherwise the bad debt.
Remaining(position, margin_delta) ==
    margin_delta - FundingPayment(position) + position.margin
RemainMargin(position, margin_delta) == AtLeastZero(Remaining(position, margin_delta))
BadDebt(position, margin_delta) == AtLeastZero(-Remaining(position, margin_delta))

\* The value of the position with the smaller profit or loss, spot or average.
PrudentNotional(position) ==
    IF Abs(UnrealizedPnl(position, SpotNotional(position)))
         > Abs(UnrealizedPnl(position, TwapNotional(position)))
    THEN TwapNotional(position) ELSE SpotNotional(position)
PrudentNotionalDefined(position) ==
    position.size # 0 =>
        /\ SpotNotionalDefined(position)
        /\ OutputTwapDefined(position.direction, Abs(position.size), FifteenMinutes)

\* query_margin_ratio (at the prudent value) and get_margin_ratio_calc_option
\* (at the oracle's): zero for a position of no size.
RatioAt(position, notional) ==
    IF position.size = 0 THEN 0
    ELSE TruncDiv(Remaining(position, UnrealizedPnl(position, notional)) * Decimals, notional)
MarginRatio(position) == RatioAt(position, PrudentNotional(position))
MarginRatioDefined(position) ==
    position.size # 0 => PrudentNotionalDefined(position) /\ PrudentNotional(position) # 0

\* Mutant: any margin will do.
RequireAnyMargin(position) == MarginRatioDefined(position)
\* require_additional_margin
RequireAdditionalMargin(position) ==
    /\ MarginRatioDefined(position)
    /\ MarginRatio(position) >= engine_config.maintenance_margin_ratio

\* Mutant: the margin that the position ties up counts as free.
FreeMargin(position) ==
    LET pnl == UnrealizedPnl(position, PrudentNotional(position))
        margin == AtLeastZero(position.margin - FundingPayment(position))
    IN  IF pnl >= 0 THEN margin ELSE margin + pnl

\* query_free_collateral
FreeCollateral(position) ==
    LET margin == AtLeastZero(position.margin - FundingPayment(position))
        notional == PrudentNotional(position)
        pnl == UnrealizedPnl(position, notional)
        exposure == IF position.size >= 0 THEN position.notional ELSE notional
    IN  (IF pnl >= 0 THEN margin ELSE margin + pnl)
          - (exposure * engine_config.initial_margin_ratio) \div Decimals

-----------------------------------------------------------------------------
(* Token messages                                                          *)

\* withdraw: what the vault lacks is taken from the insurance fund first.
Shortfall(amount, pre_paid_shortfall) ==
    AtLeastZero(amount - (balance[Engine] + pre_paid_shortfall))
Withdraw(receiver, amount, pre_paid_shortfall) ==
    (IF Shortfall(amount, pre_paid_shortfall) > 0
     THEN <<Transfer(engine_config.insurance_fund, Engine, Shortfall(amount, pre_paid_shortfall))>>
     ELSE <<>>)
      \o <<Transfer(Engine, receiver, amount)>>

\* transfer_fees, with query_calc_fee; native coins cannot be taken from their
\* owner, and execute_transfer_from sends the engine's own.
SpreadFee(notional) == (notional * SpreadRatio) \div Decimals
TollFee(notional) == (notional * TollRatio) \div Decimals
TransferUnlessZero(from, to, amount) ==
    IF amount = 0 THEN <<>> ELSE <<Transfer(from, to, amount)>>
\* (Mutant: the vault pays.)
FeesOfVault(from, notional) ==
    TransferUnlessZero(Engine, engine_config.insurance_fund, SpreadFee(notional))
      \o TransferUnlessZero(Engine, engine_config.fee_pool, TollFee(notional))
TransferFees(from, notional) ==
    LET payer == IF Native THEN Engine ELSE from
    IN  TransferUnlessZero(payer, engine_config.insurance_fund, SpreadFee(notional))
          \o TransferUnlessZero(payer, engine_config.fee_pool, TollFee(notional))

\* calculate_funds_needed, the tool of margined_utils by which a client knows
\* how many native coins to send with open_position.
FundsNeeded(trader, side, margin_amount, leverage) ==
    LET position == positions[trader]
        open_notional == (margin_amount * leverage) \div Decimals
        value == SpotNotional(position)
        owed == IF position.direction = side THEN margin_amount
                ELSE IF open_notional > value
                THEN ((open_notional - value) * Decimals) \div leverage
                       - position.margin - UnrealizedPnl(position, value)
                ELSE 0
    IN  TollFee(open_notional) + AtLeastZero(owed)

\* Mutant: the cap is compared with the open interest of before.
OpenInterestWasAllowed(amount, rising, trader) ==
    (OpenInterestCap # 0 /\ rising /\ trader \notin whitelist)
        => engine_state.open_interest_notional <= OpenInterestCap
\* Mutant: what positions gained is taken off with what they were opened for.
UnclippedInterest(amount) == engine_state.open_interest_notional + amount
\* update_open_interest_notional; `rising' is the sign flag of the amount,
\* which a zero has too.
OpenInterest(amount) == AtLeastZero(engine_state.open_interest_notional + amount)
OpenInterestAllowed(amount, rising, trader) ==
    (OpenInterestCap # 0 /\ rising /\ trader \notin whitelist)
        => OpenInterest(amount) <= OpenInterestCap

\* Mutant: a short is never too large.
LongHoldingAllowed(size, trader) ==
    (HoldingCap # 0 /\ trader \notin whitelist) => size <= HoldingCap
\* check_base_asset_holding_cap
HoldingAllowed(size, trader) ==
    (HoldingCap # 0 /\ trader \notin whitelist) => Abs(size) <= HoldingCap

-----------------------------------------------------------------------------
(* Messages to the engine                                                  *)

\* require_vamm: the fund in the engine's Config lists the AMM, and it is open.
RequireVamm == engine_config.insurance_fund \in registries /\ open

\* Mutant: only liquidations of the block before restrict.
NotRestrictedLate(trader) ==
    ~(vamm_map.last_restriction_block < height /\ positions[trader].block_number = height)
\* require_not_restriction_mode
NotRestricted(trader) ==
    ~(vamm_map.last_restriction_block = height /\ positions[trader].block_number = height)

OpenPosition(trader, side, margin_amount, leverage, base_asset_limit, funds) ==
    LET position == GetPosition(trader, side)
        open_notional == (margin_amount * leverage) \div Decimals
        value == SpotNotional(position)
        message ==
            IF position.direction = side
            THEN SwapInputMsg(IncreasePosition, side, open_notional, base_asset_limit, FALSE)
            ELSE IF value > open_notional
            THEN SwapInputMsg(DecreasePosition, side, open_notional, base_asset_limit, FALSE)
            ELSE SwapOutputMsg(ReversePosition, position.direction, Abs(position.size), 0)
    IN  /\ ~engine_state.pause
        /\ RequireVamm
        /\ NotRestricted(trader)
        /\ margin_amount # 0 /\ leverage >= Decimals
        /\ (Decimals * Decimals) \div leverage >= engine_config.initial_margin_ratio
        /\ SpotNotionalDefined(position)
        /\ BeginWith(trader, funds, <<message>>)
        /\ tmp_swap' = Swapping(trader, side, leverage, open_notional, value,
                                UnrealizedPnl(position, value))
        /\ sent_funds' = [stored |-> TRUE, amount |-> funds, required |-> 0]
        /\ UNCHANGED <<book, tmp_liquidator, unasked>>

\* internal_close_position, for a close or a liquidation.
CloseMsg(id, position, limit) ==
    SwapOutputMsg(id, position.direction, Abs(position.size), limit)
CloseSwap(trader, position) ==
    Swapping(trader, position.direction, 0, position.notional, 0, 0)

\* The share of an amount that a partial close or liquidation takes.
Part(amount) == (amount * engine_config.partial_liquidation_ratio) \div Decimals

\* A position too large to close within the fluctuation limit is closed in
\* part.  (The limit is queried for RemoveFromAmm whichever way it closes.)
ClosePosition(trader, limit, funds) ==
    LET position == positions[trader]
        baseDirection == IF position.size > 0 THEN AddToAmm ELSE RemoveFromAmm
        amount == Part(Abs(position.size))
        partNotional == GetOutputPrice(baseDirection, amount,
                                       quote_asset_reserve, base_asset_reserve)
        value == SpotNotional(position)
        inPart == /\ IsOverFluctuationLimit(RemoveFromAmm, Abs(position.size))
                  /\ engine_config.partial_liquidation_ratio < Decimals
    IN  /\ ~engine_state.pause
        /\ position.size # 0
        /\ NotRestricted(trader)
        /\ IsOverFluctuationLimitDefined(RemoveFromAmm, Abs(position.size))
        /\ \/ /\ inPart
              /\ GetOutputPriceDefined(baseDirection, amount,
                                       quote_asset_reserve, base_asset_reserve)
              /\ SpotNotionalDefined(position)
              /\ Begin(trader, funds,
                       <<SwapInputMsg(PartialClosePosition, Flip(baseDirection),
                                      partNotional, 0, TRUE)>>)
              /\ tmp_swap' = Swapping(trader, Flip(baseDirection), Decimals, partNotional,
                                      value, UnrealizedPnl(position, value))
           \/ /\ ~inPart
              /\ Begin(trader, funds, <<CloseMsg(ClosingPosition, position, limit)>>)
              /\ tmp_swap' = CloseSwap(trader, position)
        /\ UNCHANGED <<book, tmp_liquidator, sent_funds>>

\* The margin ratio liquidate decides by: the oracle's when that is higher
\* and the AMM has strayed from it by a tenth or more.
OverSpreadLimit(oracle) ==
    Abs(TruncDiv((CurrentPrice - oracle) * Decimals, oracle)) >= Decimals \div 10
OracleNotional(position, oracle) == (oracle * Abs(position.size)) \div Decimals
LiquidationRatio(position, oracle) ==
    IF OverSpreadLimit(oracle) /\ RatioAt(position, OracleNotional(position, oracle))
                                    > MarginRatio(position)
    THEN RatioAt(position, OracleNotional(position, oracle))
    ELSE MarginRatio(position)

\* partial_liquidation: the part is bought back or sold for base asset, or, if
\* it is worth more than the whole position cost, swapped for that cost.
PartNotional(position) ==
    GetOutputPrice(position.direction, Part(Abs(position.size)),
                   quote_asset_reserve, base_asset_reserve)
PartialLiquidationDefined(position) ==
    GetOutputPriceDefined(position.direction, Part(Abs(position.size)),
                          quote_asset_reserve, base_asset_reserve)
PartialLiquidationMsg(position, limit) ==
    IF PartNotional(position) > position.notional
    THEN SwapInputMsg(PartialLiquidation, position.direction, position.notional, 0, TRUE)
    ELSE SwapOutputMsg(PartialLiquidation, position.direction,
                       Part(Abs(position.size)), Part(limit))
PartialLiquidationSwap(trader, position) ==
    Swapping(trader, IF position.size > 0 THEN RemoveFromAmm ELSE AddToAmm, 0,
             PartNotional(position), 0, UnrealizedPnl(position, SpotNotional(position)))

\* The sign of the margin ratio is ignored when choosing how much to liquidate.
Liquidate(sender, trader, limit, oracle, funds) ==
    LET position == positions[trader]
        inPart == /\ Abs(LiquidationRatio(position, oracle)) > engine_config.liquidation_fee
                  /\ engine_config.partial_liquidation_ratio # 0
    IN  /\ RequireVamm
        /\ position.size # 0
        /\ MarginRatioDefined(position)
        /\ oracle # 0
        /\ OverSpreadLimit(oracle) => OracleNotional(position, oracle) # 0
        /\ LiquidationRatio(position, oracle) <= engine_config.maintenance_margin_ratio
        /\ \/ /\ inPart
              /\ PartialLiquidationDefined(position)
              /\ Begin(sender, funds, <<PartialLiquidationMsg(position, limit)>>)
              /\ tmp_swap' = PartialLiquidationSwap(trader, position)
           \/ /\ ~inPart
              /\ Begin(sender, funds, <<CloseMsg(Liquidation, position, limit)>>)
              /\ tmp_swap' = CloseSwap(trader, position)
        /\ tmp_liquidator' = sender
        /\ UNCHANGED <<book, sent_funds>>

PayFunding(sender, funds) ==
    /\ RequireVamm
    /\ Begin(sender, funds, <<FundingMsg>>)
    /\ UNCHANGED <<book, temporary>>

\* Mutant: whatever is sent will do (no assert_sent_native_token_balance).
AnyFunds(amount, funds) == TRUE
\* assert_sent_native_token_balance
ExactFunds(amount, funds) == Native => funds = amount
DepositMargin(trader, amount, funds) ==
    /\ ~engine_state.pause
    /\ amount # 0
    /\ positions[trader].exists
    /\ ExactFunds(amount, funds)
    /\ BeginWith(trader, funds, IF Native THEN <<>> ELSE <<Transfer(trader, Engine, amount)>>)
    /\ positions' = [positions EXCEPT ![trader].margin = @ + amount]
    /\ UNCHANGED <<engine_state, vamm_map, temporary, unasked>>

\* The free collateral is that of the stored position, before the withdrawal;
\* the vault is what it is once the coins that came along are in it.
WithdrawMargin(trader, amount, funds) ==
    LET position == positions[trader]
    IN  /\ RequireVamm
        /\ ~engine_state.pause
        /\ amount # 0
        /\ position.exists
        /\ BadDebt(position, -amount) = 0
        /\ PrudentNotionalDefined(position)
        /\ FreeCollateral(position) >= amount
        /\ Begin(trader, funds, Withdraw(trader, amount, funds))
        /\ positions' =
               [positions EXCEPT ![trader].margin = RemainMargin(position, -amount),
                                 ![trader].last_updated_premium_fraction =
                                     vamm_map.cumulative_premium_fraction]
        /\ engine_state' = [engine_state EXCEPT !.prepaid_bad_debt = @ + Shortfall(amount, funds)]
        /\ UNCHANGED <<vamm_map, temporary>>

SetPause(sender, pause) ==
    /\ Idle
    /\ sender = pauser
    /\ engine_state.pause # pause
    /\ engine_state' = [engine_state EXCEPT !.pause = pause]
    /\ UNCHANGED <<vars, settings, vamm_map, positions, temporary, balance,
                   queue, reply, checkpoint, past, txs>>

\* The ratios are validated one after the other: an initial margin ratio
\* given with it is checked against the maintenance ratio of before.
UpdateEngineConfig(sender, new) ==
    /\ Idle
    /\ sender = engine_config.owner
    /\ new \in EngineConfig
    /\ new.eligible_collateral = engine_config.eligible_collateral
    /\ new.initial_margin_ratio # engine_config.initial_margin_ratio
         => new.initial_margin_ratio >= engine_config.maintenance_margin_ratio
    /\ new.initial_margin_ratio >= new.maintenance_margin_ratio
    /\ engine_config' = new
    /\ UNCHANGED <<vars, pauser, whitelist, registries, book, temporary, balance,
                   queue, reply, checkpoint, past, txs>>

\* The messages of the pauser about the roles.
Administer(sender) ==
    /\ Idle
    /\ sender = pauser
    /\ UNCHANGED <<vars, engine_config, registries, book, temporary, balance,
                   queue, reply, checkpoint, past, txs>>
UpdatePauser(sender, new) ==
    /\ Administer(sender)
    /\ pauser' = new
    /\ UNCHANGED whitelist
AddWhitelist(sender, address) ==
    /\ Administer(sender)
    /\ address \notin whitelist
    /\ whitelist' = whitelist \union {address}
    /\ UNCHANGED pauser
RemoveWhitelist(sender, address) ==
    /\ Administer(sender)
    /\ address \in whitelist
    /\ whitelist' = whitelist \ {address}
    /\ UNCHANGED pauser

\* InsuranceFund!AddVamm and RemoveVamm, of this AMM.
ChangeRegistry(fund) ==
    /\ Idle
    /\ registries' = IF fund \in registries THEN registries \ {fund}
                                            ELSE registries \union {fund}
    /\ UNCHANGED <<vars, engine_config, pauser, whitelist, book, temporary, balance,
                   queue, reply, checkpoint, past, txs>>

-----------------------------------------------------------------------------
(* Replies of the AMM                                                      *)

\* Mutant: the record of the liquidator stays.
KeepTmpLiquidator == UNCHANGED tmp_liquidator
RemoveTmpSwap == tmp_swap' = NoSwap
RemoveTmpLiquidator == tmp_liquidator' = NoAccount
RemoveSentFunds == sent_funds' = NoFunds

\* Mutant: a sale counts as a purchase.
Unsigned(side, amount) == amount
Signed(side, amount) == IF side = AddToAmm THEN amount ELSE -amount

\* The pnl realized by trading `output' of the base asset of the position, and
\* the notional that is left of it.
RealizedPnl(position, output) ==
    IF position.size = 0 THEN 0
    ELSE TruncDiv(tmp_swap.unrealized_pnl * output, Abs(position.size))
SignedNotional(position, realized) ==
    LET after == tmp_swap.unrealized_pnl - realized
    IN  IF position.size > 0
        THEN tmp_swap.position_notional - tmp_swap.open_notional - after
        ELSE after + tmp_swap.position_notional - tmp_swap.open_notional
RemainingNotional(position, realized) == Abs(SignedNotional(position, realized))

\* What update_position_reply finds due of native coins: the margin of the
\* swap, and the fees unless they were counted before.
FundsDue(marginToVault, swapMargin) ==
    sent_funds.required
      + (IF marginToVault > 0 THEN swapMargin ELSE 0)
      + (IF tmp_swap.fees_paid THEN 0
         ELSE SpreadFee(tmp_swap.open_notional) + TollFee(tmp_swap.open_notional))
\* are_sufficient
AreSufficient(due) == sent_funds.amount = due

\* update_position_reply, after an increase and after a decrease: the part
\* they share, given the change of margin and the new notional.
UpdatePosition(id, direction, interest, swapMargin, marginDelta, notional) ==
    LET swap == tmp_swap
        old == GetPosition(swap.trader, swap.side)
        marginToVault == swap.margin_to_vault + swapMargin
        new == [old EXCEPT
                   !.direction = direction, !.notional = notional,
                   !.size = @ + Signed(swap.side, reply.output),
                   !.margin = RemainMargin(old, marginDelta),
                   !.last_updated_premium_fraction = vamm_map.cumulative_premium_fraction,
                   !.block_number = height]
        toVault ==
            IF marginToVault < 0 THEN Withdraw(swap.trader, -marginToVault, 0)
            ELSE IF Native THEN <<>>
            ELSE TransferUnlessZero(swap.trader, Engine, marginToVault)
        fees == IF swap.fees_paid THEN <<>> ELSE TransferFees(swap.trader, swap.open_notional)
    IN  /\ OpenInterestAllowed(interest, id = IncreasePosition, swap.trader)
        /\ HoldingAllowed(new.size, swap.trader)
        /\ Native => AreSufficient(FundsDue(marginToVault, swapMargin))
        /\ RequireAdditionalMargin(new)
        /\ Reply(id, toVault \o fees)
        /\ positions' = [positions EXCEPT ![swap.trader] = new]
        /\ engine_state' =
               [engine_state EXCEPT
                   !.open_interest_notional = OpenInterest(interest),
                   !.prepaid_bad_debt =
                       @ + IF marginToVault < 0 THEN Shortfall(-marginToVault, 0) ELSE 0]
        /\ RemoveTmpSwap /\ RemoveSentFunds
        /\ UNCHANGED <<vamm_map, tmp_liquidator>>

\* Mutant: the position keeps the direction it had.
IncreaseKeepingDirection ==
    LET old == GetPosition(tmp_swap.trader, tmp_swap.side)
        swapMargin == (tmp_swap.open_notional * Decimals) \div tmp_swap.leverage
    IN  /\ reply.id = IncreasePosition
        /\ UpdatePosition(IncreasePosition, old.direction, reply.input, swapMargin, swapMargin,
                          old.notional + tmp_swap.open_notional)

IncreasePositionReply ==
    LET old == GetPosition(tmp_swap.trader, tmp_swap.side)
        swapMargin == (tmp_swap.open_notional * Decimals) \div tmp_swap.leverage
    IN  /\ reply.id = IncreasePosition
        /\ UpdatePosition(IncreasePosition, tmp_swap.side, reply.input, swapMargin, swapMargin,
                          old.notional + tmp_swap.open_notional)

DecreasePositionReply ==
    LET old == GetPosition(tmp_swap.trader, tmp_swap.side)
        realized == RealizedPnl(old, reply.output)
    IN  /\ reply.id = DecreasePosition
        /\ UpdatePosition(DecreasePosition, old.direction, -reply.input, 0, realized,
                          RemainingNotional(old, realized))

\* Mutant: the size stays.
ClearMargin(position) == [position EXCEPT !.margin = 0, !.notional = 0, !.block_number = height]
\* clear_position
Clear(position) ==
    [position EXCEPT !.size = 0, !.margin = 0, !.notional = 0,
                     !.last_updated_premium_fraction = 0, !.block_number = height]

\* The old position is closed; what its notional lacks of the one asked for
\* is opened by a second swap, unless it is less than the leverage.  The
\* funding the old position owes is not settled, and a negative balance of
\* its margin is paid out as if it were positive.
ReversePositionReply ==
    LET swap == tmp_swap
        old == GetPosition(swap.trader, swap.side)
        rest == Gap(swap.open_notional, reply.output)
        marginToVault == -old.margin - swap.unrealized_pnl
        fees == TransferFees(swap.trader, swap.open_notional)
        feesDue == SpreadFee(swap.open_notional) + TollFee(swap.open_notional)
        due == sent_funds.required + feesDue
    IN  /\ reply.id = ReversePosition
        /\ \/ /\ rest \div swap.leverage = 0
              /\ Native => AreSufficient(due)
              /\ Reply(ReversePosition,
                       fees \o <<Transfer(Engine, swap.trader, Abs(marginToVault))>>)
              /\ RemoveTmpSwap /\ RemoveSentFunds
           \/ /\ rest \div swap.leverage # 0
              /\ Reply(ReversePosition,
                       fees \o <<SwapInputMsg(IncreasePosition, swap.side, rest, 0, FALSE)>>)
              /\ tmp_swap' = [swap EXCEPT !.open_notional = rest, !.unrealized_pnl = 0,
                                          !.margin_to_vault = marginToVault,
                                          !.fees_paid = TRUE]
              /\ sent_funds' = [sent_funds EXCEPT !.required =
                                  IF marginToVault > 0 \/ due > -marginToVault
                                  THEN due + marginToVault ELSE feesDue]
        /\ positions' = [positions EXCEPT ![swap.trader] = Clear(old)]
        /\ engine_state' =
               [engine_state EXCEPT !.open_interest_notional = OpenInterest(-reply.output)]
        /\ UNCHANGED <<vamm_map, tmp_liquidator>>

\* Mutant: a profit counts as nothing.
ClosingLoss(position, output) ==
    -AtLeastZero(Signed(position.direction, tmp_swap.open_notional - output))
\* The pnl of a position sold or bought back for `output' of quote asset;
\* tmp_swap.open_notional is what it cost.
ClosingPnl(position, output) ==
    Signed(position.direction, output - tmp_swap.open_notional)

ClosePositionReply ==
    LET trader == tmp_swap.trader
        position == positions[trader]
        pnl == ClosingPnl(position, reply.output)
        margin == RemainMargin(position, pnl)
        value == pnl + position.notional
    IN  /\ reply.id = ClosingPosition
        /\ BadDebt(position, pnl) = 0
        /\ OpenInterestAllowed(-value, value < 0 \/ (value = 0 /\ position.notional # 0), trader)
        /\ Reply(ClosingPosition,
                 (IF margin = 0 THEN <<>> ELSE Withdraw(trader, margin, 0))
                    \o TransferFees(trader, position.notional))
        /\ positions' = [positions EXCEPT ![trader] = NoPosition]
        /\ engine_state' =
               [engine_state EXCEPT !.open_interest_notional = OpenInterest(-value),
                                    !.prepaid_bad_debt = @ + Shortfall(margin, 0)]
        /\ RemoveTmpSwap
        /\ UNCHANGED <<vamm_map, tmp_liquidator, sent_funds>>

PartialClosePositionReply ==
    LET swap == tmp_swap
        position == positions[swap.trader]
        realized == RealizedPnl(position, reply.output)
    IN  /\ reply.id = PartialClosePosition
        /\ BadDebt(position, realized) = 0
        /\ Reply(PartialClosePosition, TransferFees(swap.trader, swap.open_notional))
        /\ positions' =
               [positions EXCEPT ![swap.trader] =
                   [position EXCEPT
                       !.size = @ + Signed(swap.side, reply.output),
                       !.margin = RemainMargin(position, realized),
                       !.notional = RemainingNotional(position, realized),
                       !.last_updated_premium_fraction = vamm_map.cumulative_premium_fraction,
                       !.block_number = height]]
        /\ engine_state' =
               [engine_state EXCEPT !.open_interest_notional = OpenInterest(-reply.input)]
        /\ RemoveTmpSwap
        /\ UNCHANGED <<vamm_map, tmp_liquidator, sent_funds>>

\* The liquidator's half of the penalty.
LiquidationPenalty == (reply.output * engine_config.liquidation_fee) \div Decimals
LiquidationFee == LiquidationPenalty \div 2

\* What is left of the margin after the fee goes to the insurance fund; bad
\* debt, the fee the margin cannot pay included, is charged to what the fund
\* prepaid (realize_bad_debt) or else drawn from it.
LiquidateReply ==
    LET position == positions[tmp_swap.trader]
        pnl == ClosingPnl(position, reply.output)
        margin == RemainMargin(position, pnl)
        badDebt == BadDebt(position, pnl) + AtLeastZero(LiquidationFee - margin)
        left == AtLeastZero(margin - LiquidationFee)
        prepaid == engine_state.prepaid_bad_debt
        fund == engine_config.insurance_fund
        realizes == badDebt # 0 /\ prepaid <= badDebt
        drawn == IF realizes THEN badDebt - prepaid ELSE 0
    IN  /\ Reply(Liquidation,
                 (IF realizes THEN <<Transfer(fund, Engine, drawn)>> ELSE <<>>)
                    \o TransferUnlessZero(Engine, fund, left)
                    \o Withdraw(tmp_liquidator, LiquidationFee, drawn))
        /\ positions' = [positions EXCEPT ![tmp_swap.trader] = NoPosition]
        /\ engine_state' =
               [engine_state EXCEPT
                   !.prepaid_bad_debt = (IF realizes THEN 0 ELSE prepaid - badDebt)
                                          + Shortfall(LiquidationFee, drawn)]
        /\ vamm_map' = [vamm_map EXCEPT !.last_restriction_block = height]
        /\ RemoveTmpSwap /\ RemoveTmpLiquidator
        /\ UNCHANGED sent_funds

\* `input' is the base asset of a swap_output, but the quote asset of a
\* swap_input; either is taken off the size of the position.
PartialLiquidationReply ==
    LET trader == tmp_swap.trader
        old == positions[trader]
        size == IF old.size < 0 THEN old.size + reply.input ELSE old.size - reply.input
        negative == IF old.size < 0 THEN size <= 0 ELSE size < 0
        realized == Abs(TruncDiv(tmp_swap.unrealized_pnl
                                   * engine_config.partial_liquidation_ratio, Decimals))
        margin == old.margin - realized - LiquidationPenalty
        notional == IF negative THEN realized + old.notional - tmp_swap.open_notional
                                ELSE old.notional - tmp_swap.open_notional - realized
    IN  /\ reply.id = PartialLiquidation
        /\ margin >= 0
        /\ notional >= 0
        /\ Reply(PartialLiquidation,
                 IF LiquidationFee = 0 THEN <<>>
                 ELSE <<Transfer(Engine, engine_config.insurance_fund, LiquidationFee)>>
                        \o Withdraw(tmp_liquidator, LiquidationFee, 0))
        /\ positions' = [positions EXCEPT ![trader] =
                            [old EXCEPT !.size = size, !.margin = margin, !.notional = notional]]
        /\ engine_state' =
               [engine_state EXCEPT !.prepaid_bad_debt = @ + Shortfall(LiquidationFee, 0)]
        /\ vamm_map' = [vamm_map EXCEPT !.last_restriction_block = height]
        /\ RemoveTmpSwap /\ RemoveTmpLiquidator
        /\ UNCHANGED sent_funds

\* What the longs owe the shorts on balance goes to the insurance fund, as far
\* as the vault holds it; what they are owed comes from the fund.
PayFundingReply ==
    LET premium == reply.input
        payment == TruncDiv(total_position_size * premium, Decimals)
        paid == IF balance[Engine] < payment THEN balance[Engine] ELSE payment
        fund == engine_config.insurance_fund
    IN  /\ Reply(Funding, IF payment < 0 THEN <<Transfer(fund, Engine, -payment)>>
                          ELSE IF payment > 0 THEN <<Transfer(Engine, fund, paid)>>
                          ELSE <<>>)
        /\ vamm_map' = [vamm_map EXCEPT !.cumulative_premium_fraction = @ + premium]
        /\ UNCHANGED <<engine_state, positions, temporary>>

-----------------------------------------------------------------------------
(* Execution of submessages                                                *)

Execute(kind) ==
    /\ reply = NoReply
    /\ queue # <<>>
    /\ Head(queue).kind = kind
    /\ queue' = Tail(queue)
    /\ UNCHANGED <<settings, book, temporary, checkpoint, past, txs>>

\* cw20 and the bank refuse a transfer of nothing and one of more than the
\* balance; the engine has the allowance of its traders.
ExecuteTransfer ==
    LET message == Head(queue)
    IN  /\ Execute("transfer")
        /\ message.amount # 0
        /\ balance[message.from] >= message.amount
        /\ balance' = [balance EXCEPT ![message.from] = @ - message.amount,
                                      ![message.to] = @ + message.amount]
        /\ UNCHANGED <<vars, reply>>

ExecuteSwap ==
    LET message == Head(queue)
        quote == GetOutputPrice(message.direction, message.amount,
                                quote_asset_reserve, base_asset_reserve)
        base == GetInputPrice(message.direction, message.amount,
                              quote_asset_reserve, base_asset_reserve)
    IN  /\ \/ /\ Execute("swap_input")
              /\ SwapInput(Engine, message.direction, message.amount, message.limit,
                           message.can_go_over)
              /\ reply' = [id |-> message.id, input |-> message.amount, output |-> base]
           \/ /\ Execute("swap_output")
              /\ SwapOutput(Engine, message.direction, message.amount, message.limit)
              /\ reply' = [id |-> message.id, input |-> message.amount, output |-> quote]
        /\ UNCHANGED balance

ExecuteFunding(underlying) ==
    /\ Execute("settle_funding")
    /\ SettleFunding(Engine, underlying)
    /\ reply' = [id |-> Funding, input |-> PremiumFraction(underlying), output |-> 0]
    /\ UNCHANGED balance

Commit ==
    /\ ~Idle
    /\ queue = <<>> /\ reply = NoReply
    /\ checkpoint' = <<>>
    /\ UNCHANGED <<vars, settings, book, temporary, balance, queue, reply, past, txs>>

\* A step returned an error, panicked or ran out of gas.
Abort ==
    LET saved == Head(checkpoint)
    IN  /\ ~Idle
        /\ engine_state' = saved.engine_state
        /\ vamm_map' = saved.vamm_map
        /\ positions' = saved.positions
        /\ tmp_swap' = saved.tmp_swap
        /\ tmp_liquidator' = saved.tmp_liquidator
        /\ sent_funds' = saved.sent_funds
        /\ balance' = saved.balance
        /\ quote_asset_reserve' = saved.quote_asset_reserve
        /\ base_asset_reserve' = saved.base_asset_reserve
        /\ total_position_size' = saved.total_position_size
        /\ snapshots' = saved.snapshots
        /\ funding_rate' = saved.funding_rate
        /\ next_funding_time' = saved.next_funding_time
        /\ settled_at' = saved.settled_at
        /\ unasked' = saved.unasked /\ today' = saved.today
        /\ txs' = saved.txs
        /\ queue' = <<>> /\ reply' = NoReply /\ checkpoint' = <<>>
        /\ UNCHANGED <<settings, owner, config, open, height, now, closing_price>>

-----------------------------------------------------------------------------
EngineInit ==
    /\ Init
    /\ \E collateral \in Collaterals :
          engine_config = [InitialEngineConfig EXCEPT !.eligible_collateral = collateral]
    /\ pauser = Pauser /\ whitelist = {}
    /\ registries = {InitialEngineConfig.insurance_fund}
    /\ engine_state = [open_interest_notional |-> 0, prepaid_bad_debt |-> 0, pause |-> FALSE]
    /\ vamm_map = [last_restriction_block |-> 0, cumulative_premium_fraction |-> 0]
    /\ positions = [trader \in Traders |-> NoPosition]
    /\ tmp_swap = NoSwap
    /\ tmp_liquidator = NoAccount
    /\ sent_funds = NoFunds
    /\ balance = InitialBalance
    /\ queue = <<>> /\ reply = NoReply /\ checkpoint = <<>>
    /\ unasked = 0 /\ today = NewDay
    /\ txs = 0

\* The coins of the collateral sent along: with a trade what the tool computes,
\* with a deposit the amount, or more or less than that.
Sent(computed) ==
    IF Native THEN {AtLeastZero(computed + error) : error \in NativeErrors} ELSE {0}
\* And with what asks for none.
Stray == IF Native THEN StrayCoins ELSE {0}

Request ==
    \/ \E trader \in Traders :
          \/ \E side \in Direction, margin \in Margins, leverage \in Leverages,
                limit \in BaseLimits :
                \E funds \in Sent(FundsNeeded(trader, side, margin, leverage)) :
                   OpenPosition(trader, side, margin, leverage, limit, funds)
          \/ \E limit \in QuoteLimits, funds \in Stray : ClosePosition(trader, limit, funds)
          \/ \E amount \in Deposits : \E funds \in Sent(amount) :
                DepositMargin(trader, amount, funds)
          \/ \E amount \in Withdrawals, funds \in Stray : WithdrawMargin(trader, amount, funds)
          \/ \E sender \in Liquidators, limit \in QuoteLimits, oracle \in OraclePrices,
                funds \in Stray :
                Liquidate(sender, trader, limit, oracle, funds)
    \/ \E sender \in Liquidators, funds \in Stray : PayFunding(sender, funds)

Handle ==
    \/ IncreasePositionReply \/ DecreasePositionReply \/ ReversePositionReply
    \/ ClosePositionReply \/ PartialClosePositionReply
    \/ LiquidateReply \/ PartialLiquidationReply \/ PayFundingReply

Deliver ==
    \/ ExecuteTransfer
    \/ ExecuteSwap
    \/ \E underlying \in OraclePrices : ExecuteFunding(underlying)

Govern ==
    \E sender \in Accounts :
        \/ \E pause \in BOOLEAN : SetPause(sender, pause)
        \/ \E new \in EngineConfigChoices :
              UpdateEngineConfig(sender, [new EXCEPT !.eligible_collateral =
                                             engine_config.eligible_collateral])
        \/ \E new \in PauserChoices : UpdatePauser(sender, new)
        \/ \E address \in WhitelistChoices :
              AddWhitelist(sender, address) \/ RemoveWhitelist(sender, address)

\* Between transactions, the AMM is administered and the chain moves on.
Surroundings ==
    \/ /\ Idle
       /\ (Admin /\ UNCHANGED today) \/ (NextBlock /\ today' = NewDay)
       /\ UNCHANGED runtime
    \/ \E fund \in RegistryChoices : ChangeRegistry(fund)

EngineNext == Request \/ Deliver \/ Handle \/ Commit \/ Abort \/ Govern \/ Surroundings

EngineSpec == EngineInit /\ [][EngineNext]_allVars

-----------------------------------------------------------------------------
(* Properties                                                              *)

Position == [exists: BOOLEAN, direction: Direction, size: Int, margin: Nat, notional: Nat,
             last_updated_premium_fraction: Int, block_number: Nat]
TmpSwap == [trader: Traders \union {NoAccount}, side: Direction, leverage: Nat,
            open_notional: Nat, position_notional: Nat, unrealized_pnl: Int,
            margin_to_vault: Int, fees_paid: BOOLEAN]
EngineState == [open_interest_notional: Nat, prepaid_bad_debt: Nat, pause: BOOLEAN]
VammMap == [last_restriction_block: Nat, cumulative_premium_fraction: Int]

ContractTypeOK ==
    /\ engine_config \in EngineConfig
    /\ engine_state \in EngineState
    /\ vamm_map \in VammMap
    /\ positions \in [Traders -> Position]
    /\ tmp_swap \in TmpSwap
    /\ tmp_liquidator \in Liquidators \union {NoAccount}
    /\ sent_funds \in [stored: BOOLEAN, amount: Nat, required: Nat]
    /\ pauser \in Accounts /\ whitelist \subseteq Accounts
    /\ registries \subseteq InsuranceFunds
    /\ balance \in [Holders -> Nat]
    /\ txs \in Nat
HistoryTypeOK ==
    /\ unasked \in Nat
    /\ today \in [traders: SUBSET Traders, liquidated: BOOLEAN]

\* The values the variables of the engine range over.
EngineTypeOK == ContractTypeOK /\ HistoryTypeOK

\* What the traders hold of the base asset, by the engine's books, is what the
\* AMM has sold them, net.
PositionsMatchAmm ==
    Idle => SumFunction([trader \in Traders |-> positions[trader].size]) = total_position_size

\* The direction a position is closed in is that of its size.
DirectionMatchesSize ==
    Idle => \A trader \in Traders :
        /\ positions[trader].size > 0 => positions[trader].direction = AddToAmm
        /\ positions[trader].size < 0 => positions[trader].direction = RemoveFromAmm

\* What that agreement takes (PartialLiquidationTakesPart is about the last of
\* it): there is a unit of either asset at least in the AMM, a part that is
\* closed is worth less than the whole, and a part that is liquidated no more
\* than the whole position cost.  (It is swapped for that cost otherwise, and
\* the reply takes quote asset off the size.)
OrdinaryMarket ==
    /\ quote_asset_reserve >= Decimals /\ base_asset_reserve >= Decimals
    /\ \A i \in 1 .. Len(queue) : queue[i].kind = "swap_input" =>
          /\ queue[i].id # PartialLiquidation
          /\ queue[i].id = PartialClosePosition
                => tmp_swap.open_notional < tmp_swap.position_notional

\* No path through the replies leaves a record behind that the next
\* transaction, of another trader, would read.
NoTemporaries ==
    Idle => /\ tmp_swap = NoSwap /\ tmp_liquidator = NoAccount /\ sent_funds = NoFunds
            /\ queue = <<>> /\ reply = NoReply

\* The vault, less what the insurance fund prepaid and the coins that nothing
\* asked for, against what it owes: the margins with their funding, plus the pnl
\* the traders would have if the AMM were unwound to the reserves it started from.
Owed ==
    SumFunction([trader \in Traders |-> positions[trader].margin
                                          - FundingPayment(positions[trader])])
      + (quote_asset_reserve - InitialQuote)
      - SumFunction([trader \in Traders |-> Signed(positions[trader].direction,
                                                   positions[trader].notional)])
Vault == balance[Engine] - engine_state.prepaid_bad_debt - InitialBalance[Engine] - unasked

\* Rounding may cost the vault one unit for each position in a transaction.
Dust == txs * (Cardinality(Traders) + 1)

\* However trades, closes, liquidations and funding follow one another, the
\* vault holds what its books owe, up to rounding, and on top of it the coins
\* that came with messages which ask for none.
VaultCoversBooks == Idle => Vault + Dust >= Owed

\* And it keeps no more than that: of what traders were asked to pay nothing is
\* stranded in it.
VaultKeepsNothing == Idle => Vault <= Owed + Dust

\* What that identity takes: the replies that the code accepts and that lose
\* track of something.  A change of a position that leaves bad debt, which
\* update_position_reply does not look at, and a reversal that pays out the
\* negative balance of the old position.
TradesAreSolvent ==
    LET old == GetPosition(tmp_swap.trader, tmp_swap.side)
        swapMargin == (tmp_swap.open_notional * Decimals) \div tmp_swap.leverage
    IN  /\ reply.id = IncreasePosition => BadDebt(old, swapMargin) = 0
        /\ reply.id = DecreasePosition => BadDebt(old, RealizedPnl(old, reply.output)) = 0
ReversalsAreSolvent ==
    (reply.id = ReversePosition
       /\ Gap(tmp_swap.open_notional, reply.output) \div tmp_swap.leverage = 0)
     => positions[tmp_swap.trader].margin + tmp_swap.unrealized_pnl >= 0

\* The notional left of a position loses its sign, and that of a position
\* whose whole size is gone is forgotten when it is reversed.
NotionalIsKept ==
    LET position == positions[tmp_swap.trader]
        realized == RealizedPnl(position, reply.output)
    IN  /\ reply.id \in {DecreasePosition, PartialClosePosition}
             => SignedNotional(position, realized) >= 0
        /\ reply.id = ReversePosition /\ position.size = 0 => position.notional = 0

\* A reversal forgets the funding, and a partial liquidation that of its part.
FundingIsCharged ==
    reply.id \in {ReversePosition, PartialLiquidation}
     => FundingPayment(positions[tmp_swap.trader]) = 0

\* In native coins the fees of a close come out of the vault, and a reversal
\* counts the value of the old position twice or not at all
\* (MCMarginEngineNative.cfg shows the latter).
NativeFeesAreSent ==
    (Native /\ reply.id \in {ClosingPosition, PartialClosePosition})
     => SpreadFee(tmp_swap.open_notional) + TollFee(tmp_swap.open_notional) = 0
NativeReversalsCount ==
    (Native /\ reply.id = ReversePosition)
     => LET rest == Gap(tmp_swap.open_notional, reply.output)
            value == positions[tmp_swap.trader].margin + tmp_swap.unrealized_pnl
            fees == SpreadFee(tmp_swap.open_notional) + TollFee(tmp_swap.open_notional)
        IN  value > 0 /\ rest \div tmp_swap.leverage # 0
              => (fees > value <=> (rest * Decimals) \div tmp_swap.leverage > value)

ExactReplies ==
    /\ TradesAreSolvent /\ ReversalsAreSolvent /\ NotionalIsKept
    /\ FundingIsCharged /\ NativeFeesAreSent /\ NativeReversalsCount

\* And what the longs owe the shorts on balance is in the vault: otherwise the
\* fund, to which it goes, gets only what there is, and the vault keeps the rest.
FundingIsPaid ==
    reply.id = Funding
     => balance[Engine] >= TruncDiv(total_position_size * reply.input, Decimals)

\* Whoever holds more of the base asset, either way, after a transaction than
\* before has the maintenance margin for it at the price the transaction ends
\* with, by whichever replies it got there.  (It may have just that much, and
\* liquidate accepts a position that has.)
GrowthLeavesMargin ==
    [][Commit => \A trader \in Traders :
          Abs(positions[trader].size) > Abs(Head(checkpoint).positions[trader].size)
            => MarginRatio(positions[trader]) >= engine_config.maintenance_margin_ratio]_allVars

\* By whichever replies open interest rises, it ends within the cap, unless a
\* trader of the whitelist made it rise.
OpenInterestStaysCapped ==
    [][(/\ Commit /\ OpenInterestCap # 0
        /\ engine_state.open_interest_notional
             > Head(checkpoint).engine_state.open_interest_notional)
         => \/ engine_state.open_interest_notional <= OpenInterestCap
            \/ \E trader \in whitelist \intersect Traders :
                  positions[trader] # Head(checkpoint).positions[trader]]_allVars

\* No transaction takes a trader who is not on the whitelist further over the
\* cap on the base asset held, long or short.
HoldingStaysCapped ==
    [][(Commit /\ HoldingCap # 0) => \A trader \in Traders \ whitelist :
          Abs(positions[trader].size) > Abs(Head(checkpoint).positions[trader].size)
            => Abs(positions[trader].size) <= HoldingCap]_allVars

\* In a block where somebody was liquidated, nobody trades or closes who has
\* traded in that block already, before the liquidation or after it, and has
\* kept the position since.  (With the position the code forgets the trade:
\* whoever closed it, or lost it to the liquidation, may open another.)
NobodyTradesAroundLiquidation ==
    (~Idle /\ reply.id \in TradeReplies \union {ClosingPosition})
      => LET before == Head(checkpoint).today
         IN  before.liquidated => tmp_swap.trader \notin before.traders

\* The initial margin asked for exceeds the maintenance margin by a unit and
\* more, as it does unless the position is dust or the ratios are all but equal.
MarginsDiffer(position) ==
    (engine_config.initial_margin_ratio - engine_config.maintenance_margin_ratio - 1)
        * PrudentNotional(position) >= Decimals

\* A withdrawal never makes the position liquidatable.
WithdrawalLeavesMargin ==
    [][\A trader \in Traders, amount \in Withdrawals, funds \in Stray :
          (/\ WithdrawMargin(trader, amount, funds)
           /\ positions[trader].size # 0 /\ MarginsDiffer(positions[trader]))
            => MarginRatio(positions'[trader]) > engine_config.maintenance_margin_ratio]_allVars

\* A trade that may not go over the fluctuation limit, or that ends a reversal,
\* leaves the price within the band around the close of the last block.
TradesStayInBand ==
    [][(/\ reply.id \in {IncreasePosition, DecreasePosition} /\ reply' = NoReply /\ ~Idle'
        /\ height > 1 /\ config.fluctuation_limit_ratio # 0)
         => WithinLimits(CurrentPrice, closing_price, config.fluctuation_limit_ratio)]_allVars

\* handle.rs on closing: "if over fluctuation limit, then close partial
\* position. Otherwise close all": a whole close leaves the price in the band.
WholeClosesStayInBand ==
    (/\ reply.id = ClosingPosition /\ height > 1
     /\ engine_config.partial_liquidation_ratio < Decimals
     /\ config.fluctuation_limit_ratio # 0)
       => WithinLimits(CurrentPrice, closing_price, config.fluctuation_limit_ratio)

\* reply.rs on closing: bad debt must not be used "to withdraw extra token
\* from insurance fund": a trader whose position is worth less than nothing
\* is paid nothing for it.
BadDebtIsNotPaidOut ==
    [][\A trader \in Traders :
          (/\ reply.id = ReversePosition /\ reply' = NoReply /\ ~Idle'
           /\ tmp_swap.trader = trader
           /\ BadDebt(positions[trader],
                      Signed(positions[trader].direction,
                             reply.output - positions[trader].notional)) > 0)
            => \A i \in DOMAIN queue' :
                  ~(queue'[i].kind = "transfer" /\ queue'[i].to = trader)]_allVars

\* README of the engine: third parties can "liquidate users positions when
\* they are no longer sufficiently collateralised": the liquidation of such a
\* position does not fail on what the position is worth.
LiquidationCompletes ==
    reply.id = PartialLiquidation => ENABLED PartialLiquidationReply

\* cw_token_liquidation_tests.rs: "liquidate -> return 25% base asset to AMM": a
\* partial liquidation takes the part that the owner set off the position.
PartialLiquidationTakesPart ==
    [][(reply.id = PartialLiquidation /\ reply' = NoReply /\ ~Idle')
        => LET size == Abs(positions[tmp_swap.trader].size)
           IN  Abs(positions'[tmp_swap.trader].size) = size - Part(size)]_allVars

\* fund_calculator.rs: "a tool for calculating the total funds needed when we
\* want to send a transaction using the native token": to a trade that brings
\* what it computes, the AMM charging no spread, the reply does not object.
NeededFundsSuffice ==
    (Native /\ reply.id = IncreasePosition /\ tmp_swap.fees_paid)
      => LET swapMargin == (tmp_swap.open_notional * Decimals) \div tmp_swap.leverage
         IN  AreSufficient(FundsDue(tmp_swap.margin_to_vault + swapMargin, swapMargin))

\* What the exchange promises its users, of the state between transactions.
Committed(current, saved) == IF Idle THEN current ELSE saved
Book == INSTANCE PerpetualBook WITH
    Bystanders <- Traders \ Liquidators,
    held <- [trader \in Traders |->
                Committed(positions, Head(checkpoint).positions)[trader].size],
    sold <- Committed(total_position_size, Head(checkpoint).total_position_size),
    purse <- Committed(balance, Head(checkpoint).balance)
ImplementsBook == Book!Spec

=============================================================================

-------------------------------- MODULE Vamm --------------------------------
(***************************************************************************)
(* The virtual AMM contract (contracts/margined_vamm).  It holds no        *)
(* tokens: two virtual reserves price the base asset, every swap leaves a  *)
(* snapshot of the reserves, and the snapshots give the price band of the  *)
(* block and the time-weighted price funding is settled against.           *)
(*                                                                         *)
(* One action is one message executed by the contract; a message whose     *)
(* handler returns an error changes nothing and is not a step.  The chain  *)
(* advances by NextBlock.  Amounts are bounded by the width of Uint128     *)
(* (MaxUint), which the checked arithmetic of the code enforces.           *)
(***************************************************************************)
EXTENDS VammMath, Sequences, Functions

CONSTANTS
    Accounts,            \* the addresses that may send messages
    NoAccount,           \* the empty address of an unset field
    InitialQuote, InitialBase,   \* the reserves at instantiation
    InitialConfig,       \* the configuration at instantiation
    ConfigChoices,       \* the configurations an UpdateConfig may ask for
    QuoteAmounts, BaseAmounts, Limits,   \* the arguments of the swaps
    OraclePrices,        \* the TWAPs the price feed may answer (external)
    FundingPeriod, OneHour, OneDay,      \* seconds
    MinTwapInterval, MaxTwapInterval,    \* one minute and one week, in seconds
    StartTime, TimeSteps,        \* the clock of the chain, in seconds
    MaxHeight                    \* bound: the last block explored

ASSUME AccountsAssumption == NoAccount \notin Accounts
ASSUME ReservesAssumption ==
    /\ InitialQuote \in Uint /\ InitialQuote >= Decimals
    /\ InitialBase \in Uint /\ InitialBase >= Decimals
ASSUME AmountsAssumption ==
    QuoteAmounts \subseteq Nat /\ BaseAmounts \subseteq Nat /\ Limits \subseteq Nat
ASSUME TimeAssumption ==
    /\ FundingPeriod \in Nat /\ OneHour \in Nat \ {0} /\ OneDay \in Nat \ {0}
    /\ MinTwapInterval \in Nat \ {0} /\ MaxTwapInterval \in Nat
    /\ StartTime \in Nat /\ TimeSteps \subseteq Nat \ {0}
    /\ MaxHeight \in Nat
ASSUME OracleAssumption == OraclePrices \subseteq Nat

VARIABLES
    owner,                \* the admin of the OWNER item
    config,               \* the changeable part of Config
    open, quote_asset_reserve, base_asset_reserve, total_position_size,
    funding_rate, next_funding_time,      \* State
    snapshots,            \* the reserve snapshots, oldest first
    height, now,          \* env.block
    closing_price,        \* history: the spot price the last block ended at
    settled_at            \* history: when funding was last settled

state == <<open, quote_asset_reserve, base_asset_reserve, total_position_size,
           funding_rate, next_funding_time, snapshots>>
history == <<closing_price, settled_at>>
vars == <<owner, config, state, height, now, history>>

\* funding_buffer_period, computed at instantiation and never changed.
FundingBufferPeriod == FundingPeriod \div 2

Config == [margin_engine: Accounts \union {NoAccount},
           insurance_fund: Accounts \union {NoAccount},
           fluctuation_limit_ratio: 0 .. Decimals,
           spot_price_twap_interval: MinTwapInterval .. MaxTwapInterval]
ASSUME ConfigAssumption == InitialConfig \in Config

ReserveSnapshot(quote, base, time, block) ==
    [quote_asset_reserve |-> quote, base_asset_reserve |-> base,
     timestamp |-> time, block_height |-> block]

CurrentPrice == SpotPrice(quote_asset_reserve, base_asset_reserve)

-----------------------------------------------------------------------------
(* Snapshots                                                               *)

Last == Len(snapshots)

SnapshotPrice(i) ==
    SpotPrice(snapshots[i].quote_asset_reserve, snapshots[i].base_asset_reserve)

\* add_reserve_snapshot: the snapshot of this block is overwritten in place,
\* keeping the time it was taken at; the first swap of a block appends one.
AddReserveSnapshot(quote, base) ==
    snapshots' =
        IF snapshots[Last].block_height = height
        THEN [snapshots EXCEPT ![Last] = [@ EXCEPT !.quote_asset_reserve = quote,
                                                   !.base_asset_reserve = base]]
        ELSE Append(snapshots, ReserveSnapshot(quote, base, now, height))

\* Mutant: the last snapshot, be it of this block.
PriceOfLastSwap == SnapshotPrice(Last)

\* price_boundaries_of_last_block: the price of the last snapshot that is not
\* this block's; in the block of instantiation there is no other.
PriceOfLastBlock ==
    IF snapshots[Last].block_height = height /\ Last > 1
    THEN SnapshotPrice(Last - 1)
    ELSE SnapshotPrice(Last)

PriceBoundariesDefined ==
    PriceOfLastBlock * (Decimals + config.fluctuation_limit_ratio) \in Uint

\* Mutant: only the price after the swap is looked at.
EndsWithinFluctuationLimit(quote, base, can_go_over) ==
    (config.fluctuation_limit_ratio # 0 /\ ~can_go_over) =>
        WithinLimits(SpotPrice(quote, base), PriceOfLastBlock, config.fluctuation_limit_ratio)
\* Mutant: only the price before the swap is looked at.
StartsWithinFluctuationLimit(quote, base, can_go_over) ==
    config.fluctuation_limit_ratio # 0 =>
        WithinLimits(CurrentPrice, PriceOfLastBlock, config.fluctuation_limit_ratio)

\* check_is_over_block_fluctuation_limit, before reserves move to <<quote, base>>.
WithinFluctuationLimit(quote, base, can_go_over) ==
    config.fluctuation_limit_ratio # 0 =>
        /\ PriceBoundariesDefined
        /\ SpotPriceDefined(quote_asset_reserve, base_asset_reserve)
        /\ WithinLimits(CurrentPrice, PriceOfLastBlock, config.fluctuation_limit_ratio)
        /\ ~can_go_over =>
              /\ SpotPriceDefined(quote, base)
              /\ WithinLimits(SpotPrice(quote, base), PriceOfLastBlock,
                              config.fluctuation_limit_ratio)

\* For how long snapshot i was the last one, counted from `from' on.
\* (Mutant: counted from when it was taken.)
HeldInAll(i, from) ==
    (IF i = Last THEN now ELSE snapshots[i + 1].timestamp) - snapshots[i].timestamp
Held(i, from) ==
    LET until == IF i = Last THEN now ELSE snapshots[i + 1].timestamp
    IN  IF snapshots[i].timestamp <= from THEN until - from ELSE until - snapshots[i].timestamp

\* The snapshots that calc_twap reads: it walks back from the last one to the
\* first that is not younger than the interval.
VisitedSnapshots(interval) ==
    {i \in 1 .. Last : \A j \in i + 1 .. Last : snapshots[j].timestamp > now - interval}

\* calc_twap weighs the price of each by the time it held.  (The widths of the
\* weighted sums are not modelled: u128 holds them for any realistic time.)
CalcTwap(price, interval) ==
    LET from == now - interval
        period == IF snapshots[1].timestamp <= from
                  THEN interval ELSE now - snapshots[1].timestamp
    IN  IF Last = 1 \/ snapshots[Last].timestamp <= from
        THEN price[Last]
        ELSE SumFunction([i \in VisitedSnapshots(interval) |-> price[i] * Held(i, from)])
               \div period

\* query_twap_price
SpotTwap(interval) == CalcTwap([i \in 1 .. Last |-> SnapshotPrice(i)], interval)

\* query_output_twap: what selling or buying back `amount' of base asset would
\* have been worth, averaged over the interval.
OutputTwap(direction, amount, interval) ==
    CalcTwap([i \in 1 .. Last |->
                  GetOutputPrice(direction, amount, snapshots[i].quote_asset_reserve,
                                 snapshots[i].base_asset_reserve)], interval)

OutputTwapDefined(direction, amount, interval) ==
    /\ now >= interval
    /\ \A i \in VisitedSnapshots(interval) :
          GetOutputPriceDefined(direction, amount, snapshots[i].quote_asset_reserve,
                                snapshots[i].base_asset_reserve)

\* query_is_over_fluctuation_limit: would trading `amount' of base asset leave
\* the band?  RemoveFromAmm takes the base asset and adds what it costs to the
\* quote reserve, AddToAmm the other way round, as a swap_output does.
PriceAfterOutput(direction, amount) ==
    LET quote == GetOutputPrice(direction, amount, quote_asset_reserve, base_asset_reserve)
    IN  SpotPrice(After(Flip(direction), quote, quote_asset_reserve),
                  After(direction, amount, base_asset_reserve))

IsOverFluctuationLimit(direction, amount) ==
    /\ config.fluctuation_limit_ratio # 0
    /\ ~WithinLimits(PriceAfterOutput(direction, amount), PriceOfLastBlock,
                     config.fluctuation_limit_ratio)

IsOverFluctuationLimitDefined(direction, amount) ==
    config.fluctuation_limit_ratio # 0 =>
        /\ PriceBoundariesDefined
        /\ GetOutputPriceDefined(direction, amount, quote_asset_reserve, base_asset_reserve)
        /\ After(direction, amount, base_asset_reserve) > 0

-----------------------------------------------------------------------------
Init ==
    /\ owner \in Accounts
    /\ config = InitialConfig
    /\ open = FALSE
    /\ quote_asset_reserve = InitialQuote
    /\ base_asset_reserve = InitialBase
    /\ total_position_size = 0
    /\ funding_rate = 0
    /\ next_funding_time = 0
    /\ snapshots = <<ReserveSnapshot(InitialQuote, InitialBase, StartTime, 1)>>
    /\ height = 1
    /\ now = StartTime
    /\ closing_price = SpotPrice(InitialQuote, InitialBase)
    /\ settled_at = 0

\* Mutant: the new values are not validated.
UpdateConfigUnchecked(sender, new) ==
    /\ sender = owner
    /\ config' = new
    /\ UNCHANGED <<owner, state, height, now, history>>

\* An omitted option keeps its field; an address given must be valid, so the
\* empty default of instantiation can be replaced and never restored.
UpdateConfig(sender, new) ==
    /\ sender = owner
    /\ new.margin_engine \in Accounts \union {config.margin_engine}
    /\ new.insurance_fund \in Accounts \union {config.insurance_fund}
    /\ new \in Config
    /\ config' = new
    /\ UNCHANGED <<owner, state, height, now, history>>

UpdateOwner(sender, new) ==
    /\ sender = owner
    /\ owner' = new
    /\ UNCHANGED <<config, state, height, now, history>>

SetOpen(sender, value) ==
    /\ sender \in {owner, config.insurance_fund}
    /\ open # value
    /\ open' = value
    /\ next_funding_time' =
           IF value THEN now + (FundingPeriod \div OneHour) * OneHour
           ELSE next_funding_time
    /\ UNCHANGED <<owner, config, quote_asset_reserve, base_asset_reserve,
                   total_position_size, funding_rate, snapshots, height, now, history>>

\* update_reserve: `quote' enters (AddToAmm) or leaves the reserves, `base'
\* does the opposite, and the net position of the traders follows base.
UpdateReserve(direction, quote, base, can_go_over) ==
    LET newQuote == After(direction, quote, quote_asset_reserve)
        newBase == After(Flip(direction), base, base_asset_reserve)
    IN  /\ newQuote \in Uint /\ newBase \in Uint
        /\ WithinFluctuationLimit(newQuote, newBase, can_go_over)
        /\ quote_asset_reserve' = newQuote
        /\ base_asset_reserve' = newBase
        /\ total_position_size' = After(direction, base, total_position_size)
        /\ AddReserveSnapshot(newQuote, newBase)
        /\ UNCHANGED <<owner, config, open, funding_rate, next_funding_time,
                       height, now, history>>

SwapInput(sender, direction, quote, limit, can_go_over) ==
    LET base == GetInputPrice(direction, quote, quote_asset_reserve, base_asset_reserve)
    IN  /\ open
        /\ sender = config.margin_engine
        /\ GetInputPriceDefined(direction, quote, quote_asset_reserve, base_asset_reserve)
        /\ (limit # 0 /\ quote # 0) =>
               IF direction = AddToAmm THEN base >= limit ELSE base =< limit
        /\ UpdateReserve(direction, quote, base, can_go_over)

\* The direction of a swap_output is that of the base asset: update_reserve
\* is told the opposite one.
SwapOutput(sender, direction, base, limit) ==
    LET quote == GetOutputPrice(direction, base, quote_asset_reserve, base_asset_reserve)
    IN  /\ open
        /\ sender = config.margin_engine
        /\ GetOutputPriceDefined(direction, base, quote_asset_reserve, base_asset_reserve)
        /\ (limit # 0 /\ base # 0) =>
               IF direction = AddToAmm THEN quote >= limit ELSE quote =< limit
        /\ UpdateReserve(Flip(direction), quote, base, TRUE)

\* The premium of the AMM over the oracle, per funding period: the event the
\* margin engine books, here with the funding rate it determines.
PremiumFraction(underlying) ==
    TruncDiv((SpotTwap(config.spot_price_twap_interval) - underlying) * FundingPeriod, OneDay)

\* Mutant: the earlier of the two times.
Minimum(a, b) == IF a > b THEN b ELSE a
Maximum(a, b) == IF a > b THEN a ELSE b

SettleFunding(sender, underlying) ==
    /\ open
    /\ sender = config.margin_engine
    /\ now >= next_funding_time
    /\ now >= config.spot_price_twap_interval
    /\ underlying # 0
    /\ funding_rate' = TruncDiv(PremiumFraction(underlying) * Decimals, underlying)
    /\ next_funding_time' =
           Maximum(((now + FundingPeriod) \div OneHour) * OneHour,
                   now + FundingBufferPeriod)
    /\ settled_at' = now
    /\ UNCHANGED <<owner, config, open, quote_asset_reserve, base_asset_reserve,
                   total_position_size, snapshots, height, now, closing_price>>

\* The chain moves on (external).
NextBlock ==
    /\ height < MaxHeight
    /\ height' = height + 1
    /\ \E step \in TimeSteps : now' = now + step
    /\ closing_price' = CurrentPrice
    /\ UNCHANGED <<owner, config, state, settled_at>>

Swap ==
    \E sender \in Accounts, direction \in Direction, limit \in Limits :
        \/ \E quote \in QuoteAmounts, can_go_over \in BOOLEAN :
              SwapInput(sender, direction, quote, limit, can_go_over)
        \/ \E base \in BaseAmounts : SwapOutput(sender, direction, base, limit)

Admin ==
    \E sender \in Accounts :
        \/ \E new \in ConfigChoices : UpdateConfig(sender, new)
        \/ \E new \in Accounts : UpdateOwner(sender, new)
        \/ \E value \in BOOLEAN : SetOpen(sender, value)

Next ==
    \/ Swap
    \/ Admin
    \/ \E sender \in Accounts, underlying \in OraclePrices :
          SettleFunding(sender, underlying)
    \/ NextBlock

Spec == Init /\ [][Next]_vars

-----------------------------------------------------------------------------
(* Properties                                                              *)

Snapshot == [quote_asset_reserve: Nat, base_asset_reserve: Nat,
             timestamp: Nat, block_height: Nat]

\* The values the variables of the contract range over (funding_rate, the
\* quotient of a time average, is left to TLC's arithmetic).
TypeOK ==
    /\ owner \in Accounts
    /\ config \in Config
    /\ open \in BOOLEAN
    /\ quote_asset_reserve \in Nat /\ base_asset_reserve \in Nat
    /\ total_position_size \in Int
    /\ next_funding_time \in Nat
    /\ snapshots \in Seq(Snapshot) /\ snapshots # <<>>
    /\ height \in Nat /\ now \in Nat
    /\ closing_price \in Nat
    /\ settled_at \in Nat

\* Every unit of base asset the traders hold, net, came out of the base
\* reserve: the two fields update_reserve keeps apart never drift.
NetPositionMatchesReserve ==
    base_asset_reserve + total_position_size = InitialBase

\* However swaps round, the constant product they trade along never falls:
\* the remainder correction always favours the AMM.
InvariantKNeverFalls ==
    [][InvariantK(quote_asset_reserve', base_asset_reserve')
         >= InvariantK(quote_asset_reserve, base_asset_reserve)]_vars

\* When the traders' positions net to zero, the AMM has at least the quote it
\* started with: no sequence of swaps takes a profit from rounding.
NoProfitFromRoundTrips ==
    total_position_size = 0 => quote_asset_reserve >= InitialQuote

\* The price the band is computed from is the one the last block closed at,
\* however many swaps this block or idle blocks there were since.
BoundaryIsClosingPrice ==
    height > 1 => PriceOfLastBlock = closing_price

\* After the block of instantiation, no swap moves reserves once the price of
\* the block is outside the band around the last block's closing price: at
\* most one swap (of a close or a liquidation) crosses it in a block.
NoSwapBeyondLimit ==
    [][(/\ height > 1 /\ config.fluctuation_limit_ratio # 0
        /\ quote_asset_reserve' # quote_asset_reserve)
         => WithinLimits(CurrentPrice, closing_price, config.fluctuation_limit_ratio)]_vars

RestrictedSwap ==
    \E sender \in Accounts, direction \in Direction, limit \in Limits, quote \in QuoteAmounts :
        SwapInput(sender, direction, quote, limit, FALSE)

\* A swap that may not go over the limit (opening or increasing a position)
\* leaves the price inside that band, whatever happened before in the block.
RestrictedSwapStaysInBand ==
    [][RestrictedSwap /\ height > 1 /\ config.fluctuation_limit_ratio # 0
         => WithinLimits(CurrentPrice', closing_price, config.fluctuation_limit_ratio)]_vars

\* The spot price in force during second t: that of the last snapshot taken
\* at or before t.
PriceAt(t) ==
    SnapshotPrice(CHOOSE i \in 1 .. Last :
                     /\ snapshots[i].timestamp <= t
                     /\ i < Last => snapshots[i + 1].timestamp > t)

\* The mean of PriceAt over the seconds from `from' to now.
TimeAverage(from) ==
    SumFunction([t \in from .. now - 1 |-> PriceAt(t)]) \div (now - from)

\* The backward walk of calc_twap over the snapshots yields the mean price
\* over the interval, or over the life of the AMM when that is shorter.
TwapIsTimeAverage ==
    \A interval \in MinTwapInterval .. MaxTwapInterval :
        now > StartTime /\ now >= interval =>
            SpotTwap(interval) = TimeAverage(Maximum(now - interval, StartTime))

\* Two settlements of funding are at least the buffer period apart, even when
\* the AMM is closed and reopened in between.
FundingSpacing ==
    [][settled_at' # settled_at /\ settled_at # 0
         => settled_at' >= settled_at + FundingBufferPeriod]_vars

=============================================================================

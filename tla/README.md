# Formal models of the Margined perpetuals protocol

A perpetual-futures exchange on CosmWasm. Traders post collateral with a
**margin engine** and take leveraged long or short positions against a
**virtual AMM** (vAMM), whose reserves are numbers and not tokens. An
**insurance fund** covers losses that exceed a margin, a **fee pool** collects
tolls, and a **price feed** gives the price of the underlying asset from which
funding is computed.

This directory holds TLA+ models of the five contracts and of the signed integers
they calculate with, TLC configurations that check them on small instances, and
TLAPS proofs about them.

Run a configuration with `tlc -config MCVamm.cfg MCVamm.tla`, the proofs
of a module with `tlapm VammProofs.tla`.

## 1. The system

| Component | State | Operations | Talks to |
|---|---|---|---|
| `contracts/margined_engine` | `Config`, `State` (open interest, prepaid bad debt, pause), `VammMap` (restriction block, cumulative premiums), positions, the temporaries `TmpSwapInfo`, `TmpLiquidator`, `SentFunds`, the whitelist | `open_position`, `close_position`, `liquidate`, `pay_funding`, `deposit_margin`, `withdraw_margin`, `update_config`, `set_pause`, ownership of the pauser, and eight replies | swaps and funding of the vAMM by submessage with a reply; cw20 or native transfers; `Withdraw` of the fund; queries of all |
| `contracts/margined_vamm` | `Config`, `State` (reserves, net position, funding rate, next funding time, open), reserve snapshots | `swap_input`, `swap_output`, `settle_funding`, `set_open`, `update_config`, `update_owner` | called by the engine and the fund; queries the price feed |
| `contracts/margined_insurance_fund` | the list of vAMMs, `Config` | `add_vamm`, `remove_vamm`, `shutdown_vamms`, `withdraw`, `update_owner` | pays the engine; closes vAMMs |
| `contracts/margined_fee_pool` | the list of tokens | `add_token`, `remove_token`, `send_token`, `update_owner` | token contracts |
| `contracts/margined_pricefeed` | rounds of prices per key | `append_price`, `append_multiple_price`, queries of a price and of its average | queried by the vAMM |
| `packages/margined_common` | none | signed integers, assets, validation | used by all |
| `packages/margined_perp` | none | message and state types, queriers | used by all |
| `packages/margined_utils`, `contracts/mocks`, `scripts` | | test harness, a stub, deployment | |

What is hard in it:

* **One request is many steps.** The handler of the engine checks the request,
  leaves a record in storage (`TmpSwapInfo`) and calls the vAMM; the reply reads
  the record, updates the position and emits transfers, which run after it; a
  reversal starts a second swap in the reply of the first. Queries made in a
  reply see the state in the middle of the transaction. Every step may fail, and
  then all is undone.
* **Two sets of books.** What the traders hold, by the engine, must be what the
  vAMM has sold; what the vault holds must be what the margins and the pnl add
  up to. There are nine paths that change a position.
* **Rounding, signs, zero.** Unsigned arithmetic everywhere, a signed integer
  type with two zeros, magnitudes used where signs matter.
* **Time.** The fluctuation limit refers to the previous block's closing price,
  averages walk back through snapshots, funding is due at whole hours with a
  minimum distance, a liquidation restricts the rest of its block.
* **Lazy settlement.** Funding accumulates and is charged when a position is
  next touched; losses are prepaid by the fund and charged to bad debt later.
* **Two kinds of collateral.** Of a cw20 token the engine takes what it needs in
  the reply; native coins arrive with the message, before any of it runs, and the
  replies have to account for exactly what was sent.
* **Registries as vectors.** The fund and the pool keep vectors in one storage
  item, remove by `swap_remove`, and read a bounded prefix.

What makes each component correct:

* vAMM: rounding never pays out more than came in; the net position is what left
  the reserve; the price moves within a band around the last close except for
  swaps that may leave it; averages are averages; funding is spaced.
* Engine: its books agree with the vAMM's and with the tokens it holds; a
  transaction concerns one trader; nothing of it is left behind, whether it ends
  or fails; no trade or withdrawal leaves a position below maintenance; a
  position below maintenance can be liquidated; bad debt is not paid out.
* Insurance fund: the vector acts as a bounded set of vAMMs; a shutdown closes all
  or none; tokens leave it only for the engine.
* Fee pool: the same registry, of tokens; what it sends it holds; what is
  not in the registry stays.
* Price feed: rounds are numbered without gaps; the average is the
  time average of the rounds and stays between their prices; a feed that cannot
  answer recovers.
* Signed integers: sums, products, quotients and order are those of the integers.

`PROJECT.json` lists the hazards at their lines, with the properties that guard
against each.

## 2. The modules

| Module | Models |
|---|---|
| `VammMath` | the price functions and their rounding, the price limits, division towards zero |
| `Vamm` | the vAMM: every execute message, snapshots, averages, the fluctuation limit |
| `PerpetualBook` | abstract: what a transaction may do to positions, vAMM and collateral, in one step |
| `MarginEngine` | the engine over one vAMM: EXTENDS `Vamm`, adds the engine's variables, the ledger and the execution of submessages |
| `Registry` | abstract: a set of bounded size that grows and shrinks by one entry |
| `EntryList` | the vector that stands for that set: push, `swap_remove`, the bounded read |
| `InsuranceFund` | the fund with the vAMMs it lists, the engine's queries to it and its submessages |
| `FeePool` | the pool, with its transfers |
| `PriceFeed` | the rounds of the feed, its queries and its average |
| `SignedInteger` | `Integer` of `margined_common` as a magnitude and a sign |
| `MCVamm`, `MCMarginEngine`, `MCInsuranceFund`, `MCFeePool`, `MCPriceFeed` | small instances |
| `OperatorProofs` | proofs about the operators: sums, weighted means, `swap_remove`, signed integers |
| `VammProofs` | proofs about the vAMM by itself |
| `MarginEngineProofs`, `EngineBookProofs`, `EngineVaultProofs` | proofs about the engine: its records and the vAMM under it, its books, its vault (each uses the one before) |
| `InsuranceFundProofs`, `FeePoolProofs`, `PriceFeedProofs` | proofs about the other contracts |

A handler that errors or panics is an action that is not enabled: guards named
`...Defined` stand for checked arithmetic and unwraps.

### Vamm

The variables are the fields of `State` and `Config` under their own names, the
list of `snapshots`, and the block (`height`, `now`). `closing_price` and
`settled_at` are history: the price at which the last block with a trade closed,
and the times of the settlements. `SwapInput` and `SwapOutput` are the handlers
with all they call: `update_reserve`, the check of the limit and
`add_reserve_snapshot`. `MaxUint` stands for the width of `Uint128`.

The vAMM reads the price feed in `SettleFunding` only, and takes any price of
`OraclePrices` there: more than `PriceFeed` can answer.

### MarginEngine

A transaction is a sequence of actions. `Request` is a handler of the engine:
its guards are the code's requirements, it updates storage, saves the state the
chain would go back to in `checkpoint`, and puts submessages into `queue`.
`Deliver` runs the first submessage: a transfer on the ledger, a swap or a
settlement of `Vamm`, whose answer goes into `reply`. `Handle` is one of the
replies of `reply.rs`; its messages go before those still queued. `Commit` ends a
transaction whose queue is empty; `Abort` undoes it, at any point, which covers
errors of the cw20 contract, of the vAMM, of a reply, and of gas. The chain runs
one transaction at a time, so that between `Begin` and `Commit` nothing else
happens; the administration of the vAMM and of the engine (`Govern`) and the
passing of blocks (`Surroundings`) happen when `Idle`. Storage of the engine:

| Code | Model |
|---|---|
| `Config` | `engine_config` (owner, addresses, collateral, ratios) |
| `State` | `engine_state` |
| `VammMap` | `vamm_map` (the cumulative premium is the last entry of the list) |
| the position bucket | `positions[trader]`, with `exists` |
| `TmpSwapInfo`, `TmpLiquidator`, `SentFunds` | `tmp_swap`, `tmp_liquidator`, `sent_funds`; `NoSwap`, `NoAccount`, `NoFunds` when absent |
| `PAUSER`, `WHITELIST` | `pauser`, `whitelist` |
| what `require_vamm` asks the fund | `registries`: the funds that list the vAMM |
| cw20 or bank ledger | `balance` |
| `SubMsg` with a reply id | a record in `queue` with its `id` |

With native collateral a request comes with `funds`, which are the engine's before
the handler runs (`BeginWith`, `Received`); the handlers and replies compare them
with what is required, as the code does (`FundsDue`, `AreSufficient`). Clients of
the repository compute them with `fund_calculator.rs`: `FundsNeeded` is that tool,
and a request sends what it says, off by one of `NativeErrors`.

The open interest cap and the cap on the base asset held are those of the vAMM;
the whitelist is exempt from both. `Dust` bounds rounding: each transaction may cost the
vault one unit for each position and one for itself.

### PerpetualBook

What a user can rely on, without swaps, messages or replies: a transaction
belongs to one trader, changes the position and the collateral of nobody else
(the liquidator excepted), moves the net position of the vAMM by as much as the
position, and neither makes nor destroys collateral. `MarginEngine` implements
it: the abstract state is the committed one, that is the state between
transactions, and in the middle of one the state it began from. Every step of a
transaction but `Commit` is a stutter, and `Commit` is one abstract step.

### InsuranceFund, FeePool

`InsuranceFund` has its own transactions, of the same shape (`Begin`, `Deliver`,
`Commit`, `Abort`): `ShutdownAllVamm` queues one `set_open(false)` for each vAMM
read, `Withdraw` one transfer, and a submessage that cannot run undoes all. (Of a fund
that has never listed a vAMM the code finds no list and fails, where the model closes none; no
state tells the two apart.) The vAMMs are here only what the fund sees of them: open or not, the fund they answer
to, their decimals. `SetOpen` is the vAMM's handler, called by the fund or by the
vAMM's owner, who can also hand it to another fund. `Tradable` is the engine's
`require_vamm`.

`FeePool` queues at most one transfer (`pending`), which the token runs (`Deliver`) or
refuses (`Refuse`), and then the request is undone. Its tokens are native
denominations and cw20 addresses, as `validate_eligible_collateral` tells them
apart.

Both implement `Registry` by `registered <- Listed(list)`. `Registry` takes no
view of order; the code's removal moves the last entry to the place of the removed
one, and its reads stop at the limit, which must lose none.

### PriceFeed, SignedInteger

`prices[key]` are the rounds of a key; before the first is stored the code reads an
empty one (`NoRound`). `AppendMultiplePrice` stores its prices one after the other. `Visited` is how far the walk of `query_get_twap_price` goes back, `Lasted` the
share a round gets, both without recursion.

`SignedInteger` has the two additions the code has (`checked_add` and the operator
`+`), which differ in the zero they return. Storage drops the sign of a zero
(`Stored`). The other modules use integers; where the second zero makes a
difference in the engine (`OpenInterestAllowed`, `PartialLiquidationReply`) the model
follows it by hand.

## 3. What is checked

| Run | Instance | Shows |
|---|---|---|
| `vamm` | swaps of both kinds and settlements in three blocks one or four seconds apart, limit and interval set, wrong senders and configurations tried, the vAMM closed and reopened | `TypeOK`, `NetPositionMatchesReserve`, `NoProfitFromRoundTrips`, `InvariantKNeverFalls`: rounding always favours the vAMM; `BoundaryIsClosingPrice`, `NoSwapBeyondLimit`, `RestrictedSwapStaysInBand`: the band is that of the last close and is crossed at most once a block; `TwapIsTimeAverage`: the backward walk of `calc_twap` computes the average of the spot price over the interval; `FundingSpacing`: settlements never closer than the buffer period |
| `engine_trading` | two traders, one liquidator, four transactions in two blocks, limit 40%, partial closes and partial liquidations, cw20 or native, coins sent with messages that ask for none | the books, the vAMM and the vault agree (`PositionsMatchAmm`, `DirectionMatchesSize`, `VaultCoversBooks`, `VaultKeepsNothing`); nothing is left behind (`NoTemporaries`); growing a position needs the maintenance margin (`GrowthLeavesMargin`); `TradesStayInBand`; `NobodyTradesAroundLiquidation`: what restriction mode promises, of who trades when, and not of the block numbers the code compares; the refinement (`ImplementsBook`) |
| `engine_margin` | three transactions with fees, caps, deposits, withdrawals, funding at prices far below and above, native coins sent short and over and with messages that ask for none, pause, pauser, whitelist, registry | `VaultCoversBooks`; `WithdrawalLeavesMargin`, of positions that are not dust; `OpenInterestStaysCapped`, `HoldingStaysCapped`: whichever replies a trade goes through, the caps hold for all but the whitelist |
| `fund` | three vAMMs for a registry of two and one of other decimals, two tokens | `TypeOK`, `ImplementsRegistry`; `ShutdownIsAllOrNothing`; `OnlyEngineIsPaid` |
| `fee_pool` | one native and two cw20 tokens for a registry of two | `TypeOK`, `ImplementsRegistry`; `PendingIsCovered`: what the pool emits, a token that works can pay, though it may refuse; `UnlistedTokensStay` |
| `feed` | up to five rounds dated in and out of order, singly and in pairs, four intervals | `TypeOK`, `RoundsAreNumbered`; `TwapIsTimeAverage` when the rounds are in order, `TwapWithinPrices` always; `FeedRecovers` |
| `engine_reversal`, `engine_band_close`, `engine_underwater`, `engine_native`, `engine_partial`, `fund_shutdown` | | the disagreements of section 4 |

`MCVamm` also assumes, and TLC evaluates, what `SignedInteger` returns for all small
operands (`SmallIntegersAreIntegers`), products and quotients included.

**Bounds.** Amounts are in units of a token with `Decimals` 100 (10 in the vAMM's
runs), small enough that rounding is visible in every division. Reserves are a few
times the notional of a trade, so that a trade moves the price by tens of percent:
that is what brings limits, bad debt, partial closes and the differences between
spot and average price into four transactions. Leverage 3 with a maintenance
margin of 10% makes a position liquidatable by one counter-trade. Two traders are
needed for a loser and a winner, one liquidator is enough since liquidators keep
no state. Four transactions open on both sides, move the price and liquidate or
reverse; the three of `engine_margin` are an opening, a change of the surroundings
or of the margin, and a trade or withdrawal after it. Two blocks are needed by
restriction mode, averages and the limit, which look one block back; three of the
vAMM show a change of the limit between, and, one or four seconds apart with
intervals of one to four, make the walk over snapshots begin at, before and after each of them.
The vAMM's clock starts at 7, so that a settlement at 11 is late: the next one is due later than
a funding period after the last, and two fit into the run. Of the positions of leverage 1
two fit under the cap on open interest and one under the cap on holdings, of those
of leverage 4 none. `MaxUint` is beyond any product of
the instance in the engine's runs and within reach in the vAMM's (2200).
The registries have a limit of two with three candidates: full, one removed from the front,
and the same entry added again all occur. Rounds of a feed are dated from 1 to 4 with
time from 2 to 8: past, present, future, equal and reversed; after time 7 every
interval lies after every round.

**Coins that nothing asked for.** `close_position`, `withdraw_margin`, `liquidate` and
`pay_funding` do not look at `info.funds`; what comes with them stays in the vault, in
nobody's books. Their actions take such coins (`StrayCoins`, none or five in the two
runs about the vault), and `unasked` is what has come so far, which the properties
of the vault set aside: no reply pays a stray coin out in place of one that is owed, or
counts it as paid. Coins sent with the messages of the owner and the pauser, or
transferred to the engine without a message, are not modelled; they would count the
same.

**History.** `unasked` and `today` are read by no action of the contract. `today` records
who has traded in this block and kept the position since, and whether anybody was
liquidated in it; `NobodyTradesAroundLiquidation` is stated with it, so that a path that
stores a position without its block number, or a liquidation without its own, shows.

**Constraints.** Two things the code does break the vault's identity and would
hide whatever else might break it. The runs that check it therefore leave out
(do not explore beyond) such states. The predicates are defined in `MarginEngine`,
where the theorems about the vault take them as hypotheses: `ReversalsAreSolvent` and
`TradesAreSolvent` drop replies that lose track of bad debt, of which
`engine_reversal` shows the former on its own; `FundingIsCharged` drops reversals
that forgive funding and partial liquidations that forgive the liquidated part's
funding; `NativeReversalsCount` drops native reversals whose coins are counted
wrongly (`engine_native` on its own) and `NativeFeesAreSent` native closes, whose
fees come out of the vault. The others cut combinations: `OwnerStays`, `NeverShut`,
`NeverPaused` administration that other runs exercise, `OneDeparture` more than one
change of pause, pauser, whitelist, registry and open flag at a time,
`SmallPositions` net positions beyond half the reserve, `FundIsPassive` and
`FundOrOther` that the fund owns itself or that vAMMs answer to strangers.
`TraderSymmetry` is sound: traders differ in nothing initially, and those runs
check no liveness.

`CHECK_DEADLOCK FALSE` is needed where bounds on transactions, blocks and rounds
stop the exploration; the system itself waits for requests forever. The fund and
the pool have no such bound, and their runs check for deadlock.

**Fairness.** Nothing in the contracts schedules anything, so fairness can only be
that of the chain. `PriceFeed`, the only one with a liveness property, assumes that time goes on (`WF_vars(Tick)`): blocks are produced
whether or not anybody calls. Nothing is assumed of users, owners or keepers,
which is why no engine property is a liveness property: that a position below maintenance *is*
liquidated depends on somebody doing it.

**Mutants.** Next to the definitions stand variants with a plausible bug
(comments begin with "Mutant"). Each property is violated by at least one.

## 4. Where the code and its documents disagree

1. **A reversal pays out bad debt** (`engine_reversal`). `reverse_position_reply`
   transfers the magnitude of what the old position is worth, also when that is
   negative (`reply.rs:292-295`). Closing the same position is refused, with a
   comment that bad debt must not be withdrawn (`reply.rs:382`):
   `BadDebtIsNotPaidOut`.
2. **The limit of a close is queried the wrong way round** (`engine_band_close`).
   `close_position` always asks for `RemoveFromAmm` (`handle.rs:242`); a long is
   closed whole although that takes the price below the band, against the comment
   at `handle.rs:246-248`: `WholeClosesStayInBand`.
3. **A position deep under water cannot be liquidated** (`engine_underwater`) once
   the partial ratio is set: `handle.rs:354` compares the magnitude of the margin
   ratio with the fee and the reply of a partial liquidation then underflows
   (`reply.rs:674-678`): `LiquidationCompletes`.
4. **A native reversal asks for the old margin again** (`engine_native`).
   `reverse_position_reply` nets the old position's value against the fees only if
   it is negative or smaller than they are (`reply.rs:309`); otherwise the second reply asks for
   the whole new margin, and refuses what `fund_calculator.rs` computes:
   `NeededFundsSuffice`.
5. **A partial liquidation may take a quote amount off the size** (`engine_partial`).
   When the part to liquidate is worth more than the whole position cost, the handler swaps
   that cost, a quote amount, by `swap_input` (`handle.rs:676`), and the reply takes the
   input of the swap off the size as if it were base asset (`reply.rs:668-672`). In the run
   a short of 192 that was sold for 60 becomes one of 132, where half of it, 96, was to go,
   and what the vAMM has sold is no longer what the books say. A short gets there when the
   price has risen by the inverse of the liquidated share. The tests say "liquidate ->
   return 25% base asset to AMM" (`cw_token_liquidation_tests.rs:1398`):
   `PartialLiquidationTakesPart`.
6. **An emergency shutdown may shut nothing** (`fund_shutdown`).
   `shutdown_all_vamm` sends `set_open(false)` to every vAMM listed
   (`margined_insurance_fund/src/handle.rs:79`) and a vAMM that is closed already
   refuses, which undoes all; the contract's README says it "halts all vAMMs trading":
   `ShutdownHaltsTrading`.

Met while modelling, and modelled as they are, with no run of their own: a decrease
of a position with bad debt succeeds while the average price hides the debt
(`update_position_reply` ignores it, `reply.rs:125`; `TradesAreSolvent`); the
fees of a close in native coins are paid by the vault (`messages.rs:31`;
`NativeFeesAreSent`); a reversal settles no funding, and a partial liquidation none
for the part it closes; open interest is not reduced by liquidations;
`pay_funding` pays the fund at most what the vault holds; what remains of a
reversal is dropped if smaller than the leverage; the remaining notional of a
decrease loses its sign at extreme profits; a partial close swaps by the
rounded quote value of a part, which for a short of a few units can be that of the whole
or more, and turns it into a long; the operator `+` gives the negative
zero for a negative number and its opposite, and `checked_add` does not. Restriction
mode ("Only one action allowed", `utils.rs:400`) compares the block of the last trade
in the position, so that with the position the trade is forgotten: whoever has traded,
and closed or was liquidated in whole, may open another position in a block with a
liquidation; `NobodyTradesAroundLiquidation` speaks of who kept the position. A trade
may leave the margin ratio equal to the maintenance ratio, which `require_margin`
accepts, while `liquidate` accepts equality too: `GrowthLeavesMargin` promises no more.

## 5. What is proved

The theorems hold for all values of the constants that meet the named assumptions
(`DecimalsAssumption`, `ReservesAssumption` and so on, in the modules that declare
the constants; TLC evaluates them in every run). No run-time bound is among them:
any number of traders, vAMMs, tokens and transactions, any reserves and decimals.

**The vAMM** (`VammProofs`). First the arithmetic: the lemmas bound quotient and
remainder, and `TradeKeepsInvariant` concludes that every trade, of either
direction and either asset, keeps `k * Decimals <= quote * base`. The point is the
remainder test of the code (`modulo`), which moves the rounded amount by one in
favour of the vAMM exactly when the division is not exact. Then the machine:

* `TypeCorrectness`, `NetPositionConservation`: from the inductive invariant
  `ReserveInv`, which adds to the types and the net position that no reserve is
  ever empty and that the reserves cover the initial constant product. Types are
  not inductive alone: an empty reserve would make a price undefined.
* `InvariantKIsMonotone`: every step, from the same invariant and
  `TradeKeepsInvariant`.
* `RoundTripsDoNotProfit`: with the net position at zero the base reserve is the
  initial one, so that covering the product means the quote reserve is no less.
* `BoundariesFollowClosingPrice`: from `SnapshotInv`, which says that the last
  snapshot is the reserves of now and that the first one is of the first block;
  `SwapsStopAtLimit` and `RestrictedSwapsAreBanded` follow from it.
* `FundingIsSpaced`: for funding periods of an hour or more. (With a shorter one
  a reopened vAMM is due at once.)

**The engine's transactions** (`MarginEngineProofs`).

* `NothingIsLeftBehind` (`NoTemporaries`): the records `TmpSwapInfo`,
  `TmpLiquidator` and `SentFunds`, the queue and the answer are gone when a
  transaction ends, however it ends. `NoTemporaries` says nothing of the middle of
  a transaction and is not inductive. `RecordInv` adds that a record exists only
  while an answer is awaited to which it belongs: of a swap for `tmp_swap`, of a
  liquidation for `tmp_liquidator`, of a trade for `sent_funds`. For that, of the
  messages queued only the last may call the AMM (the fees of a reversal are
  queued before its second swap), so that the answer awaited is determined by the
  queue; and a transaction in progress goes back, if it fails, to a state without
  records.

**The vAMM under the engine** (`MarginEngineProofs`). `VammProofs` is about a vAMM that
anybody calls with amounts from the instance's sets. Here the engine computes
the amounts, in requests and in replies to earlier swaps, and the chain may put
everything back.

* `AmmIsSafeUnderEngine` (`TypeOK`, `NetPositionMatchesReserve`,
  `BoundaryIsClosingPrice`), `EngineRoundTripsDoNotProfit`
  (`NoProfitFromRoundTrips`), `TradesAreBanded` (`TradesStayInBand`).
* They share the inductive `SafetyInv`: the vAMM's two invariants; the types of
  what a swap can be computed from (size, notional and direction of positions, the
  record of the swap); that a swap in the queue is of a natural amount, and may go
  over the limit only if its answer is not one of a plain increase or decrease;
  that an answer of those finds the price in the band; and, for `Abort`, that the state
  saved in `checkpoint` satisfies the vAMM's invariants with the block of now
  (`SoundRestart`). The amount of the second swap of a reversal and of a partial
  close is where the types are needed: a negative amount would move the reserves the wrong way.
  `RecordInv` is used throughout: it says which message an answer belongs to.
* `TradesAreBanded` therefore covers the second swap of a reversal, which is
  queued by a reply and not by the handler that asks for the limit.

**The engine's books** (`EngineBookProofs`). Three of the theorems hold of every
behaviour (`BooksKeepTheirTypes`, `OpenInterestIsCapped`, `LiquidationsRestrict`), the rest while the market is ordinary.

* `BooksKeepTheirTypes` (`EngineTypeOK`) and `OpenInterestIsCapped`
  (`OpenInterestStaysCapped`), of `EngineSpec` alone. The inductive `BookInv`, on top of
  `RecordInv` and `SafetyInv`, has four parts. `TypeInv`: the types, also of what
  `checkpoint` saves. `SwapInv`: the record of the swap, the position it is about
  and the message queued belong together (a decrease is of a stored position in
  the other direction and worth more than what is swapped; a close asks for the
  whole size; nobody restricted trades). `OneTraderInv`: everything since `Begin`
  concerns one trader, and collateral only changes hands. `InterestInv`: before the
  answer to the swap the books are as they were, but for what the first half of a reversal
  clears. A reply is checked against its request only through these.
* `PositionsAgreeWithAmm` (`PositionsMatchAmm`), `DirectionsFollowSizes`
  (`DirectionMatchesSize`). Neither is inductive: in the middle of a transaction the
  vAMM has moved and the books have not. `MatchInv` says that the sum of the sizes
  and what the reply to come will add (`Moved`, by the id of the reply) is the net
  position, that this reply overshoots no position it decreases, and that the
  saved state is balanced, for `Abort`. That the sum follows a change of one position
  is a lemma about sums over any finite set.
* `GrowthIsPaidFor` (`GrowthLeavesMargin`), `HoldingsAreCapped`
  (`HoldingStaysCapped`): from `GrowthInv`, by which whoever has grown since `Begin` is
  backed: by margin at the prices of now, which the transfers that remain cannot move, and
  by the cap.
* `LiquidationsRestrict` (`NobodyTradesAroundLiquidation`), of `EngineSpec` alone: from
  `HistoryInv`, which relates `today` to storage. Whoever is in `today.traders` has a
  position with the number of this block, and if there was a liquidation the vAMM's
  record has it too, also in the state that `Abort` goes back to. The converse does not hold,
  and the code does not need it. With it goes what `VaultIsEnough` needs of `unasked`.
* `ExchangeImplementsBook` (`ImplementsBook`): every step but `Commit` is a stutter of
  `PerpetualBook`, and `Commit` is its `Serve`, for the trader `OneTraderInv` names
  (`Settle` when it names none).
* `WithdrawalsLeaveMargin` (`WithdrawalLeavesMargin`): free
  collateral takes the exposure by the sign of the size and the pnl by the
  direction. That they agree is `MatchInv`; then, case by case long or
  short, gaining or losing, the initial margin is above the maintenance
  margin (`FreeMarginSuffices`). It takes a difference of the two margins of at least a unit
  (`MarginsDiffer`): both are rounded, and nothing in the code keeps the ratios apart.

All but those three are about `EngineSpec /\ []OrdinaryMarket`: each reserve holds a
unit, no part of a position that is partly closed is worth more than the whole, and no
partial liquidation is of the kind of section 4. The code does not see to any of it, so that
`OrdinaryMarket` is a hypothesis and not a property; without the last part the theorems
are false, as `engine_partial` shows. The instances of `engine_trading` and
`engine_margin` are ordinary throughout, so that the hypothesis excludes none of their
states.

**The vault** (`EngineVaultProofs`): `VaultIsEnough` (`VaultCoversBooks`),
`VaultIsNotTooMuch` (`VaultKeepsNothing`). Between transactions the collateral in the
vault, less what the fund prepaid and the coins that nothing asked for, is what the books owe: the margins with the funding they
have not paid, and the pnl of unwinding the vAMM; up to one coin for each trader, and
one more, per transaction.

* Neither bound is inductive. In the middle of a transaction the vAMM has moved, or the
  coins of a native trade have arrived, or the books are written and the transfers still
  queued. `Surplus` adds up where the missing part is: the coins in the vault
  (`Coins`), what the queue brings and takes (`Incoming`), what the record of a trade
  says its reply will still ask for (`Expected`), the quote asset moved by a swap that is not in
  the books yet (`MovedQuote`), less the claims of the traders (`Claims`). It counts
  fractions of a coin, since funding is rounded for each position when it is shown
  and when it is charged: `Owed` is the claims after rounding.
* `Drifts`: every step leaves `Surplus` as it is, but one reply (or request, where there is no
  swap) of each transaction, which changes it by at most `Room`; the first
  transaction finds no positions and rounds nothing. `Abort` goes back to the `Surplus` of the
  saved state. The invariants are therefore `-Allowed(Steps) <= Surplus` and
  `Surplus <= Allowed(Steps)`, with the same of the saved state, where `Steps`
  counts the transactions that have rounded.
* A reply can be checked against its request only if the record is about the position
  and the swap. `ValueInv` says so by the id awaited: the pnl and notional
  recorded are what the vAMM quotes for the position, the swap queued is the one
  quoted, and its answer, when it has come, is the quote. That a vAMM answers what it
  quoted is `Vamm`'s `InputAmount` and `OutputAmount`, with no step in between.
  `FundsInv` says when the coins sent with a request are counted, and `FreshInv` that there are no
  positions before the first transaction.
* Both theorems are about `[]OrdinaryMarket /\ []ExactReplies`, the second also about
  `[]FundingIsPaid`. `ExactReplies` names, one by one, the replies that lose track
  of something: bad debt (`TradesAreSolvent`, `reply.rs:125`; `ReversalsAreSolvent`,
  `engine_reversal`), funding (`FundingIsCharged`, `reply.rs:258`), the fees and the value
  of a reversal in native coins (`NativeFeesAreSent`, `messages.rs:31`;
  `NativeReversalsCount`, `engine_native`), and a sign (`NotionalIsKept`: the
  remaining notional of a decrease below zero, `reply.rs:106`, or the notional of a
  position without size). Each is there because a step of the proof fails
  without it. What they say together is that no other path through the replies costs the traders
  anything. `FundingIsPaid` is about `pay_funding`, which sends the fund what the
  vault has when that is less than what is due: the vault then keeps what it should
  have paid, so that only the upper bound needs it.
* The hypotheses that a run has no constraint for exclude none of its states, but for
  `FundingIsPaid` in `engine_margin`, where funding is settled at prices far off and the
  upper bound does fail: that run checks `VaultCoversBooks` only.

**Averages.** `TwapsAreTimeAverages` (`VammProofs`), `FeedAveragesOverTime` and
`FeedAveragesWithinPrices` (`PriceFeedProofs`). Both walks weigh
a price by how long it held. Their properties say what the average should be by
time: the sum over every second of the price in force. The proofs show that the
weights telescope to the time divided by (no snapshot visited twice, no gap, the
oldest one cut off at the interval), and that a sum over seconds of a step function is the sum
over its steps, each as often as it is long (`OperatorProofs!SumOfSteps`). For rounds out of
order the feed's average is still a weighted mean with weights that are not negative wherever the
code answers, hence within the prices (`MeanWithin`).

**Operators** (`OperatorProofs`). `SumFunction` of the community modules is a fold
over a set. The lemmas about it (`SumType`, `SumChange`, `SumMonotone`,
`SumToNext`) are proved from the recursive function it is defined by, by the least
counterexample: of the subsets for which the claim fails take one of which no
proper subset fails (`MinimalSubset`: proper inclusion of finite sets is well-founded). That replaces
the induction theorems with an operator parameter, which the installed provers cannot
instantiate. Intervals of integers are treated in the same way (`IntervalInduction`).

**The registries** (`OperatorProofs`, `InsuranceFundProofs`, `FeePoolProofs`).

* `SwapRemoveFacts`: from a list without duplicates `swap_remove` takes out
  exactly the entry named, and leaves no duplicates.
* `ListImplementsRegistry`, `TokensImplementRegistry` (`ImplementsRegistry`): the
  vectors refine the bounded set. The invariant is that the list has no duplicates
  and is within its limit, so that the bounded read loses nothing.
* `FundTypeCorrect`, `PoolTypeCorrect`.
* `ShutdownClosesAllOrNone` (`ShutdownIsAllOrNothing`): from `ShutdownInv`, which says
  of the middle of a shutdown that the vAMMs still queued are listed, distinct, and
  unchanged, that those not queued any more are closed, and that they could be.
* `FundPaysOnlyEngine` (`OnlyEngineIsPaid`), `PoolSendsWhatItHolds`
  (`PendingIsCovered`), `PoolKeepsUnlisted` (`UnlistedTokensStay`).

**The rounds of the feed** (`PriceFeedProofs`): `FeedTypeCorrect`, `FeedNumbersRounds`
(`RoundsAreNumbered`); the loop of
`append_multiple_price` keeps what `append_price` keeps.

**Signed integers** (`OperatorProofs`): `AdditionIsExact` for both additions
and both subtractions, `OrderUpToZero`, `StoredIntegersAreIntegers` (read back from
storage there is one zero), `WhereNegativeZeroComesFrom`.

TLC checked the properties of the runs before they were proved. Of the strengthenings, those about
sequences of submessages speak of sequences over any set or of all of `Seq(...)`,
which TLC cannot evaluate; the proof is their only check.

**Only model-checked:**

* liveness (`FeedRecovers`): the prover has neither
  fairness nor `ENABLED`, on which `LiquidationCompletes` depends too;
* the disagreements of section 4, which are counterexamples.

## 6. What is not modelled

* More than one vAMM per engine: positions are kept per vAMM, and those on
  different ones meet only in the vault, in open interest and in prepaid bad debt.
* The width of the engine's own products (those of the vAMM are modelled).
* The test harness and mocks (`margined_utils/src/scenarios` and
  `src/contracts/helpers`, `contracts/mocks`): they set up and call the contracts,
  and hold no logic of the protocol. Of `margined_utils` the funds calculator is
  modelled, since clients depend on it.
* Deployment scripts, schemas, migrations without effect.
* Parsing, formatting, events, address validation, and the answers of queries that
  nothing acts on. The message and state types are modelled where a handler uses
  them.

## 7. Plan

Done: every contract, the composition of engine and vAMM, both kinds of collateral,
the two abstract specifications and their refinements, and a theorem for each safety
property of the passing runs.
What is left, in this order:

1. Several vAMMs, each a function value, with the engine's global open interest
   against the cap of each. The theorems about the vault carry over with a sum over vAMMs in
   `Claims` and `Coins`.
2. `PriceFeed` as the source of the oracle prices of `Vamm`, in place of free ones:
   what a stale or failing feed does to funding.

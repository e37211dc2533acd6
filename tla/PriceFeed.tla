------------------------------ MODULE PriceFeed ------------------------------
(***************************************************************************)
(* The price feed (contracts/margined_pricefeed): its owner submits rounds *)
(* of prices, the virtual AMMs ask for the latest price and for the        *)
(* time-weighted average (TWAP) that settles their funding.                *)
(*                                                                         *)
(* The time of a round is what the owner says it is: nothing makes it be   *)
(* now, or later than that of the round before.  An operator that ends in  *)
(* Defined says when the query answers instead of failing.                 *)
(***************************************************************************)
EXTENDS Integers, Sequences, FiniteSetsExt

CONSTANTS
    Accounts, Deployer,     \* who sends messages, and who instantiates the feed
    Keys,                   \* the pairs that are priced
    Prices, Timestamps,     \* the arguments of append_price
    Intervals,              \* the intervals the average is asked for
    StartTime, MaxTime,     \* bound: the seconds explored
    MaxRounds               \* bound: the rounds stored under a key

ASSUME FeedAssumption ==
    /\ Deployer \in Accounts
    /\ Prices \subseteq Nat /\ Timestamps \subseteq Nat /\ Intervals \subseteq Nat
    /\ StartTime \in Nat /\ MaxTime \in Nat /\ MaxRounds \in Nat

VARIABLES
    owner,      \* OWNER
    prices,     \* PRICES: the rounds of each key, none before the first is stored
    now         \* env.block.time, in seconds

vars == <<owner, prices, now>>

PriceData == [round_id : Nat, price : Nat, timestamp : Nat]

\* PriceData::default(), which read_price_data puts first.
NoRound == [round_id |-> 0, price |-> 0, timestamp |-> 0]
ReadPriceData(key) == IF prices[key] = <<>> THEN <<NoRound>> ELSE prices[key]

-----------------------------------------------------------------------------
(* Messages                                                                *)

Init ==
    /\ owner = Deployer
    /\ prices = [key \in Keys |-> <<>>]
    /\ now = StartTime

UpdateOwner(sender, new_owner) ==
    /\ sender = owner
    /\ owner' = new_owner
    /\ UNCHANGED <<prices, now>>

\* Mutant: the rounds are numbered from the first submission.
StoreFromZero(key, submitted) ==
    prices' = [prices EXCEPT ![key] = ReadPriceData(key) \o
                 [i \in DOMAIN submitted |->
                    [round_id |-> Len(prices[key]) + i - 1,
                     price |-> submitted[i].price, timestamp |-> submitted[i].timestamp]]]
\* Mutant: a submission takes the number of the round before it.
StoreOneLess(key, submitted) ==
    prices' = [prices EXCEPT ![key] = ReadPriceData(key) \o
                 [i \in DOMAIN submitted |->
                    [round_id |-> Len(prices[key]) + i - 2,
                     price |-> submitted[i].price, timestamp |-> submitted[i].timestamp]]]
\* store_price_data, once for each of the submitted prices.
StorePriceData(key, submitted) ==
    prices' = [prices EXCEPT ![key] = ReadPriceData(key) \o
                 [i \in DOMAIN submitted |->
                    [round_id |-> Len(ReadPriceData(key)) + i - 1,
                     price |-> submitted[i].price, timestamp |-> submitted[i].timestamp]]]

Submission == [price : Prices, timestamp : Timestamps]

AppendPrice(sender, key, price, timestamp) ==
    /\ sender = owner
    /\ Len(prices[key]) < MaxRounds
    /\ StorePriceData(key, <<[price |-> price, timestamp |-> timestamp]>>)
    /\ UNCHANGED <<owner, now>>

\* The prices and times come as two lists, which must be equally long; when
\* they are empty nothing is stored.
AppendMultiplePrice(sender, key, submitted) ==
    /\ sender = owner
    /\ Len(prices[key]) + Len(submitted) <= MaxRounds
    /\ \/ submitted # <<>> /\ StorePriceData(key, submitted)
       \/ submitted = <<>> /\ UNCHANGED prices
    /\ UNCHANGED <<owner, now>>

Tick ==
    /\ now < MaxTime
    /\ now' = now + 1
    /\ UNCHANGED <<owner, prices>>

Next ==
    \/ \E sender \in Accounts :
          \/ \E new_owner \in Accounts : UpdateOwner(sender, new_owner)
          \/ \E key \in Keys :
                \/ \E price \in Prices, timestamp \in Timestamps :
                      AppendPrice(sender, key, price, timestamp)
                \/ \E submitted \in {<<>>} \union (Submission \X Submission) :
                      AppendMultiplePrice(sender, key, submitted)
    \/ Tick

Spec == Init /\ [][Next]_vars

\* Blocks keep coming.
FairSpec == Spec /\ WF_vars(Tick)

-----------------------------------------------------------------------------
(* Queries                                                                 *)

Latest(key) == Len(ReadPriceData(key))
GetPrice(key) == ReadPriceData(key)[Latest(key)]

GetPreviousPrice(key, num_round_back) == ReadPriceData(key)[Latest(key) - num_round_back]
GetPreviousPriceDefined(key, num_round_back) == num_round_back <= GetPrice(key).round_id

\* The rounds that query_get_twap_price walks back over: down to round 1, or
\* to the latest, of those before the last, that is no later than `base'.
Visited(list, base) ==
    {k \in DOMAIN list :
        \A j \in k + 1 .. Len(list) :
            list[j].round_id # 1 /\ (j = Len(list) \/ list[j].timestamp > base)}

\* How long round k is taken to have lasted, since `base' at most.
LastedInAll(list, base, k) ==
    (IF k = Len(list) THEN now ELSE list[k + 1].timestamp) - list[k].timestamp
Lasted(list, base, k) ==
    (IF k = Len(list) THEN now ELSE list[k + 1].timestamp)
      - (IF k # Len(list) /\ list[k].timestamp <= base THEN base ELSE list[k].timestamp)

\* The latest price alone counts when it is the only one, or older than the
\* interval.  (Mutant: whatever its age.)
LatestOnly(key, base) == GetPrice(key).round_id = 1
LatestAlone(key, base) == GetPrice(key).round_id = 1 \/ GetPrice(key).timestamp < base

GetTwapPrice(key, interval) ==
    LET base == now - interval
        list == ReadPriceData(key)
        oldest == list[Min(Visited(list, base))].timestamp
    IN  IF LatestAlone(key, base) THEN GetPrice(key).price
        ELSE SumFunction([k \in Visited(list, base) |-> list[k].price * Lasted(list, base, k)])
               \div (IF oldest <= base THEN interval ELSE now - oldest)

GetTwapPriceDefined(key, interval) ==
    LET base == now - interval
        list == ReadPriceData(key)
        oldest == list[Min(Visited(list, base))].timestamp
    IN  /\ interval # 0 /\ now >= interval
        /\ GetPrice(key).round_id # 0
        /\ ~LatestAlone(key, base) =>
             /\ \A k \in Visited(list, base) : Lasted(list, base, k) >= 0
             /\ oldest # now

-----------------------------------------------------------------------------
(* Properties                                                              *)

TypeOK ==
    /\ owner \in Accounts
    /\ prices \in [Keys -> Seq(PriceData)]
    /\ now \in Nat

\* The rounds of a key are numbered in the order they were submitted, from 1,
\* after a round 0 that nobody submitted; so a walk back over them meets
\* round 1 before the list is empty (the pop and unwrap of the average).
RoundsAreNumbered ==
    \A key \in Keys : \A i \in DOMAIN prices[key] : prices[key][i].round_id = i - 1

\* The submitted rounds, when each is no earlier than the one before and none
\* is later than now.
Submitted(key) == 2 .. Latest(key)
InOrder(key) ==
    /\ \A i \in Submitted(key) : ReadPriceData(key)[i].timestamp <= now
    /\ \A i, j \in Submitted(key) :
          i < j => ReadPriceData(key)[i].timestamp <= ReadPriceData(key)[j].timestamp

\* The reference: the mean, over the seconds since `from', of the price that
\* was the latest in each.
PriceAt(key, second) ==
    LET list == ReadPriceData(key)
    IN  list[Max({i \in Submitted(key) : list[i].timestamp <= second})].price
TimeAverage(key, from) ==
    SumFunction([second \in from .. now - 1 |-> PriceAt(key, second)]) \div (now - from)

\* Over rounds in order, the average price is the mean over the interval, or
\* over the time since the first round when that is shorter; a round submitted
\* in the same second as the next one counts for nothing (query_get_twap_price).
TwapIsTimeAverage ==
    \A key \in Keys, interval \in Intervals :
        LET first == ReadPriceData(key)[2].timestamp
        IN  Latest(key) > 2 /\ InOrder(key) /\ interval \in 1 .. now /\ first < now =>
              /\ GetTwapPriceDefined(key, interval)
              /\ GetTwapPrice(key, interval)
                   = TimeAverage(key, Max({now - interval, first}))

\* Whenever the average is answered at all, even over rounds out of order, it
\* lies between the lowest and the highest of the prices submitted.
TwapWithinPrices ==
    \A key \in Keys, interval \in Intervals :
        LET submitted == {ReadPriceData(key)[i].price : i \in Submitted(key)}
        IN  GetTwapPriceDefined(key, interval) =>
              GetTwapPrice(key, interval) \in Min(submitted) .. Max(submitted)

\* A round dated into the future, or before the one it follows, makes the
\* average fail only for a time: once the owner stops submitting, the rounds
\* grow older than any interval and the latest price is answered.
FeedRecovers ==
    \A key \in Keys, interval \in Intervals :
        interval # 0 => <>[](Latest(key) > 1 => GetTwapPriceDefined(key, interval))

=============================================================================

--------------------------- MODULE PriceFeedProofs ---------------------------
(***************************************************************************)
(* The history that the price feed keeps, for any prices, times and pairs, *)
(* and the averages it answers.                                            *)
(***************************************************************************)
EXTENDS PriceFeed, OperatorProofs, SequenceTheorems

\* The rounds of a key are either none or start with round 0 (read_price_data).
FeedInv == TypeOK /\ RoundsAreNumbered

LEMMA FunctionIsSeq ==
    ASSUME NEW S, NEW m \in Nat, NEW f \in [1 .. m -> S]
    PROVE  f \in Seq(S) /\ Len(f) = m
OBVIOUS

LEMMA ReadFacts ==
    ASSUME FeedInv, NEW key \in Keys
    PROVE  /\ ReadPriceData(key) \in Seq(PriceData)
           /\ \A i \in DOMAIN ReadPriceData(key) : ReadPriceData(key)[i].round_id = i - 1
           /\ Len(prices[key]) <= Len(ReadPriceData(key))
           /\ \A i \in DOMAIN prices[key] : ReadPriceData(key)[i] = prices[key][i]
<1>1. prices[key] \in Seq(PriceData)
  BY DEF FeedInv, TypeOK
<1>2. CASE prices[key] = <<>>
  <2>1. ReadPriceData(key) = <<NoRound>>
    BY <1>2 DEF ReadPriceData
  <2>2. NoRound \in PriceData /\ NoRound.round_id = 0
    BY DEF NoRound, PriceData
  <2> HIDE DEF NoRound
  <2> QED BY <1>2, <2>1, <2>2
<1>3. CASE prices[key] # <<>>
  <2>1. ReadPriceData(key) = prices[key]
    BY <1>3 DEF ReadPriceData
  <2> QED BY <1>1, <2>1 DEF FeedInv, RoundsAreNumbered
<1> QED BY <1>2, <1>3

\* Storing submitted prices appends rounds that carry on the numbering.
LEMMA StoreKeepsInv ==
    ASSUME FeedInv, NEW key \in Keys, NEW submitted \in Seq(Submission),
           StorePriceData(key, submitted), UNCHANGED <<owner, now>>
    PROVE  FeedInv'
<1> DEFINE old == ReadPriceData(key)
           n == Len(old)
           m == Len(submitted)
           added == [i \in DOMAIN submitted |->
                       [round_id |-> n + i - 1, price |-> submitted[i].price,
                        timestamp |-> submitted[i].timestamp]]
           new == old \o added
<1>1. /\ old \in Seq(PriceData) /\ n \in Nat /\ m \in Nat
      /\ \A i \in 1 .. n : old[i].round_id = i - 1
  BY ReadFacts DEF FeedInv, TypeOK
<1>2. prices' = [prices EXCEPT ![key] = new]
  BY DEF StorePriceData
<1>3. added \in Seq(PriceData) /\ Len(added) = m /\ \A i \in 1 .. m : added[i].round_id = n + i - 1
  <2> HIDE DEF n, old
  <2>1. DOMAIN submitted = 1 .. m /\ \A i \in 1 .. m : submitted[i] \in Submission
    BY <1>1
  <2>2. ASSUME NEW i \in 1 .. m
        PROVE  [round_id |-> n + i - 1, price |-> submitted[i].price,
                timestamp |-> submitted[i].timestamp] \in PriceData
    <3>1. submitted[i].price \in Nat /\ submitted[i].timestamp \in Nat
      BY <2>1, FeedAssumption DEF Submission
    <3>2. n + i - 1 \in Nat
      BY <1>1
    <3> QED BY <3>1, <3>2 DEF PriceData
  <2>3. added \in [1 .. m -> PriceData]
    BY <2>1, <2>2
  <2>4. \A i \in 1 .. m : added[i].round_id = n + i - 1
    BY <2>1
  <2> HIDE DEF added
  <2>5. added \in Seq(PriceData) /\ Len(added) = m
    <3> HIDE DEF m
    <3> QED BY <1>1, <2>3, FunctionIsSeq
  <2> QED BY <2>4, <2>5
<1> HIDE DEF old, added
<1>4. /\ new \in Seq(PriceData) /\ Len(new) = n + m
      /\ \A i \in 1 .. n : new[i] = old[i]
      /\ \A i \in n + 1 .. n + m : new[i] = added[i - n]
  <2>0. old \in Seq(PriceData) /\ added \in Seq(PriceData)
    BY <1>1, <1>3
  <2>1. /\ new \in Seq(PriceData)
        /\ Len(new) = Len(old) + Len(added)
        /\ \A i \in 1 .. Len(old) + Len(added) :
              new[i] = IF i <= Len(old) THEN old[i] ELSE added[i - Len(old)]
    <3> HIDE DEF n, m
    <3> QED BY <2>0, ConcatProperties
  <2> HIDE DEF new
  <2>2. Len(old) = n /\ Len(added) = m /\ n \in Nat /\ m \in Nat
    BY <1>1, <1>3
  <2> HIDE DEF n, m
  <2>3. \A i \in 1 .. n + m : new[i] = IF i <= n THEN old[i] ELSE added[i - n]
    BY <2>1, <2>2
  <2>4. \A i \in 1 .. n : new[i] = old[i]
    BY <2>2, <2>3
  <2>5. \A i \in n + 1 .. n + m : new[i] = added[i - n]
    BY <2>2, <2>3
  <2> QED BY <2>1, <2>2, <2>4, <2>5
<1> HIDE DEF n, m, new
<1>5. \A i \in 1 .. n + m : new[i].round_id = i - 1
  <2> SUFFICES ASSUME NEW i \in 1 .. n + m PROVE new[i].round_id = i - 1
    OBVIOUS
  <2>1. CASE i <= n
    <3>1. i \in 1 .. n
      BY <1>1, <2>1
    <3> QED BY <1>1, <1>4, <3>1
  <2>2. CASE i > n
    <3>1. i - n \in 1 .. m /\ i \in n + 1 .. n + m
      BY <1>1, <2>2
    <3> QED BY <1>1, <1>3, <1>4, <3>1
  <2> QED BY <1>1, <2>1, <2>2
<1>6. DOMAIN new = 1 .. n + m
  BY <1>4
<1>7. prices' \in [Keys -> Seq(PriceData)] /\ prices'[key] = new
      /\ \A k \in Keys \ {key} : prices'[k] = prices[k]
  BY <1>2, <1>4 DEF FeedInv, TypeOK
<1> QED BY <1>5, <1>6, <1>7 DEF FeedInv, TypeOK, RoundsAreNumbered

LEMMA FeedStep ==
    ASSUME FeedInv, [Next]_vars
    PROVE  FeedInv'
<1>1. ASSUME UNCHANGED prices, owner' \in Accounts, now' \in Nat PROVE FeedInv'
  BY <1>1 DEF FeedInv, TypeOK, RoundsAreNumbered
<1>2. owner \in Accounts /\ now \in Nat
  BY DEF FeedInv, TypeOK
<1>3. ASSUME NEW sender \in Accounts, NEW new_owner \in Accounts, UpdateOwner(sender, new_owner)
      PROVE  FeedInv'
  BY <1>1, <1>2, <1>3 DEF UpdateOwner
<1>4. ASSUME NEW sender \in Accounts, NEW key \in Keys, NEW price \in Prices,
             NEW timestamp \in Timestamps, AppendPrice(sender, key, price, timestamp)
      PROVE  FeedInv'
  <2> DEFINE submitted == <<[price |-> price, timestamp |-> timestamp]>>
  <2>1. submitted \in Seq(Submission)
    BY DEF Submission
  <2>2. StorePriceData(key, submitted) /\ UNCHANGED <<owner, now>>
    BY <1>4 DEF AppendPrice
  <2> HIDE DEF submitted
  <2> QED BY <2>1, <2>2, StoreKeepsInv
<1>5. ASSUME NEW sender \in Accounts, NEW key \in Keys,
             NEW submitted \in {<<>>} \union (Submission \X Submission),
             AppendMultiplePrice(sender, key, submitted)
      PROVE  FeedInv'
  <2>1. submitted \in Seq(Submission)
    <3>1. CASE submitted = <<>>
      BY <3>1
    <3>2. CASE submitted \in Submission \X Submission
      <4>1. PICK a \in Submission, b \in Submission : submitted = <<a, b>>
        BY <3>2
      <4> QED BY <4>1
    <3> QED BY <3>1, <3>2
  <2>2. UNCHANGED <<owner, now>>
    BY <1>5 DEF AppendMultiplePrice
  <2>3. CASE StorePriceData(key, submitted)
    BY <2>1, <2>2, <2>3, StoreKeepsInv
  <2>4. CASE UNCHANGED prices
    BY <1>1, <1>2, <2>2, <2>4
  <2> QED BY <1>5, <2>3, <2>4 DEF AppendMultiplePrice
<1>6. CASE Tick
  BY <1>1, <1>2, <1>6 DEF Tick
<1>7. CASE UNCHANGED vars
  BY <1>1, <1>2, <1>7 DEF vars
<1> QED BY <1>3, <1>4, <1>5, <1>6, <1>7 DEF Next

LEMMA FeedInvHolds == Spec => []FeedInv
<1>1. Init => FeedInv
  BY FeedAssumption DEF Init, FeedInv, TypeOK, RoundsAreNumbered
<1>2. FeedInv /\ [Next]_vars => FeedInv'
  BY FeedStep
<1> QED BY <1>1, <1>2, PTL DEF Spec

\* Type correctness, for any prices and times.
THEOREM FeedTypeCorrect == Spec => []TypeOK
BY FeedInvHolds, PTL DEF FeedInv

\* The rounds are numbered from round 0 on, so a walk back meets round 1.
THEOREM FeedNumbersRounds == Spec => []RoundsAreNumbered
BY FeedInvHolds, PTL DEF FeedInv

-----------------------------------------------------------------------------
(* The average                                                             *)

\* A history of two rounds at least after round 0.
History(list) ==
    /\ list \in Seq(PriceData) /\ Len(list) > 2
    /\ \A i \in 1 .. Len(list) : list[i].round_id = i - 1

\* The walk back over it ends at place m: at round 1, or at the first round,
\* before the last, that is no later than `base'.
WalkEndsAt(list, base, m) ==
    /\ m \in 2 .. Len(list) - 1
    /\ Visited(list, base) = m .. Len(list)
    /\ \A j \in m + 1 .. Len(list) - 1 : list[j].timestamp > base
    /\ m = 2 \/ list[m].timestamp <= base

LEMMA EntryTypes ==
    ASSUME NEW list, History(list)
    PROVE  /\ Len(list) \in Nat /\ DOMAIN list = 1 .. Len(list)
           /\ \A k \in 1 .. Len(list) :
                list[k].timestamp \in Nat /\ list[k].price \in Nat
<1>1. list \in Seq(PriceData)
  BY DEF History
<1>2. Len(list) \in Nat /\ DOMAIN list = 1 .. Len(list)
      /\ \A k \in 1 .. Len(list) : list[k] \in PriceData
  BY <1>1
<1>3. QED
  BY <1>2 DEF PriceData

LEMMA WalkEnds ==
    ASSUME NEW list, History(list), NEW base \in Int
    PROVE  \E m \in Int : WalkEndsAt(list, base, m)
<1> DEFINE n == Len(list)
           K == {k \in 2 .. n - 1 : \A j \in k + 1 .. n - 1 : list[j].timestamp > base}
<1>1. n \in Nat /\ n > 2 /\ DOMAIN list = 1 .. n
      /\ \A k \in 1 .. n : list[k].timestamp \in Nat /\ list[k].round_id = k - 1
  BY EntryTypes DEF History
<1> HIDE DEF n
<1>2. n - 1 \in K
  BY <1>1
<1>3. IsFiniteSet(K) /\ K \subseteq Int
  <2>1. IsFiniteSet(2 .. n - 1)
    BY <1>1, FS_Interval
  <2>2. K \in SUBSET (2 .. n - 1)
    OBVIOUS
  <2> HIDE DEF K
  <2>3. IsFiniteSet(K)
    BY <2>1, <2>2, FS_Subset
  <2>4. QED
    BY <1>1, <2>2, <2>3
<1>4. PICK m \in K : \A k \in K : m <= k
  <2> HIDE DEF K
  <2>1. QED
    BY <1>2, <1>3, LeastInteger
<1>5. /\ m \in 2 .. n - 1 /\ m \in Int
      /\ \A j \in m + 1 .. n - 1 : list[j].timestamp > base
  BY <1>1, <1>4
<1>6. ASSUME NEW k \in Visited(list, base)
      PROVE  k \in m .. n
  <2>1. k \in 1 .. n /\ \A j \in k + 1 .. n : list[j].round_id # 1
                                              /\ (j = n \/ list[j].timestamp > base)
    BY <1>1 DEF Visited, n
  <2>2. k # 1
    <3>1. SUFFICES ASSUME k = 1 PROVE FALSE
      OBVIOUS
    <3>2. 2 \in k + 1 .. n /\ 2 \in 1 .. n
      BY <1>1, <3>1
    <3>3. list[2].round_id = 2 - 1
      BY <1>1, <3>2
    <3>4. list[2].round_id # 1
      BY <2>1, <3>2
    <3>5. QED
      BY <3>3, <3>4
  <2>3. CASE k = n
    BY <1>1, <1>5, <2>3
  <2>4. CASE k # n
    <3>1. k \in 2 .. n - 1
      BY <1>1, <2>1, <2>2, <2>4
    <3>2. \A j \in k + 1 .. n - 1 : list[j].timestamp > base
      BY <1>1, <2>1
    <3>3. k \in K
      BY <3>1, <3>2
    <3>4. QED
      BY <1>4, <1>5, <2>1, <3>3
  <2>5. QED
    BY <2>3, <2>4
<1>7. ASSUME NEW k \in m .. n
      PROVE  k \in Visited(list, base)
  <2>1. k \in 1 .. n
    BY <1>1, <1>5
  <2>2. ASSUME NEW j \in k + 1 .. n
        PROVE  list[j].round_id # 1 /\ (j = n \/ list[j].timestamp > base)
    <3>1. j \in 1 .. n /\ j >= 3 /\ (j = n \/ j \in m + 1 .. n - 1)
      BY <1>1, <1>5
    <3>2. list[j].round_id = j - 1
      BY <1>1, <3>1
    <3>3. QED
      BY <1>5, <3>1, <3>2
  <2>3. QED
    BY <1>1, <2>1, <2>2 DEF Visited, n
<1>8. Visited(list, base) = m .. n
  BY <1>6, <1>7
<1>9. m = 2 \/ list[m].timestamp <= base
  <2>1. SUFFICES ASSUME m # 2, ~(list[m].timestamp <= base) PROVE FALSE
    OBVIOUS
  <2>2. m \in 1 .. n
    BY <1>1, <1>5
  <2>3. list[m].timestamp > base
    BY <1>1, <2>1, <2>2
  <2>4. m - 1 \in 2 .. n - 1 /\ \A j \in (m - 1) + 1 .. n - 1 : j = m \/ j \in m + 1 .. n - 1
    BY <1>1, <1>5, <2>1
  <2>5. m - 1 \in K
    BY <1>5, <2>3, <2>4
  <2>6. QED
    BY <1>4, <1>5, <2>5
<1>10. QED
  BY <1>5, <1>8, <1>9 DEF WalkEndsAt, n

\* The seconds between which the rounds from m on count: each round up to the
\* next, the oldest from `base' at the earliest, and the last until now.
Boundary(list, base, m) ==
    [k \in m .. Len(list) + 1 |->
        IF k = m THEN IF list[m].timestamp <= base THEN base ELSE list[m].timestamp
        ELSE IF k = Len(list) + 1 THEN now
        ELSE list[k].timestamp]

LEMMA LastedIsBetweenBoundaries ==
    ASSUME now \in Nat, NEW list, History(list), NEW base \in Int,
           NEW m \in Int, WalkEndsAt(list, base, m)
    PROVE  /\ \A k \in m .. Len(list) + 1 : Boundary(list, base, m)[k] \in Int
           /\ \A k \in m .. Len(list) :
                Lasted(list, base, k)
                  = Boundary(list, base, m)[k + 1] - Boundary(list, base, m)[k]
<1> DEFINE n == Len(list)
           b == Boundary(list, base, m)
<1>1. /\ n \in Nat /\ m \in 2 .. n - 1 /\ m \in Int
      /\ \A k \in 1 .. n : list[k].timestamp \in Nat
      /\ \A j \in m + 1 .. n - 1 : list[j].timestamp > base
  BY EntryTypes DEF WalkEndsAt
<1>2. \A k \in m .. n + 1 :
        b[k] = IF k = m THEN IF list[m].timestamp <= base THEN base ELSE list[m].timestamp
               ELSE IF k = n + 1 THEN now ELSE list[k].timestamp
  BY DEF Boundary
<1>3. \A k : Lasted(list, base, k)
               = (IF k = n THEN now ELSE list[k + 1].timestamp)
                   - (IF k # n /\ list[k].timestamp <= base THEN base ELSE list[k].timestamp)
  BY DEF Lasted
<1> HIDE DEF n, b
<1>4. ASSUME NEW k \in m .. n + 1
      PROVE  b[k] \in Int
  <2>1. k = n + 1 \/ k \in 1 .. n
    BY <1>1
  <2>2. m \in 1 .. n
    BY <1>1
  <2>3. QED
    BY <1>1, <1>2, <2>1, <2>2
<1>5. ASSUME NEW k \in m .. n
      PROVE  Lasted(list, base, k) = b[k + 1] - b[k]
  <2>1. k \in m .. n + 1 /\ k + 1 \in m .. n + 1 /\ k + 1 # m /\ k # n + 1 /\ k \in 1 .. n
    BY <1>1
  <2>2. b[k + 1] = IF k = n THEN now ELSE list[k + 1].timestamp
    BY <1>1, <1>2, <2>1
  <2>3. b[k] = IF k # n /\ list[k].timestamp <= base THEN base ELSE list[k].timestamp
    <3>1. CASE k = m
      BY <1>1, <1>2, <2>1, <3>1
    <3>2. CASE k # m /\ k # n
      <4>1. k \in m + 1 .. n - 1
        BY <1>1, <3>2
      <4>2. list[k].timestamp > base /\ list[k].timestamp \in Nat
        BY <1>1, <2>1, <4>1
      <4>3. QED
        BY <1>2, <2>1, <3>2, <4>2
    <3>3. CASE k = n
      BY <1>1, <1>2, <2>1, <3>3
    <3>4. QED
      BY <3>1, <3>2, <3>3
  <2>4. QED
    BY <1>3, <2>2, <2>3
<1>6. QED
  BY <1>4, <1>5 DEF n, b

LEMMA ReadIsHistory ==
    ASSUME FeedInv, NEW key \in Keys
    PROVE  /\ Latest(key) \in Nat \ {0}
           /\ GetPrice(key).round_id = Latest(key) - 1
           /\ Latest(key) > 2 => History(ReadPriceData(key))
           /\ \A k \in 1 .. Latest(key) :
                ReadPriceData(key)[k].timestamp \in Nat /\ ReadPriceData(key)[k].price \in Nat
<1> DEFINE list == ReadPriceData(key)
           n == Len(list)
<1>1. /\ list \in Seq(PriceData)
      /\ \A i \in DOMAIN list : list[i].round_id = i - 1
  BY ReadFacts
<1>2. list # <<>>
  BY DEF ReadPriceData
<1> HIDE DEF list
<1>3. /\ n \in Nat \ {0} /\ DOMAIN list = 1 .. n
      /\ \A k \in 1 .. n : list[k] \in PriceData
  BY <1>1, <1>2
<1>4. n \in 1 .. n /\ Latest(key) = n /\ GetPrice(key) = list[n]
  BY <1>3 DEF Latest, GetPrice, list
<1>5. list[n].round_id = n - 1
  BY <1>1, <1>3, <1>4
<1>6. n > 2 => History(list)
  BY <1>1, <1>3 DEF History
<1>7. \A k \in 1 .. n : list[k].timestamp \in Nat /\ list[k].price \in Nat
  BY <1>3 DEF PriceData
<1> HIDE DEF n
<1>8. QED
  BY <1>3, <1>4, <1>5, <1>6, <1>7, Zenon DEF list

\* The weights of the rounds are none negative, and the time that is divided
\* by is their sum.
LEMMA WeightsOfAverage ==
    ASSUME now \in Nat, NEW list, History(list), NEW interval \in Nat \ {0},
           NEW m \in Int, WalkEndsAt(list, now - interval, m),
           \A k \in m .. Len(list) : Lasted(list, now - interval, k) >= 0,
           list[m].timestamp # now,
           NEW w, \A k \in m .. Len(list) : w[k] = Lasted(list, now - interval, k)
    PROVE  /\ \A k \in m .. Len(list) : w[k] \in Nat
           /\ SumFunctionOnSet(w, m .. Len(list)) > 0
           /\ SumFunctionOnSet(w, m .. Len(list))
                = IF list[m].timestamp <= now - interval THEN interval
                  ELSE now - list[m].timestamp
<1> DEFINE n == Len(list)
           base == now - interval
           b == Boundary(list, base, m)
           S == m .. n
           none == [k \in S |-> 0]
<1>0. base \in Int
  OBVIOUS
<1>1. /\ n \in Nat /\ m \in 2 .. n - 1 /\ m \in 1 .. n
      /\ \A k \in 1 .. n : list[k].timestamp \in Nat
  BY EntryTypes DEF WalkEndsAt
<1>2. /\ \A k \in m .. n + 1 : b[k] \in Int
      /\ \A k \in m .. n : Lasted(list, base, k) = b[k + 1] - b[k]
  BY <1>0, LastedIsBetweenBoundaries
<1>3. /\ b[n + 1] = now
      /\ b[m] = IF list[m].timestamp <= base THEN base ELSE list[m].timestamp
  BY <1>1 DEF Boundary
<1> HIDE DEF b
<1>4. \A k \in m .. n : w[k] = b[k + 1] - b[k]
  BY <1>2
<1>5. StepsOf(b, m, n, w)
  BY <1>1, <1>2, <1>4 DEF StepsOf
<1>6. SumFunctionOnSet(w, S) = b[n + 1] - b[m]
  BY <1>1, <1>5, Telescope
<1>7. SumFunctionOnSet(w, S)
        = IF list[m].timestamp <= base THEN interval ELSE now - list[m].timestamp
  BY <1>1, <1>3, <1>6
<1>8. IsFiniteSet(S)
  <2>1. m \in Int /\ n \in Int
    BY <1>1
  <2> HIDE DEF n
  <2>2. QED
    BY <2>1, FS_Interval
<1>9. \A k \in S : w[k] \in Nat
  <2>1. SUFFICES ASSUME NEW k \in m .. n PROVE w[k] \in Nat
    OBVIOUS
  <2>2. k \in m .. n + 1 /\ k + 1 \in m .. n + 1
    BY <1>1
  <2>3. b[k] \in Int /\ b[k + 1] \in Int /\ w[k] = b[k + 1] - b[k] /\ w[k] >= 0
    BY <1>2, <1>4, <2>2
  <2>4. QED
    BY <2>3
<1> HIDE DEF S
<1>10. SumFunctionOnSet(none, S) <= SumFunctionOnSet(w, S)
  <2>1. \A k \in S : none[k] \in Int /\ w[k] \in Int /\ none[k] <= w[k]
    BY <1>9
  <2> HIDE DEF none
  <2>2. QED
    BY <1>8, <2>1, SumMonotone
<1>11. SumFunctionOnSet(none, S) = 0
  BY <1>8, SumOfZeros
<1> HIDE DEF none
<1>12. SumFunctionOnSet(w, S) > 0
  <2>1. 0 <= SumFunctionOnSet(w, S)
    BY <1>10, <1>11, Zenon
  <2>2. CASE list[m].timestamp <= base
    BY <1>7, <2>2
  <2>3. CASE ~(list[m].timestamp <= base)
    BY <1>1, <1>7, <2>1, <2>3
  <2>4. QED
    BY <2>2, <2>3
<1>13. QED
  BY <1>7, <1>9, <1>12 DEF S

\* The prices of the rounds from place 2 on have a least and a greatest.
LEMMA SubmittedPrices ==
    ASSUME FeedInv, NEW key \in Keys, Latest(key) > 1,
           NEW S, S = {ReadPriceData(key)[i].price : i \in Submitted(key)}
    PROVE  /\ Min(S) \in Nat /\ Max(S) \in Nat
           /\ \A i \in 2 .. Latest(key) : ReadPriceData(key)[i].price \in Min(S) .. Max(S)
<1> DEFINE n == Latest(key)
           p == [i \in 2 .. n |-> ReadPriceData(key)[i].price]
<1>1. n \in Nat /\ n >= 2
  BY ReadIsHistory
<1>2. \A i \in 2 .. n : ReadPriceData(key)[i].price \in Nat
  BY <1>1, ReadIsHistory
<1>3. S = {p[i] : i \in 2 .. n}
  BY DEF Submitted
<1>4. \A i \in 2 .. n : p[i] = ReadPriceData(key)[i].price
  OBVIOUS
<1>5. \A i \in 2 .. n : p[i] \in S /\ p[i] \in Nat
  BY <1>2, <1>3
<1>6. S \subseteq Int /\ S \subseteq Nat
  BY <1>3, <1>5
<1>7. IsFiniteSet(2 .. n)
  BY <1>1, FS_Interval
<1>8. S # {}
  <2>1. 2 \in 2 .. n
    BY <1>1
  <2>2. QED
    BY <1>5, <2>1
<1>9. p \in Surjection(2 .. n, S)
  <2>1. p \in [2 .. n -> S]
    BY <1>5
  <2>2. \A x \in S : \E i \in 2 .. n : p[i] = x
    BY <1>3
  <2> HIDE DEF p, n
  <2>3. QED
    BY <2>1, <2>2 DEF Surjection
<1> HIDE DEF p, n
<1>10. IsFiniteSet(S)
  BY <1>7, <1>9, FS_Surjection
<1>11. /\ Min(S) \in S /\ \A y \in S : Min(S) <= y
       /\ Max(S) \in S /\ \A y \in S : y <= Max(S)
  BY <1>6, <1>8, <1>10, Extremes
<1>12. Min(S) \in Nat /\ Max(S) \in Nat
  BY <1>6, <1>11
<1>13. \A i \in 2 .. n : p[i] \in Min(S) .. Max(S)
  BY <1>5, <1>11, <1>12
<1>14. QED
  BY <1>4, <1>12, <1>13 DEF n

\* Whatever the order and the times of the rounds, an average that is answered
\* is between their prices: no weight is negative, since the walk would have
\* failed on it, and they add up to what is divided by.
LEMMA AverageIsWithin ==
    ASSUME FeedInv, NEW key \in Keys, NEW interval \in Intervals,
           GetTwapPriceDefined(key, interval),
           NEW submitted, submitted = {ReadPriceData(key)[i].price : i \in Submitted(key)}
    PROVE  GetTwapPrice(key, interval) \in Min(submitted) .. Max(submitted)
<1> DEFINE list == ReadPriceData(key)
           n == Latest(key)
           base == now - interval
           lo == Min(submitted)
           hi == Max(submitted)
           answer == GetTwapPrice(key, interval)
<1>1. now \in Nat /\ interval \in Nat \ {0} /\ base \in Int
  BY FeedAssumption DEF FeedInv, TypeOK, GetTwapPriceDefined
<1>2. n \in Nat \ {0} /\ GetPrice(key).round_id = n - 1 /\ GetPrice(key).round_id # 0
  BY ReadIsHistory DEF GetTwapPriceDefined
<1>3. n > 1
  BY <1>2
<1>4. lo \in Nat /\ hi \in Nat /\ \A i \in 2 .. n : list[i].price \in lo .. hi
  BY <1>3, SubmittedPrices
<1> HIDE DEF lo, hi
<1>5. CASE LatestAlone(key, base)
  <2>1. answer = list[n].price
    BY <1>5 DEF GetTwapPrice, GetPrice
  <2>2. n \in 2 .. n
    BY <1>2, <1>3
  <2>3. QED
    BY <1>4, <2>1, <2>2 DEF lo, hi
<1>6. CASE ~LatestAlone(key, base)
  <2>1. n > 2
    BY <1>2, <1>3, <1>6 DEF LatestAlone
  <2>2. History(list) /\ n = Len(list)
    BY <2>1, ReadIsHistory DEF Latest
  <2>3. PICK m \in Int : WalkEndsAt(list, base, m)
    BY <1>1, <2>2, WalkEnds
  <2> HIDE DEF list, n
  <2>4. m \in 2 .. n - 1 /\ Visited(list, base) = m .. n
    BY <2>2, <2>3 DEF WalkEndsAt
  <2>5. Min(Visited(list, base)) = m
    <3>1. m .. n \subseteq Int /\ m \in m .. n /\ \A y \in m .. n : m <= y
      BY <1>2, <2>4
    <3>2. Min(m .. n) = m
      BY <3>1, MinIs
    <3>3. QED
      BY <2>4, <3>2
  <2> DEFINE w == [k \in m .. n |-> Lasted(list, base, k)]
             v == [k \in m .. n |-> list[k].price * Lasted(list, base, k)]
             p == [k \in m .. n |-> list[k].price]
             period == IF list[m].timestamp <= base THEN interval ELSE now - list[m].timestamp
  <2>6. (\A k \in m .. n : Lasted(list, base, k) >= 0) /\ list[m].timestamp # now
    BY <1>6, <2>4, <2>5, Zenon DEF GetTwapPriceDefined, list
  <2>7. answer = SumFunctionOnSet(v, m .. n) \div period
    <3>1. answer = SumFunction(v) \div period
      BY <1>6, <2>4, <2>5, Zenon DEF GetTwapPrice, list
    <3>2. DOMAIN v = m .. n
      OBVIOUS
    <3> HIDE DEF v
    <3>3. SumFunction(v) = SumFunctionOnSet(v, m .. n)
      BY <3>2, Zenon DEF SumFunction
    <3>4. QED
      BY <3>1, <3>3, Zenon
  <2>8. \A k \in m .. n : w[k] = Lasted(list, base, k)
    OBVIOUS
  <2>9. \A k \in m .. n : v[k] = p[k] * w[k]
    OBVIOUS
  <2>10. \A k \in m .. n : p[k] \in lo .. hi
    BY <1>2, <1>4, <2>4
  <2> HIDE DEF w, v, p
  <2>11. /\ \A k \in m .. n : w[k] \in Nat
         /\ SumFunctionOnSet(w, m .. n) > 0
         /\ SumFunctionOnSet(w, m .. n) = period
    BY <1>1, <2>2, <2>3, <2>6, <2>8, WeightsOfAverage
  <2>12. IsFiniteSet(m .. n)
    BY <1>2, FS_Interval
  <2>13. SumFunctionOnSet(v, m .. n) \div SumFunctionOnSet(w, m .. n) \in lo .. hi
    <3>1. Weighs(w, m .. n, p, v, lo, hi)
      BY <2>9, <2>10, <2>11 DEF Weighs
    <3>2. lo \in Int /\ hi \in Int
      BY <1>4
    <3>3. SumFunctionOnSet(w, m .. n) > 0
      BY <2>11
    <3>4. QED
      BY <2>12, <3>1, <3>2, <3>3, MeanWithin
  <2> HIDE DEF period, answer
  <2>14. answer \in lo .. hi
    BY <2>7, <2>11, <2>13, Zenon
  <2>15. QED
    BY <2>14 DEF lo, hi, answer
<1>7. QED
  BY <1>5, <1>6

\* The average is between the lowest and the highest price submitted.
THEOREM FeedAveragesWithinPrices == Spec => []TwapWithinPrices
<1>1. FeedInv => TwapWithinPrices
  <2>1. SUFFICES ASSUME FeedInv, NEW key \in Keys, NEW interval \in Intervals,
                        GetTwapPriceDefined(key, interval)
                 PROVE  LET submitted == {ReadPriceData(key)[i].price : i \in Submitted(key)}
                        IN  GetTwapPrice(key, interval) \in Min(submitted) .. Max(submitted)
    BY DEF TwapWithinPrices
  <2>2. QED
    BY <2>1, AverageIsWithin
<1>2. QED
  BY <1>1, FeedInvHolds, PTL

\* The price in force at a second, when the rounds are in order, is that of the
\* round before it and not before the next one.
LEMMA PriceInForce ==
    ASSUME FeedInv, NEW key \in Keys, Latest(key) > 2, InOrder(key),
           NEW k \in 2 .. Latest(key), NEW t \in Int,
           ReadPriceData(key)[k].timestamp <= t,
           k < Latest(key) => t < ReadPriceData(key)[k + 1].timestamp
    PROVE  PriceAt(key, t) = ReadPriceData(key)[k].price
<1> DEFINE list == ReadPriceData(key)
           n == Latest(key)
           I == {i \in Submitted(key) : list[i].timestamp <= t}
<1>1. /\ n \in Nat
      /\ \A i \in 2 .. n : list[i].timestamp \in Nat
      /\ \A i, j \in 2 .. n : i < j => list[i].timestamp <= list[j].timestamp
  BY ReadIsHistory DEF InOrder, Submitted
<1>2. I = {i \in 2 .. n : list[i].timestamp <= t}
  BY DEF Submitted
<1> HIDE DEF n, list
<1>3. k \in 2 .. n /\ list[k].timestamp <= t /\ (k < n => t < list[k + 1].timestamp)
  BY DEF n, list
<1>4. ASSUME NEW i \in 2 .. n, list[i].timestamp <= t
      PROVE  i <= k
  <2>1. SUFFICES ASSUME i > k PROVE FALSE
    BY <1>1, <1>3
  <2>2. k < n /\ k + 1 \in 2 .. n
    BY <1>1, <1>3, <2>1
  <2>3. list[k + 1].timestamp <= list[i].timestamp
    <3>1. CASE i = k + 1
      BY <1>1, <2>2, <3>1
    <3>2. CASE i # k + 1
      <4>1. k + 1 < i
        BY <1>1, <1>3, <2>1, <3>2
      <4>2. QED
        BY <1>1, <2>2, <4>1
    <3>3. QED
      BY <3>1, <3>2
  <2>4. QED
    BY <1>1, <1>3, <1>4, <2>2, <2>3
<1>5. Max(I) = k
  <2>1. I \subseteq Int /\ k \in I /\ \A i \in I : i <= k
    BY <1>1, <1>2, <1>3, <1>4
  <2> HIDE DEF I
  <2>2. QED
    BY <2>1, MaxIs
<1>6. PriceAt(key, t) = list[Max(I)].price
  BY DEF PriceAt, list
<1>7. QED
  BY <1>5, <1>6, Zenon DEF list

\* From the first round on there is one.
LEMMA PriceInForceType ==
    ASSUME FeedInv, NEW key \in Keys, Latest(key) > 2, NEW t \in Int,
           ReadPriceData(key)[2].timestamp <= t
    PROVE  PriceAt(key, t) \in Int
<1> DEFINE list == ReadPriceData(key)
           n == Latest(key)
           I == {i \in Submitted(key) : list[i].timestamp <= t}
<1>1. n \in Nat /\ n > 2 /\ \A i \in 2 .. n : list[i].price \in Nat
  BY ReadIsHistory
<1>2. I \in SUBSET (2 .. n) /\ 2 \in I
  BY <1>1 DEF Submitted
<1> HIDE DEF I, n
<1>3. IsFiniteSet(I)
  <2>1. IsFiniteSet(2 .. n)
    BY <1>1, FS_Interval
  <2>2. QED
    BY <1>2, <2>1, FS_Subset
<1>4. Max(I) \in I
  <2>1. I \subseteq Int /\ I # {}
    BY <1>1, <1>2
  <2>2. QED
    BY <1>3, <2>1, Extremes
<1>5. Max(I) \in 2 .. n
  BY <1>2, <1>4
<1>6. PriceAt(key, t) = list[Max(I)].price
  BY DEF PriceAt, I
<1> HIDE DEF list
<1>7. QED
  BY <1>1, <1>5, <1>6

\* A latest round older than the interval was in force all of it.
LEMMA AverageOfOne ==
    ASSUME FeedInv, NEW key \in Keys, Latest(key) > 2, InOrder(key),
           NEW interval \in 1 .. now,
           ReadPriceData(key)[Latest(key)].timestamp < now - interval
    PROVE  TimeAverage(key, now - interval) = GetPrice(key).price
<1> DEFINE base == now - interval
           n == Latest(key)
           price == ReadPriceData(key)[n].price
           F == [second \in base .. now - 1 |-> PriceAt(key, second)]
<1>1. now \in Nat /\ interval \in Nat \ {0} /\ base \in Int /\ base <= now
  BY DEF FeedInv, TypeOK
<1>2. n \in 2 .. n /\ n \in Nat /\ ReadPriceData(key)[n].timestamp \in Nat /\ price \in Nat
  BY ReadIsHistory
<1>3. \A t \in base .. now - 1 : PriceAt(key, t) = price
  <2>1. SUFFICES ASSUME NEW t \in base .. now - 1 PROVE PriceAt(key, t) = price
    OBVIOUS
  <2>2. t \in Int /\ ReadPriceData(key)[n].timestamp <= t
    BY <1>1, <1>2
  <2>3. QED
    BY <1>2, <2>2, PriceInForce
<1>4. \A t \in base .. now - 1 : F[t] = price
  BY <1>3
<1>5. SumFunction(F) = SumFunctionOnSet(F, base .. now - 1)
  <2>1. DOMAIN F = base .. now - 1
    OBVIOUS
  <2> HIDE DEF F
  <2>2. QED
    BY <2>1, Zenon DEF SumFunction
<1>6. TimeAverage(key, base) = SumFunction(F) \div (now - base)
  BY DEF TimeAverage
<1> HIDE DEF F, price, base
<1>7. ConstantFrom(F, price, base, base, now)
  BY <1>1, <1>2, <1>4 DEF ConstantFrom
<1>8. SumFunctionOnSet(F, base .. now - 1)
        = SumFunctionOnSet(F, base .. base - 1) + price * (now - base)
  BY <1>1, <1>2, <1>7, SumOfConstant
<1>9. SumFunctionOnSet(F, base .. base - 1) = 0
  BY <1>1, SumToNothing
<1>10. now - base \in Nat \ {0}
  BY <1>1 DEF base
<1>11. TimeAverage(key, base) = (0 + price * (now - base)) \div (now - base)
  BY <1>5, <1>6, <1>8, <1>9, Zenon
<1>12. QED
  BY <1>2, <1>10, <1>11, QuotientOfProduct DEF base, GetPrice, price

\* The boundaries of the walk are in order, the prices between them in force.
LEMMA BoundariesInOrder ==
    ASSUME FeedInv, NEW key \in Keys, Latest(key) > 2, InOrder(key),
           NEW base \in Int, base <= now,
           ReadPriceData(key)[Latest(key)].timestamp >= base,
           NEW m \in Int, WalkEndsAt(ReadPriceData(key), base, m),
           NEW b, b = Boundary(ReadPriceData(key), base, m),
           NEW p, \A k \in m .. Latest(key) : p[k] = ReadPriceData(key)[k].price,
           NEW F, \A t \in b[m] .. now - 1 : F[t] = PriceAt(key, t)
    PROVE  StepFunction(m, Latest(key), b, p, F)
<1> DEFINE list == ReadPriceData(key)
           n == Latest(key)
<1>1. /\ History(list) /\ n = Len(list) /\ n \in Nat /\ now \in Nat
      /\ \A k \in 1 .. n : list[k].timestamp \in Nat /\ list[k].price \in Nat
      /\ \A k \in 2 .. n : list[k].timestamp <= now
      /\ \A i, j \in 2 .. n : i < j => list[i].timestamp <= list[j].timestamp
  BY ReadIsHistory DEF Latest, FeedInv, TypeOK, InOrder, Submitted
<1>2. /\ m \in 2 .. n - 1 /\ m \in 2 .. n
      /\ \A j \in m + 1 .. n - 1 : list[j].timestamp > base
      /\ m = 2 \/ list[m].timestamp <= base
      /\ list[n].timestamp >= base
  BY <1>1 DEF WalkEndsAt
<1>3. \A k \in m .. n + 1 :
        b[k] = IF k = m THEN IF list[m].timestamp <= base THEN base ELSE list[m].timestamp
               ELSE IF k = n + 1 THEN now ELSE list[k].timestamp
  BY <1>1 DEF Boundary
<1>4. \A k \in 2 .. n, t \in Int :
        list[k].timestamp <= t /\ (k < n => t < list[k + 1].timestamp)
          => PriceAt(key, t) = list[k].price
  BY PriceInForce
<1>5. \A t \in Int : list[2].timestamp <= t => PriceAt(key, t) \in Int
  BY PriceInForceType
<1>6. /\ \A k \in m .. n : p[k] = list[k].price
      /\ \A t \in b[m] .. now - 1 : F[t] = PriceAt(key, t)
  OBVIOUS
<1> HIDE DEF list, n
<1>7. /\ b[m] \in Int /\ list[m].timestamp <= b[m] /\ base <= b[m] /\ b[m] <= now
      /\ b[m] = base \/ b[m] = list[m].timestamp
  <2>1. m \in m .. n + 1 /\ m \in 1 .. n
    BY <1>1, <1>2
  <2>2. b[m] = IF list[m].timestamp <= base THEN base ELSE list[m].timestamp
    BY <1>3, <2>1
  <2>3. list[m].timestamp \in Nat /\ list[m].timestamp <= now
    BY <1>1, <1>2, <2>1
  <2>4. QED
    BY <2>2, <2>3
<1>8. ASSUME NEW k \in m + 1 .. n
      PROVE  /\ b[k] = list[k].timestamp /\ b[k] \in Int
             /\ b[m] <= b[k] /\ b[k] <= now
  <2>1. k \in m .. n + 1 /\ k # m /\ k # n + 1 /\ k \in 2 .. n /\ k \in 1 .. n
    BY <1>1, <1>2
  <2>2. b[k] = list[k].timestamp
    BY <1>3, <2>1
  <2>3. list[k].timestamp \in Nat /\ list[m].timestamp <= list[k].timestamp
        /\ list[k].timestamp <= now
    BY <1>1, <1>2, <2>1
  <2>4. base <= list[k].timestamp
    <3>1. CASE k = n
      BY <1>2, <3>1
    <3>2. CASE k # n
      <4>1. k \in m + 1 .. n - 1
        BY <1>1, <3>2
      <4>2. QED
        BY <1>2, <2>3, <4>1
    <3>3. QED
      BY <3>1, <3>2
  <2>5. QED
    BY <1>7, <2>2, <2>3, <2>4
<1>9. b[n + 1] = now
  <2>1. n + 1 \in m .. n + 1 /\ n + 1 # m
    BY <1>1, <1>2
  <2>2. QED
    BY <1>3, <2>1
<1>10. ASSUME NEW k \in m .. n + 1
       PROVE  b[k] \in Int /\ b[m] <= b[k] /\ b[k] <= b[n + 1]
  <2>1. k = m \/ k \in m + 1 .. n \/ k = n + 1
    <3>1. n \in Int /\ m \in Int
      BY <1>1
    <3>2. QED
      BY <3>1
  <2>2. CASE k = m
    BY <1>7, <1>9, <2>2
  <2>3. CASE k \in m + 1 .. n
    BY <1>8, <1>9, <2>3
  <2>4. CASE k = n + 1
    BY <1>1, <1>7, <1>9, <2>4
  <2>5. QED
    BY <2>1, <2>2, <2>3, <2>4
<1>11. ASSUME NEW k \in m .. n
       PROVE  /\ list[k].timestamp <= b[k] /\ b[k] <= b[k + 1]
              /\ k < n => b[k + 1] = list[k + 1].timestamp
  <2>1. k + 1 \in m .. n + 1 /\ k \in m .. n + 1 /\ k \in 2 .. n /\ k \in 1 .. n
    BY <1>1, <1>2
  <2>2. k < n => k + 1 \in m + 1 .. n /\ k + 1 \in 2 .. n /\ k + 1 \in 1 .. n
    BY <1>1, <1>2
  <2>3. k < n => b[k + 1] = list[k + 1].timestamp
    BY <1>8, <2>2
  <2>4. list[k].timestamp <= b[k]
    <3>1. CASE k = m
      BY <1>7, <3>1
    <3>2. CASE k # m
      <4>1. k \in m + 1 .. n
        BY <1>1, <1>2, <3>2
      <4>2. b[k] = list[k].timestamp /\ b[k] \in Int
        BY <1>8, <4>1
      <4>3. QED
        BY <4>2
    <3>3. QED
      BY <3>1, <3>2
  <2>5. b[k] <= b[k + 1]
    <3>1. CASE k = n
      BY <1>9, <1>10, <2>1, <3>1
    <3>2. CASE k = m
      BY <1>10, <2>1, <3>2
    <3>3. CASE k # m /\ k # n
      <4>1. k \in m + 1 .. n /\ k < n
        BY <1>1, <1>2, <3>3
      <4>2. b[k] = list[k].timestamp
        BY <1>8, <4>1
      <4>3. list[k].timestamp <= list[k + 1].timestamp
        BY <1>1, <2>1, <2>2, <4>1
      <4>4. QED
        BY <2>3, <4>1, <4>2, <4>3
    <3>4. QED
      BY <3>1, <3>2, <3>3
  <2>6. QED
    BY <2>3, <2>4, <2>5
<1>12. ASSUME NEW k \in m .. n, NEW t \in b[k] .. b[k + 1] - 1
       PROVE  F[t] = p[k]
  <2>1. k \in 2 .. n /\ k \in 1 .. n /\ k \in m .. n + 1 /\ k + 1 \in m .. n + 1
    BY <1>1, <1>2
  <2>2. /\ b[k] \in Int /\ b[k + 1] \in Int /\ b[m] <= b[k] /\ b[k + 1] <= now
        /\ b[m] \in Int /\ list[k].timestamp <= b[k]
        /\ k < n => b[k + 1] = list[k + 1].timestamp
    BY <1>7, <1>9, <1>10, <1>11, <2>1
  <2>3. t \in Int /\ b[k] <= t /\ t < b[k + 1] /\ t \in b[m] .. now - 1
    BY <1>1, <2>2
  <2>4. list[k].timestamp \in Nat /\ list[k].timestamp <= t
        /\ (k < n => t < list[k + 1].timestamp)
    BY <1>1, <2>1, <2>2, <2>3
  <2>5. PriceAt(key, t) = list[k].price
    BY <1>4, <2>1, <2>3, <2>4
  <2>6. QED
    BY <1>6, <2>3, <2>5
<1>13. ASSUME NEW t \in b[m] .. b[n + 1] - 1
       PROVE  F[t] \in Int
  <2>1. t \in Int /\ b[m] <= t /\ t \in b[m] .. now - 1
    BY <1>1, <1>7, <1>9
  <2>2. list[2].timestamp <= list[m].timestamp
    <3>1. 2 \in 2 .. n /\ 2 \in 1 .. n
      BY <1>1, <1>2
    <3>2. CASE m = 2
      BY <1>1, <3>1, <3>2
    <3>3. CASE m # 2
      BY <1>1, <1>2, <3>1, <3>3
    <3>4. QED
      BY <3>2, <3>3
  <2>3. list[2].timestamp \in Nat /\ list[m].timestamp \in Nat
    BY <1>1, <1>2
  <2>4. list[2].timestamp <= t
    BY <1>7, <2>1, <2>2, <2>3
  <2>5. PriceAt(key, t) \in Int
    BY <1>5, <2>1, <2>4
  <2>6. QED
    BY <1>6, <2>1, <2>5
<1>14. \A k \in m .. n : p[k] \in Int
  BY <1>1, <1>2, <1>6
<1>15. StepFunction(m, n, b, p, F)
  BY <1>10, <1>11, <1>12, <1>13, <1>14 DEF StepFunction
<1>16. QED
  BY <1>15 DEF n

\* Over rounds in order the average is answered, and is the mean over the time.
LEMMA AverageIsMean ==
    ASSUME FeedInv, NEW key \in Keys, NEW interval \in Intervals,
           Latest(key) > 2, InOrder(key), interval \in 1 .. now,
           ReadPriceData(key)[2].timestamp < now
    PROVE  /\ GetTwapPriceDefined(key, interval)
           /\ GetTwapPrice(key, interval)
                = TimeAverage(key, Max({now - interval, ReadPriceData(key)[2].timestamp}))
<1> DEFINE list == ReadPriceData(key)
           n == Latest(key)
           base == now - interval
           first == list[2].timestamp
           from == Max({base, first})
           answer == GetTwapPrice(key, interval)
<1>1. /\ History(list) /\ n = Len(list) /\ n \in Nat /\ n > 2 /\ now \in Nat
      /\ \A k \in 1 .. n : list[k].timestamp \in Nat /\ list[k].price \in Nat
      /\ \A i, j \in 2 .. n : i < j => list[i].timestamp <= list[j].timestamp
  BY ReadIsHistory DEF Latest, FeedInv, TypeOK, InOrder, Submitted
<1>2. /\ interval \in Nat \ {0} /\ now >= interval /\ base \in Int /\ base < now
      /\ now - base = interval
  BY <1>1
<1>3. first \in Nat /\ first < now
  BY <1>1
<1>4. from = IF base <= first THEN first ELSE base
  BY <1>2, <1>3, MaxOfTwo
<1>5. GetPrice(key) = list[n] /\ GetPrice(key).round_id # 0 /\ GetPrice(key).round_id # 1
  BY <1>1, ReadIsHistory DEF GetPrice
<1>6. LatestAlone(key, base) <=> list[n].timestamp < base
  BY <1>5 DEF LatestAlone
<1>7. CASE list[n].timestamp < base
  <2>1. GetTwapPriceDefined(key, interval)
    BY <1>2, <1>5, <1>6, <1>7, Zenon DEF GetTwapPriceDefined
  <2>2. answer = GetPrice(key).price
    BY <1>6, <1>7, Zenon DEF GetTwapPrice
  <2>3. from = base
    <3>1. first <= list[n].timestamp /\ list[n].timestamp \in Nat
      BY <1>1
    <3>2. QED
      BY <1>2, <1>3, <1>4, <1>7, <3>1
  <2>4. TimeAverage(key, base) = GetPrice(key).price
    BY <1>1, <1>7, AverageOfOne
  <2>5. QED
    BY <2>1, <2>2, <2>3, <2>4, Zenon
<1>8. CASE ~(list[n].timestamp < base)
  <2>1. PICK m \in Int : WalkEndsAt(list, base, m)
    BY <1>1, <1>2, WalkEnds
  <2>2. /\ m \in 2 .. n - 1 /\ m \in 2 .. n /\ m \in 1 .. n
        /\ Visited(list, base) = m .. n
        /\ m = 2 \/ list[m].timestamp <= base
    BY <1>1, <2>1 DEF WalkEndsAt
  <2>3. Min(Visited(list, base)) = m
    <3>1. m .. n \subseteq Int /\ m \in m .. n /\ \A y \in m .. n : m <= y
      BY <1>1, <2>2
    <3>2. Min(m .. n) = m
      BY <3>1, MinIs
    <3>3. QED
      BY <2>2, <3>2, Zenon
  <2> DEFINE b == Boundary(list, base, m)
             p == [k \in m .. n |-> list[k].price]
             v == [k \in m .. n |-> list[k].price * Lasted(list, base, k)]
             F == [second \in from .. now - 1 |-> PriceAt(key, second)]
             period == IF list[m].timestamp <= base THEN interval ELSE now - list[m].timestamp
  <2>4. /\ \A k \in m .. n + 1 : b[k] \in Int
        /\ \A k \in m .. n : Lasted(list, base, k) = b[k + 1] - b[k]
    BY <1>1, <1>2, <2>1, LastedIsBetweenBoundaries
  <2>5. /\ b[n + 1] = now
        /\ b[m] = IF list[m].timestamp <= base THEN base ELSE list[m].timestamp
    BY <1>1, <2>2 DEF Boundary
  <2>6. list[m].timestamp \in Nat /\ first <= list[m].timestamp
        /\ (m = 2 => first = list[m].timestamp)
    <3>1. list[m].timestamp \in Nat
      BY <1>1, <2>2
    <3>2. CASE m = 2
      BY <3>1, <3>2
    <3>3. CASE m # 2
      <4>1. 2 \in 2 .. n /\ 2 < m
        BY <1>1, <2>2, <3>3
      <4>2. QED
        BY <1>1, <2>2, <3>1, <3>3, <4>1
    <3>4. QED
      BY <3>2, <3>3
  <2> HIDE DEF first, from, base, b, answer, n
  <2>7. from = b[m] /\ from < now /\ list[m].timestamp # now /\ period = now - from
    <3>1. CASE list[m].timestamp <= base
      <4>1. b[m] = base /\ first <= base /\ period = interval
        BY <1>2, <1>3, <2>5, <2>6, <3>1
      <4>2. from = base
        BY <1>2, <1>3, <1>4, <4>1
      <4>3. QED
        BY <1>1, <1>2, <2>6, <3>1, <4>1, <4>2
    <3>2. CASE ~(list[m].timestamp <= base)
      <4>1. m = 2 /\ b[m] = first /\ base <= first /\ list[m].timestamp = first
        BY <1>2, <1>3, <2>2, <2>5, <2>6, <3>2
      <4>2. from = first
        BY <1>4, <4>1
      <4>3. QED
        BY <1>1, <1>3, <3>2, <4>1, <4>2
    <3>3. QED
      BY <3>1, <3>2
  <2>8. from \in Int
    BY <1>2, <1>3, <1>4
  <2> HIDE DEF period
  <2>9. \A k \in m .. n : v[k] = p[k] * (b[k + 1] - b[k])
    BY <2>4
  <2>10. \A k \in m .. n : p[k] = list[k].price
    OBVIOUS
  <2>11. \A t \in b[m] .. now - 1 : F[t] = PriceAt(key, t)
    BY <2>7
  <2>12. SumFunction(F) = SumFunctionOnSet(F, from .. now - 1)
    <3>1. DOMAIN F = from .. now - 1
      OBVIOUS
    <3> HIDE DEF F
    <3>2. QED
      BY <3>1, Zenon DEF SumFunction
  <2>13. SumFunction(v) = SumFunctionOnSet(v, m .. n)
    <3>1. DOMAIN v = m .. n
      OBVIOUS
    <3> HIDE DEF v
    <3>2. QED
      BY <3>1, Zenon DEF SumFunction
  <2>14. TimeAverage(key, from) = SumFunction(F) \div (now - from)
    BY Zenon DEF TimeAverage
  <2> HIDE DEF F, p
  <2>15. StepFunction(m, n, b, p, F)
    <3>1. base <= now /\ list[n].timestamp >= base
      <4>1. n \in 1 .. n
        BY <1>1
      <4>2. list[n].timestamp \in Nat
        BY <1>1, <4>1
      <4>3. QED
        BY <1>1, <1>2, <1>8, <4>2
    <3>2. \A k \in m .. Latest(key) : p[k] = ReadPriceData(key)[k].price
      BY <2>10 DEF n
    <3>3. QED
      BY <1>1, <1>2, <2>1, <2>11, <3>1, <3>2, BoundariesInOrder DEF b, n
  <2>16. \A k \in m .. n : Lasted(list, base, k) >= 0
    <3>1. SUFFICES ASSUME NEW k \in m .. n PROVE Lasted(list, base, k) >= 0
      OBVIOUS
    <3>2. k \in m .. n + 1 /\ k + 1 \in m .. n + 1
      BY <1>1
    <3>3. b[k] <= b[k + 1] /\ b[k] \in Int /\ b[k + 1] \in Int
      BY <2>4, <2>15, <3>2 DEF StepFunction
    <3>4. QED
      BY <2>4, <3>3
  <2>17. GetTwapPriceDefined(key, interval)
    BY <1>2, <1>5, <2>2, <2>3, <2>7, <2>16, Zenon DEF GetTwapPriceDefined, base
  <2>18. answer = SumFunction(v) \div period
    BY <1>6, <1>8, <2>2, <2>3, Zenon DEF GetTwapPrice, answer, period, base
  <2> HIDE DEF v
  <2>19. SumFunctionOnSet(v, m .. n) = SumFunctionOnSet(F, b[m] .. b[n + 1] - 1)
    BY <1>1, <2>2, <2>9, <2>15, SumOfSteps
  <2>20. SumFunction(v) = SumFunction(F)
    BY <2>5, <2>7, <2>12, <2>13, <2>19, Zenon
  <2>21. answer = TimeAverage(key, from)
    BY <2>7, <2>14, <2>18, <2>20, Zenon
  <2>22. QED
    BY <2>17, <2>21, Zenon DEF answer, from, base, first
<1>9. QED
  BY <1>7, <1>8

\* The backward walk computes the mean price over time.
THEOREM FeedAveragesOverTime == Spec => []TwapIsTimeAverage
<1>1. FeedInv => TwapIsTimeAverage
  BY AverageIsMean DEF TwapIsTimeAverage
<1>2. QED
  BY <1>1, FeedInvHolds, PTL
=============================================================================

------------------------------- MODULE MCVamm -------------------------------
(* Small instances of Vamm for TLC: one engine, one fund, one owner.       *)
EXTENDS Vamm, SignedInteger

CONSTANTS Owner, Engine, Fund,      \* model values
          Ratios, Intervals         \* the fluctuation limits and TWAP intervals asked for

ConfigWith(ratio, interval) ==
    [margin_engine |-> Engine, insurance_fund |-> Fund,
     fluctuation_limit_ratio |-> ratio, spot_price_twap_interval |-> interval]

MCAccounts == {Owner, Engine, Fund}
MCInitialConfig ==
    [ConfigWith(CHOOSE r \in Ratios : \A s \in Ratios : r >= s, CHOOSE i \in Intervals : TRUE)
        EXCEPT !.margin_engine = NoAccount]
\* The last one, with a ratio above 1, must be refused.
MCConfigChoices ==
    {ConfigWith(r, i) : r \in Ratios \union {Decimals + 1}, i \in Intervals}

\* The owner is not moved about in the runs that explore trading.
OwnerStays == owner = Owner

\* The traders never hold more than half of the base reserve, net, either way.
SmallPositions == total_position_size \in -(InitialBase \div 2) .. InitialBase \div 2

\* What OperatorProofs proves of all signed integers, of the small ones.
SmallIntegers == {i \in [value: 0 .. 3, negative: BOOLEAN] : i \in Integer}
ASSUME SmallIntegersAreIntegers ==
    \A a, b \in SmallIntegers :
        LET m == ToInt(a)
            n == ToInt(b)
        IN  /\ AddDefined(a, b) =>
                  /\ {checked_add(a, b), add(a, b)} \subseteq Integer
                  /\ ToInt(checked_add(a, b)) = m + n /\ ToInt(add(a, b)) = m + n
            /\ SubDefined(a, b) =>
                  ToInt(checked_sub(a, b)) = m - n /\ ToInt(sub(a, b)) = m - n
            /\ MulDefined(a, b) => ToInt(mul(a, b)) = m * n
            /\ n > 0 => ToInt(div(a, b)) = TruncDiv(m, n)
            /\ Less(Stored(a), Stored(b)) <=> m < n
            /\ add(a, b) = NegativeZero <=> a.negative /\ m + n = 0

=============================================================================

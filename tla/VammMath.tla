------------------------------ MODULE VammMath ------------------------------
(***************************************************************************)
(* The arithmetic of the virtual AMM (contracts/margined_vamm): Uint128    *)
(* quantities scaled by `Decimals', every multiplication and addition      *)
(* checked, every division truncating.  An operator XDefined states when   *)
(* the code that computes X returns Ok; when it does not hold the code     *)
(* returns an error or panics and the transaction is rolled back.          *)
(***************************************************************************)
EXTENDS Integers

CONSTANTS Decimals,   \* config.decimals: the representation of 1
          MaxUint     \* the largest Uint128

ASSUME DecimalsAssumption == Decimals \in Nat \ {0}
ASSUME MaxUintAssumption == MaxUint \in Nat

AddToAmm == "add_to_amm"
RemoveFromAmm == "remove_from_amm"
Direction == {AddToAmm, RemoveFromAmm}

\* Mutant: the two reserves move the same way.
FlipNot(direction) == direction
Flip(direction) == IF direction = AddToAmm THEN RemoveFromAmm ELSE AddToAmm

Uint == 0 .. MaxUint

-----------------------------------------------------------------------------

\* k = x * y, brought back to one factor of Decimals.
InvariantK(quote, base) == (quote * base) \div Decimals

\* The reserve the trader names an amount of, after the trade.
After(direction, amount, reserve) ==
    IF direction = AddToAmm THEN reserve + amount ELSE reserve - amount

Gap(x, y) == IF x > y THEN x - y ELSE y - x

modulo(a, b) == (a * Decimals) % b

\* Mutant: the remainder is not corrected for.
ExchangeTruncated(direction, amount, named, priced) ==
    LET k == InvariantK(named, priced)
    IN  Gap((k * Decimals) \div After(direction, amount, named), priced)

\* get_input_price_with_reserves and get_output_price_with_reserves are the
\* same computation with the two reserves exchanged: `amount' moves the
\* reserve `named', and the result is what moves the reserve `priced'.
Exchange(direction, amount, named, priced) ==
    LET k == InvariantK(named, priced)
        namedAfter == After(direction, amount, named)
        gap == Gap((k * Decimals) \div namedAfter, priced)
    IN  IF modulo(k, namedAfter) = 0 THEN gap
        ELSE IF direction = AddToAmm THEN gap - 1 ELSE gap + 1

\* The checked operations of Exchange: k, the new reserve (a division by it
\* follows, so it must not be 0) and the correction by one of the result.
ExchangeDefined(direction, amount, named, priced) ==
    /\ named * priced \in Uint
    /\ After(direction, amount, named) \in 1 .. MaxUint
    /\ Exchange(direction, amount, named, priced) \in Uint

GetInputPrice(direction, amount, quote, base) ==
    IF amount = 0 THEN 0 ELSE Exchange(direction, amount, quote, base)

GetInputPriceDefined(direction, amount, quote, base) ==
    amount # 0 => ExchangeDefined(direction, amount, quote, base)

GetOutputPrice(direction, amount, quote, base) ==
    IF amount = 0 THEN 0 ELSE Exchange(direction, amount, base, quote)

GetOutputPriceDefined(direction, amount, quote, base) ==
    amount # 0 => ExchangeDefined(direction, amount, base, quote)

-----------------------------------------------------------------------------

SpotPrice(quote, base) == (quote * Decimals) \div base

SpotPriceDefined(quote, base) == quote * Decimals \in Uint /\ base # 0

\* The price band a swap may move in, from the price the last block ended at.
UpperLimit(price, ratio) == (price * (Decimals + ratio)) \div Decimals
LowerLimit(price, ratio) == (price * (Decimals - ratio)) \div Decimals
WithinLimits(price, last, ratio) ==
    price \in LowerLimit(last, ratio) .. UpperLimit(last, ratio)

\* Integer::checked_div truncates toward zero; \div rounds down.
TruncDiv(a, b) == IF a >= 0 THEN a \div b ELSE -((-a) \div b)

=============================================================================

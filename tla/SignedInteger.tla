---------------------------- MODULE SignedInteger ----------------------------
(***************************************************************************)
(* The signed integers of margined_common: a Uint128 and a sign, so that   *)
(* there are two zeros.  The other modules compute with integers instead;  *)
(* OperatorProofs says how far that is the same.  XDefined is when X       *)
(* returns without an overflow or a division by zero.                      *)
(***************************************************************************)
EXTENDS VammMath

Integer == [value: Uint, negative: BOOLEAN]

new_positive(value) == [value |-> value, negative |-> FALSE]
new_negative(value) == [value |-> value, negative |-> TRUE]
zero == new_positive(0)
NegativeZero == new_negative(0)

\* The number that is meant.
ToInt(i) == IF i.negative THEN -i.value ELSE i.value

invert_sign(i) == [value |-> i.value, negative |-> ~i.negative]
abs(i) == new_positive(i.value)

\* checked_add: of a sum of different signs, that of the negative summand is
\* taken only when it is the larger one.
checked_add(a, b) ==
    LET plus == IF a.negative THEN b ELSE a
        minus == IF a.negative THEN a ELSE b
    IN  IF a.negative = b.negative
        THEN [value |-> a.value + b.value, negative |-> a.negative]
        ELSE IF plus.value >= minus.value
        THEN new_positive(plus.value - minus.value)
        ELSE new_negative(minus.value - plus.value)
AddDefined(a, b) == a.negative = b.negative => a.value + b.value \in Uint

checked_sub(a, b) == checked_add(a, invert_sign(b))
SubDefined(a, b) == AddDefined(a, invert_sign(b))

\* The operator `+': the sign is that of the first summand unless the second
\* one is larger.
add(a, b) ==
    IF a.negative = b.negative
    THEN [value |-> a.value + b.value, negative |-> a.negative]
    ELSE IF a.value >= b.value
    THEN [value |-> a.value - b.value, negative |-> a.negative]
    ELSE [value |-> b.value - a.value, negative |-> b.negative]
sub(a, b) == add(a, invert_sign(b))

mul(a, b) == [value |-> a.value * b.value, negative |-> a.negative # b.negative]
MulDefined(a, b) == a.value * b.value \in Uint

div(a, b) == [value |-> a.value \div b.value, negative |-> a.negative # b.negative]
DivDefined(a, b) == b.value # 0

\* cmp: whatever is negative is less than whatever is not; `==' is derived, so
\* that the two zeros differ.
Less(a, b) ==
    \/ a.negative /\ ~b.negative
    \/ ~a.negative /\ ~b.negative /\ a.value < b.value
    \/ a.negative /\ b.negative /\ b.value < a.value

\* What is read back of an integer that was written to storage, or to an
\* attribute of a reply: fmt writes no sign before a zero.
Stored(i) == IF i.value = 0 THEN zero ELSE i

=============================================================================

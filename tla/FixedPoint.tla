------------------------------- MODULE FixedPoint -------------------------------
(***************************************************************************)
(* threads/fixed_point.c: fractions kept in an int, in units of 1/Mask.    *)
(* An int wraps around as the compiled code does; the products of two      *)
(* fractions are computed in an int64_t, which is wide enough not to.      *)
(***************************************************************************)
EXTENDS Integers

CONSTANTS
  Mask,        \* FIXED_POINT_MASK, 2^14 in the code
  IntMax       \* INT_MAX, 2^31 - 1 in the code

ASSUME FixedPointAssumption ==
  /\ Mask \in Nat \ {0} /\ Mask % 2 = 0
  /\ IntMax \in Nat /\ IntMax >= Mask

Int32 == -(IntMax + 1) .. IntMax

\* The conversion of a number to an int.
Wrap(x) == ((x + IntMax + 1) % (2 * (IntMax + 1))) - (IntMax + 1)

\* C's division rounds towards zero, TLA+'s downwards.
Quotient(x, y) ==
  LET ax == IF x < 0 THEN -x ELSE x
      ay == IF y < 0 THEN -y ELSE y
  IN  IF (x < 0) = (y < 0) THEN ax \div ay ELSE -(ax \div ay)

convert_to_fixed_point(n) == Wrap(n * Mask)
convert_to_int_to_nearest(x) ==
  Quotient(Wrap(IF x >= 0 THEN x + Mask \div 2 ELSE x - Mask \div 2), Mask)

add_fixed_and_fixed(x, y) == Wrap(x + y)
add_fixed_and_int(x, n) == Wrap(x + n * Mask)
substract_fixed_and_fixed(x, y) == Wrap(x - y)
multiply_fixed_and_fixed(x, y) == Wrap(Quotient(x * y, Mask))
multiply_fixed_and_int(x, n) == Wrap(x * n)
divide_fixed_and_fixed(x, y) == Wrap(Quotient(x * Mask, y))
divide_fixed_and_int(x, n) == Wrap(Quotient(x, n))
================================================================================

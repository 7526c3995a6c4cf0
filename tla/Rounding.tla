------------------------------ MODULE Rounding -------------------------------
(***************************************************************************)
(* Rounding a quotient to the nearest whole number, as Decimal.quantize    *)
(* with ROUND_HALF_EVEN rounds a value to its quantum.                     *)
(***************************************************************************)
EXTENDS Integers

\* a / b for b > 0: a tie goes to the even neighbour.
HalfEven(a, b) ==
    LET floor == a \div b
        twice == 2 * (a % b)
    IN  IF twice > b \/ (twice = b /\ floor % 2 = 1) THEN floor + 1 ELSE floor
=============================================================================

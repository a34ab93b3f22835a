------------------------------- MODULE Floats -------------------------------
(***************************************************************************)
(* f64 arithmetic on a coarse grid: a float is an integer of at most a     *)
(* few significant bits, or one of the two infinities, or NaN.  Results    *)
(* are rounded to the nearest float, ties to the even one, and overflow to *)
(* infinity, so an addition may lose its smaller operand and a running sum *)
(* drifts, as it does in the program.                                      *)
(***************************************************************************)
EXTENDS Integers

CONSTANTS
    Exact,      \* 2^53: up to here every integer is a float
    Largest     \* f64::MAX

Abs(x) == IF x < 0 THEN -x ELSE x

\* The distance between two floats around a.
Ulp(a) == LET k == CHOOSE k \in 0 .. a : /\ a <= Exact * 2^k
                                         /\ k = 0 \/ a > Exact * 2^(k - 1)
          IN  2^k

\* Largest is the last float before a power of two times Exact.
ASSUME FloatAssumption ==
    /\ Exact \in Nat \ {0}
    /\ Largest \in Nat /\ Largest >= Exact
    /\ Largest % Ulp(Largest) = 0
    /\ Ulp(Largest + Ulp(Largest)) = Ulp(Largest)

\* The three values that are not finite.
PosInf == Largest + 1
NegInf == -PosInf
NaN == Largest + 2

IsFinite(x) == Abs(x) <= Largest

\* The nearest float of a natural number, and of an integer.
Nearest(a) ==
    LET u == Ulp(a)
        q == a \div u
        up == 2 * (a % u) > u \/ (2 * (a % u) = u /\ q % 2 = 1)
    IN  IF up THEN (q + 1) * u ELSE q * u
Round(x) ==
    LET a == Nearest(Abs(x))
    IN  CASE a > Largest /\ x > 0 -> PosInf
          [] a > Largest /\ x < 0 -> NegInf
          [] OTHER -> IF x < 0 THEN -a ELSE a

\* The infinities are kept unless they cancel.
Add(x, y) ==
    CASE IsFinite(x) /\ IsFinite(y) -> Round(x + y)
      [] x \in {PosInf, NegInf} /\ (IsFinite(y) \/ y = x) -> x
      [] y \in {PosInf, NegInf} /\ IsFinite(x) -> y
      [] OTHER -> NaN
Sub(x, y) == IF y = NaN THEN NaN ELSE Add(x, -y)

\* Division by a positive count.
Div(x, n) ==
    IF IsFinite(x)
    THEN LET a == Nearest((2 * Abs(x) + n) \div (2 * n))
         IN  IF x < 0 THEN -a ELSE a
    ELSE x

=============================================================================

---------------------------- MODULE LongDivision ----------------------------
(***************************************************************************)
(* What bn_div promises, on numbers instead of arrays: quotient digits     *)
(* from the most significant one down, each first estimated from below and *)
(* then corrected.  unit is the weight of the digit that was settled last. *)
(***************************************************************************)
EXTENDS Integers

CONSTANT Base   \* the base of the digits, at least 2

VARIABLES dividend, divisor,
          quotient,     \* the digits settled so far and the one under way
          remainder,    \* what is left of the dividend
          unit,         \* a power of Base
          corrections,  \* made to the current digit
          phase         \* "idle", "digit" or "correct"

vars == <<dividend, divisor, quotient, remainder, unit, corrections, phase>>

Init ==
    /\ dividend = 0 /\ divisor = 0
    /\ quotient = 0 /\ remainder = 0
    /\ unit = 1
    /\ corrections = 0
    /\ phase = "idle"

\* The first quotient digit has weight unit \div Base.
Start ==
    /\ phase = "idle"
    /\ dividend' \in Nat /\ divisor' \in Nat \ {0} /\ unit' \in Nat \ {0}
    /\ dividend' < divisor' * unit'
    /\ quotient' = 0 /\ remainder' = dividend'
    /\ corrections' = 0
    /\ phase' = "digit"

\* An estimate that is not too large, and too small by two at most.
EstimateDigit ==
    /\ phase = "digit"
    /\ unit' \in Nat \ {0} /\ unit' * Base = unit
    /\ \E digit \in 0..(Base - 1) :
         /\ digit * (divisor * unit') <= remainder
         /\ remainder < (digit + 3) * (divisor * unit')
         /\ quotient' = quotient + digit * unit'
         /\ remainder' = remainder - digit * (divisor * unit')
    /\ corrections' = 0
    /\ phase' = "correct"
    /\ UNCHANGED <<dividend, divisor>>

CorrectDigit ==
    /\ phase = "correct"
    /\ remainder >= divisor * unit
    /\ quotient' = quotient + unit
    /\ remainder' = remainder - divisor * unit
    /\ corrections' = corrections + 1
    /\ UNCHANGED <<dividend, divisor, unit, phase>>

SettleDigit ==
    /\ phase = "correct"
    /\ remainder < divisor * unit
    /\ phase' = "digit"
    /\ UNCHANGED <<dividend, divisor, quotient, remainder, unit, corrections>>

Finish ==
    /\ phase = "digit"
    /\ unit = 1
    /\ phase' = "idle"
    /\ UNCHANGED <<dividend, divisor, quotient, remainder, unit, corrections>>

Next == Start \/ EstimateDigit \/ CorrectDigit \/ SettleDigit \/ Finish

Spec == Init /\ [][Next]_vars
-----------------------------------------------------------------------------
\* A finished division leaves the quotient and a remainder smaller than the
\* divisor (bn_div: "a = b / c, d = b % c").
Divided ==
    phase = "idle" /\ divisor # 0 =>
        /\ dividend = quotient * divisor + remainder
        /\ remainder \in 0..(divisor - 1)

\* No digit needs more than two corrections.
TwoCorrections == corrections <= 2
=============================================================================

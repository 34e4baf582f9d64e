-------------------------------- MODULE Clock --------------------------------
(***************************************************************************)
(* The time and the random bytes of hal.c: timeX turns the EFI_TIME of the *)
(* real time clock into seconds since 1970, rand makes the next number     *)
(* from a seed, and generate_rand (rsa.c) seeds rand with the time for     *)
(* every single byte.  Times end before time_t, 32 bits wide, overflows in *)
(* 2038.                                                                   *)
(***************************************************************************)
EXTENDS Integers

LastYear == 2037

\* GetTime fails; the code treats that as it does a year before 1970.
NoTime == [year |-> 0, month |-> 1, day |-> 1, hour |-> 0, minute |-> 0,
           second |-> 0, zone |-> 0]

Unspecified == 2047     \* EFI_UNSPECIFIED_TIMEZONE

\* EFI_TIME, as far as the code looks at it.
Times == [year : {0} \cup 1900..LastYear, month : 1..12, day : 1..31,
          hour : 0..23, minute : 0..59, second : 0..59, zone : Int]

\* Mutant: centuries are never leap years.
IsLeapJulianCenturies(y) == y % 4 = 0 /\ y % 100 # 0

IsLeap(y) == y % 4 = 0 /\ (y % 100 # 0 \/ y % 400 = 0)

\* Days before the first of a month; the whole year at 13.
CumulativeDays(y) ==
    LET leap == IF IsLeap(y) THEN 1 ELSE 0
    IN  <<0, 31, 59 + leap, 90 + leap, 120 + leap, 151 + leap, 181 + leap,
          212 + leap, 243 + leap, 273 + leap, 304 + leap, 334 + leap,
          365 + leap>>

\* The loop over the years.
DaysBefore[y \in 1970..LastYear] ==
    IF y = 1970 THEN 0 ELSE DaysBefore[y - 1] + CumulativeDays(y - 1)[13]

timeX(t) ==
    IF t.year < 1970 THEN 0
    ELSE (DaysBefore[t.year] + CumulativeDays(t.year)[t.month]
            + (IF t.day > 0 THEN t.day - 1 ELSE 0)) * 86400
         + (IF t.zone = Unspecified THEN 0 ELSE t.zone * 60)
         + t.hour * 3600 + t.minute * 60 + t.second

\* What the clock shows one second later.
DaysIn(y, m) ==
    IF m = 2 THEN (IF (y % 4 = 0 /\ y % 100 # 0) \/ y % 400 = 0 THEN 29 ELSE 28)
    ELSE IF m \in {4, 6, 9, 11} THEN 30 ELSE 31

\* A day of the calendar, or no time at all.
Valid(t) == t \in Times /\ (t.year = 0 => t = NoTime) /\ t.day <= DaysIn(t.year, t.month)

NextSecond(t) ==
    LET At(y, mo, d, h, mi, s) ==
            [year |-> y, month |-> mo, day |-> d, hour |-> h, minute |-> mi,
             second |-> s, zone |-> t.zone]
        Y == t.year
        M == t.month
        D == t.day
    IN  IF Y = 0 THEN t
        ELSE IF t.second < 59 THEN At(Y, M, D, t.hour, t.minute, t.second + 1)
        ELSE IF t.minute < 59 THEN At(Y, M, D, t.hour, t.minute + 1, 0)
        ELSE IF t.hour < 23 THEN At(Y, M, D, t.hour + 1, 0, 0)
        ELSE IF D < DaysIn(Y, M) THEN At(Y, M, D + 1, 0, 0, 0)
        ELSE IF M < 12 THEN At(Y, M + 1, 1, 0, 0, 0)
        ELSE At(Y + 1, 1, 1, 0, 0, 0)

-----------------------------------------------------------------------------
MaxRand == 2147483647   \* RAND_MAX, 2^31 - 1

\* Mutant: the seed 0 is not replaced.
randOfZero(next) ==
    LET x == 16807 * (next % 127773) - 2836 * (next \div 127773)
    IN  IF x < 0 THEN x + MaxRand ELSE x

\* srand (next); rand ()
rand(next) ==
    LET seed == IF next = 0 THEN 123459876 ELSE next
        x == 16807 * (seed % 127773) - 2836 * (seed \div 127773)
    IN  IF x < 0 THEN x + MaxRand ELSE x

\* Mutant: the number is not cut to a byte.
generate_randWide(t) == rand(timeX(t))

\* generate_rand (&byte, 1)
generate_rand(t) == rand(timeX(t)) % 256
=============================================================================

------------------------------- MODULE MCSeal -------------------------------
(***************************************************************************)
(* An instance of Seal for TLC: blocks of 8 bytes, digests of 3.           *)
(***************************************************************************)
EXTENDS Seal

MCModulus == <<204, 0, 0, 0, 0, 0, 0, 0>>

\* A permutation of the blocks below the modulus that moves every byte.
MCPublicBlock(b) ==
    [k \in 1..ModulusLen |->
        IF k = 1 THEN (b[1] + 77) % 204 ELSE (b[ModulusLen + 2 - k] + 31 * k) % 256]

MCPrivateBlock(b) ==
    [k \in 1..ModulusLen |->
        IF k = 1 THEN (b[1] + 127) % 204
        ELSE LET j == ModulusLen + 2 - k IN (b[j] - 31 * j) % 256]

MCSizes == 1..13

MCHashes == {<<0, 9, 255>>, <<171, 0, 0>>, <<1, 44, 32>>}

At(y, mo, d, h, mi, s, z) ==
    [year |-> y, month |-> mo, day |-> d, hour |-> h, minute |-> mi,
     second |-> s, zone |-> z]

Midnight(y, mo, d) == At(y, mo, d, 23, 59, 58, 0)

\* The seconds before number 256, whose byte is zero, in two time zones; the
\* ends of all months of a common year; leap days and the ends of years; a
\* clock before 1970, and none at all.
MCStartTimes ==
    {At(1970, 1, 1, 0, 4, 14, Unspecified), At(1970, 1, 1, 0, 0, 15, 4),
     NoTime, Midnight(1969, 12, 31)}
    \cup {Midnight(2023, m, DaysIn(2023, m)) : m \in 1..12}
    \cup {Midnight(2024, 2, 28), Midnight(2024, 2, 29), Midnight(2000, 2, 29),
          Midnight(2024, 12, 31), Midnight(2036, 12, 31)}

MCOtherMessages == {<< >>, <<0>>, <<255, 1, 0, 7>>, <<1, 2, 3, 4, 5>>}

MCEndings == {<< >>, <<10>>, <<13, 10>>}
=============================================================================

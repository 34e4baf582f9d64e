------------------------------- MODULE Loops --------------------------------
(***************************************************************************)
(* What the loops over a list make of its first n elements, as recursive   *)
(* functions of n.  SelectSeq, FlattenSeq and the folds give the same      *)
(* values behind the last pass; here every pass has one, so that a loop of *)
(* a model can be compared with it (Induction has the facts).              *)
(***************************************************************************)
EXTENDS Integers, Sequences

\* The elements of s that are in S, in their order.
SelectUpTo(s, S) ==
    LET chosen[n \in 0..Len(s)] ==
            IF n = 0 THEN << >>
            ELSE IF s[n] \in S THEN Append(chosen[n - 1], s[n])
            ELSE chosen[n - 1]
    IN  chosen

Select(s, S) == SelectUpTo(s, S)[Len(s)]

\* The sequences that are the elements of ss, one behind the other.
JoinUpTo(ss) ==
    LET joined[n \in 0..Len(ss)] ==
            IF n = 0 THEN << >> ELSE joined[n - 1] \o ss[n]
    IN  joined

Join(ss) == JoinUpTo(ss)[Len(ss)]

\* The sum of a sequence of numbers.
TotalUpTo(s) ==
    LET total[n \in 0..Len(s)] ==
            IF n = 0 THEN 0 ELSE total[n - 1] + s[n]
    IN  total

Total(s) == TotalUpTo(s)[Len(s)]
=============================================================================

----------------------------- MODULE Induction ------------------------------
(***************************************************************************)
(* Induction over the natural numbers, the existence of functions defined  *)
(* by recursion over them, and what the loops of module Loops compute.     *)
(* All of it is said without operator parameters, which the provers cannot *)
(* instantiate: a property is the set of the numbers that have it, and     *)
(* what a pass of a loop does is a function.  It rests on the well-founded *)
(* order of the numbers, of which the library knows WFMin.                 *)
(***************************************************************************)
EXTENDS Loops, SequenceTheorems, WellFoundedInduction, TLAPS

\* A set that has 0 and with every number its successor has all numbers.
LEMMA SetInduction ==
    ASSUME NEW S, 0 \in S, \A n \in Nat : n \in S => n + 1 \in S
    PROVE  \A n \in Nat : n \in S
<1> DEFINE T == {n \in Nat : n \notin S}
           R == {ss \in Nat \X Nat : ss[1] < ss[2]}
<1>1. IsWellFoundedOn(R, Nat)
  BY NatLessThanWellFounded DEF OpToRel
<1>2. SUFFICES ASSUME T # {} PROVE FALSE
  OBVIOUS
<1>3. PICK x \in T : \A y \in T : <<y, x>> \notin R
  <2>1. T \subseteq Nat
    OBVIOUS
  <2> HIDE DEF R, T
  <2> QED
    BY <1>1, <1>2, <2>1, WFMin, Zenon
<1>4. \A y \in T : ~(y < x)
  BY <1>3
<1>5. x # 0 /\ x - 1 \in Nat /\ x - 1 \notin T
  BY <1>4, SMT
<1>6. x \in S
  BY <1>5, SMT
<1> QED
  BY <1>6

\* What holds at 0 and is handed on from k to k + 1 holds up to n.
LEMMA BoundedInduction ==
    ASSUME NEW N \in Nat, NEW S,
           0 \in S, \A k \in 0..(N - 1) : k \in S => k + 1 \in S
    PROVE  \A k \in 0..N : k \in S
<1> DEFINE T == {n \in Nat : n <= N => n \in S}
<1>1. 0 \in T
  OBVIOUS
<1>2. \A n \in Nat : n \in T => n + 1 \in T
  BY SMT
<1> HIDE DEF T
<1>3. \A n \in Nat : n \in T
  BY <1>1, <1>2, SetInduction, Zenon
<1> QED
  BY <1>3, SMT DEF T

\* The values of a loop of n passes: pass k makes g[k] of g[k - 1].
IsLoop(g, n, base, F) ==
    /\ g[0] = base
    /\ \A k \in 1..n : g[k] = F[<<g[k - 1], k>>]

\* Whatever the passes do, there are such values.
LEMMA LoopExists ==
    ASSUME NEW N \in Nat, NEW S, NEW base \in S, NEW F \in [S \X (1..N) -> S]
    PROVE  \E g \in [0..N -> S] : IsLoop(g, N, base, F)
<1> DEFINE Up == {n \in 0..N : \E g \in [0..n -> S] : IsLoop(g, n, base, F)}
<1>1. 0 \in Up
  <2>1. PICK g \in [0..0 -> S] : g = [k \in 0..0 |-> base]
    OBVIOUS
  <2>2. 0 \in 0..0 /\ 1..0 = {} /\ 0 \in 0..N
    BY SMT
  <2>3. g[0] = base
    BY <2>1, <2>2
  <2> QED
    BY <2>2, <2>3 DEF IsLoop
<1>2. ASSUME NEW n \in 0..(N - 1), n \in Up
      PROVE  n + 1 \in Up
  <2>1. PICK g \in [0..n -> S] : /\ g[0] = base
                                 /\ \A k \in 1..n : g[k] = F[<<g[k - 1], k>>]
    BY <1>2 DEF IsLoop
  <2>2. /\ n \in 0..n /\ 0 \in 0..n /\ n + 1 \in 1..N /\ n + 1 \in 0..N
        /\ n + 1 # 0 /\ n + 1 \notin 0..n
    BY SMT
  <2> DEFINE next == F[<<g[n], n + 1>>]
             h == [k \in 0..(n + 1) |-> IF k = n + 1 THEN next ELSE g[k]]
  <2>3. next \in S
    <3>1. <<g[n], n + 1>> \in S \X (1..N)
      BY <2>2
    <3> QED
      BY <3>1
  <2>4. \A k \in 0..(n + 1) : k = n + 1 \/ k \in 0..n
    BY SMT
  <2> HIDE DEF next
  <2>5. h \in [0..(n + 1) -> S]
    BY <2>3, <2>4
  <2>6. \A k \in 0..n : h[k] = g[k]
    <3>1. \A k \in 0..n : k \in 0..(n + 1) /\ k # n + 1
      BY SMT
    <3> QED
      BY <3>1
  <2>7. h[n + 1] = next
    <3>1. n + 1 \in 0..(n + 1)
      BY SMT
    <3> QED
      BY <3>1
  <2> HIDE DEF h
  <2>8. ASSUME NEW k \in 1..(n + 1)
        PROVE  h[k] = F[<<h[k - 1], k>>]
    <3>1. CASE k = n + 1
      <4>1. k - 1 = n
        BY <3>1, SMT
      <4>2. h[k - 1] = g[n]
        BY <2>2, <2>6, <4>1
      <4> QED
        BY <2>7, <3>1, <4>2 DEF next
    <3>2. CASE k # n + 1
      <4>1. k \in 1..n /\ k \in 0..n /\ k - 1 \in 0..n
        BY <3>2, SMT
      <4>2. h[k] = g[k] /\ h[k - 1] = g[k - 1]
        BY <2>6, <4>1
      <4> QED
        BY <2>1, <4>1, <4>2
    <3> QED
      BY <3>1, <3>2
  <2>9. h[0] = base
    BY <2>1, <2>2, <2>6
  <2> QED
    BY <2>2, <2>5, <2>8, <2>9 DEF IsLoop
<1> HIDE DEF Up
<1>3. \A k \in 0..N : k \in Up
  BY <1>1, <1>2, BoundedInduction, Zenon
<1>4. N \in Up
  BY <1>3, SMT
<1> QED
  BY <1>4 DEF Up

\* A function that takes these steps as long as its values are in S has all of
\* them in S.
LEMMA LoopType ==
    ASSUME NEW N \in Nat, NEW S, NEW f, f[0] \in S,
           \A n \in 1..N : f[n - 1] \in S => f[n] \in S
    PROVE  \A n \in 0..N : f[n] \in S
<1> DEFINE Good == {n \in 0..N : f[n] \in S}
<1>1. 0 \in Good
  BY SMT
<1>2. \A n \in 0..(N - 1) : n \in Good => n + 1 \in Good
  <2>1. SUFFICES ASSUME NEW n \in 0..(N - 1), n \in Good PROVE n + 1 \in Good
    OBVIOUS
  <2>2. n + 1 \in 1..N /\ n + 1 \in 0..N /\ (n + 1) - 1 = n
    BY SMT
  <2> QED
    BY <2>1, <2>2
<1> HIDE DEF Good
<1>3. \A n \in 0..N : n \in Good
  BY <1>1, <1>2, BoundedInduction, Zenon
<1> QED
  BY <1>3 DEF Good

-----------------------------------------------------------------------------
(* The loops of Loops.  A recursive function is the CHOOSE of a function    *)
(* that satisfies its equation: LoopExists says that there is one.          *)

\* Choosing the elements that are in S.
LEMMA SelectLoop ==
    ASSUME NEW T, NEW s \in Seq(T), NEW S
    PROVE  /\ SelectUpTo(s, S)[0] = << >>
           /\ \A n \in 1..Len(s) :
                SelectUpTo(s, S)[n] =
                    IF s[n] \in S
                    THEN Append(SelectUpTo(s, S)[n - 1], s[n])
                    ELSE SelectUpTo(s, S)[n - 1]
           /\ \A n \in 0..Len(s) : SelectUpTo(s, S)[n] \in Seq(T)
<1> DEFINE N == Len(s)
           V == Seq(T)
           base == << >>
           Pass(v, n) == IF s[n] \in S THEN Append(v, s[n]) ELSE v
           F == [x \in V \X (1..N) |-> Pass(x[1], x[2])]
           Is(f) == f = [n \in 0..N |-> IF n = 0 THEN base
                                        ELSE Pass(f[n - 1], n)]
<1>1. \A v \in V, n \in 1..N : Pass(v, n) \in V
  BY SMT
<1>2. N \in Nat /\ base \in V
  OBVIOUS
<1>3. SelectUpTo(s, S) = CHOOSE f : Is(f)
  BY DEF SelectUpTo
<1> HIDE DEF V, N, base, Pass
<1>4. /\ F \in [V \X (1..N) -> V]
      /\ \A v \in V, n \in 1..N : F[<<v, n>>] = Pass(v, n)
  BY <1>1
<1> HIDE DEF F
<1>5. PICK g \in [0..N -> V] : IsLoop(g, N, base, F)
  BY <1>2, <1>4, LoopExists
<1>6. /\ \A n \in 1..N : n - 1 \in 0..N /\ n \in 0..N /\ n # 0
      /\ \A n \in 0..N : n = 0 \/ n \in 1..N
      /\ 0 \in 0..N
  BY <1>2, SMT
<1>7. Is(g)
  BY <1>4, <1>5, <1>6 DEF IsLoop
<1>8. PICK f : f = SelectUpTo(s, S) /\ Is(f)
  BY <1>3, <1>7
<1>9. f[0] = base /\ \A n \in 1..N : f[n] = Pass(f[n - 1], n)
  BY <1>6, <1>8
<1>10. \A n \in 0..N : f[n] \in V
  BY <1>1, <1>2, <1>9, LoopType
<1> QED
  BY <1>8, <1>9, <1>10, Zenon DEF N, V, base, Pass

\* Joining sequences.
LEMMA JoinLoop ==
    ASSUME NEW T, NEW ss \in Seq(Seq(T))
    PROVE  /\ JoinUpTo(ss)[0] = << >>
           /\ \A n \in 1..Len(ss) :
                JoinUpTo(ss)[n] = JoinUpTo(ss)[n - 1] \o ss[n]
           /\ \A n \in 0..Len(ss) : JoinUpTo(ss)[n] \in Seq(T)
<1> DEFINE N == Len(ss)
           V == Seq(T)
           base == << >>
           Pass(v, n) == v \o ss[n]
           F == [x \in V \X (1..N) |-> Pass(x[1], x[2])]
           Is(f) == f = [n \in 0..N |-> IF n = 0 THEN base
                                        ELSE Pass(f[n - 1], n)]
<1>1. \A v \in V, n \in 1..N : Pass(v, n) \in V
  BY SMT
<1>2. N \in Nat /\ base \in V
  OBVIOUS
<1>3. JoinUpTo(ss) = CHOOSE f : Is(f)
  BY DEF JoinUpTo
<1> HIDE DEF V, N, base, Pass
<1>4. /\ F \in [V \X (1..N) -> V]
      /\ \A v \in V, n \in 1..N : F[<<v, n>>] = Pass(v, n)
  BY <1>1
<1> HIDE DEF F
<1>5. PICK g \in [0..N -> V] : IsLoop(g, N, base, F)
  BY <1>2, <1>4, LoopExists
<1>6. /\ \A n \in 1..N : n - 1 \in 0..N /\ n \in 0..N /\ n # 0
      /\ \A n \in 0..N : n = 0 \/ n \in 1..N
      /\ 0 \in 0..N
  BY <1>2, SMT
<1>7. Is(g)
  BY <1>4, <1>5, <1>6 DEF IsLoop
<1>8. PICK f : f = JoinUpTo(ss) /\ Is(f)
  BY <1>3, <1>7
<1>9. f[0] = base /\ \A n \in 1..N : f[n] = Pass(f[n - 1], n)
  BY <1>6, <1>8
<1>10. \A n \in 0..N : f[n] \in V
  BY <1>1, <1>2, <1>9, LoopType
<1> QED
  BY <1>8, <1>9, <1>10, Zenon DEF N, V, base, Pass

\* Adding numbers.
LEMMA TotalLoop ==
    ASSUME NEW s \in Seq(Nat)
    PROVE  /\ TotalUpTo(s)[0] = 0
           /\ \A n \in 1..Len(s) :
                TotalUpTo(s)[n] = TotalUpTo(s)[n - 1] + s[n]
           /\ \A n \in 0..Len(s) : TotalUpTo(s)[n] \in Nat
<1> DEFINE N == Len(s)
           V == Nat
           base == 0
           Pass(v, n) == v + s[n]
           F == [x \in V \X (1..N) |-> Pass(x[1], x[2])]
           Is(f) == f = [n \in 0..N |-> IF n = 0 THEN base
                                        ELSE Pass(f[n - 1], n)]
<1>1. \A v \in V, n \in 1..N : Pass(v, n) \in V
  BY SMT
<1>2. N \in Nat /\ base \in V
  OBVIOUS
<1>3. TotalUpTo(s) = CHOOSE f : Is(f)
  BY DEF TotalUpTo
<1> HIDE DEF V, N, base, Pass
<1>4. /\ F \in [V \X (1..N) -> V]
      /\ \A v \in V, n \in 1..N : F[<<v, n>>] = Pass(v, n)
  BY <1>1
<1> HIDE DEF F
<1>5. PICK g \in [0..N -> V] : IsLoop(g, N, base, F)
  BY <1>2, <1>4, LoopExists
<1>6. /\ \A n \in 1..N : n - 1 \in 0..N /\ n \in 0..N /\ n # 0
      /\ \A n \in 0..N : n = 0 \/ n \in 1..N
      /\ 0 \in 0..N
  BY <1>2, SMT
<1>7. Is(g)
  BY <1>4, <1>5, <1>6 DEF IsLoop
<1>8. PICK f : f = TotalUpTo(s) /\ Is(f)
  BY <1>3, <1>7
<1>9. f[0] = base /\ \A n \in 1..N : f[n] = Pass(f[n - 1], n)
  BY <1>6, <1>8
<1>10. \A n \in 0..N : f[n] \in V
  BY <1>1, <1>2, <1>9, LoopType
<1> QED
  BY <1>8, <1>9, <1>10, Zenon DEF N, V, base, Pass

-----------------------------------------------------------------------------
(* What the loops have computed behind the last pass. *)

\* What is chosen comes from the sequence, and nothing is chosen only when
\* nothing is in S.
LEMMA SelectMembers ==
    ASSUME NEW T, NEW s \in Seq(T), NEW S
    PROVE  /\ Select(s, S) \in Seq(T)
           /\ \A k \in 1..Len(Select(s, S)) :
                \E i \in 1..Len(s) : Select(s, S)[k] = s[i] /\ s[i] \in S
           /\ Select(s, S) = << >> <=> \A i \in 1..Len(s) : s[i] \notin S
<1> DEFINE N == Len(s)
           From(c) == \A k \in 1..Len(c) : \E i \in 1..N : c[k] = s[i] /\ s[i] \in S
           Good == {n \in 0..N :
                      /\ From(SelectUpTo(s, S)[n])
                      /\ SelectUpTo(s, S)[n] = << >>
                           <=> \A i \in 1..n : s[i] \notin S}
<1>1. N \in Nat
  OBVIOUS
<1>2. PICK f : f = SelectUpTo(s, S)
  OBVIOUS
<1>3. /\ f[0] = << >>
      /\ \A n \in 1..N : f[n] = IF s[n] \in S THEN Append(f[n - 1], s[n])
                                ELSE f[n - 1]
      /\ \A n \in 0..N : f[n] \in Seq(T)
  BY <1>2, SelectLoop
<1>4. 0 \in Good
  <2>1. From(<< >>) /\ 1..0 = {} /\ 0 \in 0..N
    BY <1>1
  <2> HIDE DEF From
  <2> QED
    BY <1>2, <1>3, <2>1
<1>5. ASSUME NEW n \in 0..(N - 1), n \in Good
      PROVE  n + 1 \in Good
  <2>1. /\ n + 1 \in 1..N /\ n + 1 \in 0..N /\ (n + 1) - 1 = n /\ n \in 0..N
        /\ \A i \in 1..(n + 1) : i = n + 1 \/ i \in 1..n
        /\ n + 1 \in 1..(n + 1) /\ \A i \in 1..n : i \in 1..(n + 1)
    BY <1>1, SMT
  <2>2. /\ From(f[n])
        /\ f[n] = << >> <=> \A i \in 1..n : s[i] \notin S
    BY <1>2, <1>5
  <2>3. f[n + 1] = IF s[n + 1] \in S THEN Append(f[n], s[n + 1]) ELSE f[n]
    BY <1>3, <2>1, Zenon
  <2>4. CASE s[n + 1] \in S
    <3> DEFINE c == f[n]
               e == s[n + 1]
    <3>1. c \in Seq(T) /\ e \in T
      BY <1>3, <2>1
    <3> HIDE DEF c, e
    <3>2. /\ Append(c, e) # << >>
          /\ Len(Append(c, e)) = Len(c) + 1
          /\ \A i \in 1..Len(c) : Append(c, e)[i] = c[i]
          /\ Append(c, e)[Len(c) + 1] = e
      BY <3>1, AppendProperties
    <3>3. \A k \in 1..(Len(c) + 1) : k = Len(c) + 1 \/ k \in 1..Len(c)
      BY <3>1, LenProperties, SMT
    <3>4. From(Append(c, e))
      BY <2>1, <2>2, <2>4, <3>2, <3>3 DEF c, e
    <3>5. f[n + 1] = Append(c, e)
      BY <2>3, <2>4 DEF c, e
    <3> HIDE DEF From
    <3> QED
      BY <1>2, <2>1, <2>4, <3>2, <3>4, <3>5, Zenon
  <2>5. CASE s[n + 1] \notin S
    <3>1. f[n + 1] = f[n]
      BY <2>3, <2>5
    <3> HIDE DEF From
    <3> QED
      BY <1>2, <2>1, <2>2, <2>5, <3>1, Zenon
  <2> QED
    BY <2>4, <2>5, Zenon
<1> HIDE DEF From, N
<1>6. Good = {n \in 0..N : /\ From(f[n])
                           /\ f[n] = << >> <=> \A i \in 1..n : s[i] \notin S}
  BY <1>2
<1> HIDE DEF Good
<1>7. \A n \in 0..N : n \in Good
  BY <1>1, <1>4, <1>5, BoundedInduction, Zenon
<1>8. N \in 0..N
  BY <1>1, SMT
<1>9. f[N] = Select(s, S)
  BY <1>2 DEF N, Select
<1>10. Select(s, S) \in Seq(T)
  BY <1>3, <1>8, <1>9
<1>11. /\ From(Select(s, S))
       /\ Select(s, S) = << >> <=> \A i \in 1..N : s[i] \notin S
  BY <1>6, <1>7, <1>8, <1>9, Zenon
<1> QED
  BY <1>10, <1>11, Zenon DEF From, N

\* A number more.
LEMMA TotalAppend ==
    ASSUME NEW s \in Seq(Nat), NEW x \in Nat
    PROVE  Total(s) \in Nat /\ Total(Append(s, x)) = Total(s) + x
<1> DEFINE N == Len(s)
           t == Append(s, x)
           Good == {n \in 0..N : TotalUpTo(t)[n] = TotalUpTo(s)[n]}
<1>1. /\ N \in Nat /\ t \in Seq(Nat) /\ Len(t) = N + 1
      /\ \A i \in 1..N : t[i] = s[i]
      /\ t[N + 1] = x
  BY AppendProperties, LenProperties
<1>2. PICK f : f = TotalUpTo(s)
  OBVIOUS
<1>3. PICK g : g = TotalUpTo(t)
  OBVIOUS
<1>4. /\ f[0] = 0
      /\ \A n \in 1..N : f[n] = f[n - 1] + s[n]
      /\ \A n \in 0..N : f[n] \in Nat
  BY <1>2, TotalLoop, Zenon
<1> HIDE DEF t
<1>5. /\ g[0] = 0
      /\ \A n \in 1..(N + 1) : g[n] = g[n - 1] + t[n]
  BY <1>1, <1>3, TotalLoop, Zenon
<1> HIDE DEF N
<1>6. Good = {n \in 0..N : g[n] = f[n]}
  BY <1>2, <1>3
<1> HIDE DEF Good
<1>7. 0 \in Good
  <2>1. 0 \in 0..N
    BY <1>1, SMT
  <2> QED
    BY <1>4, <1>5, <1>6, <2>1
<1>8. ASSUME NEW n \in 0..(N - 1), n \in Good
      PROVE  n + 1 \in Good
  <2>1. /\ n + 1 \in 1..N /\ n + 1 \in 0..N /\ (n + 1) - 1 = n
        /\ n + 1 \in 1..(N + 1)
    BY <1>1, SMT
  <2> QED
    BY <1>1, <1>4, <1>5, <1>6, <1>8, <2>1
<1>9. \A n \in 0..N : n \in Good
  BY <1>1, <1>7, <1>8, BoundedInduction, Zenon
<1>10. N \in 0..N /\ N + 1 \in 1..(N + 1) /\ (N + 1) - 1 = N
  BY <1>1, SMT
<1>11. g[N] = f[N] /\ g[N + 1] = g[N] + x /\ f[N] \in Nat
  BY <1>1, <1>4, <1>5, <1>6, <1>9, <1>10, Zenon
<1>12. f[N] = Total(s) /\ g[N + 1] = Total(t)
  BY <1>1, <1>2, <1>3, Zenon DEF Total, N
<1> QED
  BY <1>11, <1>12, Zenon DEF t

\* Choosing from two sequences, one behind the other.
LEMMA SelectConcat ==
    ASSUME NEW T, NEW s \in Seq(T), NEW t \in Seq(T), NEW S
    PROVE  Select(s \o t, S) = Select(s, S) \o Select(t, S)
<1> DEFINE M == Len(s)
           N == Len(t)
           u == s \o t
<1>1. /\ u \in Seq(T) /\ Len(u) = M + N /\ M \in Nat /\ N \in Nat
      /\ \A i \in 1..M : u[i] = s[i]
      /\ \A i \in 1..N : u[M + i] = t[i]
  <2>1. /\ u \in Seq(T) /\ Len(u) = M + N
        /\ \A i \in 1..(M + N) : u[i] = IF i <= M THEN s[i] ELSE t[i - M]
    BY ConcatProperties, Zenon
  <2>2. M \in Nat /\ N \in Nat
    BY LenProperties
  <2> HIDE DEF M, N, u
  <2>3. \A i \in 1..M : i \in 1..(M + N) /\ i <= M
    BY <2>2, SMT
  <2>4. \A i \in 1..N : M + i \in 1..(M + N) /\ ~(M + i <= M) /\ (M + i) - M = i
    BY <2>2, SMT
  <2> QED
    BY <2>1, <2>2, <2>3, <2>4
<1>2. PICK f : f = SelectUpTo(s, S)
  OBVIOUS
<1>3. PICK g : g = SelectUpTo(t, S)
  OBVIOUS
<1>4. PICK h : h = SelectUpTo(u, S)
  OBVIOUS
<1>5. /\ f[0] = << >>
      /\ \A n \in 1..M : f[n] = IF s[n] \in S THEN Append(f[n - 1], s[n])
                                ELSE f[n - 1]
      /\ \A n \in 0..M : f[n] \in Seq(T)
  <2>1. /\ SelectUpTo(s, S)[0] = << >>
        /\ \A n \in 1..Len(s) :
             SelectUpTo(s, S)[n] =
                 IF s[n] \in S THEN Append(SelectUpTo(s, S)[n - 1], s[n])
                 ELSE SelectUpTo(s, S)[n - 1]
        /\ \A n \in 0..Len(s) : SelectUpTo(s, S)[n] \in Seq(T)
    BY SelectLoop
  <2> QED
    BY <1>2, <2>1
<1>6. /\ g[0] = << >>
      /\ \A n \in 1..N : g[n] = IF t[n] \in S THEN Append(g[n - 1], t[n])
                                ELSE g[n - 1]
      /\ \A n \in 0..N : g[n] \in Seq(T)
  <2>1. /\ SelectUpTo(t, S)[0] = << >>
        /\ \A n \in 1..Len(t) :
             SelectUpTo(t, S)[n] =
                 IF t[n] \in S THEN Append(SelectUpTo(t, S)[n - 1], t[n])
                 ELSE SelectUpTo(t, S)[n - 1]
        /\ \A n \in 0..Len(t) : SelectUpTo(t, S)[n] \in Seq(T)
    BY SelectLoop
  <2> QED
    BY <1>3, <2>1
<1> HIDE DEF u
<1>7. /\ h[0] = << >>
      /\ \A n \in 1..(M + N) : h[n] = IF u[n] \in S THEN Append(h[n - 1], u[n])
                                      ELSE h[n - 1]
  <2>1. /\ h[0] = << >>
        /\ \A n \in 1..Len(u) : h[n] = IF u[n] \in S THEN Append(h[n - 1], u[n])
                                       ELSE h[n - 1]
    BY <1>1, <1>4, SelectLoop
  <2> QED
    BY <1>1, <2>1, Zenon
<1>8. /\ f[M] = Select(s, S) /\ g[N] = Select(t, S)
      /\ h[M + N] = Select(u, S)
  BY <1>1, <1>2, <1>3, <1>4, Zenon DEF Select
<1> HIDE DEF M, N
<1> DEFINE First == {n \in 0..M : h[n] = f[n]}
<1>9. 0 \in First
  BY <1>1, <1>5, <1>7, SMT
<1>10. ASSUME NEW n \in 0..(M - 1), n \in First PROVE n + 1 \in First
  <2>1. /\ n + 1 \in 1..M /\ n + 1 \in 1..(M + N) /\ (n + 1) - 1 = n
        /\ n + 1 \in 0..M
    BY <1>1, SMT
  <2>2. h[n] = f[n]
    BY <1>10
  <2>3. u[n + 1] = s[n + 1]
    BY <1>1, <2>1
  <2>4. h[n + 1] = IF s[n + 1] \in S THEN Append(f[n], s[n + 1]) ELSE f[n]
    BY <1>7, <2>1, <2>2, <2>3, Zenon
  <2>5. f[n + 1] = IF s[n + 1] \in S THEN Append(f[n], s[n + 1]) ELSE f[n]
    BY <1>5, <2>1, Zenon
  <2>6. h[n + 1] = f[n + 1]
    BY <2>4, <2>5
  <2> QED
    BY <2>1, <2>6
<1>11. h[M] = f[M]
  <2> HIDE DEF First
  <2>1. \A n \in 0..M : n \in First
    BY <1>1, <1>9, <1>10, BoundedInduction, Zenon
  <2>2. M \in 0..M
    BY <1>1, SMT
  <2> QED
    BY <2>1, <2>2 DEF First
<1> DEFINE Second == {n \in 0..N : h[M + n] = f[M] \o g[n]}
<1>12. 0 \in Second
  <2>1. M + 0 = M /\ 0 \in 0..N /\ M \in 0..M
    BY <1>1, SMT
  <2>2. f[M] \o << >> = f[M]
    BY <1>5, <2>1, ConcatEmptySeq
  <2> QED
    BY <1>6, <1>11, <2>1, <2>2
<1>13. ASSUME NEW n \in 0..(N - 1), n \in Second PROVE n + 1 \in Second
  <2>1. /\ n + 1 \in 1..N /\ M + (n + 1) \in 1..(M + N) /\ (n + 1) - 1 = n
        /\ n + 1 \in 0..N /\ (M + (n + 1)) - 1 = M + n /\ n \in 0..N
        /\ M \in 0..M
    BY <1>1, SMT
  <2>2. h[M + n] = f[M] \o g[n]
    BY <1>13
  <2>3. u[M + (n + 1)] = t[n + 1] /\ t[n + 1] \in T
    <3>1. t[n + 1] \in T
      BY <2>1, ElementOfSeq DEF N
    <3> QED
      BY <1>1, <2>1, <3>1
  <2>4. h[M + (n + 1)] = IF t[n + 1] \in S THEN Append(f[M] \o g[n], t[n + 1])
                         ELSE f[M] \o g[n]
    BY <1>7, <2>1, <2>2, <2>3
  <2>5. f[M] \o Append(g[n], t[n + 1]) = Append(f[M] \o g[n], t[n + 1])
    <3> DEFINE x == f[M]
               y == g[n]
               e == t[n + 1]
    <3>1. x \in Seq(T) /\ y \in Seq(T) /\ e \in T
      BY <1>5, <1>6, <2>1, <2>3
    <3> HIDE DEF x, y, e
    <3>2. x \o y \in Seq(T) /\ <<e>> \in Seq(T)
      BY <3>1, ConcatProperties
    <3>3. Append(x \o y, e) = (x \o y) \o <<e>> /\ Append(y, e) = y \o <<e>>
      BY <3>1, <3>2, AppendIsConcat, Zenon
    <3>4. (x \o y) \o <<e>> = x \o (y \o <<e>>)
      BY <3>1, <3>2, ConcatAssociative, SMT
    <3> QED
      BY <3>3, <3>4 DEF x, y, e
  <2>6. g[n + 1] = IF t[n + 1] \in S THEN Append(g[n], t[n + 1]) ELSE g[n]
    BY <1>6, <2>1, Zenon
  <2>7. h[M + (n + 1)] = f[M] \o g[n + 1]
    BY <2>4, <2>5, <2>6, Zenon
  <2> QED
    BY <2>1, <2>7
<1>14. h[M + N] = f[M] \o g[N]
  <2> HIDE DEF Second
  <2>1. \A n \in 0..N : n \in Second
    BY <1>1, <1>12, <1>13, BoundedInduction, Zenon
  <2>2. N \in 0..N
    BY <1>1, SMT
  <2> QED
    BY <2>1, <2>2 DEF Second
<1> QED
  BY <1>8, <1>14 DEF u

\* A sequence inside S is chosen as a whole.
LEMMA SelectWhole ==
    ASSUME NEW T, NEW s \in Seq(T), NEW S,
           \A i \in 1..Len(s) : s[i] \in S
    PROVE  Select(s, S) = s
<1> DEFINE N == Len(s)
           Good == {n \in 0..N : /\ Len(SelectUpTo(s, S)[n]) = n
                                 /\ \A i \in 1..n : SelectUpTo(s, S)[n][i] = s[i]}
<1>1. N \in Nat
  BY LenProperties
<1>2. PICK f : f = SelectUpTo(s, S)
  OBVIOUS
<1>3. /\ f[0] = << >>
      /\ \A n \in 1..N : f[n] = Append(f[n - 1], s[n])
      /\ \A n \in 0..N : f[n] \in Seq(T)
  BY <1>2, SelectLoop
<1>4. Good = {n \in 0..N : Len(f[n]) = n /\ \A i \in 1..n : f[n][i] = s[i]}
  BY <1>2
<1> HIDE DEF Good
<1>5. 0 \in Good
  <2>1. 0 \in 0..N /\ 1..0 = {} /\ Len(<< >>) = 0
    BY <1>1, SMT
  <2> QED
    BY <1>3, <1>4, <2>1
<1>6. ASSUME NEW n \in 0..(N - 1), n \in Good PROVE n + 1 \in Good
  <2>1. /\ n + 1 \in 1..N /\ n + 1 \in 0..N /\ (n + 1) - 1 = n /\ n \in 0..N
        /\ \A i \in 1..(n + 1) : i = n + 1 \/ i \in 1..n
    BY <1>1, SMT
  <2> DEFINE c == f[n]
             e == s[n + 1]
  <2>2. /\ c \in Seq(T) /\ Len(c) = n /\ \A i \in 1..n : c[i] = s[i]
        /\ e \in T /\ f[n + 1] = Append(c, e)
    <3>1. e \in T
      BY <2>1, ElementOfSeq
    <3>2. f[n + 1] = Append(f[n], s[n + 1])
      BY <1>3, <2>1, Zenon
    <3> QED
      BY <1>3, <1>4, <1>6, <2>1, <3>1, <3>2
  <2>3. e = s[n + 1]
    OBVIOUS
  <2> HIDE DEF c, e
  <2>4. /\ Len(Append(c, e)) = Len(c) + 1
        /\ \A i \in 1..Len(c) : Append(c, e)[i] = c[i]
        /\ Append(c, e)[Len(c) + 1] = e
    BY <2>2, AppendProperties, Zenon
  <2> DEFINE d == Append(c, e)
  <2> HIDE DEF d
  <2>5. /\ f[n + 1] = d /\ Len(d) = Len(c) + 1
        /\ \A i \in 1..Len(c) : d[i] = c[i]
        /\ d[Len(c) + 1] = e
    BY <2>2, <2>4, Zenon DEF d
  <2>6. Len(f[n + 1]) = n + 1 /\ \A i \in 1..(n + 1) : f[n + 1][i] = s[i]
    BY <2>1, <2>2, <2>3, <2>5, Zenon
  <2> QED
    BY <1>4, <2>1, <2>6, Zenon
<1>7. N \in Good
  <2>1. \A n \in 0..N : n \in Good
    BY <1>1, <1>5, <1>6, BoundedInduction, Zenon
  <2>2. N \in 0..N
    BY <1>1, SMT
  <2> QED
    BY <2>1, <2>2
<1>8. f[N] = s
  <2>1. f[N] \in Seq(T) /\ Len(f[N]) = N /\ \A i \in 1..N : f[N][i] = s[i]
    BY <1>3, <1>4, <1>7
  <2> DEFINE c == f[N]
  <2> HIDE DEF c
  <2>2. c \in Seq(T) /\ Len(c) = Len(s) /\ \A i \in 1..Len(s) : c[i] = s[i]
    BY <2>1 DEF c, N
  <2>3. c = s
    BY <2>2, SeqEqual
  <2> QED
    BY <2>3 DEF c
<1> QED
  BY <1>2, <1>8 DEF Select, N

\* Two places of a choice come from two places of the sequence.
LEMMA SelectApart ==
    ASSUME NEW T, NEW s \in Seq(T), NEW S
    PROVE  \A j, k \in 1..Len(Select(s, S)) :
             j # k => \E i, l \in 1..Len(s) :
                        /\ i # l
                        /\ s[i] = Select(s, S)[j] /\ s[l] = Select(s, S)[k]
<1> DEFINE N == Len(s)
           From(c, n) == \A k \in 1..Len(c) : \E i \in 1..n : s[i] = c[k]
           Apart(c, n) == \A j, k \in 1..Len(c) :
                            j # k => \E i, l \in 1..n :
                                       i # l /\ s[i] = c[j] /\ s[l] = c[k]
           Good == {n \in 0..N : From(SelectUpTo(s, S)[n], n)
                                 /\ Apart(SelectUpTo(s, S)[n], n)}
<1>1. N \in Nat
  BY LenProperties
<1>2. PICK f : f = SelectUpTo(s, S)
  OBVIOUS
<1>3. /\ f[0] = << >>
      /\ \A n \in 1..N : f[n] = IF s[n] \in S THEN Append(f[n - 1], s[n])
                                ELSE f[n - 1]
      /\ \A n \in 0..N : f[n] \in Seq(T)
  BY <1>2, SelectLoop
<1>4. Good = {n \in 0..N : From(f[n], n) /\ Apart(f[n], n)}
  BY <1>2
<1> HIDE DEF Good
<1>5. 0 \in Good
  <2>1. 0 \in 0..N /\ 1..0 = {} /\ 1..Len(<< >>) = {}
    BY <1>1, SMT
  <2>2. From(<< >>, 0) /\ Apart(<< >>, 0)
    BY <2>1, Zenon
  <2> HIDE DEF From, Apart
  <2> QED
    BY <1>3, <1>4, <2>1, <2>2
<1>6. ASSUME NEW n \in 0..(N - 1), n \in Good PROVE n + 1 \in Good
  <2>1. /\ n + 1 \in 1..N /\ n + 1 \in 0..N /\ (n + 1) - 1 = n /\ n \in 0..N
        /\ n + 1 \in 1..(n + 1) /\ \A i \in 1..n : i \in 1..(n + 1) /\ i # n + 1
    BY <1>1, SMT
  <2>2. From(f[n], n) /\ Apart(f[n], n) /\ f[n] \in Seq(T)
    BY <1>3, <1>4, <1>6, <2>1, Zenon
  <2>3. f[n + 1] = IF s[n + 1] \in S THEN Append(f[n], s[n + 1]) ELSE f[n]
    BY <1>3, <2>1, Zenon
  <2> DEFINE c == f[n]
             e == s[n + 1]
             d == Append(c, e)
  <2>4. From(c, n + 1) /\ Apart(c, n + 1)
    <3>1. \A i \in 1..n : i \in 1..(n + 1)
      BY <2>1, Zenon
    <3>2. From(c, n + 1)
      BY <2>2, <3>1, Zenon
    <3>3. Apart(c, n + 1)
      <4>1. SUFFICES ASSUME NEW j \in 1..Len(c), NEW k \in 1..Len(c), j # k
                     PROVE  \E i, l \in 1..(n + 1) :
                              i # l /\ s[i] = c[j] /\ s[l] = c[k]
        BY Zenon
      <4>2. PICK i, l \in 1..n : i # l /\ s[i] = c[j] /\ s[l] = c[k]
        BY <2>2, <4>1, Zenon
      <4> QED
        BY <3>1, <4>2, Zenon
    <3> QED
      BY <3>2, <3>3, Zenon
  <2>5. e \in T
    BY <2>1, ElementOfSeq
  <2>6. /\ From(c, n) /\ c \in Seq(T) /\ e = s[n + 1]
        /\ f[n + 1] = IF e \in S THEN d ELSE c
    BY <2>2, <2>3
  <2> HIDE DEF c, e
  <2>7. /\ Len(d) = Len(c) + 1
        /\ \A i \in 1..Len(c) : d[i] = c[i]
        /\ d[Len(c) + 1] = e
    BY <2>5, <2>6, AppendProperties
  <2>8. \A k \in 1..Len(d) : k = Len(c) + 1 \/ k \in 1..Len(c)
    BY <2>6, <2>7, LenProperties, SMT
  <2> HIDE DEF d
  <2>9. From(d, n + 1)
    BY <2>1, <2>4, <2>6, <2>7, <2>8, Zenon
  <2>10. Apart(d, n + 1)
    <3>1. SUFFICES ASSUME NEW j \in 1..Len(d), NEW k \in 1..Len(d), j # k
                   PROVE  \E i, l \in 1..(n + 1) :
                            i # l /\ s[i] = d[j] /\ s[l] = d[k]
      BY Zenon
    <3>2. CASE j \in 1..Len(c) /\ k \in 1..Len(c)
      <4>1. PICK i, l \in 1..(n + 1) : i # l /\ s[i] = c[j] /\ s[l] = c[k]
        BY <2>4, <3>1, <3>2
      <4>2. d[j] = c[j] /\ d[k] = c[k]
        BY <2>7, <3>2
      <4> QED
        BY <4>1, <4>2
    <3>3. CASE j = Len(c) + 1 /\ k \in 1..Len(c)
      <4>1. PICK l \in 1..n : s[l] = c[k]
        BY <2>6, <3>3
      <4> QED
        BY <2>1, <2>6, <2>7, <3>3, <4>1, Zenon
    <3>4. CASE k = Len(c) + 1 /\ j \in 1..Len(c)
      <4>1. PICK i \in 1..n : s[i] = c[j]
        BY <2>6, <3>4
      <4> QED
        BY <2>1, <2>6, <2>7, <3>4, <4>1, Zenon
    <3> QED
      BY <2>8, <3>1, <3>2, <3>3, <3>4, Zenon
  <2> HIDE DEF From, Apart
  <2> QED
    BY <1>4, <2>1, <2>4, <2>6, <2>9, <2>10
<1>7. N \in Good
  <2>1. \A n \in 0..N : n \in Good
    BY <1>1, <1>5, <1>6, BoundedInduction, Zenon
  <2>2. N \in 0..N
    BY <1>1, SMT
  <2> QED
    BY <2>1, <2>2
<1>8. Apart(f[N], N)
  <2> HIDE DEF Apart, From
  <2> QED
    BY <1>4, <1>7
<1>9. f[N] = Select(s, S)
  BY <1>2, Zenon DEF Select, N
<1> QED
  BY <1>8, <1>9 DEF N
=============================================================================

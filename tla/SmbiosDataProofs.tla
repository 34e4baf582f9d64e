-------------------------- MODULE SmbiosDataProofs --------------------------
(***************************************************************************)
(* What the SMBIOS loops collect, for every table and every type list: the *)
(* data of BoardData, in a buffer of their size, and why there are none.   *)
(***************************************************************************)
EXTENDS SmbiosData, Induction

Pieces == [id : Nat, clock : Nat, bytes : Nat]

\* The pieces d are those of q, of which some may be blanked when memory is
\* tight.
Near(m, d, q) ==
    /\ Len(d) = Len(q)
    /\ \A k \in 1..Len(d) : d[k] \in {q[k], Zeros(q[k].bytes)}
    /\ m = "ample" => d = q

\* The pieces of the first n types of a list, and with them the first i of the
\* type behind them.
Joined(tab, lst, n) == JoinUpTo(ListedPieces(tab, lst))[n]

Reached(tab, lst, n, i) ==
    Joined(tab, lst, n) \o SubSeq(PiecesOf(tab, lst[n + 1]), 1, i)

\* Before the processor id is found there is nothing.
Fresh ==
    pc = "cpu" =>
        /\ result = "null" /\ measured = "pending"
        /\ typeIndex = 1
        /\ data = << >> /\ capacity = 0 /\ sumSize = 0

\* While the structures are collected the buffer is as large as they are, and
\* the types that are done have some.
Building ==
    /\ pc \in {"types", "copy", "append"} =>
         /\ result = "null"
         /\ Present(table, Processor)
         /\ capacity = sumSize
         /\ sumSize = BytesOf(data)
         /\ \A t \in 1..(typeIndex - 1) : Present(table, list[t])
    /\ pc \in {"types", "copy"} => measured = "pending" /\ tempSize = CpuIdSize

\* What has been collected.
Collecting ==
    /\ pc = "types" => Near(memory, data, Joined(table, list, typeIndex - 1))
    /\ pc = "copy" =>
         /\ typeIndex <= Len(list)
         /\ CurrentType # << >>
         /\ index <= Len(CurrentType) + 1
         /\ Near(memory, data, Reached(table, list, typeIndex - 1, index - 1))

\* Whether all of it has, when the processor id is due.
Judged ==
    pc = "append" =>
        \/ /\ measured = "ok"
           /\ typeIndex = Len(list) + 1
           /\ tempSize = sumSize
           /\ Near(memory, data, Joined(table, list, Len(list)))
        \/ /\ measured = "failed"
           /\ tempSize = CpuIdSize
           /\ memory = "ample" =>
                typeIndex <= Len(list) /\ ~Present(table, list[typeIndex])

\* What is returned.
Returned ==
    /\ pc = "done" => BytesOf(data) <= capacity
    /\ pc = "done" /\ memory = "ample" /\ result = "null" =>
         ~Present(table, Processor)
    /\ result = "pool" =>
         /\ pc = "done"
         /\ Present(table, Processor)
         /\ size = capacity /\ BytesOf(data) = size

IInv ==
    /\ TypeOK
    /\ Fresh /\ Building /\ Collecting /\ Judged /\ Returned
    /\ Measurement
    /\ FaultCauses

-----------------------------------------------------------------------------
(* The operators. *)

\* The structures of a type come from the table, and there are none only when
\* the table has none.
LEMMA OfTypeFacts ==
    ASSUME NEW tab \in Seq(Structure), NEW type
    PROVE  /\ OfTypeIn(tab, type) \in Seq(Structure)
           /\ \A k \in 1..Len(OfTypeIn(tab, type)) :
                \E i \in 1..Len(tab) : OfTypeIn(tab, type)[k] = tab[i]
           /\ OfTypeIn(tab, type) = << >> <=> ~Present(tab, type)
<1> DEFINE S == {s \in Structure : s.type = type}
<1>1. OfTypeIn(tab, type) = Select(tab, S)
  BY DEF OfTypeIn
<1>2. \A i \in 1..Len(tab) : tab[i] \notin S <=> tab[i].type # type
  <2>1. \A i \in 1..Len(tab) : tab[i] \in Structure
    BY ElementOfSeq
  <2> QED
    BY <2>1, Zenon
<1>3. DOMAIN tab = 1..Len(tab)
  BY LenProperties
<1> HIDE DEF S
<1>4. /\ Select(tab, S) \in Seq(Structure)
      /\ \A k \in 1..Len(Select(tab, S)) :
           \E i \in 1..Len(tab) : Select(tab, S)[k] = tab[i] /\ tab[i] \in S
      /\ Select(tab, S) = << >> <=> \A i \in 1..Len(tab) : tab[i] \notin S
  BY SelectMembers
<1> QED
  BY <1>1, <1>2, <1>3, <1>4, Zenon DEF Present

\* InfoFilterFreq makes of a structure what BoardData wants of it.
LEMMA ClearedFacts ==
    ASSUME NEW s \in Structure
    PROVE  /\ Cleared(s) \in Pieces
           /\ Cleared(s).bytes = StructureSize(s)
           /\ Filtered(s) = Cleared(s)
           /\ StructureSize(s) \in Nat
           /\ Zeros(StructureSize(s)) \in Pieces
           /\ Zeros(StructureSize(s)).bytes = StructureSize(s)
  BY DEF Structure, Cleared, Filtered, Clocked, StructureSize, Zeros, Piece,
     Pieces

LEMMA PiecesFacts ==
    ASSUME NEW tab \in Seq(Structure), NEW type
    PROVE  /\ PiecesOf(tab, type) \in Seq(Pieces)
           /\ Len(PiecesOf(tab, type)) = Len(OfTypeIn(tab, type))
           /\ \A k \in 1..Len(OfTypeIn(tab, type)) :
                PiecesOf(tab, type)[k] = Cleared(OfTypeIn(tab, type)[k])
<1>1. PICK o : o = OfTypeIn(tab, type)
  OBVIOUS
<1>2. o \in Seq(Structure) /\ DOMAIN o = 1..Len(o) /\ Len(o) \in Nat
  BY <1>1, OfTypeFacts, LenProperties
<1>3. PiecesOf(tab, type) = [k \in 1..Len(o) |-> Cleared(o[k])]
  BY <1>1, <1>2 DEF PiecesOf
<1>4. \A k \in 1..Len(o) : Cleared(o[k]) \in Pieces
  BY <1>2, ElementOfSeq, ClearedFacts
<1> QED
  BY <1>1, <1>2, <1>3, <1>4

LEMMA ListedFacts ==
    ASSUME NEW tab \in Seq(Structure), NEW lst \in Seq(Nat)
    PROVE  /\ ListedPieces(tab, lst) \in Seq(Seq(Pieces))
           /\ Len(ListedPieces(tab, lst)) = Len(lst)
           /\ \A t \in 1..Len(lst) :
                ListedPieces(tab, lst)[t] = PiecesOf(tab, lst[t])
<1>1. DOMAIN lst = 1..Len(lst) /\ Len(lst) \in Nat
  BY LenProperties
<1>2. ListedPieces(tab, lst) = [t \in 1..Len(lst) |-> PiecesOf(tab, lst[t])]
  BY <1>1 DEF ListedPieces
<1>3. \A t \in 1..Len(lst) : PiecesOf(tab, lst[t]) \in Seq(Pieces)
  BY PiecesFacts
<1> QED
  BY <1>1, <1>2, <1>3

LEMMA JoinedFacts ==
    ASSUME NEW tab \in Seq(Structure), NEW lst \in Seq(Nat)
    PROVE  /\ Joined(tab, lst, 0) = << >>
           /\ \A n \in 1..Len(lst) :
                Joined(tab, lst, n) =
                    Joined(tab, lst, n - 1) \o PiecesOf(tab, lst[n])
           /\ \A n \in 0..Len(lst) : Joined(tab, lst, n) \in Seq(Pieces)
<1>1. PICK ss : ss = ListedPieces(tab, lst)
  OBVIOUS
<1>2. /\ ss \in Seq(Seq(Pieces)) /\ Len(ss) = Len(lst)
      /\ \A n \in 1..Len(lst) : ss[n] = PiecesOf(tab, lst[n])
  BY <1>1, ListedFacts
<1>3. /\ JoinUpTo(ss)[0] = << >>
      /\ \A n \in 1..Len(ss) : JoinUpTo(ss)[n] = JoinUpTo(ss)[n - 1] \o ss[n]
      /\ \A n \in 0..Len(ss) : JoinUpTo(ss)[n] \in Seq(Pieces)
  BY <1>2, JoinLoop, Zenon
<1> QED
  BY <1>1, <1>2, <1>3, Zenon DEF Joined

\* The next structure of a type goes behind what has been reached.
LEMMA ReachedFacts ==
    ASSUME NEW tab \in Seq(Structure), NEW lst \in Seq(Nat),
           NEW n \in 0..(Len(lst) - 1)
    PROVE  LET pieces == PiecesOf(tab, lst[n + 1]) IN
           /\ Reached(tab, lst, n, 0) = Joined(tab, lst, n)
           /\ \A i \in 1..Len(pieces) :
                Reached(tab, lst, n, i) =
                    Append(Reached(tab, lst, n, i - 1), pieces[i])
           /\ Reached(tab, lst, n, Len(pieces)) = Joined(tab, lst, n + 1)
           /\ \A i \in 0..Len(pieces) : Reached(tab, lst, n, i) \in Seq(Pieces)
<1> DEFINE P == PiecesOf(tab, lst[n + 1])
           J == Joined(tab, lst, n)
<1>1. n \in 0..Len(lst) /\ n + 1 \in 1..Len(lst) /\ (n + 1) - 1 = n
  <2>1. Len(lst) \in Nat
    BY LenProperties
  <2> QED
    BY <2>1, SMT
<1>2. P \in Seq(Pieces) /\ J \in Seq(Pieces) /\ Joined(tab, lst, n + 1) = J \o P
  BY <1>1, PiecesFacts, JoinedFacts, Zenon
<1>3. \A i : Reached(tab, lst, n, i) = J \o SubSeq(P, 1, i)
  BY DEF Reached
<1> HIDE DEF P, J
<1>4. Len(P) \in Nat /\ \A i \in 1..Len(P) : P[i] \in Pieces
  BY <1>2, LenProperties, ElementOfSeq
<1>5. \A i \in 0..Len(P) : SubSeq(P, 1, i) \in Seq(Pieces)
  <2>1. ASSUME NEW i \in 0..Len(P) PROVE SubSeq(P, 1, i) \in Seq(Pieces)
    <3>1. 1 \in Int /\ i \in Int /\ \A j \in 1..i : P[j] \in Pieces
      BY <1>4, SMT
    <3> QED
      BY <3>1, SubSeqProperties
  <2> QED
    BY <2>1
<1>6. J \o SubSeq(P, 1, 0) = J
  <2>1. SubSeq(P, 1, 0) = << >>
    BY SubSeqEmpty, SMT
  <2> QED
    BY <1>2, <2>1, ConcatEmptySeq
<1>7. J \o SubSeq(P, 1, Len(P)) = J \o P
  BY <1>2, SubSeqFull
<1>8. ASSUME NEW i \in 1..Len(P)
      PROVE  J \o SubSeq(P, 1, i) = Append(J \o SubSeq(P, 1, i - 1), P[i])
  <2>1. i - 1 \in 0..Len(P) /\ 1 \in 1..Len(P) /\ i \in 1..Len(P)
    BY <1>4, SMT
  <2>2. PICK q : q = SubSeq(P, 1, i - 1)
    OBVIOUS
  <2>3. q \in Seq(Pieces) /\ <<P[i]>> \in Seq(Pieces)
    BY <1>4, <1>5, <2>1, <2>2
  <2>4. SubSeq(P, 1, i) = q \o <<P[i]>>
    BY <1>2, <2>1, <2>2, SubSeqRecursiveSecond
  <2>5. J \o (q \o <<P[i]>>) = (J \o q) \o <<P[i]>>
    BY <1>2, <2>3, ConcatAssociative
  <2>6. J \o q \in Seq(Pieces)
    BY <1>2, <2>3, ConcatProperties
  <2>7. Append(J \o q, P[i]) = (J \o q) \o <<P[i]>>
    BY <1>4, <2>6, AppendIsConcat
  <2> QED
    BY <2>2, <2>4, <2>5, <2>7, Zenon
<1>9. \A i \in 0..Len(P) : J \o SubSeq(P, 1, i) \in Seq(Pieces)
  BY <1>2, <1>5, ConcatProperties
<1>10. /\ Reached(tab, lst, n, 0) = J
       /\ \A i \in 1..Len(P) :
            Reached(tab, lst, n, i) = Append(Reached(tab, lst, n, i - 1), P[i])
       /\ Reached(tab, lst, n, Len(P)) = J \o P
       /\ \A i \in 0..Len(P) : Reached(tab, lst, n, i) \in Seq(Pieces)
  BY <1>3, <1>6, <1>7, <1>8, <1>9, Zenon
<1> QED
  BY <1>2, <1>10, Zenon DEF P, J

\* Appending a piece, or the blank that stands for it.
LEMMA NearAppend ==
    ASSUME NEW m, NEW d \in Seq(Pieces), NEW q \in Seq(Pieces), Near(m, d, q),
           NEW x \in Pieces, NEW y \in Pieces,
           x \in {y, Zeros(y.bytes)}, m = "ample" => x = y
    PROVE  Near(m, Append(d, x), Append(q, y))
<1>1. /\ Len(Append(d, x)) = Len(d) + 1
      /\ \A k \in 1..Len(d) : Append(d, x)[k] = d[k]
      /\ Append(d, x)[Len(d) + 1] = x
  BY AppendProperties
<1>2. /\ Len(Append(q, y)) = Len(q) + 1
      /\ \A k \in 1..Len(q) : Append(q, y)[k] = q[k]
      /\ Append(q, y)[Len(q) + 1] = y
  BY AppendProperties
<1>3. \A k \in 1..(Len(d) + 1) : k = Len(d) + 1 \/ k \in 1..Len(d)
  <2>1. Len(d) \in Nat
    BY LenProperties
  <2> QED
    BY <2>1, SMT
<1>4. /\ Len(d) = Len(q)
      /\ \A k \in 1..Len(d) : d[k] \in {q[k], Zeros(q[k].bytes)}
      /\ m = "ample" => d = q
  BY DEF Near
<1>5. Len(Append(d, x)) = Len(Append(q, y))
  BY <1>1, <1>2, <1>4, Zenon
<1>6. ASSUME NEW k \in 1..Len(Append(d, x))
      PROVE  Append(d, x)[k] \in {Append(q, y)[k], Zeros(Append(q, y)[k].bytes)}
  <2>1. CASE k = Len(d) + 1
    BY <1>1, <1>2, <1>4, <2>1, Zenon
  <2>2. CASE k \in 1..Len(d)
    BY <1>1, <1>2, <1>4, <2>2, Zenon
  <2> QED
    BY <1>1, <1>3, <2>1, <2>2, Zenon
<1>7. m = "ample" => Append(d, x) = Append(q, y)
  BY <1>4, Zenon
<1> QED
  BY <1>5, <1>6, <1>7, Zenon DEF Near

\* The bytes of a buffer and a piece behind it.
LEMMA BytesFacts ==
    /\ BytesOf(<< >>) = 0
    /\ \A d \in Seq(Pieces), x \in Pieces :
         BytesOf(d) \in Nat /\ BytesOf(Append(d, x)) = BytesOf(d) + x.bytes
<1>0. \A p \in Pieces : p.bytes \in Nat
  BY DEF Pieces
<1>1. BytesOf(<< >>) = 0
  <2>1. [k \in DOMAIN << >> |-> << >>[k].bytes] = << >> /\ Len(<< >>) = 0
    OBVIOUS
  <2>2. << >> \in Seq(Nat)
    OBVIOUS
  <2>3. TotalUpTo(<< >>)[0] = 0
    BY <2>2, TotalLoop
  <2> QED
    BY <2>1, <2>3, Zenon DEF BytesOf, Total
<1>2. ASSUME NEW d \in Seq(Pieces), NEW x \in Pieces
      PROVE  BytesOf(d) \in Nat /\ BytesOf(Append(d, x)) = BytesOf(d) + x.bytes
  <2> DEFINE B(e) == [k \in DOMAIN e |-> e[k].bytes]
  <2>1. x.bytes \in Nat /\ \A k \in 1..Len(d) : d[k].bytes \in Nat
    BY <1>0, ElementOfSeq, Zenon
  <2>2. DOMAIN d = 1..Len(d) /\ Len(d) \in Nat
    BY LenProperties
  <2>3. B(d) \in Seq(Nat) /\ Len(B(d)) = Len(d)
    BY <2>1, <2>2
  <2>4. PICK e \in Seq(Pieces) : e = Append(d, x)
    BY AppendProperties
  <2>5. /\ Len(e) = Len(d) + 1
        /\ \A k \in 1..Len(d) : e[k] = d[k]
        /\ e[Len(d) + 1] = x
        /\ DOMAIN e = 1..(Len(d) + 1)
    BY <2>4, AppendProperties, LenProperties
  <2>6. B(e) \in Seq(Nat) /\ Append(B(d), x.bytes) \in Seq(Nat)
    <3>1. \A k \in 1..Len(e) : e[k].bytes \in Nat
      BY <1>0, ElementOfSeq, Zenon
    <3>2. DOMAIN e = 1..Len(e) /\ Len(e) \in Nat
      BY LenProperties
    <3>3. B(e) \in Seq(Nat)
      BY <3>1, <3>2
    <3> QED
      BY <2>1, <2>3, <3>3, AppendProperties
  <2>7. B(e) = Append(B(d), x.bytes)
    <3> DEFINE a == Append(B(d), x.bytes)
    <3>1. /\ Len(a) = Len(d) + 1
          /\ \A k \in 1..Len(d) : a[k] = d[k].bytes
          /\ a[Len(d) + 1] = x.bytes
      BY <2>1, <2>2, <2>3, AppendProperties
    <3>2. /\ DOMAIN a = 1..(Len(d) + 1)
          /\ a = [k \in DOMAIN a |-> a[k]]
      BY <2>6, <3>1, LenProperties
    <3> HIDE DEF a
    <3>3. \A k \in 1..(Len(d) + 1) : k = Len(d) + 1 \/ k \in 1..Len(d)
      BY <2>2, SMT
    <3>4. \A k \in 1..(Len(d) + 1) : a[k] = e[k].bytes
      BY <2>5, <3>1, <3>3, Zenon
    <3>5. B(e) = a
      <4>1. a = [k \in 1..(Len(d) + 1) |-> a[k]]
        BY <3>2, Zenon
      <4>2. B(e) = [k \in 1..(Len(d) + 1) |-> e[k].bytes]
        BY <2>5, Zenon
      <4>3. [k \in 1..(Len(d) + 1) |-> e[k].bytes]
              = [k \in 1..(Len(d) + 1) |-> a[k]]
        BY <3>4, Zenon
      <4> QED
        BY <4>1, <4>2, <4>3, Zenon
    <3> QED
      BY <3>5 DEF a
  <2>8. BytesOf(d) = Total(B(d)) /\ BytesOf(Append(d, x)) = Total(B(e))
    BY <2>4 DEF BytesOf
  <2> HIDE DEF B
  <2>9. Total(B(d)) \in Nat /\ Total(Append(B(d), x.bytes)) = Total(B(d)) + x.bytes
    BY <2>1, <2>3, TotalAppend
  <2> QED
    BY <2>7, <2>8, <2>9, Zenon
<1> QED
  BY <1>1, <1>2

\* The processor id behind the structures, or behind the zeros for them.
LEMMA CollectedFacts ==
    ASSUME NEW tab \in Seq(Structure), NEW lst \in Seq(Nat),
           Present(tab, Processor)
    PROVE  LET id == Piece(OfTypeIn(tab, Processor)[1].id, 0, CpuIdSize) IN
           /\ id \in Pieces
           /\ (\A t \in 1..Len(lst) : Present(tab, lst[t])) =>
                Collected(tab, lst) = Append(Joined(tab, lst, Len(lst)), id)
           /\ (\E t \in 1..Len(lst) : ~Present(tab, lst[t])) =>
                Collected(tab, lst) = Append(<<Zeros(CpuIdSize)>>, id)
<1>1. PICK o : o = OfTypeIn(tab, Processor)
  OBVIOUS
<1>2. o \in Seq(Structure) /\ o # << >>
  BY <1>1, OfTypeFacts
<1>3. o[1] \in Structure
  BY <1>2
<1>4. PICK id : id = Piece(o[1].id, 0, CpuIdSize)
  OBVIOUS
<1>5. id \in Pieces
  BY <1>3, <1>4, SmbiosAssumption, SMT DEF Structure, Piece, Pieces
<1>6. CpuId(tab) = <<id>>
  BY <1>1, <1>4 DEF CpuId
<1>7. DOMAIN lst = 1..Len(lst) /\ Len(lst) \in Nat
  BY LenProperties
<1>8. Join(ListedPieces(tab, lst)) = Joined(tab, lst, Len(lst))
  BY ListedFacts, Zenon DEF Join, Joined
<1>9. Joined(tab, lst, Len(lst)) \in Seq(Pieces)
  <2>1. Len(lst) \in 0..Len(lst)
    BY <1>7, SMT
  <2> QED
    BY <2>1, JoinedFacts
<1>10. Joined(tab, lst, Len(lst)) \o <<id>> = Append(Joined(tab, lst, Len(lst)), id)
  BY <1>5, <1>9, AppendIsConcat
<1>11. <<Zeros(CpuIdSize)>> \o <<id>> = Append(<<Zeros(CpuIdSize)>>, id)
  <2>1. Zeros(CpuIdSize) \in Pieces
    BY SmbiosAssumption, SMT DEF Zeros, Piece, Pieces
  <2>2. <<Zeros(CpuIdSize)>> \in Seq(Pieces)
    BY <2>1
  <2> QED
    BY <1>5, <2>2, AppendIsConcat
<1>12. (\A t \in 1..Len(lst) : Present(tab, lst[t])) =>
         Collected(tab, lst) = Append(Joined(tab, lst, Len(lst)), id)
  BY <1>6, <1>7, <1>8, <1>10, Zenon DEF Collected
<1>13. (\E t \in 1..Len(lst) : ~Present(tab, lst[t])) =>
         Collected(tab, lst) = Append(<<Zeros(CpuIdSize)>>, id)
  BY <1>6, <1>7, <1>11, Zenon DEF Collected
<1> QED
  BY <1>1, <1>4, <1>5, <1>12, <1>13, Zenon

-----------------------------------------------------------------------------
(* The steps. *)

LEMMA Typed ==
    ASSUME TypeOK
    PROVE  /\ table \in Seq(Structure) /\ list \in Seq(Nat)
           /\ data \in Seq(Pieces)
           /\ Len(list) \in Nat
           /\ typeIndex \in 1..(Len(list) + 1) /\ index \in Nat \ {0}
           /\ capacity \in Nat /\ sumSize \in Nat /\ tempSize \in Nat
           /\ size \in Nat /\ CpuIdSize \in Nat
  BY SmbiosAssumption, LenProperties DEF TypeOK, Pieces

LEMMA InitIInv == Init => IInv
<1> SUFFICES ASSUME Init PROVE IInv
  OBVIOUS
<1>1. TypeOK
  <2>1. list \in Seq(Nat) /\ Len(list) \in Nat
    BY SmbiosAssumption, LenProperties DEF Init
  <2>2. typeIndex \in 1..(Len(list) + 1)
    BY <2>1, SMT DEF Init
  <2> QED
    BY <2>2 DEF Init, TypeOK
<1>2. Fresh /\ Building /\ Collecting /\ Judged /\ Returned
  BY DEF Init, Fresh, Building, Collecting, Judged, Returned
<1>3. Measurement /\ FaultCauses
  BY DEF Init, Measurement, FaultCauses
<1> QED
  BY <1>1, <1>2, <1>3 DEF IInv

\* The processor id is looked for.
LEMMA CpuStep == IInv /\ (GetCpuId \/ NoCpuId) => IInv'
<1> SUFFICES ASSUME IInv, GetCpuId \/ NoCpuId PROVE IInv'
  OBVIOUS
<1> USE DEF IInv
<1>1. /\ memory' = memory /\ table' = table /\ list' = list
      /\ typeIndex' = typeIndex /\ index' = index /\ data' = data
      /\ capacity' = capacity /\ sumSize' = sumSize /\ measured' = measured
      /\ result' = result /\ size' = size /\ pc = "cpu"
  BY DEF GetCpuId, NoCpuId, environment
<1>2. TypeOK'
  BY <1>1, SmbiosAssumption DEF TypeOK, GetCpuId, NoCpuId
<1>3. /\ result = "null" /\ measured = "pending" /\ typeIndex = 1
      /\ data = << >> /\ capacity = 0 /\ sumSize = 0
  BY <1>1 DEF Fresh
<1>4. Joined(table, list, 0) = << >> /\ BytesOf(<< >>) = 0
  BY Typed, JoinedFacts, BytesFacts, Zenon
<1>5. CASE GetCpuId
  <2>1. pc' = "types" /\ tempSize' = CpuIdSize /\ Present(table, Processor)
    BY <1>5, Typed, OfTypeFacts DEF GetCpuId, OfType
  <2>2. Near(memory, << >>, << >>)
    BY DEF Near
  <2>3. typeIndex - 1 = 0 /\ 1..(typeIndex - 1) = {}
    BY <1>3
  <2>4. Building'
    BY <1>1, <1>3, <1>4, <2>1, <2>3 DEF Building
  <2>5. Collecting'
    BY <1>1, <1>3, <1>4, <2>1, <2>2, <2>3 DEF Collecting
  <2> QED
    BY <1>1, <1>2, <1>3, <2>1, <2>4, <2>5
       DEF Fresh, Judged, Returned, Measurement, FaultCauses
<1>6. CASE NoCpuId
  <2>1. pc' = "done" /\ (memory = "ample" => ~Present(table, Processor))
    BY <1>6, Typed, OfTypeFacts DEF NoCpuId, OfType, TypeOK
  <2>2. BytesOf(data') <= capacity'
    BY <1>1, <1>3, <1>4
  <2> QED
    BY <1>1, <1>2, <1>3, <2>1, <2>2
       DEF Fresh, Building, Collecting, Judged, Returned, Measurement,
           FaultCauses
<1> QED
  BY <1>5, <1>6

\* The next type is found, or the last one was: nothing is stored.
LEMMA TypeStep == IInv /\ (FindType \/ NextType \/ EndOfList) => IInv'
<1> SUFFICES ASSUME IInv, FindType \/ NextType \/ EndOfList PROVE IInv'
  OBVIOUS
<1> USE DEF IInv
<1>1. /\ memory' = memory /\ table' = table /\ list' = list
      /\ data' = data /\ capacity' = capacity /\ sumSize' = sumSize
      /\ result' = result /\ size' = size /\ pc \in {"types", "copy"}
  BY DEF FindType, NextType, EndOfList, environment
<1>2. /\ result = "null" /\ Present(table, Processor) /\ capacity = sumSize
      /\ sumSize = BytesOf(data)
      /\ \A t \in 1..(typeIndex - 1) : Present(table, list[t])
      /\ measured = "pending" /\ tempSize = CpuIdSize
  BY <1>1 DEF Building
<1>3. /\ table \in Seq(Structure) /\ list \in Seq(Nat) /\ Len(list) \in Nat
      /\ typeIndex \in 1..(Len(list) + 1)
      /\ sumSize \in Nat
  BY Typed
<1>4. CASE FindType
  <2>1. /\ pc = "types" /\ pc' = "copy" /\ index' = 1 /\ typeIndex' = typeIndex
        /\ measured' = measured /\ tempSize' = tempSize
        /\ typeIndex <= Len(list) /\ CurrentType # << >>
    BY <1>4 DEF FindType
  <2>2. typeIndex - 1 \in 0..(Len(list) - 1) /\ index' - 1 = 0
    BY <1>3, <2>1, SMT
  <2>3. Reached(table, list, typeIndex - 1, 0) = Joined(table, list, typeIndex - 1)
    BY <1>3, <2>2, ReachedFacts
  <2>4. CurrentType' = CurrentType /\ CurrentType \in Seq(Structure)
    BY <1>1, <1>3, <2>1, OfTypeFacts DEF CurrentType, OfType
  <2>5. index' <= Len(CurrentType) + 1
    <3>1. Len(CurrentType) \in Nat
      BY <2>4, LenProperties
    <3> QED
      BY <2>1, <3>1, SMT
  <2>6. Near(memory, data, Reached(table, list, typeIndex - 1, index' - 1))
    BY <2>1, <2>2, <2>3 DEF Collecting
  <2>7. Collecting'
    BY <1>1, <2>1, <2>4, <2>5, <2>6, Zenon DEF Collecting
  <2>8. TypeOK'
    BY <1>1, <2>1 DEF TypeOK
  <2>9. Building'
    BY <1>1, <1>2, <2>1 DEF Building
  <2> QED
    BY <1>1, <1>2, <2>1, <2>7, <2>8, <2>9
       DEF Fresh, Judged, Returned, Measurement, FaultCauses
<1>5. CASE NextType
  <2>1. /\ pc = "copy" /\ pc' = "types" /\ typeIndex' = typeIndex + 1
        /\ measured' = measured /\ tempSize' = tempSize /\ index' = index
        /\ index > Len(CurrentType)
    BY <1>5 DEF NextType
  <2>2. /\ typeIndex <= Len(list) /\ CurrentType # << >>
        /\ index <= Len(CurrentType) + 1
        /\ Near(memory, data, Reached(table, list, typeIndex - 1, index - 1))
    BY <2>1 DEF Collecting
  <2>3. /\ typeIndex - 1 \in 0..(Len(list) - 1) /\ (typeIndex - 1) + 1 = typeIndex
        /\ typeIndex' - 1 = typeIndex
        /\ typeIndex' \in 1..(Len(list) + 1)
        /\ \A t \in 1..typeIndex : t = typeIndex \/ t \in 1..(typeIndex - 1)
    BY <1>3, <2>1, <2>2, SMT
  <2>4. /\ CurrentType \in Seq(Structure)
        /\ Present(table, list[typeIndex])
        /\ Len(PiecesOf(table, list[typeIndex])) = Len(CurrentType)
    BY <1>3, <2>2, OfTypeFacts, PiecesFacts DEF CurrentType, OfType
  <2>5. index - 1 = Len(CurrentType)
    <3>1. Len(CurrentType) \in Nat /\ index \in Nat
      BY <2>4, Typed, LenProperties
    <3>2. \A n, m \in Nat : n > m /\ n <= m + 1 => n - 1 = m
      BY SMT
    <3> QED
      BY <2>1, <2>2, <3>1, <3>2, Zenon
  <2>6. Reached(table, list, typeIndex - 1, index - 1) = Joined(table, list, typeIndex)
    BY <1>3, <2>3, <2>4, <2>5, ReachedFacts
  <2>7. Collecting'
    BY <1>1, <2>1, <2>2, <2>3, <2>6 DEF Collecting
  <2>8. TypeOK'
    BY <1>1, <2>1, <2>3 DEF TypeOK
  <2>9. Building'
    BY <1>1, <1>2, <2>1, <2>3, <2>4 DEF Building
  <2> QED
    BY <1>1, <1>2, <2>1, <2>7, <2>8, <2>9
       DEF Fresh, Judged, Returned, Measurement, FaultCauses
<1>6. CASE EndOfList
  <2>1. /\ pc = "types" /\ pc' = "append" /\ typeIndex' = typeIndex
        /\ measured' = "ok" /\ tempSize' = sumSize /\ index' = index
        /\ typeIndex > Len(list)
    BY <1>6 DEF EndOfList
  <2>2. typeIndex = Len(list) + 1 /\ typeIndex - 1 = Len(list)
    BY <1>3, <2>1, SMT
  <2>3. Near(memory, data, Joined(table, list, Len(list)))
    BY <2>1, <2>2 DEF Collecting
  <2>4. Judged'
    BY <1>1, <2>1, <2>2, <2>3 DEF Judged
  <2>5. TypeOK'
    BY <1>1, <2>1 DEF TypeOK
  <2>6. Building'
    BY <1>1, <1>2, <2>1 DEF Building
  <2> QED
    BY <1>1, <1>2, <2>1, <2>4, <2>5, <2>6
       DEF Fresh, Collecting, Returned, Measurement, FaultCauses
<1> QED
  BY <1>4, <1>5, <1>6

\* A structure, or a blank for it, goes into the buffer.
LEMMA StoreStep == IInv /\ (CopyStructure \/ FilterFails) => IInv'
<1> SUFFICES ASSUME IInv, CopyStructure \/ FilterFails PROVE IInv'
  OBVIOUS
<1> USE DEF IInv
<1> DEFINE s == CurrentType[index]
<1>1. /\ memory' = memory /\ table' = table /\ list' = list
      /\ typeIndex' = typeIndex /\ tempSize' = tempSize
      /\ measured' = measured /\ result' = result /\ size' = size
      /\ pc = "copy" /\ pc' \in {"copy", "fault"}
      /\ index <= Len(CurrentType)
  BY DEF CopyStructure, FilterFails, environment
<1>2. /\ result = "null" /\ Present(table, Processor) /\ capacity = sumSize
      /\ sumSize = BytesOf(data)
      /\ \A t \in 1..(typeIndex - 1) : Present(table, list[t])
      /\ measured = "pending" /\ tempSize = CpuIdSize
      /\ typeIndex <= Len(list)
      /\ CurrentType # << >>
      /\ Near(memory, data, Reached(table, list, typeIndex - 1, index - 1))
  BY <1>1 DEF Building, Collecting
<1>3. /\ table \in Seq(Structure) /\ list \in Seq(Nat) /\ Len(list) \in Nat
      /\ typeIndex \in 1..(Len(list) + 1) /\ data \in Seq(Pieces)
      /\ sumSize \in Nat /\ index \in Nat \ {0}
  BY Typed
<1>4. CurrentType = OfTypeIn(table, list[typeIndex])
  BY DEF CurrentType, OfType
<1>5. /\ CurrentType \in Seq(Structure) /\ Len(CurrentType) \in Nat
      /\ \A k \in 1..Len(CurrentType) :
           \E i \in 1..Len(table) : CurrentType[k] = table[i]
      /\ Len(PiecesOf(table, list[typeIndex])) = Len(CurrentType)
      /\ \A k \in 1..Len(CurrentType) :
           PiecesOf(table, list[typeIndex])[k] = Cleared(CurrentType[k])
  <2>1. /\ CurrentType \in Seq(Structure)
        /\ \A k \in 1..Len(CurrentType) :
             \E i \in 1..Len(table) : CurrentType[k] = table[i]
    BY <1>3, <1>4, OfTypeFacts, Zenon
  <2>2. /\ Len(PiecesOf(table, list[typeIndex])) = Len(CurrentType)
        /\ \A k \in 1..Len(CurrentType) :
             PiecesOf(table, list[typeIndex])[k] = Cleared(CurrentType[k])
    BY <1>3, <1>4, PiecesFacts, Zenon
  <2> QED
    BY <2>1, <2>2, LenProperties
<1>6. index \in 1..Len(CurrentType)
  BY <1>1, <1>3, <1>5, SMT
<1>7. /\ s \in Structure
      /\ \E i \in 1..Len(table) : s = table[i]
      /\ PiecesOf(table, list[typeIndex])[index] = Cleared(s)
  BY <1>5, <1>6, ElementOfSeq
<1>8. /\ typeIndex - 1 \in 0..(Len(list) - 1) /\ (typeIndex - 1) + 1 = typeIndex
      /\ index - 1 \in 0..Len(CurrentType)
      /\ (index + 1) - 1 = index
      /\ index + 1 \in Nat \ {0}
  BY <1>2, <1>3, <1>5, <1>6, SMT
<1>9. /\ Reached(table, list, typeIndex - 1, index) =
           Append(Reached(table, list, typeIndex - 1, index - 1), Cleared(s))
      /\ Reached(table, list, typeIndex - 1, index - 1) \in Seq(Pieces)
  BY <1>3, <1>5, <1>6, <1>7, <1>8, ReachedFacts
<1> HIDE DEF s
<1>10. /\ Cleared(s) \in Pieces /\ Cleared(s).bytes = StructureSize(s)
       /\ Filtered(s) = Cleared(s) /\ StructureSize(s) \in Nat
       /\ Zeros(StructureSize(s)) \in Pieces
       /\ Zeros(StructureSize(s)).bytes = StructureSize(s)
  BY <1>7, ClearedFacts
<1>11. PICK piece \in Pieces :
          /\ Store(piece)
          /\ piece \in {Cleared(s), Zeros(Cleared(s).bytes)}
          /\ memory = "ample" => piece = Cleared(s)
          /\ piece.bytes = StructureSize(s)
  <2>1. CASE CopyStructure
    BY <1>10, <2>1 DEF CopyStructure, s
  <2>2. CASE FilterFails
    BY <1>10, <2>2 DEF FilterFails, s
  <2> QED
    BY <2>1, <2>2
<1>12. /\ sumSize' = sumSize + StructureSize(s) /\ capacity' = sumSize'
       /\ data' = Append(data, piece) /\ index' = index + 1
  BY <1>11 DEF Store, s
<1>13. /\ data' \in Seq(Pieces) /\ sumSize' \in Nat
       /\ BytesOf(data') = sumSize'
  BY <1>2, <1>3, <1>10, <1>11, <1>12, BytesFacts, AppendProperties
<1>14. Near(memory, data', Reached(table, list, typeIndex - 1, index' - 1))
  <2>1. Near(memory, Append(data, piece),
             Append(Reached(table, list, typeIndex - 1, index - 1), Cleared(s)))
    BY <1>2, <1>3, <1>9, <1>10, <1>11, NearAppend
  <2> QED
    BY <1>8, <1>9, <1>12, <2>1
<1>15. TypeOK'
  BY <1>1, <1>8, <1>12, <1>13 DEF TypeOK, Pieces
<1>16. Collecting'
  <2>1. CurrentType' = CurrentType
    BY <1>1 DEF CurrentType, OfType
  <2>2. index' <= Len(CurrentType) + 1
    BY <1>5, <1>6, <1>12, SMT
  <2> QED
    BY <1>1, <1>2, <1>14, <2>1, <2>2, Zenon DEF Collecting
<1>17. Building'
  BY <1>1, <1>2, <1>12, <1>13 DEF Building
<1>18. FaultCauses'
  <2>1. SUFFICES ASSUME pc' = "fault", memory # "tight"
                 PROVE  \E k \in 1..Len(table) :
                          /\ table[k].type \in {Processor, MemoryDevice}
                          /\ table[k].overlong \/ table[k].bytes < ClockEnd
    BY <1>1, Zenon DEF FaultCauses
  <2>2. FilterOverruns(s)
    BY <1>1, <2>1 DEF CopyStructure, FilterFails, s
  <2>3. s.type \in {Processor, MemoryDevice} /\ (s.overlong \/ s.bytes < ClockEnd)
    BY <2>2 DEF FilterOverruns, Clocked, StructureSize
  <2> QED
    BY <1>7, <2>3, Zenon
<1> QED
  BY <1>1, <1>2, <1>15, <1>16, <1>17, <1>18
     DEF Fresh, Judged, Returned, Measurement

\* The measurement fails, and NULL is returned with the size of the id.
LEMMA FailStep == IInv /\ (MissType \/ GrowFails) => IInv'
<1> SUFFICES ASSUME IInv, MissType \/ GrowFails PROVE IInv'
  OBVIOUS
<1> USE DEF IInv
<1>1. /\ memory' = memory /\ table' = table /\ list' = list
      /\ typeIndex' = typeIndex /\ tempSize' = tempSize /\ index' = index
      /\ data' = data /\ capacity' = capacity /\ sumSize' = sumSize
      /\ result' = result /\ size' = size
      /\ pc \in {"types", "copy"} /\ pc' = "append" /\ measured' = "failed"
  BY DEF MissType, GrowFails, FailMeasurement, environment
<1>2. /\ result = "null" /\ Present(table, Processor) /\ capacity = sumSize
      /\ sumSize = BytesOf(data)
      /\ \A t \in 1..(typeIndex - 1) : Present(table, list[t])
      /\ tempSize = CpuIdSize
  BY <1>1 DEF Building
<1>3. memory = "ample" =>
        typeIndex <= Len(list) /\ ~Present(table, list[typeIndex])
  BY Typed, OfTypeFacts DEF MissType, GrowFails, CurrentType, OfType
<1>4. TypeOK'
  BY <1>1 DEF TypeOK
<1>5. Building' /\ Judged'
  BY <1>1, <1>2, <1>3 DEF Building, Judged
<1> QED
  BY <1>1, <1>2, <1>4, <1>5
     DEF Fresh, Collecting, Returned, Measurement, FaultCauses

\* The processor id is appended, or there is no memory for it.
LEMMA AppendStep == IInv /\ (AppendCpuId \/ AppendFails) => IInv'
<1> SUFFICES ASSUME IInv, AppendCpuId \/ AppendFails PROVE IInv'
  OBVIOUS
<1> USE DEF IInv
<1>1. /\ memory' = memory /\ table' = table /\ list' = list
      /\ typeIndex' = typeIndex /\ tempSize' = tempSize /\ index' = index
      /\ sumSize' = sumSize /\ measured' = measured /\ pc = "append"
  BY DEF AppendCpuId, AppendFails, environment
<1>2. /\ result = "null" /\ Present(table, Processor) /\ capacity = sumSize
      /\ sumSize = BytesOf(data)
      /\ \A t \in 1..(typeIndex - 1) : Present(table, list[t])
  BY <1>1 DEF Building
<1>3. /\ table \in Seq(Structure) /\ list \in Seq(Nat) /\ Len(list) \in Nat
      /\ typeIndex \in 1..(Len(list) + 1) /\ data \in Seq(Pieces)
      /\ sumSize \in Nat /\ tempSize \in Nat /\ CpuIdSize \in Nat
  BY Typed
<1>4. CASE AppendFails
  <2>1. /\ memory = "tight" /\ size' = tempSize + CpuIdSize
        /\ pc' \in {"done", "fault"} /\ data' = data /\ capacity' = capacity
        /\ result' = result
    BY <1>4 DEF AppendFails
  <2>2. TypeOK'
    BY <1>1, <1>3, <2>1 DEF TypeOK
  <2>3. BytesOf(data') <= capacity'
    BY <1>2, <1>3, <2>1, SMT
  <2> QED
    BY <1>1, <1>2, <2>1, <2>2, <2>3
       DEF Fresh, Building, Collecting, Judged, Returned, Measurement,
           FaultCauses
<1>5. CASE AppendCpuId
  <2> DEFINE id == Piece(OfTypeIn(table, Processor)[1].id, 0, CpuIdSize)
             all == Joined(table, list, Len(list))
  <2>1. /\ data' = Append(Carried, id) /\ capacity' = tempSize + CpuIdSize
        /\ size' = capacity' /\ result' = "pool" /\ pc' = "done"
    BY <1>5 DEF AppendCpuId, OfType
  <2>2. id.bytes = CpuIdSize
    BY DEF Piece
  <2>3. all \in Seq(Pieces)
    BY <1>3, JoinedFacts
  <2> HIDE DEF id, all
  <2>4. /\ id \in Pieces
        /\ (\A t \in 1..Len(list) : Present(table, list[t])) =>
             Collected(table, list) = Append(all, id)
        /\ (\E t \in 1..Len(list) : ~Present(table, list[t])) =>
             Collected(table, list) = Append(<<Zeros(CpuIdSize)>>, id)
    BY <1>2, <1>3, CollectedFacts DEF id, all
  <2>5. /\ Carried \in Seq(Pieces) /\ BytesOf(Carried) = tempSize
        /\ measured = "ok" =>
             /\ Collected(table, list) = Append(all, id)
             /\ Near(memory, Carried, all)
        /\ memory = "ample" => Collected(table, list) = Append(Carried, id)
    <3>1. CASE /\ measured = "ok"
               /\ typeIndex = Len(list) + 1
               /\ tempSize = sumSize
               /\ Near(memory, data, Joined(table, list, Len(list)))
      <4>1. typeIndex - 1 = Len(list)
        BY <1>3, <3>1, SMT
      <4>2. Collected(table, list) = Append(all, id)
        BY <1>2, <2>4, <4>1
      <4>3. Carried = data /\ Near(memory, data, all)
        BY <3>1 DEF Carried, all
      <4>4. memory = "ample" => data = all
        BY <4>3, Zenon DEF Near
      <4> QED
        BY <1>2, <1>3, <3>1, <4>2, <4>3, <4>4
    <3>2. CASE /\ measured = "failed"
               /\ tempSize = CpuIdSize
               /\ memory = "ample" =>
                    typeIndex <= Len(list) /\ ~Present(table, list[typeIndex])
      <4>1. Carried = <<Zeros(tempSize)>>
        BY <3>2 DEF Carried
      <4>2. Zeros(tempSize) \in Pieces /\ Zeros(tempSize).bytes = tempSize
        BY <1>3 DEF Zeros, Piece, Pieces
      <4>3. /\ << >> \in Seq(Pieces)
            /\ Append(<< >>, Zeros(tempSize)) = <<Zeros(tempSize)>>
        OBVIOUS
      <4>4. Carried \in Seq(Pieces)
        BY <4>1, <4>2
      <4>5. BytesOf(Carried) = 0 + tempSize
        BY <4>1, <4>2, <4>3, BytesFacts, Zenon
      <4>6. memory = "ample" => typeIndex \in 1..Len(list)
        BY <1>3, <3>2, SMT
      <4>7. memory = "ample" => Collected(table, list) = Append(Carried, id)
        BY <2>4, <3>2, <4>1, <4>6, Zenon
      <4> QED
        BY <1>3, <3>2, <4>4, <4>5, <4>7
    <3> QED
      BY <1>1, <3>1, <3>2 DEF Judged
  <2>6. data' \in Seq(Pieces) /\ BytesOf(data') = tempSize + CpuIdSize
    BY <2>1, <2>2, <2>4, <2>5, BytesFacts, AppendProperties
  <2>7. measured = "ok" => Near(memory, data', Collected(table, list))
    BY <2>1, <2>3, <2>4, <2>5, NearAppend
  <2>8. Measurement'
    <3>1. ASSUME measured = "ok"
          PROVE  /\ Len(data') = Len(Collected(table, list))
                 /\ \A k \in DOMAIN data' :
                      data'[k] \in {Collected(table, list)[k],
                                    Zeros(Collected(table, list)[k].bytes)}
      <4>1. DOMAIN data' = 1..Len(data')
        BY <2>6, LenProperties
      <4> QED
        BY <2>7, <3>1, <4>1, Zenon DEF Near
    <3>2. memory = "ample" => data' = Collected(table, list)
      BY <2>1, <2>5
    <3> QED
      BY <1>1, <3>1, <3>2, Zenon DEF Measurement
  <2>9. TypeOK'
    BY <1>1, <1>3, <2>1, <2>6 DEF TypeOK, Pieces
  <2>10. Returned'
    BY <1>1, <1>2, <1>3, <2>1, <2>6 DEF Returned
  <2> QED
    BY <1>1, <2>1, <2>8, <2>9, <2>10
       DEF Fresh, Building, Collecting, Judged, FaultCauses
<1> QED
  BY <1>4, <1>5

LEMMA NextIInv == IInv /\ [Next]_vars => IInv'
<1> SUFFICES ASSUME IInv, [Next]_vars PROVE IInv'
  OBVIOUS
<1>1. CASE UNCHANGED vars
  BY <1>1
     DEF vars, IInv, TypeOK, Fresh, Building, Collecting, Judged, Returned,
         Measurement, FaultCauses, CurrentType, OfType
<1> QED
  BY <1>1, CpuStep, TypeStep, StoreStep, FailStep, AppendStep
     DEF Next, Terminated

-----------------------------------------------------------------------------
\* The invariant holds in every state of every collection.
THEOREM Invariance == Spec => []IInv
  BY InitIInv, NextIInv, PTL DEF Spec

\* Every variable of the collection keeps its type.
THEOREM TypeCorrect == Spec => []TypeOK
<1>1. IInv => TypeOK
  BY DEF IInv
<1> QED
  BY <1>1, Invariance, PTL

\* For every table and type list, what is returned is what BoardData says of them:
\* no order, clock or mixture of types makes a difference, and a board that runs
\* out of memory can only lose the content of a piece, not its place.
THEOREM MeasurementIsTheBoards == Spec => []Measurement
<1>1. IInv => Measurement
  BY DEF IInv
<1> QED
  BY <1>1, Invariance, PTL

\* The buffer has the size of what is in it, while it grows and when it is
\* returned.
THEOREM BufferHasItsSize == Spec => []SizesAgree
<1>1. ASSUME IInv PROVE SizesAgree
  <2>1. capacity \in Nat /\ sumSize \in Nat
    BY <1>1, Typed DEF IInv
  <2>2. pc \in {"types", "copy"} => capacity = sumSize /\ BytesOf(data) <= capacity
    <3>1. capacity <= capacity
      BY <2>1, SMT
    <3> QED
      BY <1>1, <3>1 DEF IInv, Building
  <2> QED
    BY <1>1, <2>2, Zenon DEF IInv, Returned, SizesAgree
<1> QED
  BY <1>1, Invariance, PTL

\* With enough memory only a missing structure makes the result NULL, and a
\* missing processor always does.
THEOREM NullIsAMissingStructure == Spec => []NullHasACause
<1>1. ASSUME IInv PROVE NullHasACause
  <2>1. result = "pool" => Present(table, Processor)
    BY <1>1 DEF IInv, Returned
  <2>2. result \in {"null", "pool"}
    BY <1>1 DEF IInv, TypeOK
  <2>3. pc = "done" /\ memory = "ample" /\ result = "null" =>
          ~Present(table, Processor)
    BY <1>1 DEF IInv, Returned
  <2> QED
    BY <2>1, <2>2, <2>3, Zenon DEF NullHasACause
<1> QED
  BY <1>1, Invariance, PTL

\* Nothing else takes the collection out of the pool.
THEOREM FaultsHaveCauses == Spec => []FaultCauses
<1>1. IInv => FaultCauses
  BY DEF IInv
<1> QED
  BY <1>1, Invariance, PTL
=============================================================================

--------------------------- MODULE TypeListProofs ---------------------------
(***************************************************************************)
(* What holds of InfoBuildMeasureTypeList for every command line.          *)
(***************************************************************************)
EXTENDS TypeList, TLAPS

\* While the arguments are scanned nothing is stored, and the operands start
\* at or before the argument that is looked at.
Scan ==
    /\ pc = "scan" => argv = << >> \/ argIndex <= Len(argv)
    /\ pc \in {"scan", "allocate"} =>
         /\ list = << >>
         /\ capacity = 0
         /\ typeIndex <= argIndex

\* While they are parsed the buffer has a byte for every operand and one for
\* the terminator; the loop goes on only below ArgIndex, except at first.
Fill ==
    /\ pc \in {"parse", "end"} =>
         capacity + typeIndex = argIndex + Len(list) + 1
    /\ pc = "parse" =>
         /\ Len(list) = 0 => typeIndex <= argIndex
         /\ Len(list) > 0 => typeIndex < argIndex
    /\ pc = "end" => Len(list) + 1 <= capacity \/ (capacity = 1 /\ Len(list) = 1)

Overrun == Len(list) <= capacity \/ (capacity = 1 /\ Len(list) = 2)

IInv == TypeOK /\ Scan /\ Fill /\ (pc \in {"done", "fault"} => Overrun)

\* The loops start with nothing stored.
LEMMA InitIInv == Init => IInv
<1> SUFFICES ASSUME Init PROVE IInv
  OBVIOUS
<1>1. argv \in Seq(Tokens)
  BY DEF Init
<1> QED
  BY <1>1 DEF Init, IInv, TypeOK, Scan, Fill, Overrun

\* A pass of the parsing loop keeps the invariant, whatever the type is.
LEMMA ParseIInv ==
  ASSUME NEW type \in Nat, IInv, pc = "parse", Parse(type)
  PROVE  IInv'
<1>1. CASE type > EndOfTable
  <2>1. UNCHANGED <<argv, argIndex, typeIndex, isFound, capacity, list>>
    BY <1>1 DEF Parse, EndOfTable
  <2>2. pc' = "done" /\ result' = "null"
    BY <1>1 DEF Parse, Return, EndOfTable
  <2>3. Overrun
    BY DEF IInv, Fill, TypeOK, Overrun
  <2> QED
    BY <2>1, <2>2, <2>3 DEF IInv, TypeOK, Scan, Fill, Overrun
<1>2. CASE type <= EndOfTable
  <2>1. /\ list' = Append(list, type)
        /\ typeIndex' = typeIndex + 1
        /\ pc' = IF typeIndex + 1 < argIndex THEN "parse" ELSE "end"
        /\ UNCHANGED <<argv, argIndex, isFound, capacity, result>>
    BY <1>2 DEF Parse, EndOfTable
  <2>2. type \in 0..EndOfTable
    BY <1>2 DEF EndOfTable
  <2>3. list' \in Seq(0..EndOfTable) /\ Len(list') = Len(list) + 1
    BY <2>1, <2>2 DEF IInv, TypeOK
  <2>4. typeIndex <= argIndex
    BY DEF IInv, Fill, TypeOK
  <2>5. TypeOK'
    BY <2>1, <2>3, <2>4 DEF IInv, TypeOK
  <2>6. Scan'
    BY <2>1 DEF Scan
  <2>7. Fill'
    <3>1. /\ Len(list) \in Nat /\ Len(list') \in Nat
          /\ argIndex \in Nat /\ typeIndex \in Nat /\ capacity \in Nat
      BY <2>3 DEF IInv, TypeOK
    <3>2. CASE typeIndex + 1 < argIndex
      BY <2>1, <2>3, <3>1, <3>2 DEF IInv, Fill
    <3>3. CASE ~(typeIndex + 1 < argIndex)
      <4>1. pc' = "end" /\ (Len(list) > 0 => typeIndex + 1 = argIndex)
        BY <2>1, <3>1, <3>3 DEF IInv, Fill
      <4>2. capacity + typeIndex = argIndex + Len(list) + 1
        BY DEF IInv, Fill
      <4> QED
        BY <2>1, <2>3, <2>4, <3>1, <3>3, <4>1, <4>2 DEF Fill
    <3> QED
      BY <3>2, <3>3
  <2> QED
    BY <2>1, <2>5, <2>6, <2>7 DEF IInv
<1> QED
  BY <1>1, <1>2 DEF EndOfTable

\* Every step keeps the invariant.
LEMMA NextIInv == IInv /\ [Next]_vars => IInv'
<1> SUFFICES ASSUME IInv, [Next]_vars PROVE IInv'
  OBVIOUS
<1>1. CASE NoArguments
  BY <1>1 DEF NoArguments, Return, IInv, TypeOK, Scan, Fill, Overrun
<1>2. CASE MeetTypeOption
  BY <1>2 DEF MeetTypeOption, Advance, IInv, TypeOK, Scan, Fill, Overrun
<1>3. CASE MeetStop
  BY <1>3 DEF MeetStop, IInv, TypeOK, Scan, Fill, Overrun
<1>4. CASE PassArgument
  BY <1>4 DEF PassArgument, Advance, IInv, TypeOK, Scan, Fill, Overrun
<1>5. CASE NoTypeOption
  BY <1>5 DEF NoTypeOption, Return, IInv, TypeOK, Scan, Fill, Overrun
<1>6. CASE Allocate
  BY <1>6 DEF Allocate, Return, IInv, TypeOK, Scan, Fill, Overrun
<1>7. CASE ParseOperand
  <2>1. Decimal[argv[typeIndex]] % 256 \in Nat
    BY <1>7, TypeListAssumption DEF ParseOperand, IInv, TypeOK
  <2> QED
    BY <1>7, <2>1, ParseIInv DEF ParseOperand
<1>8. CASE ParseBeyond
  <2>1. CASE /\ pc' \in {"end", "fault"}
             /\ UNCHANGED <<argv, argIndex, typeIndex, isFound, capacity, list,
                            result>>
    <3>1. typeIndex > Len(argv) /\ pc = "parse"
      BY <1>8 DEF ParseBeyond
    <3>2. Len(list) = 0 /\ capacity >= 1
      BY <3>1 DEF IInv, TypeOK, Fill
    <3> QED
      BY <2>1, <3>1, <3>2 DEF IInv, TypeOK, Scan, Fill, Overrun
  <2>2. CASE \E token \in Tokens : Parse(Decimal[token] % 256)
    <3>1. PICK token \in Tokens : Parse(Decimal[token] % 256)
      BY <2>2
    <3>2. Decimal[token] % 256 \in Nat
      BY TypeListAssumption
    <3> QED
      BY <1>8, <3>1, <3>2, ParseIInv DEF ParseBeyond
  <2> QED
    BY <1>8, <2>1, <2>2 DEF ParseBeyond
<1>9. CASE Finish
  BY <1>9 DEF Finish, Return, EndOfTable, IInv, TypeOK, Scan, Fill, Overrun
<1>10. CASE UNCHANGED vars
  BY <1>10 DEF vars, IInv, TypeOK, Scan, Fill, Overrun
<1> QED
  BY <1>1, <1>2, <1>3, <1>4, <1>5, <1>6, <1>7, <1>8, <1>9, <1>10
     DEF Next, Terminated

\* The invariant holds in every state of every execution.
THEOREM Invariance == Spec => []IInv
<1>1. Init => IInv
  BY InitIInv
<1>2. IInv /\ [Next]_vars => IInv'
  BY NextIInv
<1> QED
  BY <1>1, <1>2, PTL DEF Spec

\* Every variable keeps its type; in particular what is stored is a byte up to
\* 0x7F.
THEOREM TypeCorrect == Spec => []TypeOK
<1>1. IInv => TypeOK
  BY DEF IInv
<1> QED
  BY <1>1, Invariance, PTL

\* The buffer of InfoBuildMeasureTypeList is overrun by one byte at most, and
\* only when -t had no operand, on command lines of any length.
THEOREM OverrunHasOneCause == Spec => []OverrunCause
<1>1. ASSUME IInv PROVE OverrunCause
  <2>1. Len(list) \in Nat /\ capacity \in Nat /\ typeIndex \in Nat /\ argIndex \in Nat
    BY <1>1 DEF IInv, TypeOK
  <2>2. CASE pc \in {"scan", "allocate"}
    <3>1. list = << >>
      BY <1>1, <2>2 DEF IInv, Scan
    <3>2. Len(list) = 0
      BY <3>1
    <3> QED
      BY <2>1, <3>2 DEF OverrunCause
  <2>3. CASE pc = "parse"
    BY <1>1, <2>1, <2>3 DEF IInv, Fill, OverrunCause
  <2>4. CASE pc = "end"
    <3>1. Len(list) + 1 <= capacity \/ (capacity = 1 /\ Len(list) = 1)
      BY <1>1, <2>4 DEF IInv, Fill
    <3>2. \A n, c \in Nat : n + 1 <= c \/ (c = 1 /\ n = 1) => ~(n > c)
      BY SMT
    <3> QED
      BY <2>1, <3>1, <3>2, Zenon DEF OverrunCause
  <2>5. CASE pc \in {"done", "fault"}
    BY <1>1, <2>1, <2>5 DEF IInv, Overrun, OverrunCause
  <2> QED
    BY <1>1, <2>2, <2>3, <2>4, <2>5 DEF IInv, TypeOK
<1> QED
  BY <1>1, Invariance, PTL

\* ArgIndex - TypeIndex never wraps.
THEOREM IndicesStayOrdered == Spec => []IndicesOrdered
<1>1. IInv => IndicesOrdered
  BY DEF IInv, Scan, IndicesOrdered
<1> QED
  BY <1>1, Invariance, PTL

-----------------------------------------------------------------------------
(* The list against the command line.  The operands are one interval of    *)
(* arguments; the scanning loop finds its ends, the parsing loop its       *)
(* values.                                                                 *)

\* The arguments from f up to ArgIndex follow the last -t, and no option came
\* between a -t and ArgIndex.
Behind(f) ==
    /\ f \in 2..argIndex
    /\ argv[f - 1] = "-t"
    /\ \A j \in f..(argIndex - 1) : argv[j] # "-t"
    /\ \A j \in 1..(argIndex - 1) : ~EndsOperands(j)

\* They are the operands: ArgIndex stands at the option that ends them, or
\* behind the last argument.
Window(f) ==
    /\ Behind(f)
    /\ argIndex = Len(argv) + 1 \/ EndsOperands(argIndex)

\* The first n of the operands from f on are read, and their values stored.
Stored(f, n) ==
    /\ Window(f)
    /\ typeIndex = f + n
    /\ f < argIndex =>
         /\ typeIndex <= argIndex
         /\ \A k \in 1..n : list[k] = Decimal[argv[f + k - 1]] % 256

Scanned ==
    /\ pc = "scan" =>
         /\ isFound = 0 => \A j \in 1..(argIndex - 1) : argv[j] # "-t"
         /\ isFound = 1 => Behind(typeIndex)
    /\ pc = "allocate" /\ isFound = 1 => Window(typeIndex)

Parsed ==
    /\ pc = "parse" => \E f \in 2..argIndex : Stored(f, Len(list))
    /\ pc = "end" =>
         \E f \in 2..argIndex :
             Stored(f, Len(list)) /\ (f < argIndex => typeIndex = argIndex)
    /\ result = "list" =>
         /\ pc = "done" /\ list # << >> /\ list[Len(list)] = EndOfTable
         /\ \E f \in 2..argIndex :
              /\ Stored(f, Len(list) - 1)
              /\ f < argIndex => typeIndex = argIndex

LEMMA ScanTypes ==
    ASSUME TypeOK
    PROVE  /\ Len(argv) \in Nat /\ argIndex \in Nat /\ typeIndex \in Nat
           /\ argIndex <= Len(argv) + 1 /\ argIndex >= 1
  BY SMT DEF TypeOK

\* The next argument joins those that are scanned.
LEMMA AdvanceScan ==
    ASSUME IInv, Scanned, pc = "scan", argv # << >>, Advance,
           \/ argv[argIndex] = "-t" /\ isFound' = 1 /\ typeIndex' = argIndex + 1
           \/ /\ argv[argIndex] # "-t" /\ UNCHANGED <<isFound, typeIndex>>
              /\ ~(isFound = 1 /\ argv[argIndex] \in Stops)
    PROVE  Scanned'
<1>1. /\ TypeOK /\ argIndex \in Nat /\ Len(argv) \in Nat /\ typeIndex \in Nat
      /\ argIndex <= Len(argv) /\ argIndex >= 1 /\ isFound \in {0, 1}
  BY ScanTypes DEF IInv, Scan, TypeOK
<1>2. argIndex' = argIndex + 1 /\ argv' = argv
  BY DEF Advance
<1>3. \A j \in 1..argIndex : j \in 1..(argIndex - 1) \/ j = argIndex
  BY <1>1, SMT
<1>4. ASSUME NEW f \in 2..(argIndex + 1),
             argv[f - 1] = "-t", \A j \in f..argIndex : argv[j] # "-t",
             \A j \in 1..argIndex : ~EndsOperands(j)
      PROVE  Behind(f)'
  <2>1. argIndex' - 1 = argIndex
    BY <1>1, <1>2, SMT
  <2>2. \A j : EndsOperands(j)' = EndsOperands(j)
    BY <1>2 DEF EndsOperands
  <2> QED
    BY <1>2, <1>4, <2>1, <2>2 DEF Behind
<1>5. CASE argv[argIndex] = "-t" /\ isFound' = 1 /\ typeIndex' = argIndex + 1
  <2>1. ~EndsOperands(argIndex)
    BY <1>5 DEF EndsOperands, Stops
  <2>2. \A j \in 1..(argIndex - 1) : ~EndsOperands(j)
    <3>1. CASE isFound = 1
      BY <3>1 DEF Scanned, Behind
    <3>2. CASE isFound = 0
      <4>1. \A j \in 1..(argIndex - 1) : \A i \in 1..(j - 1) : argv[i] # "-t"
        <5>1. \A j \in 1..(argIndex - 1) : \A i \in 1..(j - 1) : i \in 1..(argIndex - 1)
          BY <1>1, SMT
        <5> QED
          BY <3>2, <5>1 DEF Scanned
      <4> QED
        BY <4>1 DEF EndsOperands
    <3> QED
      BY <1>1, <3>1, <3>2
  <2>3. /\ argIndex + 1 \in 2..(argIndex + 1) /\ (argIndex + 1) - 1 = argIndex
        /\ (argIndex + 1)..argIndex = {}
    BY <1>1, SMT
  <2>4. Behind(typeIndex)'
    <3>1. PICK f \in 2..(argIndex + 1) : f = argIndex + 1
      BY <2>3
    <3>2. argv[f - 1] = "-t" /\ \A j \in f..argIndex : argv[j] # "-t"
      BY <1>5, <2>3, <3>1
    <3>3. \A j \in 1..argIndex : ~EndsOperands(j)
      BY <1>3, <2>1, <2>2
    <3>4. Behind(f)'
      BY <1>4, <3>2, <3>3
    <3> QED
      BY <1>5, <3>1, <3>4
  <2>5. CASE argIndex < Len(argv)
    BY <1>5, <2>4, <2>5 DEF Advance, Scanned
  <2>6. CASE ~(argIndex < Len(argv))
    <3>1. argIndex' = Len(argv') + 1
      BY <1>1, <1>2, <2>6, SMT
    <3> QED
      BY <1>5, <2>4, <2>6, <3>1 DEF Advance, Scanned, Window
  <2> QED
    BY <2>5, <2>6
<1>6. CASE /\ argv[argIndex] # "-t" /\ UNCHANGED <<isFound, typeIndex>>
           /\ ~(isFound = 1 /\ argv[argIndex] \in Stops)
  <2>1. CASE isFound = 0
    <3>1. \A j \in 1..argIndex : argv[j] # "-t"
      BY <1>3, <1>6, <2>1 DEF Scanned
    <3>2. argIndex' - 1 = argIndex
      BY <1>1, <1>2, SMT
    <3> QED
      BY <1>2, <1>6, <2>1, <3>1, <3>2 DEF Scanned
  <2>2. CASE isFound = 1
    <3>1. Behind(typeIndex) /\ ~EndsOperands(argIndex)
      BY <1>6, <2>2 DEF Scanned, EndsOperands
    <3>2. \A j \in typeIndex..argIndex : j = argIndex \/ j \in typeIndex..(argIndex - 1)
      BY <1>1, SMT
    <3>3. typeIndex \in 2..(argIndex + 1)
      BY <1>1, <3>1, SMT DEF Behind
    <3>4. Behind(typeIndex)'
      <4> DEFINE t == typeIndex
      <4>1. Behind(t)'
        BY <1>3, <1>4, <1>6, <3>1, <3>2, <3>3 DEF Behind
      <4> QED
        BY <1>6, <4>1
    <3>5. CASE argIndex < Len(argv)
      BY <1>6, <2>2, <3>4, <3>5 DEF Advance, Scanned
    <3>6. CASE ~(argIndex < Len(argv))
      <4>1. argIndex' = Len(argv') + 1
        BY <1>1, <1>2, <3>6, SMT
      <4> QED
        BY <1>6, <2>2, <3>4, <3>6, <4>1 DEF Advance, Scanned, Window
    <3> QED
      BY <3>5, <3>6
  <2> QED
    BY <1>1, <2>1, <2>2
<1> QED
  BY <1>5, <1>6

LEMMA NextScanned == IInv /\ Scanned /\ [Next]_vars => Scanned'
<1> SUFFICES ASSUME IInv, Scanned, [Next]_vars PROVE Scanned'
  OBVIOUS
<1>1. CASE MeetTypeOption \/ PassArgument
  BY <1>1, AdvanceScan DEF MeetTypeOption, PassArgument
<1>2. CASE MeetStop
  <2>1. EndsOperands(argIndex)
    <3>1. typeIndex - 1 \in 1..(argIndex - 1)
      BY <1>2, ScanTypes, SMT DEF MeetStop, Scanned, Behind, IInv
    <3> QED
      BY <1>2, <3>1 DEF MeetStop, EndsOperands, Scanned, Behind
  <2> QED
    BY <1>2, <2>1 DEF MeetStop, Scanned, Window, Behind, EndsOperands
<1>3. CASE \/ NoArguments \/ NoTypeOption \/ Allocate \/ ParseOperand
           \/ ParseBeyond \/ Finish
  BY <1>3 DEF NoArguments, NoTypeOption, Allocate, ParseOperand, ParseBeyond,
     Finish, Parse, Return, Scanned
<1>4. CASE UNCHANGED vars
  BY <1>4 DEF vars, Scanned, Window, Behind, EndsOperands
<1> QED
  BY <1>1, <1>2, <1>3, <1>4 DEF Next, Terminated

\* Windows are about what parsing leaves alone.
LEMMA WindowStays ==
    ASSUME NEW f, Window(f), UNCHANGED <<argv, argIndex>>
    PROVE  Window(f)'
  BY DEF Window, Behind, EndsOperands

\* A type is stored: it is the value of the next operand, if there is one.
LEMMA ParseStored ==
    ASSUME IInv, Parsed, pc = "parse", NEW type \in Nat, Parse(type),
           typeIndex <= Len(argv) => type = Decimal[argv[typeIndex]] % 256
    PROVE  Parsed'
<1>1. CASE type > EndOfTable
  <2>1. pc' = "done" /\ result' = "null"
    BY <1>1 DEF Parse, Return, EndOfTable
  <2> QED
    BY <2>1 DEF Parsed
<1>2. CASE type <= EndOfTable
  <2>1. /\ list' = Append(list, type) /\ typeIndex' = typeIndex + 1
        /\ pc' = IF typeIndex + 1 < argIndex THEN "parse" ELSE "end"
        /\ UNCHANGED <<argv, argIndex>> /\ UNCHANGED result
    BY <1>2 DEF Parse, EndOfTable
  <2>2. PICK f \in 2..argIndex : Stored(f, Len(list))
    BY DEF Parsed
  <2>3. /\ Len(list) \in Nat /\ list \in Seq(0..EndOfTable)
        /\ Len(argv) \in Nat /\ argIndex \in Nat /\ typeIndex \in Nat /\ f \in Nat
        /\ argIndex <= Len(argv) + 1
    BY ScanTypes DEF IInv, TypeOK
  <2>4. /\ Len(list') = Len(list) + 1 /\ list'[Len(list) + 1] = type
        /\ \A k \in 1..Len(list) : list'[k] = list[k]
    BY <2>1, <2>3
  <2>5. typeIndex = f + Len(list) /\ Window(f)
    BY <2>2 DEF Stored
  <2>6. CASE f < argIndex
    <3>1. typeIndex < argIndex
      BY <2>3, <2>5, <2>6, SMT DEF IInv, Fill
    <3>2. type = Decimal[argv[f + (Len(list) + 1) - 1]] % 256
      <4>1. typeIndex <= Len(argv) /\ f + (Len(list) + 1) - 1 = typeIndex
        BY <2>3, <2>5, <3>1, SMT
      <4> QED
        BY <4>1
    <3>3. \A k \in 1..Len(list) : list[k] = Decimal[argv[f + k - 1]] % 256
      BY <2>2, <2>6 DEF Stored
    <3>4. \A k \in 1..(Len(list) + 1) : k \in 1..Len(list) \/ k = Len(list) + 1
      BY <2>3, SMT
    <3>5. \A k \in 1..(Len(list) + 1) : list'[k] = Decimal[argv[f + k - 1]] % 256
      BY <2>4, <3>2, <3>3, <3>4
    <3>6. /\ typeIndex + 1 = f + (Len(list) + 1) /\ typeIndex + 1 <= argIndex
          /\ ~(typeIndex + 1 < argIndex) => typeIndex + 1 = argIndex
      BY <2>3, <2>5, <3>1, SMT
    <3>7. Stored(f, Len(list))'
      BY <2>1, <2>4, <2>5, <3>5, <3>6, WindowStays DEF Stored
    <3> QED
      BY <2>1, <3>6, <3>7 DEF Parsed, IInv, TypeOK
  <2>7. CASE ~(f < argIndex)
    <3>1. typeIndex + 1 = f + (Len(list) + 1) /\ ~(typeIndex + 1 < argIndex)
      BY <2>3, <2>5, <2>7, SMT
    <3>2. Stored(f, Len(list))'
      BY <2>1, <2>4, <2>5, <2>7, <3>1, WindowStays DEF Stored
    <3> QED
      BY <2>1, <2>7, <3>1, <3>2 DEF Parsed, IInv, TypeOK
  <2> QED
    BY <2>6, <2>7
<1> QED
  BY <1>1, <1>2 DEF EndOfTable

LEMMA NextParsed == IInv /\ Scanned /\ Parsed /\ [Next]_vars => Parsed'
<1> SUFFICES ASSUME IInv, Scanned, Parsed, [Next]_vars PROVE Parsed'
  OBVIOUS
<1>1. CASE \/ NoArguments \/ MeetTypeOption \/ MeetStop \/ PassArgument
           \/ NoTypeOption
  BY <1>1 DEF NoArguments, MeetTypeOption, MeetStop, PassArgument, NoTypeOption,
     Advance, Return, Parsed
<1>2. CASE Allocate
  <2>1. CASE result' = "null" /\ pc' = "done"
    BY <2>1 DEF Parsed
  <2>2. CASE pc' = "parse" /\ UNCHANGED result
    <3>1. /\ Window(typeIndex) /\ list = << >> /\ pc = "allocate"
          /\ UNCHANGED <<argv, argIndex, typeIndex, list>>
      BY <1>2 DEF Allocate, Scanned, IInv, Scan
    <3>2. /\ typeIndex \in 2..argIndex /\ Len(list) = 0 /\ 1..0 = {}
          /\ typeIndex = typeIndex + 0 /\ typeIndex <= argIndex
      BY <3>1, ScanTypes, SMT DEF Window, Behind, IInv
    <3>3. Window(typeIndex)'
      BY <3>1 DEF Window, Behind, EndsOperands
    <3>4. Stored(typeIndex, Len(list))'
      BY <3>1, <3>2, <3>3 DEF Stored
    <3> QED
      BY <2>2, <3>1, <3>2, <3>4 DEF Parsed
  <2> QED
    BY <1>2, <2>1, <2>2 DEF Allocate, Return
<1>3. CASE ParseOperand
  <2>1. Decimal[argv[typeIndex]] % 256 \in Nat
    BY <1>3, TypeListAssumption DEF ParseOperand, IInv, TypeOK
  <2> QED
    BY <1>3, <2>1, ParseStored DEF ParseOperand
<1>4. CASE ParseBeyond
  <2>1. CASE /\ pc' \in {"end", "fault"}
             /\ UNCHANGED <<argv, argIndex, typeIndex, isFound, capacity, list,
                            result>>
    <3>1. pc = "parse" /\ typeIndex > Len(argv)
      BY <1>4 DEF ParseBeyond
    <3>2. PICK f \in 2..argIndex : Stored(f, Len(list))
      BY <3>1 DEF Parsed
    <3>3. /\ f \in Nat /\ argIndex \in Nat /\ typeIndex \in Nat
          /\ Len(argv) \in Nat /\ Len(list) \in Nat
      BY ScanTypes DEF IInv, TypeOK
    <3>4. f < argIndex => typeIndex = argIndex
      BY <3>1, <3>2, <3>3, ScanTypes DEF Stored, IInv
    <3>5. Stored(f, Len(list))'
      BY <2>1, <3>2, WindowStays DEF Stored
    <3> QED
      BY <2>1, <3>1, <3>4, <3>5 DEF Parsed
  <2>2. CASE \E token \in Tokens : Parse(Decimal[token] % 256)
    <3>1. PICK token \in Tokens : Parse(Decimal[token] % 256)
      BY <2>2
    <3>2. Decimal[token] % 256 \in Nat
      BY TypeListAssumption
    <3>3. ~(typeIndex <= Len(argv)) /\ pc = "parse"
      BY <1>4, ScanTypes DEF ParseBeyond, IInv
    <3> QED
      BY <3>1, <3>2, <3>3, ParseStored
  <2> QED
    BY <1>4, <2>1, <2>2 DEF ParseBeyond
<1>5. CASE Finish
  <2>1. /\ pc = "end" /\ list' = Append(list, EndOfTable)
        /\ pc' = "done" /\ UNCHANGED <<argv, argIndex, typeIndex>>
    BY <1>5 DEF Finish, Return
  <2>2. PICK f \in 2..argIndex :
            Stored(f, Len(list)) /\ (f < argIndex => typeIndex = argIndex)
    BY <2>1 DEF Parsed
  <2>3. list \in Seq(0..EndOfTable) /\ Len(list) \in Nat /\ EndOfTable \in Nat
    BY ScanTypes DEF IInv, TypeOK, EndOfTable
  <2>4. /\ Len(list') = Len(list) + 1 /\ list' # << >>
        /\ list'[Len(list')] = EndOfTable
        /\ \A k \in 1..Len(list) : list'[k] = list[k]
    BY <2>1, <2>3
  <2>5. Len(list') - 1 = Len(list)
    BY <2>3, <2>4, SMT
  <2>6. Stored(f, Len(list) - 1)'
    BY <2>1, <2>2, <2>4, <2>5, WindowStays DEF Stored
  <2> QED
    BY <2>1, <2>2, <2>4, <2>6 DEF Parsed
<1>6. CASE UNCHANGED vars
  BY <1>6 DEF vars, Parsed, Stored, Window, Behind, EndsOperands
<1> QED
  BY <1>1, <1>2, <1>3, <1>4, <1>5, <1>6 DEF Next, Terminated

\* The window that the scan found is what the command line means by the operands.
LEMMA WindowIsOperands ==
    ASSUME TypeOK, NEW f, Window(f)
    PROVE  {n \in 1..Len(argv) : Operand(n)} = f..(argIndex - 1)
<1>1. /\ Len(argv) \in Nat /\ argIndex \in Nat /\ f \in Nat
      /\ argIndex <= Len(argv) + 1 /\ f \in 2..argIndex /\ f <= argIndex /\ f >= 2
  BY ScanTypes DEF Window, Behind
<1>2. /\ argv[f - 1] = "-t"
      /\ \A j \in f..(argIndex - 1) : argv[j] # "-t"
      /\ \A j \in 1..(argIndex - 1) : ~EndsOperands(j)
      /\ argIndex = Len(argv) + 1 \/ EndsOperands(argIndex)
  BY DEF Window, Behind
<1>3. ASSUME NEW n \in f..(argIndex - 1)
      PROVE  n \in 1..Len(argv) /\ Operand(n)
  <2>1. n \in 1..Len(argv) /\ f - 1 \in 1..(n - 1)
    BY <1>1, SMT
  <2>2. \A j \in 1..n : j \in 1..(argIndex - 1)
    BY <1>1, SMT
  <2>3. ASSUME NEW j \in (n + 1)..Len(argv), argv[j] = "-t"
        PROVE  \E k \in (n + 1)..(j - 1) : EndsOperands(k)
    <3>1. j \notin f..(argIndex - 1)
      BY <1>2, <2>3
    <3>2. j >= argIndex /\ argIndex <= Len(argv)
      BY <1>1, <3>1, SMT
    <3>3. EndsOperands(argIndex)
      BY <1>1, <1>2, <3>2, SMT
    <3>4. j # argIndex
      BY <2>3, <3>3 DEF EndsOperands, Stops
    <3>5. argIndex \in (n + 1)..(j - 1)
      BY <1>1, <3>2, <3>4, SMT
    <3> QED
      BY <3>3, <3>5
  <2> QED
    BY <1>2, <2>1, <2>2, <2>3 DEF Operand
<1>4. ASSUME NEW n \in 1..Len(argv), Operand(n)
      PROVE  n \in f..(argIndex - 1)
  <2>1. n < argIndex
    <3>1. SUFFICES ASSUME n >= argIndex PROVE FALSE
      BY <1>1, SMT
    <3>2. argIndex \in 1..n /\ argIndex # Len(argv) + 1
      BY <1>1, <3>1, SMT
    <3> QED
      BY <1>2, <1>4, <3>2 DEF Operand
  <2>2. n >= f - 1
    <3>1. SUFFICES ASSUME n < f - 1 PROVE FALSE
      BY <1>1, SMT
    <3>2. f - 1 \in (n + 1)..Len(argv)
      BY <1>1, <3>1, SMT
    <3>3. PICK k \in (n + 1)..((f - 1) - 1) : EndsOperands(k)
      BY <1>2, <1>4, <3>2 DEF Operand
    <3>4. k \in 1..(argIndex - 1)
      BY <1>1, SMT
    <3> QED
      BY <1>2, <3>3, <3>4
  <2>3. n # f - 1
    BY <1>2, <1>4 DEF Operand
  <2> QED
    BY <1>1, <2>1, <2>2, <2>3, SMT
<1> QED
  BY <1>3, <1>4

LEMMA OperandsAre ==
    ASSUME TypeOK, NEW f, Window(f)
    PROVE  Operands = IF f < argIndex THEN SubSeq(argv, f, argIndex - 1) ELSE << >>
<1> DEFINE at == {n \in 1..Len(argv) : Operand(n)}
<1>1. at = f..(argIndex - 1)
  BY WindowIsOperands
<1>2. argIndex \in Nat /\ f \in Nat
  BY ScanTypes DEF Window, Behind
<1> HIDE DEF at
<1>3. Operands = IF at = {} THEN << >>
                 ELSE SubSeq(argv, CHOOSE n \in at : \A m \in at : n <= m,
                                   CHOOSE n \in at : \A m \in at : n >= m)
  BY DEF Operands, at
<1>4. CASE ~(f < argIndex)
  <2>1. at = {}
    BY <1>1, <1>2, <1>4, SMT
  <2> QED
    BY <1>3, <1>4, <2>1
<1>5. CASE f < argIndex
  <2>1. /\ f \in at /\ argIndex - 1 \in at
        /\ \A m \in at : f <= m /\ argIndex - 1 >= m
    BY <1>1, <1>2, <1>5, SMT
  <2>2. \A n \in at : (\A m \in at : n <= m) => n = f
    BY <1>1, <1>2, <2>1, SMT
  <2>3. \A n \in at : (\A m \in at : n >= m) => n = argIndex - 1
    BY <1>1, <1>2, <2>1, SMT
  <2>4. (CHOOSE n \in at : \A m \in at : n <= m) = f
    BY <2>1, <2>2
  <2>5. (CHOOSE n \in at : \A m \in at : n >= m) = argIndex - 1
    BY <2>1, <2>3
  <2>6. Operands = SubSeq(argv, CHOOSE n \in at : \A m \in at : n <= m,
                                CHOOSE n \in at : \A m \in at : n >= m)
    BY <1>3, <2>1, Zenon
  <2>7. Operands = SubSeq(argv, f, argIndex - 1)
    BY <2>4, <2>5, <2>6, Zenon
  <2> QED
    BY <1>5, <2>7
<1> QED
  BY <1>4, <1>5

\* The values of all operands, in their order and with the terminator, are what
\* -t yields for every command line.
THEOREM ListHoldsOperands == Spec => []ListIsOperands
<1>1. ASSUME IInv, Parsed, result = "list", Operands # << >>
      PROVE  /\ Len(list) = Len(Operands) + 1
             /\ \A k \in DOMAIN Operands : list[k] = Decimal[Operands[k]] % 256
             /\ list[Len(list)] = EndOfTable
  <2>1. PICK f \in 2..argIndex :
            Stored(f, Len(list) - 1) /\ (f < argIndex => typeIndex = argIndex)
    BY <1>1 DEF Parsed
  <2>2. TypeOK /\ argv \in Seq(Tokens) /\ list \in Seq(0..EndOfTable)
    BY <1>1 DEF IInv, TypeOK
  <2>3. /\ argIndex \in Nat /\ f \in Nat /\ f >= 2 /\ Len(argv) \in Nat
        /\ argIndex <= Len(argv) + 1 /\ Len(list) \in Nat
    BY <2>2, ScanTypes
  <2>4. f < argIndex /\ Operands = SubSeq(argv, f, argIndex - 1)
    BY <1>1, <2>1, <2>2, OperandsAre DEF Stored
  <2>5. Len(list) - 1 = argIndex - f
    BY <2>1, <2>3, <2>4, SMT DEF Stored
  <2>6. /\ DOMAIN Operands = 1..(argIndex - f) /\ Len(Operands) = argIndex - f
        /\ \A k \in 1..(argIndex - f) : Operands[k] = argv[f + k - 1]
    BY <2>2, <2>3, <2>4, SMT
  <2>7. \A k \in 1..(argIndex - f) : list[k] = Decimal[argv[f + k - 1]] % 256
    BY <2>1, <2>4, <2>5 DEF Stored
  <2>8. Len(list) = Len(Operands) + 1
    <3>1. \A m, n \in Nat : m - 1 = n => m = n + 1
      BY SMT
    <3>2. argIndex - f \in Nat
      BY <2>3, SMT
    <3> QED
      BY <2>3, <2>5, <2>6, <3>1, <3>2, Zenon
  <2> QED
    BY <1>1, <2>6, <2>7, <2>8 DEF Parsed
<1>2. IInv /\ Parsed => ListIsOperands
  BY <1>1, Zenon DEF ListIsOperands
<1>3. Init => Scanned /\ Parsed
  BY SMT DEF Init, Scanned, Parsed
<1>4. IInv /\ Scanned /\ Parsed /\ [Next]_vars => Scanned' /\ Parsed'
  BY NextScanned, NextParsed
<1> QED
  BY <1>2, <1>3, <1>4, Invariance, PTL DEF Spec
=============================================================================

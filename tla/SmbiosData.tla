----------------------------- MODULE SmbiosData -----------------------------
(***************************************************************************)
(* InfoSmbiosRelatedData_ and InfoSmbiosRelatedData (InfoSmbios.c): the    *)
(* structures of the listed SMBIOS types, in list order and then in table  *)
(* order, followed by the processor id.  The two functions differ only in  *)
(* where the list comes from.                                              *)
(*                                                                         *)
(* A buffer is the sequence of the pieces stored in it.  "fault" stands    *)
(* for an access outside the pool that the platform traps.                 *)
(***************************************************************************)
EXTENDS BoardData

CONSTANTS Tables,       \* the SMBIOS tables under study
          TypeLists,    \* the type lists, without their 0x7F terminator
          ClockEnd      \* offset after the last clock field of these two types

ASSUME SmbiosAssumption ==
    /\ Tables \subseteq Seq(Structure)
    /\ TypeLists \subseteq Seq(Nat)
    /\ Processor # MemoryDevice
    /\ ClockEnd \in Nat /\ CpuIdSize \in Nat

Clocked == {Processor, MemoryDevice}

VARIABLES
    memory,     \* may an allocation fail: "ample" or "tight"
    table,      \* the SMBIOS table
    list,       \* TypeList
    pc,
    typeIndex,  \* TypeIndex
    index,      \* Index: the structure of the current type that is next
    data,       \* the pieces at Data, later at SmbiosData
    capacity,   \* size of that buffer
    sumSize,    \* SumSize of InfoGetMeasureTypeData
    tempSize,   \* TempSize of InfoSmbiosRelatedData_
    measured,   \* did InfoGetMeasureTypeData return data
    result,     \* the pointer returned: "null" or "pool"
    size        \* *Size

environment == <<memory, table, list>>
vars == <<memory, table, list, pc, typeIndex, index, data, capacity, sumSize,
          tempSize, measured, result, size>>

Init ==
    /\ memory \in {"ample", "tight"}
    /\ table \in Tables
    /\ list \in TypeLists
    /\ pc = "cpu"
    /\ typeIndex = 1
    /\ index = 1
    /\ data = << >>
    /\ capacity = 0
    /\ sumSize = 0
    /\ tempSize = 0
    /\ measured = "pending"
    /\ result = "null"
    /\ size = 0

-----------------------------------------------------------------------------
\* Mutant: the walk through the table misses its first structure.
OfTypeButFirst(type) ==
    OfTypeIn(SubSeq(table, 2, Len(table)), type)

\* InfoGetSmbiosByType: the structures of a type, in table order.
OfType(type) == OfTypeIn(table, type)

\* InfoGetSmbiosStructureSize: 0 when a string is too long.
StructureSize(s) == IF s.overlong THEN 0 ELSE s.bytes

\* Mutant: only the processor's clocks are cleared.
FilteredProcessor(s) ==
    Piece(s.id, IF s.type = Processor THEN 0 ELSE s.clock, StructureSize(s))

\* InfoFilterFreq clears the clock fields of a copy of the structure.
Filtered(s) ==
    Piece(s.id, IF s.type \in Clocked THEN 0 ELSE s.clock, StructureSize(s))

\* Mutant: the fields are cleared in structures of every type.
FilterOverrunsAny(s) == StructureSize(s) < ClockEnd

\* Its stores land behind the copy when the structure ends before them.
FilterOverruns(s) == s.type \in Clocked /\ StructureSize(s) < ClockEnd

CurrentType == OfType(list[typeIndex])

\* InfoGetCpuID: the id of the first processor structure.
GetCpuId ==
    /\ pc = "cpu"
    /\ OfType(Processor) # << >>
    /\ tempSize' = CpuIdSize
    /\ pc' = "types"
    /\ UNCHANGED environment
    /\ UNCHANGED <<typeIndex, index, data, capacity, sumSize, measured, result,
                   size>>

\* No processor structure, or no memory for the addresses or the id.
NoCpuId ==
    /\ pc = "cpu"
    /\ OfType(Processor) = << >> \/ memory = "tight"
    /\ pc' = "done"
    /\ UNCHANGED environment
    /\ UNCHANGED <<typeIndex, index, data, capacity, sumSize, tempSize,
                   measured, result, size>>

\* InfoGetMeasureTypeData finds the structures of the next type of the list.
FindType ==
    /\ pc = "types"
    /\ typeIndex <= Len(list)
    /\ CurrentType # << >>
    /\ index' = 1
    /\ pc' = "copy"
    /\ UNCHANGED environment
    /\ UNCHANGED <<typeIndex, data, capacity, sumSize, tempSize, measured,
                   result, size>>

\* It returns NULL without writing *Size, which keeps the size of the id.
FailMeasurement ==
    /\ measured' = "failed"
    /\ pc' = "append"
    /\ UNCHANGED environment
    /\ UNCHANGED <<typeIndex, index, data, capacity, sumSize, tempSize, result,
                   size>>

MissType ==
    /\ pc = "types"
    /\ typeIndex <= Len(list)
    /\ CurrentType = << >> \/ memory = "tight"
    /\ FailMeasurement

\* ReallocatePool for the next structure fails.
GrowFails ==
    /\ pc = "copy"
    /\ index <= Len(CurrentType)
    /\ memory = "tight"
    /\ FailMeasurement

\* Mutant: the buffer is grown to the size before this structure.
StoreShort(piece) ==
    /\ sumSize' = sumSize + StructureSize(CurrentType[index])
    /\ capacity' = sumSize
    /\ data' = Append(data, piece)
    /\ index' = index + 1

\* Grow Data by the size of the structure and store a piece behind the old data.
Store(piece) ==
    /\ sumSize' = sumSize + StructureSize(CurrentType[index])
    /\ capacity' = sumSize'
    /\ data' = Append(data, piece)
    /\ index' = index + 1

\* The structure itself, or its filtered copy.
CopyStructure ==
    /\ pc = "copy"
    /\ index <= Len(CurrentType)
    /\ Store(Filtered(CurrentType[index]))
    /\ \/ UNCHANGED pc
       \/ FilterOverruns(CurrentType[index]) /\ pc' = "fault"
    /\ UNCHANGED environment
    /\ UNCHANGED <<typeIndex, tempSize, measured, result, size>>

\* InfoFilterFreq has no memory for its copy: it stores through NULL and, if
\* that is not trapped, returns NULL, and the grown buffer keeps its zeros.
FilterFails ==
    /\ pc = "copy"
    /\ index <= Len(CurrentType)
    /\ CurrentType[index].type \in Clocked
    /\ memory = "tight"
    /\ Store(Zeros(StructureSize(CurrentType[index])))
    /\ pc' \in {"copy", "fault"}
    /\ UNCHANGED environment
    /\ UNCHANGED <<typeIndex, tempSize, measured, result, size>>

\* Mutant: TypeIndex advances by two.
NextTypeButOne ==
    /\ pc = "copy"
    /\ index > Len(CurrentType)
    /\ typeIndex' = typeIndex + 2
    /\ pc' = "types"
    /\ UNCHANGED environment
    /\ UNCHANGED <<index, data, capacity, sumSize, tempSize, measured, result,
                   size>>

\* Mutant: TypeIndex is not incremented.
SameTypeAgain ==
    /\ pc = "copy"
    /\ index > Len(CurrentType)
    /\ UNCHANGED vars

\* All structures of the type are copied.
NextType ==
    /\ pc = "copy"
    /\ index > Len(CurrentType)
    /\ typeIndex' = typeIndex + 1
    /\ pc' = "types"
    /\ UNCHANGED environment
    /\ UNCHANGED <<index, data, capacity, sumSize, tempSize, measured, result,
                   size>>

\* The terminator: *Size = SumSize and return Data.
EndOfList ==
    /\ pc = "types"
    /\ typeIndex > Len(list)
    /\ tempSize' = sumSize
    /\ measured' = "ok"
    /\ pc' = "append"
    /\ UNCHANGED environment
    /\ UNCHANGED <<typeIndex, index, data, capacity, sumSize, result, size>>

\* The pieces that ReallocatePool (TempSize, SumSize, SmbiosData) carries over:
\* none when SmbiosData is NULL, where the new buffer starts with zeros.
Carried == IF measured = "ok" THEN data ELSE <<Zeros(tempSize)>>

\* Append the processor id; CpuData is tested again instead of SmbiosData, and
\* it cannot be NULL here.
AppendCpuId ==
    /\ pc = "append"
    /\ data' = Append(Carried, Piece(OfType(Processor)[1].id, 0, CpuIdSize))
    /\ capacity' = tempSize + CpuIdSize
    /\ size' = capacity'
    /\ result' = "pool"
    /\ pc' = "done"
    /\ UNCHANGED environment
    /\ UNCHANGED <<typeIndex, index, sumSize, tempSize, measured>>

\* ReallocatePool fails: CopyMem through NULL, and NULL is returned.
AppendFails ==
    /\ pc = "append"
    /\ memory = "tight"
    /\ size' = tempSize + CpuIdSize
    /\ pc' \in {"done", "fault"}
    /\ UNCHANGED environment
    /\ UNCHANGED <<typeIndex, index, data, capacity, sumSize, tempSize,
                   measured, result>>

Terminated == pc \in {"done", "fault"} /\ UNCHANGED vars

Next ==
    \/ GetCpuId \/ NoCpuId
    \/ FindType \/ MissType \/ GrowFails \/ CopyStructure \/ FilterFails
    \/ NextType \/ EndOfList
    \/ AppendCpuId \/ AppendFails
    \/ Terminated

Spec == Init /\ [][Next]_vars /\ WF_vars(Next)

-----------------------------------------------------------------------------
(* Properties *)

TypeOK ==
    /\ memory \in {"ample", "tight"}
    /\ table \in Tables /\ list \in TypeLists
    /\ pc \in {"cpu", "types", "copy", "append", "done", "fault"}
    /\ typeIndex \in 1..(Len(list) + 1)
    /\ index \in Nat \ {0}
    /\ data \in Seq([id : Nat, clock : Nat, bytes : Nat])
    /\ {capacity, sumSize, tempSize, size} \subseteq Nat
    /\ measured \in {"pending", "ok", "failed"}
    /\ result \in {"null", "pool"}

BytesOf(pieces) == Total([k \in DOMAIN pieces |-> pieces[k].bytes])

\* The data are a function of the table and the list, which no clock enters:
\* with enough memory exactly what BoardData says, a missing type included.  When
\* memory runs out, a structure may be blanked, and zeros may stand for them all.
Measurement ==
    result = "pool" =>
        /\ memory = "ample" => data = Collected(table, list)
        /\ measured = "ok" =>
             /\ Len(data) = Len(Collected(table, list))
             /\ \A k \in DOMAIN data :
                  data[k] \in {Collected(table, list)[k],
                              Zeros(Collected(table, list)[k].bytes)}

\* The buffer has the size that was asked for and the size that is reported,
\* and every piece lies inside it, also while it grows.
SizesAgree ==
    /\ pc \in {"types", "copy"} => capacity = sumSize
    /\ pc \in {"types", "copy", "done"} => BytesOf(data) <= capacity
    /\ result = "pool" => size = capacity /\ BytesOf(data) = size

\* With enough memory a board without a processor structure gets NULL, since its
\* measurement could not carry a processor id, and NULL has no cause besides a
\* structure that is missing: the processor's or one of a listed type.
NullHasACause ==
    pc = "done" /\ memory = "ample" =>
        /\ ~Present(table, Processor) => result = "null"
        /\ result = "null" =>
             \E type \in {Processor} \cup {list[t] : t \in 1..Len(list)} :
                 ~Present(table, type)

\* The pool is left only when it is exhausted or when a processor or memory
\* structure ends before its clock fields (or has an overlong string).
FaultCauses ==
    pc = "fault" =>
        \/ memory = "tight"
        \/ \E k \in 1..Len(table) :
             /\ table[k].type \in {Processor, MemoryDevice}
             /\ table[k].overlong \/ table[k].bytes < ClockEnd

\* A measurement that failed is reported as a failure ("NULL means failed,
\* other means success").
FailureReported ==
    measured = "failed" /\ pc = "done" => result = "null"

\* The collection ends for every table and every list.
Terminates == <>(pc \in {"done", "fault"})
=============================================================================

------------------------------ MODULE TypeList ------------------------------
(***************************************************************************)
(* InfoBuildMeasureTypeList (InfoSmbios.c): the operands of the -t option  *)
(* as a list of SMBIOS types that ends with 0x7F.                          *)
(*                                                                         *)
(* Indices count from 1: argv[1] is ArgStr[0].  An empty argv stands for   *)
(* ArgStr = NULL.  The element behind the last argument is not part of the *)
(* array the shell allocates: reading it is undefined.                     *)
(***************************************************************************)
EXTENDS Naturals, Sequences

CONSTANTS Tokens,   \* the arguments under study
          Decimal,  \* StrDecimalToUintn of each of them, 0 for a word
          MaxArgs   \* bound: arguments on the command line

EndOfTable == 127
Stops == {"-s", "-f", "-o"}

ASSUME TypeListAssumption ==
    /\ Decimal \in [Tokens -> Nat]
    /\ MaxArgs \in Nat

VARIABLES
    argv,       \* ArgStr, of ArgCount elements
    argIndex,   \* ArgIndex
    typeIndex,  \* TypeIndex
    isFound,    \* IsFound: 0 or 1
    capacity,   \* bytes allocated for TypeList
    list,       \* the bytes stored at TypeList
    result,     \* the list returned: "default", "list" or "null"
    pc

vars == <<argv, argIndex, typeIndex, isFound, capacity, list, result, pc>>

Init ==
    /\ argv \in UNION {[1..n -> Tokens] : n \in 0..MaxArgs}
    /\ argIndex = 1
    /\ typeIndex = 1
    /\ isFound = 0
    /\ capacity = 0
    /\ list = << >>
    /\ result = "pending"
    /\ pc = "scan"

Return(value) == result' = value /\ pc' = "done"

\* if (ArgStr == NULL) return mDefaultTypeList
NoArguments ==
    /\ pc = "scan"
    /\ argv = << >>
    /\ Return("default")
    /\ UNCHANGED <<argv, argIndex, typeIndex, isFound, capacity, list>>

\* ArgIndex++ and the test of the do-while loop.
Advance ==
    /\ argIndex' = argIndex + 1
    /\ pc' = IF argIndex < Len(argv) THEN "scan" ELSE "allocate"
    /\ UNCHANGED <<argv, capacity, list, result>>

\* Mutant: the argument behind -t is passed over.
MeetTypeOptionOff ==
    /\ pc = "scan"
    /\ argv # << >>
    /\ argv[argIndex] = "-t"
    /\ isFound' = 1
    /\ typeIndex' = argIndex + 2
    /\ Advance

\* Mutant: a second -t does not replace the first one.
MeetTypeOptionOnce ==
    /\ pc = "scan"
    /\ argv # << >>
    /\ argv[argIndex] = "-t"
    /\ isFound' = 1
    /\ typeIndex' = IF isFound = 1 THEN typeIndex ELSE argIndex + 1
    /\ Advance

\* -t: the operands start behind it, also when it is not the first -t.
MeetTypeOption ==
    /\ pc = "scan"
    /\ argv # << >>
    /\ argv[argIndex] = "-t"
    /\ isFound' = 1
    /\ typeIndex' = argIndex + 1
    /\ Advance

\* An option behind -t ends the operands: break.
MeetStop ==
    /\ pc = "scan"
    /\ argv # << >>
    /\ isFound = 1
    /\ argv[argIndex] \in Stops
    /\ pc' = "allocate"
    /\ UNCHANGED <<argv, argIndex, typeIndex, isFound, capacity, list, result>>

\* Mutant: the argument is looked at for ever.
PassArgumentForever ==
    /\ pc = "scan"
    /\ argv # << >>
    /\ argv[argIndex] # "-t"
    /\ ~(isFound = 1 /\ argv[argIndex] \in Stops)
    /\ UNCHANGED vars

PassArgument ==
    /\ pc = "scan"
    /\ argv # << >>
    /\ argv[argIndex] # "-t"
    /\ ~(isFound = 1 /\ argv[argIndex] \in Stops)
    /\ Advance
    /\ UNCHANGED <<isFound, typeIndex>>

NoTypeOption ==
    /\ pc = "allocate"
    /\ isFound = 0
    /\ Return("default")
    /\ UNCHANGED <<argv, argIndex, typeIndex, isFound, capacity, list>>

\* Mutant: no byte for the terminator.
AllocateNoTerminator ==
    /\ pc = "allocate"
    /\ isFound = 1
    /\ capacity' = argIndex - typeIndex
    /\ pc' = "parse"
    /\ UNCHANGED <<argv, argIndex, typeIndex, isFound, list, result>>

\* TypeList = AllocateZeroPool (ArgIndex - TypeIndex + 1)
Allocate ==
    /\ pc = "allocate"
    /\ isFound = 1
    /\ \/ /\ capacity' = argIndex - typeIndex + 1
          /\ pc' = "parse"
          /\ UNCHANGED result
       \/ Return("null") /\ UNCHANGED capacity
    /\ UNCHANGED <<argv, argIndex, typeIndex, isFound, list>>

\* One pass of the do-while loop with the value of ArgStr[TypeIndex] mod 256.
Parse(type) ==
    /\ \/ /\ type > EndOfTable
          /\ Return("null")
          /\ UNCHANGED <<list, typeIndex>>
       \/ /\ type <= EndOfTable
          /\ list' = Append(list, type)
          /\ typeIndex' = typeIndex + 1
          /\ pc' = IF typeIndex + 1 < argIndex THEN "parse" ELSE "end"
          /\ UNCHANGED result
    /\ UNCHANGED <<argv, argIndex, isFound, capacity>>

ParseOperand ==
    /\ pc = "parse"
    /\ typeIndex <= Len(argv)
    /\ Parse(Decimal[argv[typeIndex]] % 256)

\* The element behind the arguments is read: NULL ends the loop, and a stray
\* pointer yields some type or is trapped.
ParseBeyond ==
    /\ pc = "parse"
    /\ typeIndex > Len(argv)
    /\ \/ /\ pc' \in {"end", "fault"}
          /\ UNCHANGED <<argv, argIndex, typeIndex, isFound, capacity, list,
                         result>>
       \/ \E token \in Tokens : Parse(Decimal[token] % 256)

\* TypeList[Index] = 0x7f, and only then the check that Index is not 0.
Finish ==
    /\ pc = "end"
    /\ list' = Append(list, EndOfTable)
    /\ Return(IF list = << >> THEN "null" ELSE "list")
    /\ UNCHANGED <<argv, argIndex, typeIndex, isFound, capacity>>

Terminated == pc \in {"done", "fault"} /\ UNCHANGED vars

Next ==
    \/ NoArguments
    \/ MeetTypeOption \/ MeetStop \/ PassArgument
    \/ NoTypeOption \/ Allocate
    \/ ParseOperand \/ ParseBeyond \/ Finish
    \/ Terminated

Spec == Init /\ [][Next]_vars /\ WF_vars(Next)

-----------------------------------------------------------------------------
(* Properties *)

TypeOK ==
    /\ argv \in Seq(Tokens)
    /\ argIndex \in 1..(Len(argv) + 1)
    /\ typeIndex \in 1..(Len(argv) + 2)
    /\ isFound \in {0, 1}
    /\ capacity \in Nat
    /\ list \in Seq(0..EndOfTable)
    /\ result \in {"pending", "default", "list", "null"}
    /\ pc \in {"scan", "allocate", "parse", "end", "done", "fault"}

\* An argument that is an option behind some -t.
EndsOperands(i) ==
    argv[i] \in Stops /\ \E j \in 1..(i - 1) : argv[j] = "-t"

\* The operands: the arguments behind the last -t that precedes such an option,
\* up to that option.
Operand(i) ==
    /\ argv[i] # "-t"
    /\ \A j \in 1..i : ~EndsOperands(j)
    /\ \E j \in 1..(i - 1) : argv[j] = "-t"
    /\ \A j \in (i + 1)..Len(argv) :
         argv[j] = "-t" => \E k \in (i + 1)..(j - 1) : EndsOperands(k)

Operands ==
    LET i == {n \in 1..Len(argv) : Operand(n)}
    IN  IF i = {} THEN << >>
        ELSE SubSeq(argv, CHOOSE n \in i : \A m \in i : n <= m,
                          CHOOSE n \in i : \A m \in i : n >= m)

\* When -t has operands, the list returned is their values modulo 256 in the
\* order of the command line, and the terminator (the two loops and their
\* indices); none of the values is above 0x7F.
ListIsOperands ==
    result = "list" /\ Operands # << >> =>
        /\ Len(list) = Len(Operands) + 1
        /\ \A k \in DOMAIN Operands : list[k] = Decimal[Operands[k]] % 256
        /\ list[Len(list)] = EndOfTable

\* The buffer is overrun only by the terminator, and only for a -t without
\* operands, which got a buffer of one byte.
OverrunCause ==
    Len(list) > capacity => capacity = 1 /\ Len(list) = 2

\* The operands never end before they start, so the unsigned ArgIndex-TypeIndex
\* cannot wrap and the check in front of it never fires.
IndicesOrdered ==
    pc = "allocate" /\ isFound = 1 => typeIndex <= argIndex

\* A -t that is followed at once by another option, and so has no operands, is
\* an error ("error input of the args for cmd -t").
MissingOperandRejected ==
    /\ Operands = << >>
    /\ \E i \in 1..(Len(argv) - 1) : argv[i] = "-t" /\ argv[i + 1] \in Stops
    => result # "list"

\* The list is built or refused, for every command line.
Terminates == <>(pc \in {"done", "fault"})
=============================================================================

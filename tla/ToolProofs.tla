----------------------------- MODULE ToolProofs -----------------------------
(***************************************************************************)
(* The shell tool's types, the causes of its faults, the meaning of its    *)
(* options and the files it leaves behind, for command lines of any        *)
(* length, any width of the argument counter and any set of failing calls. *)
(* The option loop's reads behind mArgv are one point: they happen for one *)
(* form of command line only, also where the counter wraps.  The order of  *)
(* the writes is the other: files of one name may be written four times.   *)
(***************************************************************************)
EXTENDS Tool, TLAPS

LastIsOption == argv[Len(argv)] \in ValueOptions

\* A name that was read behind mArgv comes from an option without its value.
StrayNames == "stray" \in {fileName, hashName} => LastIsOption

\* Which data are at hand.
Phase ==
    /\ pc \in {"delete", "create", "write"} => job.data # "none"
    /\ pc = "digest" => hash # "none"

IInv == TypeOK /\ StrayNames /\ Phase /\ FaultCauses

-----------------------------------------------------------------------------
\* A number below the modulus is its own remainder.
LEMMA SmallRemainder ==
    ASSUME NEW n \in Nat, NEW m \in Nat, n < m
    PROVE  n % m = n
  BY SMT

LEMMA ArgumentList ==
    ASSUME argv \in Argvs, beyond \in {"null", "stray"}
    PROVE  /\ argv \in Seq(Names)
           /\ Len(argv) \in Nat \ {0}
           /\ beyond \notin Names
           /\ Argc \in 0..(IndexMod - 1)
           /\ Argc <= Len(argv)
<1>1. argv \in Seq(Names)
  BY ToolAssumption DEF Names
<1>2. argv # << >>
  BY ToolAssumption
<1>3. Len(argv) \in Nat \ {0}
  BY <1>1, <1>2, SMT
<1>4. beyond \notin Names
  BY ToolAssumption DEF Names, Options, ValueOptions
<1>5. Argc \in 0..(IndexMod - 1) /\ Argc <= Len(argv)
  BY <1>3, ToolAssumption, SMT DEF Argc
<1> QED
  BY <1>1, <1>3, <1>4, <1>5

\* The step to an option's value stays in the counter's range, and never goes
\* further than one argument.
LEMMA StepOfIndex ==
    ASSUME NEW i \in 0..(IndexMod - 1)
    PROVE  Inc(i) \in 0..(IndexMod - 1) /\ Inc(i) <= i + 1
  BY ToolAssumption, SMT DEF Inc

LEMMA ArgumentType ==
    ASSUME argv \in Argvs, beyond \in {"null", "stray"}, NEW i \in Nat
    PROVE  /\ Arg(i) \in Names \cup {"null", "stray"}
           /\ Arg(i) \in Names <=> i < Len(argv)
<1>1. CASE i < Len(argv)
  <2>1. i + 1 \in 1..Len(argv)
    BY <1>1, ArgumentList, SMT
  <2>2. argv[i + 1] \in Names
    BY <2>1, ArgumentList, SMT
  <2> QED
    BY <1>1, <2>2 DEF Arg
<1>2. CASE ~(i < Len(argv))
  BY <1>2, ArgumentList DEF Arg
<1> QED
  BY <1>1, <1>2

\* Only an option that is the last argument has its value behind mArgv.
LEMMA ValueBeyond ==
    ASSUME argv \in Argvs, beyond \in {"null", "stray"},
           NEW i \in 0..(IndexMod - 1),
           Arg(i) \in ValueOptions, Arg(Inc(i)) \notin Names
    PROVE  LastIsOption
<1>1. i \in Nat /\ Inc(i) \in Nat /\ Inc(i) <= i + 1
  BY StepOfIndex, ToolAssumption, SMT
<1>2. i < Len(argv)
  BY <1>1, ArgumentType DEF Names, Options
<1>3. ~(Inc(i) < Len(argv))
  BY <1>1, ArgumentType
<1>4. i + 1 = Len(argv)
  BY <1>1, <1>2, <1>3, ArgumentList, SMT
<1> QED
  BY <1>2, <1>4 DEF Arg, LastIsOption

\* One pass of the option loop.
LEMMA ParseArgumentStep == IInv /\ ParseArgument => IInv'
<1> SUFFICES ASSUME IInv, ParseArgument PROVE IInv'
  OBVIOUS
<1> DEFINE afterS == IF Arg(argIndex) = "-s" THEN Inc(argIndex) ELSE argIndex
           afterF == IF Arg(afterS) = "-f" THEN Inc(afterS) ELSE afterS
           afterO == IF Arg(afterF) = "-o" THEN Inc(afterF) ELSE afterF
<1>1. /\ argv \in Argvs /\ beyond \in {"null", "stray"}
      /\ argIndex \in 0..(IndexMod - 1) /\ pc = "options"
      /\ argIndex < Argc
  BY DEF IInv, TypeOK, ParseArgument
<1>2. Arg(argIndex) \in Names
  BY <1>1, ArgumentList, ArgumentType, SMT
<1>3. afterS \in 0..(IndexMod - 1)
  BY <1>1, StepOfIndex
<1>4. afterF \in 0..(IndexMod - 1)
  BY <1>3, StepOfIndex
<1>5. afterO \in 0..(IndexMod - 1)
  BY <1>4, StepOfIndex
<1>6. Arg(afterS) \notin Names => LastIsOption
  BY <1>1, <1>2, ValueBeyond DEF ValueOptions
<1>7. Arg(afterF) \notin Names => LastIsOption
  BY <1>1, <1>3, <1>6, ValueBeyond DEF ValueOptions
<1>8. Arg(afterO) \notin Names => LastIsOption
  BY <1>1, <1>4, <1>7, ValueBeyond DEF ValueOptions
<1>9. /\ fileName' = IF Arg(afterS) = "-f" THEN Arg(afterF) ELSE fileName
      /\ hashName' = IF Arg(afterF) = "-o" THEN Arg(afterO) ELSE hashName
      /\ argIndex' = Inc(afterO)
      /\ pc' = "options" \/ (beyond \in {Arg(afterS), Arg(afterF)} /\ pc' = "fault")
      /\ UNCHANGED <<argv, beyond, board, initial>> /\ UNCHANGED files
      /\ UNCHANGED <<str, hash, rebooted>>
  BY DEF ParseArgument
<1>10. /\ Arg(afterF) \in Names \cup {"null", "stray"}
       /\ Arg(afterO) \in Names \cup {"null", "stray"}
  BY <1>1, <1>4, <1>5, ArgumentType, ToolAssumption, SMT
<1>11. argIndex' \in 0..(IndexMod - 1)
  BY <1>5, <1>9, StepOfIndex
<1>12. "stray" \notin Names /\ beyond \notin Names
  BY <1>1, ArgumentList, ToolAssumption DEF Names, Options, ValueOptions
<1> HIDE DEF afterS, afterF, afterO
<1>13. TypeOK'
  BY <1>9, <1>10, <1>11 DEF IInv, TypeOK, files
<1>14. StrayNames'
  BY <1>7, <1>8, <1>9, <1>12 DEF IInv, StrayNames, LastIsOption
<1>15. Phase' /\ FaultCauses'
  BY <1>1, <1>6, <1>7, <1>9, <1>12
     DEF IInv, Phase, FaultCauses, LastIsOption, files
<1> QED
  BY <1>13, <1>14, <1>15 DEF IInv

-----------------------------------------------------------------------------
\* Handing data to InfoWriteFile.
LEMMA WriteFileStep ==
    ASSUME TypeOK, Phase,
           NEW name \in Names \cup {"null", "stray"},
           NEW data \in {"null", "dump", "raw", "digest", "seal", "junk"},
           NEW next \in {"raw", "hash", "encrypt", "reboot"},
           WriteFile(name, data, next),
           UNCHANGED arguments, UNCHANGED <<str, hash, disk, deleted, rebooted>>
    PROVE  /\ TypeOK' /\ Phase'
           /\ pc' = "fault" => name = "stray"
<1>1. CASE name \in Names /\ data # "null" /\ pc' = "delete"
           /\ job' = [name |-> name, data |-> data, next |-> next]
           /\ UNCHANGED reported
  BY <1>1 DEF TypeOK, Phase, arguments
<1>2. CASE UNCHANGED job /\ reported' = reported \cup {data}
           /\ pc' \in {next} \cup (IF name = "stray" THEN {"fault"} ELSE {})
  BY <1>2 DEF TypeOK, Phase, arguments
<1> QED
  BY <1>1, <1>2 DEF WriteFile

\* The contents a file may have.
Contents == {"absent", "old", "empty", "partial", "mixed", "dump", "raw",
             "digest", "seal", "junk"}

\* Creating and writing the file of the InfoWriteFile under way.
LEMMA FileStep ==
    ASSUME IInv, NEW content \in Contents,
           pc \in {"create", "write"},
           disk' = [disk EXCEPT ![job.name] = content] \/ UNCHANGED disk,
           reported' \in {reported, reported \cup {job.data}},
           pc' \in {"write", job.next}, UNCHANGED arguments,
           UNCHANGED <<str, hash, job, deleted, rebooted>>
    PROVE  IInv'
<1>1. disk' \in [Names -> Contents]
  BY DEF IInv, TypeOK, Contents
<1>2. reported' \subseteq {"null", "dump", "raw", "digest", "seal", "junk"}
  BY DEF IInv, TypeOK, Phase
<1>3. pc' \in {"write", "done", "raw", "hash", "encrypt", "reboot"}
  BY DEF IInv, TypeOK
<1>4. TypeOK'
  BY <1>1, <1>2, <1>3 DEF IInv, TypeOK, Contents, arguments
<1>5. StrayNames' /\ Phase' /\ FaultCauses'
  BY <1>3 DEF IInv, StrayNames, LastIsOption, Phase, FaultCauses, arguments
<1> QED
  BY <1>4, <1>5 DEF IInv

\* Whether the measurement may be trapped is a matter of what never changes.
LEMMA MeasurementStays ==
    UNCHANGED <<argv, beyond, board>> => Trapped' = Trapped
  BY DEF Trapped, TypeBeyond, OptionAsType, TypeOption, EndsTypes

LEMMA InitIInv == Init => IInv
<1> SUFFICES ASSUME Init PROVE IInv
  OBVIOUS
<1>1. 1 \in 0..(IndexMod - 1)
  BY ToolAssumption, SMT
<1>2. TypeOK
  BY <1>1, ToolAssumption DEF Init, TypeOK, NoJob, Names
<1> QED
  BY <1>2 DEF Init, IInv, StrayNames, Phase, FaultCauses

LEMMA NextIInv == IInv /\ [Next]_vars => IInv'
<1> SUFFICES ASSUME IInv, [Next]_vars PROVE IInv'
  OBVIOUS
<1> USE DEF IInv
<1>1. CASE GetArg \/ Help \/ OptionsEnd \/ Reboot
  BY <1>1 DEF GetArg, Help, OptionsEnd, Reboot, arguments, files, TypeOK,
     StrayNames, Phase, FaultCauses, LastIsOption
<1>2. CASE ParseArgument
  BY <1>2, ParseArgumentStep
<1>3. CASE Measure
  <2>1. Trapped' = Trapped
    BY <1>3, MeasurementStays DEF Measure, arguments
  <2> QED
    BY <1>3, <2>1 DEF Measure, arguments, files, TypeOK, StrayNames, Phase,
       FaultCauses, LastIsOption
<1>4. CASE Hash
  BY <1>4 DEF Hash, arguments, files, TypeOK, StrayNames, Phase, FaultCauses,
     LastIsOption
<1>5. ASSUME UNCHANGED arguments, UNCHANGED <<str, hash, disk, deleted, rebooted>>,
             NEW name \in {fileName, hashName, Series},
             NEW data \in {"null", "dump", "raw", "digest", "seal", "junk"},
             NEW next \in {"raw", "hash", "encrypt", "reboot"},
             WriteFile(name, data, next)
      PROVE  IInv'
  <2>1. name \in Names \cup {"null", "stray"}
    BY ToolAssumption DEF TypeOK, Names
  <2>2. TypeOK' /\ Phase' /\ (pc' = "fault" => name = "stray")
    BY <1>5, <2>1, WriteFileStep
  <2>3. StrayNames'
    BY <1>5 DEF StrayNames, LastIsOption, arguments
  <2>4. Series # "stray"
    BY ToolAssumption
  <2>5. FaultCauses'
    BY <1>5, <2>2, <2>4 DEF FaultCauses, StrayNames, LastIsOption, arguments
  <2> QED
    BY <2>2, <2>3, <2>5
<1>6. CASE Dump
  <2>1. CASE fileName = "null" /\ pc' = "hash" /\ UNCHANGED <<job, reported>>
    BY <1>6, <2>1 DEF Dump, arguments, TypeOK, StrayNames, Phase, FaultCauses,
       LastIsOption
  <2> QED
    BY <1>5, <1>6, <2>1 DEF Dump
<1>7. CASE Raw
  BY <1>5, <1>7 DEF Raw
<1>8. CASE WriteDigest
  <2>1. CASE hashName = "null" /\ pc' = "encrypt" /\ UNCHANGED <<job, reported>>
    BY <1>8, <2>1 DEF WriteDigest, arguments, TypeOK, StrayNames, Phase,
       FaultCauses, LastIsOption
  <2>2. CASE WriteFile(hashName, hash, "encrypt")
    <3>1. hash \in {"null", "dump", "raw", "digest", "seal", "junk"}
      BY <1>8 DEF WriteDigest, TypeOK, Phase
    <3> QED
      BY <1>5, <1>8, <2>2, <3>1 DEF WriteDigest
  <2> QED
    BY <1>8, <2>1, <2>2 DEF WriteDigest
<1>9. CASE Encrypt
  <2>1. CASE hash = "null" /\ pc' = "fault" /\ UNCHANGED <<job, reported>>
    BY <1>9, <2>1 DEF Encrypt, arguments, TypeOK, StrayNames, Phase,
       FaultCauses, LastIsOption
  <2> QED
    BY <1>5, <1>9, <2>1 DEF Encrypt
<1>10. CASE DeleteFile
  BY <1>10 DEF DeleteFile, arguments, TypeOK, StrayNames, Phase, FaultCauses,
     LastIsOption
<1>11. CASE CreateFile
  <2>1. disk[job.name] \in Contents
    BY DEF TypeOK, Contents
  <2>2. PICK content \in Contents :
            disk' = [disk EXCEPT ![job.name] = content] \/ UNCHANGED disk
    BY <1>11, <2>1 DEF CreateFile, Contents
  <2> QED
    BY <1>11, <2>2, FileStep DEF CreateFile
<1>12. CASE WriteData
  <2>1. disk[job.name] \in Contents /\ job.data \in Contents
    BY <1>12 DEF WriteData, TypeOK, Phase, Contents
  <2>2. PICK content \in Contents :
            disk' = [disk EXCEPT ![job.name] = content]
    BY <1>12, <2>1 DEF WriteData, Contents
  <2> QED
    BY <1>12, <2>2, FileStep DEF WriteData
<1>13. CASE UNCHANGED vars
  <2>1. Trapped' = Trapped
    BY <1>13, MeasurementStays DEF vars
  <2> QED
    BY <1>13, <2>1
       DEF vars, TypeOK, StrayNames, Phase, FaultCauses, LastIsOption
<1> QED
  BY <1>1, <1>2, <1>3, <1>4, <1>6, <1>7, <1>8, <1>9, <1>10, <1>11, <1>12, <1>13
     DEF Next, Terminated

-----------------------------------------------------------------------------
\* The invariant holds in every state of every run of the tool.
THEOREM Invariance == Spec => []IInv
  BY InitIInv, NextIInv, PTL DEF Spec

\* Every variable of the tool keeps its type; the index stays below IndexMod.
THEOREM TypeCorrect == Spec => []TypeOK
<1>1. IInv => TypeOK
  BY DEF IInv
<1> QED
  BY <1>1, Invariance, PTL

\* Whatever the number of arguments, and however the index wraps, the tool
\* accesses undefined memory only for an option or a -t without its value, on a
\* board that is unsafe to measure, or when the data or the hash were lost.
THEOREM FaultsHaveCauses == Spec => []FaultCauses
<1>1. IInv => FaultCauses
  BY DEF IInv
<1> QED
  BY <1>1, Invariance, PTL

-----------------------------------------------------------------------------
(* The options of a plain command line. *)

\* name is the value of the last such option among the first n arguments.
IsLast(option, name, n) ==
    \/ name = "null" /\ \A i \in 1..n : argv[i] # option
    \/ \E i \in 1..n :
         /\ argv[i] = option /\ name = argv[i + 1]
         /\ \A j \in (i + 1)..n : argv[j] # option

\* The first argIndex arguments are read; the index does not wrap.
OptionsSoFar ==
    Plain =>
        /\ pc = "options" =>
             /\ argIndex \in 1..Len(argv)
             /\ IsLast("-f", fileName, argIndex)
             /\ IsLast("-o", hashName, argIndex)
        /\ pc = "measure" =>
             /\ IsLast("-f", fileName, Len(argv))
             /\ IsLast("-o", hashName, Len(argv))
        /\ pc = "getarg" =>
             argIndex = 1 /\ fileName = "null" /\ hashName = "null"

\* Arguments that are not the option do not change what its last value is.
LEMMA LastStays ==
    ASSUME NEW option, NEW name, NEW n \in Nat, NEW m \in Nat, n <= m,
           IsLast(option, name, n), \A i \in (n + 1)..m : argv[i] # option
    PROVE  IsLast(option, name, m)
<1>1. CASE name = "null" /\ \A i \in 1..n : argv[i] # option
  <2>1. \A i \in 1..m : i \in 1..n \/ i \in (n + 1)..m
    BY SMT
  <2> QED
    BY <1>1, <2>1 DEF IsLast
<1>2. ASSUME NEW i \in 1..n, argv[i] = option, name = argv[i + 1],
             \A j \in (i + 1)..n : argv[j] # option
      PROVE  IsLast(option, name, m)
  <2>1. \A j \in (i + 1)..m : j \in (i + 1)..n \/ j \in (n + 1)..m
    BY SMT
  <2>2. \A j \in (i + 1)..m : argv[j] # option
    BY <1>2, <2>1
  <2>3. i \in 1..m
    BY SMT
  <2> QED
    BY <1>2, <2>2, <2>3 DEF IsLast
<1> QED
  BY <1>1, <1>2 DEF IsLast

\* An option whose value is not itself that option.
LEMMA LastIsNew ==
    ASSUME NEW option, NEW n \in Nat, argv[n + 1] = option,
           argv[n + 2] # option
    PROVE  IsLast(option, argv[n + 2], n + 2)
<1>1. n + 1 \in 1..(n + 2) /\ (n + 1) + 1 = n + 2
  BY SMT
<1>2. \A j \in ((n + 1) + 1)..(n + 2) : j = n + 2
  BY SMT
<1> QED
  BY <1>1, <1>2 DEF IsLast

\* The value found last is LastValue.
LEMMA LastIsLastValue ==
    ASSUME argv \in Argvs, beyond \in {"null", "stray"}, NEW option, NEW name,
           IsLast(option, name, Len(argv))
    PROVE  name = LastValue(option)
<1> DEFINE at == {n \in DOMAIN argv : argv[n] = option}
<1>1. DOMAIN argv = 1..Len(argv) /\ Len(argv) \in Nat
  BY ArgumentList
<1>2. CASE name = "null" /\ \A i \in 1..Len(argv) : argv[i] # option
  <2>1. at = {}
    BY <1>1, <1>2
  <2> QED
    BY <1>2, <2>1 DEF LastValue
<1>3. ASSUME NEW i \in 1..Len(argv), argv[i] = option, name = argv[i + 1],
             \A j \in (i + 1)..Len(argv) : argv[j] # option
      PROVE  name = LastValue(option)
  <2>1. i \in at /\ at # {}
    BY <1>1, <1>3
  <2>2. \A n \in at : n \in 1..Len(argv) /\ n \notin (i + 1)..Len(argv)
    BY <1>1, <1>3
  <2>3. \A n \in at : i >= n
    BY <1>1, <2>2, SMT
  <2>4. \A k \in at : (\A n \in at : k >= n) => k = i
    BY <1>1, <2>1, <2>2, <2>3, SMT
  <2>5. (CHOOSE k \in at : \A n \in at : k >= n) = i
    BY <2>1, <2>3, <2>4
  <2> QED
    BY <1>3, <2>1, <2>5 DEF LastValue
<1> QED
  BY <1>2, <1>3 DEF IsLast

\* Below the limit of the counter, an index into the list addresses its argument.
LEMMA PlainArguments ==
    ASSUME argv \in Argvs, beyond \in {"null", "stray"}, Plain,
           NEW i \in 1..Len(argv), i < Argc
    PROVE  /\ Argc = Len(argv)
           /\ i + 1 \in 1..Len(argv) /\ i \in 0..(IndexMod - 1)
           /\ Arg(i) = argv[i + 1]
           /\ argv[i + 1] \in ValueOptions =>
                /\ i + 2 \in 1..Len(argv) /\ Inc(i) = i + 1
                /\ i + 1 \in 0..(IndexMod - 1)
                /\ Arg(i + 1) = argv[i + 2]
                /\ argv[i + 2] \notin ValueOptions
           /\ \A k \in 0..(Len(argv) - 1) : Inc(k) = k + 1
<1>1. Len(argv) \in Nat \ {0} /\ DOMAIN argv = 1..Len(argv) /\ IndexMod \in Nat
  BY ArgumentList, ToolAssumption
<1>2. Len(argv) < IndexMod
  BY DEF Plain
<1>3. Argc = Len(argv)
  <2>1. Len(argv) \in Nat /\ IndexMod \in Nat
    BY <1>1
  <2> QED
    BY <1>2, <2>1, SmallRemainder, Zenon DEF Argc
<1>4. i + 1 \in 1..Len(argv) /\ i \in 0..(IndexMod - 1) /\ i < Len(argv)
  BY <1>1, <1>2, <1>3, SMT
<1>5. \A k \in 0..(Len(argv) - 1) : Inc(k) = k + 1
  BY <1>1, <1>2, SMT DEF Inc
<1>6. ASSUME argv[i + 1] \in ValueOptions
      PROVE  /\ i + 2 \in 1..Len(argv) /\ i + 1 \in 0..(IndexMod - 1)
             /\ Arg(i + 1) = argv[i + 2]
             /\ argv[i + 2] \notin ValueOptions
  <2>1. i + 1 < Len(argv) /\ argv[(i + 1) + 1] \in Words
    BY <1>1, <1>4, <1>6 DEF Plain
  <2>2. (i + 1) + 1 = i + 2 /\ i + 2 \in 1..Len(argv)
        /\ i + 1 \in 0..(IndexMod - 1)
    BY <1>1, <1>2, <2>1, SMT
  <2> QED
    BY <2>1, <2>2, ToolAssumption DEF Arg, Options
<1>7. Inc(i) = i + 1
  BY <1>1, <1>4, <1>5, SMT
<1> QED
  BY <1>3, <1>4, <1>5, <1>6, <1>7 DEF Arg

\* One pass of the option loop reads an option with its value, or a word.
LEMMA ParseOptionsStep ==
    IInv /\ OptionsSoFar /\ ParseArgument => OptionsSoFar'
<1> SUFFICES ASSUME IInv, OptionsSoFar, ParseArgument, Plain, pc' = "options"
             PROVE  /\ argIndex' \in 1..Len(argv)
                    /\ IsLast("-f", fileName', argIndex')
                    /\ IsLast("-o", hashName', argIndex')
  BY DEF OptionsSoFar, ParseArgument, Plain, IsLast
<1> DEFINE i == argIndex
           afterS == IF Arg(i) = "-s" THEN Inc(i) ELSE i
           afterF == IF Arg(afterS) = "-f" THEN Inc(afterS) ELSE afterS
           afterO == IF Arg(afterF) = "-o" THEN Inc(afterF) ELSE afterF
<1>1. /\ argv \in Argvs /\ beyond \in {"null", "stray"} /\ i < Argc
      /\ i \in 1..Len(argv)
      /\ IsLast("-f", fileName, i) /\ IsLast("-o", hashName, i)
  BY DEF IInv, TypeOK, ParseArgument, OptionsSoFar
<1>2. /\ fileName' = IF Arg(afterS) = "-f" THEN Arg(afterF) ELSE fileName
      /\ hashName' = IF Arg(afterF) = "-o" THEN Arg(afterO) ELSE hashName
      /\ argIndex' = Inc(afterO)
  BY DEF ParseArgument
<1>3. /\ i + 1 \in 1..Len(argv) /\ Arg(i) = argv[i + 1]
      /\ argv[i + 1] \in ValueOptions =>
           /\ i + 2 \in 1..Len(argv) /\ Inc(i) = i + 1
           /\ Arg(i + 1) = argv[i + 2]
           /\ argv[i + 2] \notin ValueOptions
      /\ \A k \in 0..(Len(argv) - 1) : Inc(k) = k + 1
  BY <1>1, PlainArguments
<1>4. Len(argv) \in Nat /\ i \in Nat /\ i + 1 \in Nat /\ i + 2 \in Nat
  BY <1>1, ArgumentList, SMT
<1>5. CASE argv[i + 1] \notin ValueOptions
  <2>1. afterS = i /\ afterF = i /\ afterO = i
    BY <1>3, <1>5 DEF ValueOptions
  <2>2. argIndex' = i + 1
    BY <1>2, <1>3, <1>4, <2>1, SMT
  <2>3. fileName' = fileName /\ hashName' = hashName
    BY <1>2, <1>3, <1>5, <2>1 DEF ValueOptions
  <2>4. \A k \in (i + 1)..(i + 1) : argv[k] \notin ValueOptions
    BY <1>4, <1>5, SMT
  <2>5. IsLast("-f", fileName, i + 1) /\ IsLast("-o", hashName, i + 1)
    BY <1>1, <1>4, <2>4, LastStays DEF ValueOptions
  <2> QED
    BY <1>3, <2>2, <2>3, <2>5
<1>6. CASE argv[i + 1] \in ValueOptions
  <2>1. afterO = i + 1
    BY <1>3, <1>6 DEF ValueOptions
  <2>2. argIndex' = i + 2
    <3>1. i + 1 \in 0..(Len(argv) - 1) /\ (i + 1) + 1 = i + 2
      BY <1>3, <1>4, <1>6, SMT
    <3> QED
      BY <1>2, <1>3, <2>1, <3>1
  <2>3. /\ fileName' = IF argv[i + 1] = "-f" THEN argv[i + 2] ELSE fileName
        /\ hashName' = IF argv[i + 1] = "-o" THEN argv[i + 2] ELSE hashName
    BY <1>2, <1>3, <1>6 DEF ValueOptions
  <2>4. \A k \in (i + 1)..(i + 2) : k = i + 1 \/ k = i + 2
    BY <1>4, SMT
  <2>5. IsLast("-f", fileName', i + 2)
    <3>1. CASE argv[i + 1] = "-f"
      BY <1>3, <1>4, <2>3, <3>1, LastIsNew DEF ValueOptions
    <3>2. CASE argv[i + 1] # "-f"
      <4>1. \A k \in (i + 1)..(i + 2) : argv[k] # "-f"
        BY <1>3, <1>6, <2>4, <3>2 DEF ValueOptions
      <4>2. i <= i + 2
        BY <1>4, SMT
      <4> QED
        BY <1>1, <1>4, <2>3, <3>2, <4>1, <4>2, LastStays
    <3> QED
      BY <3>1, <3>2
  <2>6. IsLast("-o", hashName', i + 2)
    <3>1. CASE argv[i + 1] = "-o"
      BY <1>3, <1>4, <2>3, <3>1, LastIsNew DEF ValueOptions
    <3>2. CASE argv[i + 1] # "-o"
      <4>1. \A k \in (i + 1)..(i + 2) : argv[k] # "-o"
        BY <1>3, <1>6, <2>4, <3>2 DEF ValueOptions
      <4>2. i <= i + 2
        BY <1>4, SMT
      <4> QED
        BY <1>1, <1>4, <2>3, <3>2, <4>1, <4>2, LastStays
    <3> QED
      BY <3>1, <3>2
  <2> QED
    BY <1>3, <1>6, <2>2, <2>5, <2>6
<1> QED
  BY <1>5, <1>6

LEMMA InitOptions == Init => OptionsSoFar
  BY DEF Init, OptionsSoFar

LEMMA NextOptions ==
    IInv /\ OptionsSoFar /\ [Next]_vars => OptionsSoFar'
<1> SUFFICES ASSUME IInv, OptionsSoFar, [Next]_vars PROVE OptionsSoFar'
  OBVIOUS
<1> USE DEF OptionsSoFar, Plain, IsLast
<1>1. CASE GetArg
  <2>1. CASE pc' = "options" /\ Plain
    <3>1. Len(argv) \in Nat \ {0}
      BY ArgumentList DEF IInv, TypeOK
    <3>2. 1 \in 1..Len(argv) /\ \A i \in 1..1 : i = 1
      BY <3>1, SMT
    <3>3. argv[1] \notin Options
      BY ToolAssumption DEF IInv, TypeOK
    <3> QED
      BY <1>1, <2>1, <3>2, <3>3 DEF GetArg, arguments, Options, ValueOptions
  <2> QED
    BY <1>1, <2>1 DEF GetArg, arguments
<1>2. CASE OptionsEnd
  <2>1. CASE Plain
    <3>1. /\ Len(argv) \in Nat /\ argIndex \in 1..Len(argv) /\ argIndex >= Argc
          /\ IndexMod \in Nat /\ Len(argv) < IndexMod
      BY <1>2, <2>1, ArgumentList, ToolAssumption DEF OptionsEnd, IInv, TypeOK
    <3>2. argIndex >= Len(argv)
      BY <3>1, SmallRemainder, Zenon DEF Argc
    <3>3. argIndex = Len(argv)
      <4>1. \A n \in Nat : \A k \in 1..n : k >= n => k = n
        BY SMT
      <4> QED
        BY <3>1, <3>2, <4>1, Zenon
    <3> QED
      BY <1>2, <2>1, <3>3 DEF OptionsEnd, arguments
  <2> QED
    BY <1>2, <2>1 DEF OptionsEnd, arguments
<1>3. CASE ParseArgument
  BY <1>3, ParseOptionsStep
<1>4. CASE Measure \/ Help \/ Reboot
  BY <1>4 DEF Measure, Help, Reboot, arguments
<1>5. CASE Dump \/ Raw \/ WriteDigest \/ Encrypt
  BY <1>5 DEF Dump, Raw, WriteDigest, Encrypt, WriteFile, arguments
<1>6. CASE Hash \/ DeleteFile
  BY <1>6 DEF Hash, DeleteFile, arguments
<1>7. CASE CreateFile \/ WriteData
  BY <1>7 DEF CreateFile, WriteData, arguments, IInv, TypeOK
<1>8. CASE UNCHANGED vars
  BY <1>8 DEF vars
<1> QED
  BY <1>1, <1>2, <1>3, <1>4, <1>5, <1>6, <1>7, <1>8 DEF Next, Terminated

\* The option loop gives every plain command line its meaning, whatever its
\* length: the last -f and the last -o count, wherever they stand.
THEOREM OptionsAreRead == Spec => []OptionsRead
<1>1. IInv /\ OptionsSoFar => OptionsRead
  BY LastIsLastValue DEF IInv, TypeOK, OptionsSoFar, OptionsRead
<1> QED
  BY <1>1, Invariance, InitOptions, NextOptions, PTL DEF Spec

-----------------------------------------------------------------------------
(* The files. *)

FilePcs == {"delete", "create", "write"}

\* Where the tool is, or will be when the InfoWriteFile under way returns.
Stage == IF pc \in FilePcs THEN job.next ELSE pc

\* Who wrote the name last of those whose InfoWriteFile lies before the stage.
\* The raw data in series.TXT are left out: the seal always follows them.
Latest(name, stage) ==
    IF name = Series /\ stage = "reboot"
    THEN IF hash = "digest" THEN "seal" ELSE "junk"
    ELSE IF name = hashName /\ hash = "digest" /\ stage \in {"encrypt", "reboot"}
    THEN "digest"
    ELSE IF name = fileName
              /\ stage \in {"raw", "hash", "digest", "encrypt", "reboot"}
    THEN "dump"
    ELSE "none"

\* What FilesComplete says of one file and the data written to it last.
Complete(name, last) ==
    IF last = "none"
    THEN disk[name] = initial
    ELSE /\ deleted = "all"
         /\ last \notin reported
         /\ last = "dump" => "null" \notin reported
         => disk[name] = last

\* The files nothing is known of yet: the one being written, and series.txt.
Unsettled ==
    (IF pc \in FilePcs THEN {job.name} ELSE {})
      \cup (IF Stage = "reboot" THEN {} ELSE {Series})

\* The InfoWriteFile under way makes its file the latest of that name; the old
\* file is gone between the delete and the create, and the new one is empty.
JobUnderWay ==
    pc \in FilePcs =>
        /\ job.next # "done"
        /\ \/ job.data = Latest(job.name, job.next)
           \/ job.name = Series /\ job.next # "reboot"
        /\ deleted = "all" /\ pc = "create" => disk[job.name] = "absent"
        /\ deleted = "all" /\ pc = "write" => disk[job.name] = "empty"

FilesSoFar ==
    /\ pc # "done" => rebooted = "no"
    /\ pc \notin {"done", "fault"} =>
         \A name \in Names \ Unsettled : Complete(name, Latest(name, Stage))
    /\ JobUnderWay
    /\ FilesComplete

\* Complete is kept by a step that leaves the file alone.
LEMMA CompleteStays ==
    ASSUME NEW name, NEW last, Complete(name, last), disk'[name] = disk[name],
           initial' = initial, reported \subseteq reported',
           deleted' = "all" => deleted = "all"
    PROVE  Complete(name, last)'
  BY DEF Complete

LEMMA StageOutsideFiles ==
    ASSUME pc \notin FilePcs
    PROVE  /\ Stage = pc
           /\ Unsettled = IF pc = "reboot" THEN {} ELSE {Series}
  BY DEF Stage, Unsettled

\* An InfoWriteFile begins: its file becomes the only one that is not settled.
LEMMA StartFile ==
    ASSUME TypeOK, FilesSoFar, pc \in {"dump", "raw", "digest", "encrypt"},
           NEW name \in Names, NEW data,
           NEW next \in {"raw", "hash", "encrypt", "reboot"},
           job' = [name |-> name, data |-> data, next |-> next],
           pc' = "delete", UNCHANGED reported,
           UNCHANGED arguments, UNCHANGED <<str, hash, disk, deleted, rebooted>>,
           \A n \in Names \ {name, Series} : Latest(n, next) = Latest(n, pc),
           data = Latest(name, next) \/ (name = Series /\ next # "reboot"),
           next = "reboot" => name = Series
    PROVE  FilesSoFar'
<1>1. Stage' = next /\ job'.name = name /\ job'.data = data /\ job'.next = next
  BY DEF Stage, FilePcs
<1>2. Unsettled' = {name, Series}
  BY <1>1 DEF Unsettled, FilePcs
<1>3. \A n : Latest(n, next)' = Latest(n, next)
  BY DEF Latest, arguments
<1>4. ASSUME NEW n \in Names \ Unsettled'
      PROVE  Complete(n, Latest(n, Stage))'
  <2>1. Complete(n, Latest(n, pc))
    BY <1>2, <1>4, StageOutsideFiles DEF FilesSoFar, FilePcs
  <2>2. Complete(n, Latest(n, next))
    BY <1>2, <1>4, <2>1
  <2> DEFINE last == Latest(n, next)
  <2>3. Complete(n, last)'
    BY <2>2 DEF Complete, arguments, Latest
  <2> QED
    BY <1>1, <2>3
<1>5. JobUnderWay'
  BY <1>1, <1>3 DEF JobUnderWay, FilePcs
<1>6. FilesComplete'
  BY DEF FilesSoFar, FilesComplete
<1> QED
  BY <1>4, <1>5, <1>6 DEF FilesSoFar

\* A stage passes without a file being written.
LEMMA PassStage ==
    ASSUME TypeOK, FilesSoFar, pc \notin FilePcs \cup {"reboot", "done", "fault"},
           pc' \notin FilePcs \cup {"reboot", "done", "fault"},
           reported \subseteq reported', UNCHANGED <<initial, disk, deleted, rebooted>>,
           \A n \in Names \ {Series} :
               \/ Latest(n, pc)' = Latest(n, pc)
               \/ Complete(n, Latest(n, pc))'
    PROVE  FilesSoFar'
<1>1. ASSUME NEW n \in Names \ {Series}
      PROVE  Complete(n, Latest(n, pc))'
  <2>1. Complete(n, Latest(n, pc))
    BY <1>1, StageOutsideFiles DEF FilesSoFar
  <2> QED
    BY <1>1, <2>1 DEF Complete
<1>2. Stage' = pc' /\ Unsettled' = {Series}
  BY DEF Stage, Unsettled
<1> QED
  BY <1>1, <1>2 DEF FilesSoFar, JobUnderWay, FilesComplete

\* An InfoWriteFile ends, with all of its data in the file or with an error.
LEMMA EndFile ==
    ASSUME IInv, FilesSoFar, pc \in {"create", "write"},
           NEW content,
           disk' = [disk EXCEPT ![job.name] = content],
           reported \subseteq reported',
           pc' = job.next, UNCHANGED arguments,
           UNCHANGED <<str, hash, job, deleted, rebooted>>,
           \/ job.data \in reported'
           \/ deleted = "all" => content = job.data
    PROVE  FilesSoFar'
<1>1. /\ job.next \in {"raw", "hash", "encrypt", "reboot"}
      /\ pc' \notin FilePcs /\ pc' \notin {"done", "fault"}
      /\ job.data # "none" /\ job.name \in Names
  BY DEF IInv, TypeOK, Phase, FilesSoFar, JobUnderWay, FilePcs
<1>2. /\ Stage = job.next /\ Stage' = job.next
      /\ Unsettled = {job.name} \cup Unsettled'
      /\ Unsettled' = IF job.next = "reboot" THEN {} ELSE {Series}
  BY <1>1 DEF Stage, Unsettled, FilePcs
<1>3. \A n : Latest(n, job.next)' = Latest(n, job.next)
  BY DEF Latest, arguments
<1>4. ASSUME NEW n \in Names \ Unsettled'
      PROVE  Complete(n, Latest(n, Stage))'
  <2>1. CASE n # job.name
    <3>1. Complete(n, Latest(n, job.next))
      BY <1>2, <1>4, <2>1 DEF FilesSoFar
    <3>2. disk'[n] = disk[n]
      BY <2>1, <1>4 DEF IInv, TypeOK
    <3> QED
      BY <1>2, <1>3, <3>1, <3>2 DEF Complete, arguments
  <2>2. CASE n = job.name
    <3>1. job.data = Latest(n, job.next)
      BY <1>2, <1>4, <2>2 DEF FilesSoFar, JobUnderWay, FilePcs
    <3>2. disk'[n] = content
      BY <1>1, <2>2 DEF IInv, TypeOK
    <3> QED
      BY <1>1, <1>2, <1>3, <3>1, <3>2 DEF Complete
  <2> QED
    BY <2>1, <2>2
<1> QED
  BY <1>1, <1>4 DEF FilesSoFar, JobUnderWay, FilesComplete

\* No file is known as "null".
LEMMA NamesAreNames == "null" \notin Names /\ "stray" \notin Names
  BY ToolAssumption DEF Names, Options, ValueOptions

LEMMA DumpFiles == IInv /\ FilesSoFar /\ Dump => FilesSoFar'
<1> SUFFICES ASSUME IInv, FilesSoFar, Dump PROVE FilesSoFar'
  OBVIOUS
<1>1. TypeOK /\ pc = "dump"
  BY DEF IInv, Dump
<1>2. CASE fileName = "null" /\ pc' = "hash" /\ UNCHANGED <<job, reported>>
  BY <1>1, <1>2, NamesAreNames, PassStage DEF Dump, FilePcs, Latest, arguments
<1>3. ASSUME NEW data \in {"dump", "null"}, WriteFile(fileName, data, "raw")
      PROVE  FilesSoFar'
  <2>1. CASE fileName \in Names /\ data = "dump"
    BY <1>1, <1>3, <2>1, StartFile DEF WriteFile, Dump, Latest
  <2>2. CASE pc' = "fault"
    BY <1>1, <1>3, <2>2 DEF WriteFile, Dump, FilesSoFar, JobUnderWay, FilePcs,
       FilesComplete
  <2>3. CASE (fileName \notin Names \/ data = "null") /\ pc' # "fault"
    <3>1. pc' = "raw" /\ reported' = reported \cup {data}
      BY <1>3, <2>3 DEF WriteFile
    <3>2. ASSUME NEW n \in Names \ {Series}
          PROVE  \/ Latest(n, pc)' = Latest(n, pc)
                 \/ Complete(n, Latest(n, pc))'
      BY <1>1, <2>3, <3>1, <3>2 DEF Dump, Latest, Complete, arguments
    <3> QED
      BY <1>1, <3>1, <3>2, PassStage DEF Dump, FilePcs, arguments
  <2> QED
    BY <1>3, <2>1, <2>2, <2>3
<1> QED
  BY <1>2, <1>3 DEF Dump

LEMMA RawFiles == IInv /\ FilesSoFar /\ Raw => FilesSoFar'
<1> SUFFICES ASSUME IInv, FilesSoFar, Raw PROVE FilesSoFar'
  OBVIOUS
<1> DEFINE data == IF str = "data" THEN "raw" ELSE "null"
<1>1. TypeOK /\ pc = "raw" /\ Series \in Names /\ WriteFile(Series, data, "hash")
  BY ToolAssumption DEF IInv, Raw, Names
<1>2. CASE data # "null"
  BY <1>1, <1>2, StartFile DEF WriteFile, Raw, Latest
<1>3. CASE data = "null"
  <2>1. pc' = "hash" /\ reported' = reported \cup {data}
    BY <1>1, <1>3, NamesAreNames DEF WriteFile
  <2> QED
    BY <1>1, <2>1, PassStage DEF Raw, FilePcs, Latest, arguments
<1> QED
  BY <1>2, <1>3

LEMMA WriteDigestFiles == IInv /\ FilesSoFar /\ WriteDigest => FilesSoFar'
<1> SUFFICES ASSUME IInv, FilesSoFar, WriteDigest PROVE FilesSoFar'
  OBVIOUS
<1>1. TypeOK /\ pc = "digest" /\ hash \in {"digest", "null"}
  BY DEF IInv, WriteDigest, Phase, TypeOK
<1>2. CASE hashName = "null" /\ pc' = "encrypt" /\ UNCHANGED <<job, reported>>
  BY <1>1, <1>2, NamesAreNames, PassStage
     DEF WriteDigest, FilePcs, Latest, arguments
<1>3. CASE WriteFile(hashName, hash, "encrypt")
  <2>1. CASE hashName \in Names /\ hash = "digest"
    <3>1. hash = Latest(hashName, "encrypt") \/ hashName = Series
      BY <2>1 DEF Latest
    <3>2. \A n \in Names \ {hashName, Series} :
              Latest(n, "encrypt") = Latest(n, pc)
      BY <1>1 DEF Latest
    <3> QED
      BY <1>1, <1>3, <2>1, <3>1, <3>2, StartFile DEF WriteFile, WriteDigest
  <2>2. CASE pc' = "fault"
    BY <1>1, <1>3, <2>2 DEF WriteFile, WriteDigest, FilesSoFar, JobUnderWay,
       FilePcs, FilesComplete
  <2>3. CASE (hashName \notin Names \/ hash = "null") /\ pc' # "fault"
    <3>1. pc' = "encrypt" /\ reported' = reported \cup {hash}
      BY <1>3, <2>3 DEF WriteFile
    <3>2. \A n \in Names \ {Series} : Latest(n, pc)' = Latest(n, pc)
      BY <1>1, <2>3, <3>1 DEF WriteDigest, Latest, arguments
    <3> QED
      BY <1>1, <3>1, <3>2, PassStage DEF WriteDigest, FilePcs, arguments
  <2> QED
    BY <1>1, <2>1, <2>2, <2>3
<1> QED
  BY <1>2, <1>3 DEF WriteDigest

LEMMA EncryptFiles == IInv /\ FilesSoFar /\ Encrypt => FilesSoFar'
<1> SUFFICES ASSUME IInv, FilesSoFar, Encrypt PROVE FilesSoFar'
  OBVIOUS
<1> DEFINE data == IF hash = "digest" THEN "seal" ELSE "junk"
<1>1. TypeOK /\ pc = "encrypt" /\ Series \in Names
  BY ToolAssumption DEF IInv, Encrypt, Names
<1>2. CASE pc' = "fault"
  BY <1>1, <1>2 DEF Encrypt, WriteFile, FilesSoFar, JobUnderWay, FilePcs,
     FilesComplete
<1>3. CASE WriteFile(Series, data, "reboot")
  <2>1. /\ job' = [name |-> Series, data |-> data, next |-> "reboot"]
        /\ pc' = "delete" /\ UNCHANGED reported
    BY <1>1, <1>3 DEF WriteFile
  <2>2. data = Latest(Series, "reboot")
    BY DEF Latest
  <2>3. \A n \in Names \ {Series, Series} :
            Latest(n, "reboot") = Latest(n, pc)
    BY <1>1 DEF Latest
  <2> HIDE DEF data
  <2> QED
    BY <1>1, <2>1, <2>2, <2>3, StartFile DEF Encrypt
<1> QED
  BY <1>2, <1>3 DEF Encrypt

\* The three steps of InfoWriteFile.
LEMMA WritingFiles ==
    IInv /\ FilesSoFar /\ (DeleteFile \/ CreateFile \/ WriteData)
        => FilesSoFar'
<1> SUFFICES ASSUME IInv, FilesSoFar, DeleteFile \/ CreateFile \/ WriteData
             PROVE  FilesSoFar'
  OBVIOUS
<1>1. /\ disk \in [Names -> Contents] /\ job.name \in Names
      /\ UNCHANGED arguments /\ UNCHANGED <<str, hash, job, rebooted>>
  BY DEF IInv, TypeOK, Contents, DeleteFile, CreateFile, WriteData
<1>2. ASSUME pc \in FilePcs, pc' \in FilePcs, UNCHANGED reported,
             NEW content, disk' \in {disk, [disk EXCEPT ![job.name] = content]},
             deleted' = "all" => deleted = "all", JobUnderWay'
      PROVE  FilesSoFar'
  <2>1. Stage' = Stage /\ Unsettled' = Unsettled /\ job.name \in Unsettled
    BY <1>1, <1>2 DEF Stage, Unsettled
  <2>2. \A n : Latest(n, Stage)' = Latest(n, Stage)
    BY <1>1, <2>1 DEF Latest, arguments
  <2>3. ASSUME NEW n \in Names \ Unsettled
        PROVE  Complete(n, Latest(n, Stage))'
    <3>1. Complete(n, Latest(n, Stage))
      BY <1>2, <2>3 DEF FilesSoFar, FilePcs
    <3>2. disk'[n] = disk[n] /\ initial' = initial
      BY <1>1, <1>2, <2>1, <2>3 DEF arguments
    <3> QED
      BY <1>2, <2>2, <3>1, <3>2 DEF Complete
  <2> QED
    BY <1>1, <1>2, <2>1, <2>3 DEF FilesSoFar, FilesComplete, FilePcs
<1>3. CASE DeleteFile
  <2>1. JobUnderWay'
    <3>1. Latest(job.name, job.next)' = Latest(job.name, job.next)
      BY <1>1 DEF Latest, arguments
    <3>2. deleted' = "all" => disk'[job.name] = "absent"
      BY <1>1, <1>3 DEF DeleteFile, IInv, TypeOK
    <3> QED
      BY <1>1, <1>3, <3>1, <3>2 DEF DeleteFile, FilesSoFar, JobUnderWay, FilePcs
  <2> QED
    BY <1>2, <1>3, <2>1 DEF DeleteFile, FilePcs
<1>4. CASE CreateFile
  <2>1. CASE pc' = "write" /\ UNCHANGED reported
    <3>1. PICK content : disk' = [disk EXCEPT ![job.name] = content]
      BY <1>4, <2>1 DEF CreateFile, IInv, TypeOK
    <3>2. JobUnderWay'
      <4>1. Latest(job.name, job.next)' = Latest(job.name, job.next)
        BY <1>1 DEF Latest, arguments
      <4>2. deleted = "all" => disk'[job.name] = "empty"
        BY <1>1, <1>4, <2>1 DEF CreateFile, FilesSoFar, JobUnderWay, FilePcs,
           IInv, TypeOK
      <4> QED
        BY <1>1, <1>4, <2>1, <4>1, <4>2 DEF CreateFile, FilesSoFar, JobUnderWay,
           FilePcs
    <3>3. pc \in FilePcs /\ pc' \in FilePcs /\ deleted' = deleted
      BY <1>4, <2>1 DEF CreateFile, FilePcs
    <3>4. disk' \in {disk, [disk EXCEPT ![job.name] = content]}
      BY <3>1
    <3> QED
      BY <1>2, <2>1, <3>2, <3>3, <3>4
  <2>2. CASE /\ reported' = reported \cup {job.data} /\ pc' = job.next
             /\ UNCHANGED disk
    <3>1. disk' = [disk EXCEPT ![job.name] = disk[job.name]]
      BY <1>1, <2>2
    <3> QED
      BY <1>4, <2>2, <3>1, EndFile DEF CreateFile
  <2> QED
    BY <1>4, <2>1, <2>2 DEF CreateFile
<1>5. CASE WriteData
  <2>1. PICK content : /\ disk' = [disk EXCEPT ![job.name] = content]
                       /\ \/ job.data \in reported'
                          \/ disk[job.name] = "empty" => content = job.data
    BY <1>5 DEF WriteData
  <2>2. deleted = "all" => disk[job.name] = "empty"
    BY <1>5 DEF WriteData, FilesSoFar, JobUnderWay, FilePcs
  <2> QED
    BY <1>5, <2>1, <2>2, EndFile DEF WriteData
<1> QED
  BY <1>3, <1>4, <1>5

LEMMA InitFiles == Init => FilesSoFar
  BY DEF Init, FilesSoFar, FilePcs, JobUnderWay, FilesComplete, Complete,
     Latest, Stage

LEMMA NextFiles == IInv /\ FilesSoFar /\ [Next]_vars => FilesSoFar'
<1> SUFFICES ASSUME IInv, FilesSoFar, [Next]_vars PROVE FilesSoFar'
  OBVIOUS
<1>1. ASSUME pc \in {"getarg", "options", "measure", "hash"},
             UNCHANGED <<initial, disk, job, reported, deleted, rebooted>>,
             pc = "hash" => pc' \in {"digest", "fault"} /\ UNCHANGED arguments,
             pc # "hash" => pc' \in {"options", "measure", "dump", "done", "fault"}
      PROVE  FilesSoFar'
  <2>1. CASE pc' \in {"done", "fault"}
    BY <1>1, <2>1 DEF FilesSoFar, JobUnderWay, FilePcs, FilesComplete
  <2>2. CASE pc' \notin {"done", "fault"}
    <3>1. \A n \in Names \ {Series} : Latest(n, pc)' = Latest(n, pc)
      BY <1>1, <2>2 DEF Latest, arguments
    <3> QED
      BY <1>1, <2>2, <3>1, PassStage DEF IInv, FilePcs
  <2> QED
    BY <2>1, <2>2
<1>2. CASE GetArg \/ Help \/ OptionsEnd
  BY <1>1, <1>2 DEF GetArg, Help, OptionsEnd, files, arguments
<1>3. CASE ParseArgument
  BY <1>1, <1>3 DEF ParseArgument, files
<1>4. CASE Measure \/ Hash
  BY <1>1, <1>4 DEF Measure, Hash, files, arguments
<1>5. CASE Reboot
  <2>1. \A n \in Names : Complete(n, Latest(n, "reboot"))
    BY <1>5, StageOutsideFiles DEF Reboot, FilesSoFar, FilePcs
  <2>2. \A n \in Names : LastData(n) = Latest(n, "reboot")
    BY DEF LastData, Latest
  <2>3. \A n \in Names : LastData(n)' = LastData(n)
    BY <1>5 DEF Reboot, LastData, arguments
  <2>4. FilesComplete'
    BY <1>5, <2>1, <2>2, <2>3 DEF Reboot, FilesComplete, Complete, arguments, files
  <2> QED
    BY <1>5, <2>4 DEF Reboot, FilesSoFar, JobUnderWay, FilePcs
<1>6. CASE UNCHANGED vars
  BY <1>6 DEF vars, FilesSoFar, JobUnderWay, FilesComplete, Complete, Latest,
     LastData, Stage, Unsettled
<1> QED
  BY <1>2, <1>3, <1>4, <1>5, <1>6, DumpFiles, RawFiles, WriteDigestFiles,
     EncryptFiles, WritingFiles DEF Next, Terminated

\* Whatever names are given, equal ones too, and whichever calls fail: at the
\* reset a file is complete unless its own last write or a delete failed.
THEOREM FilesAreComplete == Spec => []FilesComplete
<1>1. FilesSoFar => FilesComplete
  BY DEF FilesSoFar
<1> QED
  BY <1>1, Invariance, InitFiles, NextFiles, PTL DEF Spec
=============================================================================

-------------------------------- MODULE Tool --------------------------------
(***************************************************************************)
(* The shell tool InfoShell.efi (Infoshell.c as InfoShell.inf builds it,   *)
(* with EFI_SHELL_APP and CMD_REDUCE): read the options, measure the       *)
(* board, write the files that were asked for, seal the digest into        *)
(* series.txt, and reset the system.                                       *)
(*                                                                         *)
(* One action per call, or per argument of the command line.  Of the calls *)
(* of InfoWriteFile, job is the one under way and pc says where it stands. *)
(* The measurement itself is MacData, TypeList and SmbiosData: of it, this *)
(* module has the outcomes and what they depend on, the operands of -t and *)
(* whether the board is one on which the measurement leaves its buffers.   *)
(* An access to undefined memory that is not trapped is taken to hit       *)
(* nothing the tool uses.                                                  *)
(***************************************************************************)
EXTENDS Naturals, Sequences

CONSTANTS
    Argvs,      \* the command lines under study
    Words,      \* the arguments that are not options: values and file names
    IndexMod,   \* Argc and ArgIndex are counted modulo this (256, UINT8)
    Failures    \* the calls that may fail, see FailureKinds

FailureKinds == {"arguments", "measure", "pool", "hash", "delete", "create",
                 "write"}

ValueOptions == {"-s", "-f", "-o"}
Options == ValueOptions \cup {"-h", "-t"}

\* series.txt: a FAT file system does not tell L"series.TXT" from it.
Series == "series"

ASSUME ToolAssumption ==
    /\ Argvs \subseteq Seq(Options \cup Words)
    /\ \A argv \in Argvs : argv # << >> /\ argv[1] \in Words
    /\ IndexMod \in Nat \ {0, 1}
    /\ Series \in Words
    /\ Words \cap (Options \cup {"null", "stray"}) = {}
    /\ Failures \subseteq FailureKinds

Names == Options \cup Words

VARIABLES
    argv,       \* mArgv
    beyond,     \* the pointer behind it: "null" or "stray"
    board,      \* "sound", or "unsafe": see Measure
    initial,    \* what the files held before: "absent" or "old"
    argIndex,   \* ArgIndex, from 0 as in the code
    fileName,   \* FileName: a name, "null" or "stray"
    hashName,   \* HashFileName
    str,        \* Str: "none" before the measurement, then "data" or "null"
    hash,       \* HashStr: "none", then "digest" or "null"
    disk,       \* what each file holds
    job,        \* the file and the data of the InfoWriteFile under way
    reported,   \* the data whose InfoWriteFile returned an error
    deleted,    \* did every ShellDeleteFile so far succeed: "all" or "not_all"
    rebooted,   \* "no" or "yes"
    pc

arguments == <<argv, beyond, board, initial, argIndex, fileName, hashName>>
files == <<disk, job, reported, deleted>>
vars == <<argv, beyond, board, initial, argIndex, fileName, hashName, str,
          hash, disk, job, reported, deleted, rebooted, pc>>

NoJob == [name |-> Series, data |-> "none", next |-> "done"]

Init ==
    /\ argv \in Argvs
    /\ beyond \in {"null", "stray"}
    /\ board \in {"sound", "unsafe"}
    /\ initial \in {"absent", "old"}
    /\ argIndex = 1
    /\ fileName = "null"
    /\ hashName = "null"
    /\ str = "none"
    /\ hash = "none"
    /\ disk = [n \in Names |-> initial]
    /\ job = NoJob
    /\ reported = {}
    /\ deleted = "all"
    /\ rebooted = "no"
    /\ pc = "getarg"

-----------------------------------------------------------------------------
\* mArgv[i]
Arg(i) == IF i < Len(argv) THEN argv[i + 1] ELSE beyond

Argc == Len(argv) % IndexMod

\* Mutant: an index that does not wrap.
IncWide(i) == i + 1

\* ArgIndex ++
Inc(i) == (i + 1) % IndexMod

\* GetArg: without the shell's parameters the tool ends at once.
GetArg ==
    /\ pc = "getarg"
    /\ \/ pc' = "options"
       \/ "arguments" \in Failures /\ pc' = "done"
    /\ UNCHANGED arguments /\ UNCHANGED files
    /\ UNCHANGED <<str, hash, rebooted>>

\* -h: print the usage and return.
Help ==
    /\ pc = "options"
    /\ argIndex < Argc
    /\ Arg(argIndex) = "-h"
    /\ pc' = "done"
    /\ UNCHANGED arguments /\ UNCHANGED files
    /\ UNCHANGED <<str, hash, rebooted>>

\* Mutant: ArgIndex is not stepped to the value of -f.
ParseArgumentNoStep ==
    /\ pc = "options"
    /\ argIndex < Argc
    /\ Arg(argIndex) # "-h"
    /\ LET afterS == IF Arg(argIndex) = "-s" THEN Inc(argIndex) ELSE argIndex
           afterO == IF Arg(afterS) = "-o" THEN Inc(afterS) ELSE afterS
       IN  /\ fileName' = IF Arg(afterS) = "-f" THEN Arg(afterS) ELSE fileName
           /\ hashName' = IF Arg(afterS) = "-o" THEN Arg(afterO) ELSE hashName
           /\ argIndex' = Inc(afterO)
           /\ pc' = "options"
    /\ UNCHANGED <<argv, beyond, board, initial>> /\ UNCHANGED files
    /\ UNCHANGED <<str, hash, rebooted>>

\* Any other argument.  The three tests follow one another, so the value of an
\* option is itself tested for the later ones.  A pointer from behind the
\* array is dereferenced by StrHexToUintn and by StrCmp, but not by the last
\* assignment: that is trapped, or no option is recognised there.
ParseArgument ==
    /\ pc = "options"
    /\ argIndex < Argc
    /\ Arg(argIndex) # "-h"
    /\ LET afterS == IF Arg(argIndex) = "-s" THEN Inc(argIndex) ELSE argIndex
           afterF == IF Arg(afterS) = "-f" THEN Inc(afterS) ELSE afterS
           afterO == IF Arg(afterF) = "-o" THEN Inc(afterF) ELSE afterF
       IN  /\ fileName' = IF Arg(afterS) = "-f" THEN Arg(afterF) ELSE fileName
           /\ hashName' = IF Arg(afterF) = "-o" THEN Arg(afterO) ELSE hashName
           /\ argIndex' = Inc(afterO)
           /\ \/ pc' = "options"
              \/ beyond \in {Arg(afterS), Arg(afterF)} /\ pc' = "fault"
    /\ UNCHANGED <<argv, beyond, board, initial>> /\ UNCHANGED files
    /\ UNCHANGED <<str, hash, rebooted>>

\* Mutant: the loop runs while ArgIndex differs from Argc.
OptionsEndExactly ==
    /\ pc = "options"
    /\ argIndex = Argc
    /\ pc' = "measure"
    /\ UNCHANGED arguments /\ UNCHANGED files
    /\ UNCHANGED <<str, hash, rebooted>>

\* while (ArgIndex < Argc)
OptionsEnd ==
    /\ pc = "options"
    /\ argIndex >= Argc
    /\ pc' = "measure"
    /\ UNCHANGED arguments /\ UNCHANGED files
    /\ UNCHANGED <<str, hash, rebooted>>

\* The option at i ends the operands of a -t in front of it.
EndsTypes(i) ==
    argv[i] \in ValueOptions /\ \E j \in 1..(i - 1) : argv[j] = "-t"

\* The -t at i is the last one InfoBuildMeasureTypeList passes.
TypeOption(i) ==
    /\ argv[i] = "-t"
    /\ \A j \in 1..i : ~EndsTypes(j)
    /\ \A k \in (i + 1)..Len(argv) :
         argv[k] = "-t" => \E j \in 1..k : EndsTypes(j)

\* The operands of -t are an option, whose single type 0 leaves no room for the
\* end of the list; a pointer from behind mArgv; or values.
OptionAsType ==
    \E i \in DOMAIN argv :
        TypeOption(i) /\ i < Len(argv) /\ argv[i + 1] \in ValueOptions
TypeBeyond == TypeOption(Len(argv))
TypesGiven == ~OptionAsType /\ \E i \in DOMAIN argv : TypeOption(i)

\* The measurement itself may be trapped: it reads a type from behind mArgv, it
\* writes behind its list of types, or the board is unsafe, with a clocked
\* structure that lacks the fields InfoFilterFreq clears, two interfaces with
\* IPv4, or no LoadFile handle, which leaves HandleCount unset.
Trapped ==
    (TypeBeyond /\ beyond = "stray") \/ OptionAsType \/ board = "unsafe"

\* InfoGetMacData and InfoSmbiosRelatedData.  NULL from the latter ends the
\* tool: a call failed, or a type is above 0x7F, or the only one is NULL.  NULL
\* from the ReallocatePool that makes room for the addresses does not: they are
\* copied through it, and the tool goes on without data if it can.
Measure ==
    /\ pc = "measure"
    /\ \/ /\ ~(TypeBeyond /\ beyond = "null")
          /\ \/ str' = "data" /\ pc' = "dump"
             \/ "pool" \in Failures /\ str' = "null" /\ pc' \in {"dump", "fault"}
       \/ /\ "measure" \in Failures \/ TypesGiven
          /\ str' = "null"
          /\ pc' = "done"
       \/ /\ Trapped
          /\ pc' = "fault"
          /\ UNCHANGED str
    /\ UNCHANGED arguments /\ UNCHANGED files
    /\ UNCHANGED <<hash, rebooted>>

-----------------------------------------------------------------------------
\* Mutant: the buffer is not tested for NULL.
WriteFileUnchecked(name, data, next) ==
    \/ /\ name \in Names /\ data # "null"
       /\ job' = [name |-> name, data |-> data, next |-> next]
       /\ pc' = "delete"
       /\ UNCHANGED reported
    \/ /\ name \notin Names \/ data = "null"
       /\ pc' \in {next, "fault"}
       /\ reported' = reported \cup {data}
       /\ UNCHANGED job

\* InfoWriteFile (name, data): NULL is an error, and a stray name may be trapped.
WriteFile(name, data, next) ==
    \/ /\ name \in Names /\ data # "null"
       /\ job' = [name |-> name, data |-> data, next |-> next]
       /\ pc' = "delete"
       /\ UNCHANGED reported
    \/ /\ name \notin Names \/ data = "null"
       /\ pc' \in {next} \cup (IF name = "stray" THEN {"fault"} ELSE {})
       /\ reported' = reported \cup {data}
       /\ UNCHANGED job

\* Mutant: the old file is opened but not deleted.
DeleteFileNot ==
    /\ pc = "delete"
    /\ pc' = "create"
    /\ UNCHANGED arguments /\ UNCHANGED files
    /\ UNCHANGED <<str, hash, rebooted>>

\* Delete the file if it can be opened; what became of that is not looked at.
DeleteFile ==
    /\ pc = "delete"
    /\ pc' = "create"
    /\ \/ disk' = [disk EXCEPT ![job.name] = "absent"] /\ UNCHANGED deleted
       \/ /\ "delete" \in Failures
          /\ disk[job.name] # "absent"
          /\ deleted' = "not_all"
          /\ UNCHANGED disk
    /\ UNCHANGED arguments
    /\ UNCHANGED <<str, hash, job, reported, rebooted>>

\* Open it again with EFI_FILE_MODE_CREATE.
CreateFile ==
    /\ pc = "create"
    /\ \/ /\ disk' = [disk EXCEPT ![job.name] =
                         IF @ = "absent" THEN "empty" ELSE @]
          /\ pc' = "write"
          /\ UNCHANGED reported
       \/ /\ "create" \in Failures
          /\ reported' = reported \cup {job.data}
          /\ pc' = job.next
          /\ UNCHANGED disk
    /\ UNCHANGED arguments
    /\ UNCHANGED <<str, hash, job, deleted, rebooted>>

\* ShellWriteFile at the start of the file, which is not truncated; an error
\* leaves whatever part was written.
WriteData ==
    /\ pc = "write"
    /\ pc' = job.next
    /\ \/ /\ \E content \in {job.data, "mixed"} :
               /\ disk[job.name] = "empty" => content = job.data
               /\ disk' = [disk EXCEPT ![job.name] = content]
          /\ UNCHANGED reported
       \/ /\ "write" \in Failures
          /\ \E content \in {disk[job.name], "partial"} :
               disk' = [disk EXCEPT ![job.name] = content]
          /\ reported' = reported \cup {job.data}
    /\ UNCHANGED arguments
    /\ UNCHANGED <<str, hash, job, deleted, rebooted>>

-----------------------------------------------------------------------------
\* -f: HexToString, which may return NULL, and its text into FileName.
Dump ==
    /\ pc = "dump"
    /\ \/ /\ fileName # "null"
          /\ \/ str = "data" /\ WriteFile(fileName, "dump", "raw")
             \/ "pool" \in Failures /\ WriteFile(fileName, "null", "raw")
       \/ /\ fileName = "null"
          /\ pc' = "hash"
          /\ UNCHANGED <<job, reported>>
    /\ UNCHANGED arguments
    /\ UNCHANGED <<str, hash, disk, deleted, rebooted>>

\* -f: the data themselves into series.TXT.
Raw ==
    /\ pc = "raw"
    /\ WriteFile(Series, IF str = "data" THEN "raw" ELSE "null", "hash")
    /\ UNCHANGED arguments
    /\ UNCHANGED <<str, hash, disk, deleted, rebooted>>

\* InfoHashInfoData, which fails without data; on NULL the digest is printed all
\* the same, with an HashSize that was never set.
Hash ==
    /\ pc = "hash"
    /\ \/ str = "data" /\ hash' = "digest" /\ pc' = "digest"
       \/ /\ str = "null" \/ "hash" \in Failures
          /\ hash' = "null"
          /\ pc' \in {"digest", "fault"}
    /\ UNCHANGED arguments /\ UNCHANGED files
    /\ UNCHANGED <<str, rebooted>>

\* -o: the digest into HashFileName.
WriteDigest ==
    /\ pc = "digest"
    /\ \/ hashName # "null" /\ WriteFile(hashName, hash, "encrypt")
       \/ hashName = "null" /\ pc' = "encrypt" /\ UNCHANGED <<job, reported>>
    /\ UNCHANGED arguments
    /\ UNCHANGED <<str, hash, disk, deleted, rebooted>>

\* Rsa4096Enc: seal the digest, or what address 0 holds, into series.txt.
Encrypt ==
    /\ pc = "encrypt"
    /\ \/ WriteFile(Series, IF hash = "digest" THEN "seal" ELSE "junk", "reboot")
       \/ hash = "null" /\ pc' = "fault" /\ UNCHANGED <<job, reported>>
    /\ UNCHANGED arguments
    /\ UNCHANGED <<str, hash, disk, deleted, rebooted>>

\* ResetSystem, whatever became of the files.
Reboot ==
    /\ pc = "reboot"
    /\ rebooted' = "yes"
    /\ pc' = "done"
    /\ UNCHANGED arguments /\ UNCHANGED files
    /\ UNCHANGED <<str, hash>>

Terminated == pc \in {"done", "fault"} /\ UNCHANGED vars

Next ==
    \/ GetArg \/ Help \/ ParseArgument \/ OptionsEnd
    \/ Measure \/ Dump \/ Raw \/ Hash \/ WriteDigest \/ Encrypt \/ Reboot
    \/ DeleteFile \/ CreateFile \/ WriteData
    \/ Terminated

Spec == Init /\ [][Next]_vars /\ WF_vars(Next)
-----------------------------------------------------------------------------
(* Properties *)

TypeOK ==
    /\ argv \in Argvs /\ beyond \in {"null", "stray"}
    /\ board \in {"sound", "unsafe"}
    /\ initial \in {"absent", "old"}
    /\ argIndex \in 0..(IndexMod - 1)
    /\ {fileName, hashName} \subseteq Names \cup {"null", "stray"}
    /\ str \in {"none", "data", "null"} /\ hash \in {"none", "digest", "null"}
    /\ disk \in [Names -> {"absent", "old", "empty", "partial", "mixed", "dump",
                           "raw", "digest", "seal", "junk"}]
    /\ job.name \in Names
    /\ job.data \in {"none", "dump", "raw", "digest", "seal", "junk"}
    /\ job.next \in {"done", "raw", "hash", "encrypt", "reboot"}
    /\ reported \subseteq {"null", "dump", "raw", "digest", "seal", "junk"}
    /\ deleted \in {"all", "not_all"} /\ rebooted \in {"no", "yes"}
    /\ pc \in {"getarg", "options", "measure", "dump", "raw", "hash", "digest",
              "encrypt", "reboot", "delete", "create", "write", "done",
              "fault"}

\* A command line that is read to its end and in which each of the three options
\* has a value that is not itself an option.
Plain ==
    /\ Len(argv) < IndexMod
    /\ \A i \in DOMAIN argv :
         /\ argv[i] # "-h"
         /\ argv[i] \in ValueOptions =>
              i < Len(argv) /\ argv[i + 1] \in Words

\* The value of the last occurrence of an option, or "null" if there is none.
LastValue(option) ==
    LET i == {n \in DOMAIN argv : argv[n] = option}
    IN  IF i = {} THEN "null"
        ELSE argv[(CHOOSE n \in i : \A m \in i : n >= m) + 1]

\* The option loop gives a plain command line its meaning: the last -f and the
\* last -o count, wherever they stand.
OptionsRead ==
    Plain /\ pc = "measure" =>
        fileName = LastValue("-f") /\ hashName = LastValue("-o")

\* Who writes the name last, of the text dump, the raw data, the digest and the
\* seal, when two of the names are the same.
LastData(name) ==
    IF name = Series THEN IF hash = "digest" THEN "seal" ELSE "junk"
    ELSE IF name = hashName /\ hash = "digest" THEN "digest"
    ELSE IF name = fileName THEN "dump"
    ELSE "none"

\* At the reset every file holds all of the data that were written to it last,
\* unless that very write returned an error or a delete failed unnoticed; an
\* earlier error does no harm, and no other file was touched.
FilesComplete ==
    rebooted = "yes" =>
        \A name \in Names :
            LET last == LastData(name) IN
            IF last = "none"
            THEN disk[name] = initial
            ELSE /\ deleted = "all"
                 /\ last \notin reported
                 /\ last = "dump" => "null" \notin reported
                 => disk[name] = last

\* The tool accesses undefined memory only where the command line ends in an
\* option without its value or a -t that reads a stray pointer, a -t is followed
\* at once by an option, the board is unsafe to measure, or the data or the hash
\* were lost.  No failing file call and no file name leads there.
FaultCauses ==
    pc = "fault" =>
        \/ argv[Len(argv)] \in ValueOptions
        \/ Trapped
        \/ str = "null"
        \/ hash = "null"

\* The tool ends, unless ArgIndex wraps: the 255 arguments it counts end with an
\* option, whose value is looked for at index 255.
Wraps ==
    /\ Argc = IndexMod - 1
    /\ argv[IndexMod - 1] \in ValueOptions

Terminates == ~Wraps => <>(pc \in {"done", "fault"})
=============================================================================

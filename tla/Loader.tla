------------------------------- MODULE Loader -------------------------------
(***************************************************************************)
(* The DXE driver Xloader (Info.c): measure the board, find the signed key *)
(* in a firmware section or in \efi\key.txt, compare the message it seals  *)
(* with the measured digest, and hand the embedded firmware volume to the  *)
(* dispatcher when they agree.                                             *)
(*                                                                         *)
(* One action per call the driver makes; pc names the call that is next.   *)
(* The pool is the set of live allocations; each name stands for all of    *)
(* its kind.  The state "fault" stands for an access the C code leaves     *)
(* undefined and the platform traps: nothing is claimed after it.  One     *)
(* that is not trapped is taken to hit nothing the driver still uses.      *)
(***************************************************************************)
EXTENDS Digest

CONSTANTS
    Boards,     \* the SHA-256 values the boards under study measure to
    Keys,       \* the key blobs a section or a file may hold
    BufLen,     \* size of the base64 buffer in Rsa4096Dec (4096 in the code)
    NumFs,      \* number of simple file system handles
    Failures    \* the calls that may fail, see FailureKinds

FailureKinds == {"measure", "stale", "pool", "read", "volume"}

ASSUME LoaderAssumption ==
    /\ Boards \subseteq RawDigests
    /\ Keys \subseteq [size : Nat \ {0}, message : Seq(Byte)]
    /\ BufLen \in Nat
    /\ NumFs \in Nat
    /\ Failures \subseteq FailureKinds

\* No blob, or a file of size zero: neither is ever decrypted.
NoKey == [size |-> 0, message |-> Undecodable]

\* The NULL that InfoEntry returns when the measurement failed.
NoHash == << >>

VARIABLES
    board,      \* what SHA-256 yields for this board's data
    section,    \* the blob GetSectionFromAnyFv would find, or NoKey
    fs,         \* what each file system handle leads to
    pc,         \* the next call of the driver
    hash,       \* Data: the digest InfoEntry returned, or NoHash
    fileData,   \* what FileData points at
    fsIndex,    \* Index in InfoGetEncFile
    msg,        \* the first DigestLen bytes of msg in Rsa4096Dec
    encPass,    \* EncPass: 0 (FALSE) or 1 (TRUE)
    launched,   \* how far the embedded volume got
    live        \* the pool allocations not freed yet

environment == <<board, section, fs>>
vars == <<board, section, fs, pc, hash, fileData, fsIndex, msg, encPass,
          launched, live>>

\* What InfoEntry and the functions under it allocate and never free: the load
\* file handles and MacData; the processor's addresses and CpuData; the
\* collected data; HashContext; and Digest, the only one it returns.
Kept == {"macs", "processor", "data", "context", "hash"}

\* What the driver itself has to give back.
Owned == {"section", "handles", "file"}

Buffers == Kept \cup Owned

\* A handle fails to give its protocol, its volume, or the file.
FsState == [kind : {"no_protocol", "no_volume", "no_file"}, key : {NoKey}]
             \cup [kind : {"file"}, key : Keys \cup {NoKey}]

Init ==
    /\ board \in Boards
    /\ section \in Keys \cup {NoKey}
    /\ fs \in [1..NumFs -> FsState]
    /\ pc = "measure"
    /\ hash = NoHash
    /\ fileData = "undefined"
    /\ fsIndex = 1
    /\ msg = MsgBuffer(Undecodable)
    /\ encPass = 0
    /\ launched = "no"
    /\ live = {}

-----------------------------------------------------------------------------
\* FreePool of memory the pool does not own is refused or is a fault.
FreePool(buffer, next) ==
    \/ /\ buffer \in live
       /\ live' = live \ {buffer}
       /\ pc' = next
    \/ /\ buffer \notin live
       /\ pc' \in {next, "fault"}
       /\ UNCHANGED live

\* The blob FileData points at, when it points at one.
KeyAt(buffer) == IF buffer = "section" THEN section ELSE fs[fsIndex].key

\* The allocations of an InfoEntry that gives up: the data are collected behind
\* the processor id, and hashed last.
Abandoned ==
    {kept \in SUBSET Kept :
        /\ "data" \in kept => "processor" \in kept
        /\ kept \cap {"context", "hash"} # {} => "data" \in kept}

\* Data = InfoEntry (NULL, &Size): NULL is reported and execution goes on.
\* Inside, an undefined access is possible too (see MacData and SmbiosData).
\* Of what was allocated nothing is freed, on success or on failure.
Measure ==
    /\ pc = "measure"
    /\ \/ /\ hash' = Digest(board)
          /\ live' \in {Kept, Kept \ {"macs"}}
          /\ pc' = "section"
       \/ /\ "measure" \in Failures
          /\ pc' \in {"section", "fault"}
          /\ live' \in Abandoned
          /\ UNCHANGED hash
    /\ UNCHANGED environment
    /\ UNCHANGED <<fileData, fsIndex, msg, encPass, launched>>

\* GetSectionFromAnyFv finds the section and allocates a copy of it.
FindSection ==
    /\ pc = "section"
    /\ section # NoKey
    /\ fileData' = "section"
    /\ live' = live \cup {"section"}
    /\ pc' = "decrypt"
    /\ UNCHANGED environment
    /\ UNCHANGED <<hash, fsIndex, msg, encPass, launched>>

\* It fails: FileData is NULL if some firmware volume was searched, and
\* otherwise keeps the value the uninitialised variable had.
MissSection ==
    /\ pc = "section"
    /\ section = NoKey
    /\ \/ fileData' = "null" /\ pc' = "locate"
       \/ "stale" \in Failures /\ fileData' = "undefined" /\ pc' = "free_stale"
    /\ UNCHANGED environment
    /\ UNCHANGED <<hash, fsIndex, msg, encPass, launched, live>>

\* if (FileData != NULL) FreePool (FileData) with that value.
FreeStale ==
    /\ pc = "free_stale"
    /\ FreePool(fileData, "locate")
    /\ UNCHANGED environment
    /\ UNCHANGED <<hash, fileData, fsIndex, msg, encPass, launched>>

-----------------------------------------------------------------------------
\* InfoGetEncFile: LocateHandleBuffer, which reports an error when no handle
\* carries the protocol; the driver returns EFI_SUCCESS.
LocateFileSystems ==
    /\ pc = "locate"
    /\ \/ /\ NumFs > 0
          /\ live' = live \cup {"handles"}
          /\ pc' = "open"
       \/ /\ NumFs = 0 \/ "pool" \in Failures
          /\ pc' = "done"
          /\ UNCHANGED live
    /\ UNCHANGED environment
    /\ UNCHANGED <<hash, fileData, fsIndex, msg, encPass, launched>>

\* Mutant: the loop goes on after the file was opened (no break).
SkipFileSystemWithFile ==
    /\ pc = "open"
    /\ \/ fsIndex < NumFs /\ fsIndex' = fsIndex + 1 /\ UNCHANGED pc
       \/ fsIndex = NumFs /\ pc' = "done" /\ UNCHANGED fsIndex
    /\ UNCHANGED environment
    /\ UNCHANGED <<hash, fileData, msg, encPass, launched, live>>

\* Mutant: Index is not incremented.
SkipFileSystemForever ==
    /\ pc = "open"
    /\ fs[fsIndex].kind # "file"
    /\ UNCHANGED vars

\* This handle has no protocol, no volume or no file: continue.
SkipFileSystem ==
    /\ pc = "open"
    /\ fs[fsIndex].kind # "file"
    /\ \/ fsIndex < NumFs /\ fsIndex' = fsIndex + 1 /\ UNCHANGED pc
       \/ fsIndex = NumFs /\ pc' = "done" /\ UNCHANGED fsIndex
    /\ UNCHANGED environment
    /\ UNCHANGED <<hash, fileData, msg, encPass, launched, live>>

\* The file is open; one of size zero is an error.
OpenKeyFile ==
    /\ pc = "open"
    /\ fs[fsIndex].kind = "file"
    /\ pc' = IF fs[fsIndex].key.size = 0 THEN "done" ELSE "alloc"
    /\ UNCHANGED environment
    /\ UNCHANGED <<hash, fileData, fsIndex, msg, encPass, launched,
                   live>>

\* Buffer = AllocateZeroPool (FileSize)
AllocateKeyBuffer ==
    /\ pc = "alloc"
    /\ \/ live' = live \cup {"file"} /\ pc' = "read"
       \/ "pool" \in Failures /\ pc' = "done" /\ UNCHANGED live
    /\ UNCHANGED environment
    /\ UNCHANGED <<hash, fileData, fsIndex, msg, encPass, launched>>

\* Mutant: the handle buffer is never freed.
ReadKeyFileLeaking ==
    /\ pc = "read"
    /\ fileData' = "file"
    /\ pc' = "decrypt"
    /\ UNCHANGED environment
    /\ UNCHANGED <<hash, fsIndex, msg, encPass, launched, live>>

\* FileHandleRead; a failure returns and leaves both allocations behind.
ReadKeyFile ==
    /\ pc = "read"
    /\ \/ /\ fileData' = "file"
          /\ FreePool("handles", "decrypt")
       \/ /\ "read" \in Failures
          /\ pc' = "done"
          /\ UNCHANGED <<fileData, live>>
    /\ UNCHANGED environment
    /\ UNCHANGED <<hash, fsIndex, msg, encPass, launched>>

-----------------------------------------------------------------------------
\* Rsa4096Dec: a blob that is too big is reported and copied all the same,
\* over whatever lies behind base64[]; if that goes well, msg is zeroed and the
\* blob, or what is left of it, is decrypted.  public_decrypt leaves msg zero
\* when it rejects the blob.
Decrypt ==
    /\ pc = "decrypt"
    /\ \/ msg' = MsgBuffer(KeyAt(fileData).message) /\ pc' = "compare"
       \/ /\ KeyAt(fileData).size > BufLen
          /\ \/ msg' = MsgBuffer(Undecodable) /\ pc' = "compare"
             \/ pc' = "fault" /\ UNCHANGED msg
    /\ UNCHANGED environment
    /\ UNCHANGED <<hash, fileData, fsIndex, encPass, launched, live>>

\* Mutant: only the first byte is compared (the size of the wrong thing).
CompareMeasuredShort ==
    /\ pc = "compare"
    /\ hash # NoHash
    /\ encPass' = IF msg[1] = hash[1] THEN 1 ELSE 0
    /\ pc' = "free_key"
    /\ UNCHANGED environment
    /\ UNCHANGED <<hash, fileData, fsIndex, msg, launched, live>>

\* CompareMem (msg, Hash, SHA256_DIGEST_SIZE) == 0
CompareMeasured ==
    /\ pc = "compare"
    /\ hash # NoHash
    /\ encPass' = IF msg = hash THEN 1 ELSE 0
    /\ pc' = "free_key"
    /\ UNCHANGED environment
    /\ UNCHANGED <<hash, fileData, fsIndex, msg, launched, live>>

\* With Hash = NULL the comparison reads whatever is mapped at address 0.
CompareUnmeasured ==
    /\ pc = "compare"
    /\ hash = NoHash
    /\ encPass' \in {0, 1}
    /\ pc' \in {"free_key", "fault"}
    /\ UNCHANGED environment
    /\ UNCHANGED <<hash, fileData, fsIndex, msg, launched, live>>

\* Mutant: EncPass is not looked at.
FreeKeyAlwaysPass ==
    /\ pc = "free_key"
    /\ FreePool(fileData, "process")
    /\ UNCHANGED environment
    /\ UNCHANGED <<hash, fileData, fsIndex, msg, encPass, launched>>

\* Mutant: the file's buffer is freed wherever the blob came from.
FreeKeyOfFile ==
    /\ pc = "free_key"
    /\ FreePool("file", IF encPass = 1 THEN "process" ELSE "done")
    /\ UNCHANGED environment
    /\ UNCHANGED <<hash, fileData, fsIndex, msg, encPass, launched>>

\* FileData is not NULL here: it was set by the section or by the file.
FreeKey ==
    /\ pc = "free_key"
    /\ FreePool(fileData, IF encPass = 1 THEN "process" ELSE "done")
    /\ UNCHANGED environment
    /\ UNCHANGED <<hash, fileData, fsIndex, msg, encPass, launched>>

\* gDS->ProcessFirmwareVolume (FvData)
ProcessVolume ==
    /\ pc = "process"
    /\ \/ launched' = "processed" /\ pc' = "dispatch"
       \/ "volume" \in Failures /\ pc' = "done" /\ UNCHANGED launched
    /\ UNCHANGED environment
    /\ UNCHANGED <<hash, fileData, fsIndex, msg, encPass, live>>

\* gDS->Dispatch (); its status is dropped.
Dispatch ==
    /\ pc = "dispatch"
    /\ launched' = "dispatched"
    /\ pc' = "done"
    /\ UNCHANGED environment
    /\ UNCHANGED <<hash, fileData, fsIndex, msg, encPass, live>>

Terminated == pc \in {"done", "fault"} /\ UNCHANGED vars

Next ==
    \/ Measure \/ FindSection \/ MissSection \/ FreeStale
    \/ LocateFileSystems \/ SkipFileSystem \/ OpenKeyFile
    \/ AllocateKeyBuffer \/ ReadKeyFile
    \/ Decrypt \/ CompareMeasured \/ CompareUnmeasured \/ FreeKey
    \/ ProcessVolume \/ Dispatch
    \/ Terminated

\* The entry point runs to its end: DXE calls it once and does not preempt it.
Spec == Init /\ [][Next]_vars /\ WF_vars(Next)
-----------------------------------------------------------------------------
(* Properties *)

\* The type of every variable of the driver.
TypeOK ==
    /\ board \in Boards
    /\ section \in Keys \cup {NoKey}
    /\ fs \in [1..NumFs -> FsState]
    /\ pc \in {"measure", "section", "free_stale", "locate", "open", "alloc",
              "read", "decrypt", "compare", "free_key", "process",
              "dispatch", "done", "fault"}
    /\ hash \in Digests \cup {NoHash}
    /\ fileData \in {"undefined", "null", "section", "file"}
    /\ fsIndex \in Nat \ {0}
    /\ msg \in Digests
    /\ encPass \in {0, 1}
    /\ launched \in {"no", "processed", "dispatched"}
    /\ live \subseteq Buffers

HoldsFile(i) == fs[i].kind = "file"
FirstFile(i) == HoldsFile(i) /\ \A j \in 1..(i - 1) : ~HoldsFile(j)

\* The blob the driver has to judge: the section's, or else that of the first
\* file system that holds the file.
PreferredKey ==
    IF section # NoKey THEN section
    ELSE IF \E i \in 1..NumFs : FirstFile(i)
    THEN fs[CHOOSE i \in 1..NumFs : FirstFile(i)].key
    ELSE NoKey

\* The blob that is decrypted is the preferred one, whatever failed on the way
\* (the fallback of InfoEntryPointDxeEntry and the loop of InfoGetEncFile).
KeyPreference ==
    fileData \in {"section", "file"} => KeyAt(fileData) = PreferredKey

\* A measured board gets its volume launched only if the preferred blob seals
\* the digest of this very board: no error path leads around Rsa4096Dec.
LaunchJustified ==
    launched # "no" /\ hash # NoHash =>
        /\ PreferredKey # NoKey
        /\ MsgBuffer(PreferredKey.message) = Digest(board)

\* The access to undefined memory has three causes and no other: a failed
\* measurement, an unset FileData that is freed, a blob larger than base64[].
\* In particular no path frees a buffer twice or frees one it does not own.
FaultCauses ==
    pc = "fault" =>
        \/ hash = NoHash
        \/ fileData = "undefined"
        \/ PreferredKey.size > BufLen

\* Once there is a verdict the driver's own buffers, the blob and the handles,
\* are back in the pool, whichever way it came by the blob.  What stays are the
\* allocations of InfoEntry: Digest, HashContext, the collected data, CpuData
\* and the MAC handles, none of which anybody frees (Info.c:36, 241-263,
\* InfoSmbios.c:645, InfoMac.c:58).
VerdictReleasesBuffers ==
    /\ pc \in {"process", "dispatch", "done"}
    /\ fileData \in {"section", "file"}
    => live \cap Owned = {}

\* Nothing is launched for a board that could not be measured (InfoEntry's
\* "NULL means failed").
UnmeasuredNeverLaunched ==
    launched # "no" => hash # NoHash

\* The driver returns to the dispatcher, or faults; it never loops.
Terminates == <>(pc \in {"done", "fault"})

\* How the driver's state shows as a verdict.
Verdict ==
    IF launched # "no" THEN "launched"
    ELSE IF pc \in {"done", "fault"} THEN "refused"
    ELSE IF encPass = 1 THEN "approved"
    ELSE "waiting"

Abstract == INSTANCE MeasuredBoot WITH
    digest <- Digest(board),
    offered <- MsgBuffer(PreferredKey.message),
    state <- Verdict

\* The driver implements the abstract measured boot.
ImplementsMeasuredBoot == Abstract!Spec
=============================================================================

---------------------------- MODULE SystemProofs ----------------------------
(***************************************************************************)
(* The proofs about the loader and about the board from start to start.    *)
(*                                                                         *)
(* The digest: facts about it and its way through the key blob, for every  *)
(* digest length and every byte size.                                      *)
(*                                                                         *)
(* The loader: its safety properties for every set of boards and blobs,    *)
(* every number of file systems and every set of failing calls.  The       *)
(* invariant says, for each call of the driver, which blob is at hand,     *)
(* what is known about the verdict and which buffers are allocated.        *)
(*                                                                         *)
(* The system: start after start the loader's invariant is established     *)
(* anew, every key on the board comes from a run of the tool, and so only  *)
(* a board whose data were sealed launches its volume.                     *)
(***************************************************************************)
EXTENDS System, Induction, TLAPS

-----------------------------------------------------------------------------
(* The digest. *)

\* InfoHashInfoData returns bytes, none of them zero.
LEMMA DigestType ==
    ASSUME NEW raw \in RawDigests
    PROVE  /\ Digest(raw) \in Digests
           /\ \A i \in 1..DigestLen : Digest(raw)[i] # 0
  BY DigestAssumption, SMT DEF RawDigests, Digest, Digests, Byte

\* The loader's msg is a full row of bytes, whatever message was decrypted.
LEMMA MsgBufferType ==
    ASSUME NEW message \in Seq(Byte)
    PROVE  MsgBuffer(message) \in Digests
<1>1. \A i \in DOMAIN message : message[i] \in Byte
  BY SMT
<1> QED
  BY <1>1, DigestAssumption, SMT DEF MsgBuffer, Digests, Byte

\* strlen sees the whole digest: there is no zero byte to stop at.
LEMMA WholeDigestIsAString ==
    ASSUME NEW raw \in RawDigests
    PROVE  CStrLen(Digest(raw)) = DigestLen
<1> DEFINE d == Digest(raw)
           IsLength(n) == /\ \A i \in 1..n : d[i] # 0
                          /\ n = DigestLen \/ d[n + 1] = 0
<1>1. \A i \in 1..DigestLen : d[i] # 0
  BY DigestType
<1>2. DigestLen \in 0..DigestLen /\ IsLength(DigestLen)
  BY <1>1, DigestAssumption, SMT
<1>3. ASSUME NEW n \in 0..DigestLen, IsLength(n)
      PROVE  n = DigestLen
  <2>1. CASE n < DigestLen
    <3>1. n + 1 \in 1..DigestLen
      BY <2>1, DigestAssumption, SMT
    <3>2. d[n + 1] = 0
      BY <1>3, <2>1, DigestAssumption, SMT
    <3> QED
      BY <1>1, <3>1, <3>2
  <2> QED
    BY <2>1, DigestAssumption, SMT
<1>4. CStrLen(d) = CHOOSE n \in 0..DigestLen : IsLength(n)
  BY Zenon DEF CStrLen
<1>5. \E n \in 0..DigestLen : IsLength(n)
  BY <1>2
<1> HIDE DEF IsLength
<1>6. /\ (CHOOSE n \in 0..DigestLen : IsLength(n)) \in 0..DigestLen
      /\ IsLength(CHOOSE n \in 0..DigestLen : IsLength(n))
  BY <1>5, Zenon
<1> QED
  BY <1>3, <1>4, <1>6, Zenon

\* A digest that went through public_encrypt, the signer and public_decrypt
\* comes back byte for byte: the reason InfoHashInfoData has no zero bytes.
THEOREM SealRoundTrip ==
    ASSUME NEW raw \in RawDigests
    PROVE  MsgBuffer(MessageOf(Digest(raw))) = Digest(raw)
<1> DEFINE d == Digest(raw)
<1>1. CStrLen(d) = DigestLen
  BY WholeDigestIsAString
<1>2. MessageOf(d) = [i \in 1..DigestLen |-> d[i]]
  BY <1>1 DEF MessageOf
<1>3. MsgBuffer(MessageOf(d)) = [i \in 1..DigestLen |-> d[i]]
  BY <1>2, SMT DEF MsgBuffer
<1>4. d = [i \in 1..DigestLen |-> d[i]]
  BY SMT DEF Digest
<1> QED
  BY <1>3, <1>4

\* A blob that RSA rejects matches no board: the zeroed msg of Rsa4096Dec is
\* not a digest InfoHashInfoData can return.
THEOREM UndecodableMatchesNoBoard ==
    ASSUME NEW raw \in RawDigests
    PROVE  MsgBuffer(Undecodable) # Digest(raw)
<1>1. 1 \in 1..DigestLen
  BY DigestAssumption, SMT
<1>2. MsgBuffer(Undecodable)[1] = 0
  BY <1>1, SMT DEF MsgBuffer, Undecodable
<1>3. Digest(raw)[1] # 0
  BY <1>1, DigestType
<1> QED
  BY <1>2, <1>3

-----------------------------------------------------------------------------
(* The loader. *)

HaveKey == {"decrypt", "compare", "free_key", "process", "dispatch"}

\* Where the search for a blob stands.
Search ==
    /\ pc \in {"measure", "section", "free_stale", "locate"} => fsIndex = 1
    /\ pc \in {"free_stale", "locate", "open", "alloc", "read"} =>
         section = NoKey
    /\ pc \in {"open", "alloc", "read"} =>
         /\ fsIndex \in 1..NumFs
         /\ \A j \in 1..(fsIndex - 1) : ~HoldsFile(j)
    /\ pc \in {"alloc", "read"} =>
         HoldsFile(fsIndex) /\ fs[fsIndex].key.size # 0

\* Which blob FileData designates.
Blob ==
    /\ pc = "free_stale" => fileData = "undefined"
    /\ pc \in HaveKey => fileData \in {"section", "file"}
    /\ fileData \in {"section", "file"} =>
         /\ pc \in HaveKey \cup {"done", "fault"}
         /\ KeyAt(fileData) = PreferredKey
         /\ PreferredKey # NoKey

\* What the comparison knows and what follows from it.
Judgement ==
    /\ hash \in {NoHash, Digest(board)}
    /\ pc = "measure" => hash = NoHash
    /\ "measure" \notin Failures /\ pc # "measure" => hash # NoHash
    /\ pc \in {"compare", "free_key"} =>
         msg \in {MsgBuffer(PreferredKey.message), MsgBuffer(Undecodable)}
    /\ pc \in {"process", "dispatch"} => encPass = 1
    /\ pc = "dispatch" => launched # "no"
    /\ launched # "no" => encPass = 1 /\ pc \in {"dispatch", "done"}
    /\ encPass = 1 =>
         /\ pc \in {"free_key", "process", "dispatch", "done", "fault"}
         /\ fileData \in {"section", "file"}
         /\ hash # NoHash => MsgBuffer(PreferredKey.message) = hash

\* Which buffers are allocated.
Pool ==
    /\ pc = "measure" => live = {}
    /\ pc \in {"section", "free_stale", "locate"} => live \cap Owned = {}
    /\ pc \in {"open", "alloc"} => live \cap Owned \subseteq {"handles"}
    /\ pc = "read" => live \cap Owned \subseteq {"handles", "file"}
    /\ pc \in {"open", "alloc", "read"} => "handles" \in live
    /\ pc = "read" => "file" \in live
    /\ pc \in {"decrypt", "compare", "free_key"} =>
         fileData \in live /\ live \cap Owned \subseteq {fileData}
    /\ VerdictReleasesBuffers

IInv ==
    /\ TypeOK
    /\ Search
    /\ Blob
    /\ Judgement
    /\ FaultCauses
    /\ Pool

-----------------------------------------------------------------------------
\* The first file system that holds the file decides what the blob is.
LEMMA FirstFilePreferred ==
    ASSUME NumFs \in Nat, section = NoKey,
           NEW i \in 1..NumFs, FirstFile(i)
    PROVE  PreferredKey = fs[i].key
<1>1. ASSUME NEW k \in 1..NumFs, FirstFile(k)
      PROVE  k = i
  <2>1. ~(k < i)
    <3>1. SUFFICES ASSUME k < i PROVE FALSE
      OBVIOUS
    <3>2. k \in 1..(i - 1)
      BY <3>1, SMT
    <3> QED
      BY <1>1, <3>2 DEF FirstFile
  <2>2. ~(i < k)
    <3>1. SUFFICES ASSUME i < k PROVE FALSE
      OBVIOUS
    <3>2. i \in 1..(k - 1)
      BY <3>1, SMT
    <3> QED
      BY <1>1, <3>2 DEF FirstFile
  <2> QED
    BY <2>1, <2>2, SMT
<1>2. /\ (CHOOSE k \in 1..NumFs : FirstFile(k)) \in 1..NumFs
      /\ FirstFile(CHOOSE k \in 1..NumFs : FirstFile(k))
  BY Zenon
<1> QED
  BY <1>1, <1>2, Zenon DEF PreferredKey

\* A digest is not the NULL of a failed measurement.
LEMMA DigestIsNotNoHash ==
    ASSUME NEW raw \in RawDigests
    PROVE  Digest(raw) # NoHash
<1>1. 1 \in DOMAIN Digest(raw)
  BY DigestAssumption, SMT DEF Digest
<1>2. DOMAIN NoHash = {}
  BY SMT DEF NoHash
<1> QED
  BY <1>1, <1>2

\* Every blob at hand is a size and a row of bytes.
LEMMA KeyType ==
    ASSUME TypeOK
    PROVE  /\ section \in [size : Nat, message : Seq(Byte)]
           /\ \A i \in 1..NumFs :
                fs[i].key \in [size : Nat, message : Seq(Byte)]
           /\ PreferredKey \in [size : Nat, message : Seq(Byte)]
<1>1. NoKey \in [size : Nat, message : Seq(Byte)]
  BY SMT DEF NoKey, Undecodable
<1>2. Keys \cup {NoKey} \subseteq [size : Nat, message : Seq(Byte)]
  BY <1>1, LoaderAssumption, SMT
<1>3. \A i \in 1..NumFs : fs[i].key \in Keys \cup {NoKey}
  <2>1. SUFFICES ASSUME NEW i \in 1..NumFs
                 PROVE  fs[i].key \in Keys \cup {NoKey}
    OBVIOUS
  <2>2. fs[i] \in FsState
    BY Zenon DEF TypeOK
  <2> QED
    BY <2>2, Zenon DEF FsState
<1>4. PreferredKey \in Keys \cup {NoKey}
  <2>1. ASSUME \E i \in 1..NumFs : FirstFile(i)
        PROVE  (CHOOSE i \in 1..NumFs : FirstFile(i)) \in 1..NumFs
    BY <2>1, Zenon
  <2> QED
    BY <1>3, <2>1, Zenon DEF PreferredKey, TypeOK
<1> QED
  BY <1>2, <1>3, <1>4, Zenon DEF TypeOK

LEMMA InitIInv == Init => IInv
<1> SUFFICES ASSUME Init PROVE IInv
  OBVIOUS
<1>1. TypeOK
  <2>1. Undecodable \in Seq(Byte)
    BY SMT DEF Undecodable
  <2>2. msg \in Digests
    BY <2>1, MsgBufferType DEF Init
  <2> QED
    BY <2>2, SMT DEF Init, TypeOK
<1>2. Search /\ Blob /\ FaultCauses /\ Pool
  BY SMT DEF Init, Search, Blob, FaultCauses, Pool, HaveKey,
     VerdictReleasesBuffers
<1>3. Judgement
  BY SMT DEF Init, Judgement
<1> QED
  BY <1>1, <1>2, <1>3 DEF IInv

-----------------------------------------------------------------------------
\* What a step leaves alone: the board, its blobs and the preferred one.
LEMMA EnvironmentFixed ==
    ASSUME UNCHANGED environment
    PROVE  /\ PreferredKey' = PreferredKey
           /\ \A i : HoldsFile(i)' <=> HoldsFile(i)
           /\ section' = section /\ fs' = fs /\ board' = board
  BY DEF environment, PreferredKey, FirstFile, HoldsFile

LEMMA NextIInv == IInv /\ [Next]_vars => IInv'
<1> SUFFICES ASSUME IInv, [Next]_vars PROVE IInv'
  OBVIOUS
<1> USE DEF IInv
<1>1. CASE Measure
  <2>a. Digest(board) \in Digests /\ Digest(board) # NoHash
    BY LoaderAssumption, DigestType, DigestIsNotNoHash, Zenon DEF TypeOK
  <2>1. TypeOK'
    <3>1. live' \subseteq Buffers
      BY <1>1, Zenon DEF Measure, Abandoned, Buffers
    <3> QED
      BY <1>1, <2>a, <3>1, SMT DEF TypeOK, Measure, environment
  <2>2. Search'
    BY <1>1, EnvironmentFixed, SMT DEF environment, Search, Measure, TypeOK
  <2>3. Blob'
    BY <1>1, EnvironmentFixed, SMT DEF Blob, Measure, TypeOK, HaveKey, KeyAt
  <2>4. Judgement'
    BY <1>1, <2>a, EnvironmentFixed, SMT DEF Judgement, Measure, TypeOK
  <2>5. FaultCauses'
    BY <1>1, EnvironmentFixed, SMT DEF FaultCauses, Judgement, Measure, TypeOK
  <2>6. Pool'
    <3>1. live' \subseteq Kept
      BY <1>1, Zenon DEF Measure, Abandoned
    <3>2. live' \cap Owned = {}
      BY <3>1, SMT DEF Kept, Owned
    <3> QED
      BY <1>1, <3>2, SMT DEF Pool, VerdictReleasesBuffers, Measure
  <2> QED
    BY <2>1, <2>2, <2>3, <2>4, <2>5, <2>6
<1>2. CASE FindSection
  <2>a. PreferredKey = section
    BY <1>2 DEF FindSection, PreferredKey
  <2>1. TypeOK'
    BY <1>2, SMT DEF TypeOK, FindSection, environment, Buffers, Owned
  <2>2. Search'
    BY <1>2, EnvironmentFixed, SMT DEF environment, Search, FindSection, TypeOK
  <2>3. Blob'
    BY <1>2, <2>a, EnvironmentFixed, SMT DEF Blob, FindSection, TypeOK,
       HaveKey, KeyAt
  <2>4. Judgement'
    BY <1>2, EnvironmentFixed, SMT DEF Judgement, FindSection, TypeOK
  <2>5. FaultCauses'
    BY <1>2, EnvironmentFixed, SMT DEF FaultCauses, FindSection, TypeOK
  <2>6. Pool'
    BY <1>2, SMT DEF Pool, VerdictReleasesBuffers, FindSection, Owned
  <2> QED
    BY <2>1, <2>2, <2>3, <2>4, <2>5, <2>6
<1>3. CASE MissSection
  <2>1. TypeOK'
    BY <1>3, SMT DEF TypeOK, MissSection, environment, Buffers
  <2>2. Search'
    BY <1>3, EnvironmentFixed, SMT DEF environment, Search, MissSection, TypeOK
  <2>3. Blob'
    BY <1>3, EnvironmentFixed, SMT DEF Blob, MissSection, TypeOK, HaveKey, KeyAt
  <2>4. Judgement'
    BY <1>3, EnvironmentFixed, SMT DEF Judgement, MissSection, TypeOK
  <2>5. FaultCauses'
    BY <1>3, EnvironmentFixed, SMT DEF FaultCauses, MissSection, TypeOK
  <2>6. Pool'
    BY <1>3, SMT DEF Pool, VerdictReleasesBuffers, MissSection, Owned
  <2> QED
    BY <2>1, <2>2, <2>3, <2>4, <2>5, <2>6
<1>4. CASE FreeStale
  <2>1. TypeOK'
    <3>1. pc' \in {"locate", "fault"}
      BY <1>4, SMT DEF FreeStale, FreePool
    <3>2. live' \subseteq live
      BY <1>4, SMT DEF FreeStale, FreePool
    <3> QED
      BY <1>4, <3>1, <3>2, SMT DEF TypeOK, FreeStale, environment
  <2>2. Search'
    BY <1>4, EnvironmentFixed, SMT DEF environment, Search, FreeStale, FreePool, TypeOK
  <2>3. Blob'
    BY <1>4, EnvironmentFixed, SMT DEF Blob, FreeStale, FreePool, TypeOK, HaveKey, KeyAt
  <2>4. Judgement'
    BY <1>4, EnvironmentFixed, SMT DEF Judgement, FreeStale, FreePool, TypeOK
  <2>5. FaultCauses'
    BY <1>4, SMT DEF FaultCauses, FreeStale, Blob
  <2>6. Pool'
    BY <1>4, SMT DEF Pool, VerdictReleasesBuffers, FreeStale, FreePool, TypeOK
  <2> QED
    BY <2>1, <2>2, <2>3, <2>4, <2>5, <2>6
<1>5. CASE LocateFileSystems
  <2>a. NumFs \in Nat
    BY LoaderAssumption
  <2>1. TypeOK'
    <3>1. live' \subseteq Buffers
      <4>1. live' = live \cup {"handles"} \/ live' = live
        BY <1>5 DEF LocateFileSystems
      <4> QED
        BY <4>1, Zenon DEF TypeOK, Buffers, Owned
    <3> QED
      BY <1>5, <3>1, SMT DEF TypeOK, LocateFileSystems, environment
  <2>2. Search'
    <3>1. pc' = "open" => 1 \in 1..NumFs
      BY <1>5, <2>a, SMT DEF LocateFileSystems
    <3>2. \A j \in 1..(1 - 1) : FALSE
      BY SMT
    <3> QED
      BY <1>5, <3>1, <3>2, EnvironmentFixed, SMT
         DEF Search, LocateFileSystems
  <2>3. Blob'
    BY <1>5, EnvironmentFixed, SMT DEF Blob, LocateFileSystems, TypeOK, HaveKey, KeyAt
  <2>4. Judgement'
    BY <1>5, EnvironmentFixed, SMT DEF Judgement, LocateFileSystems, TypeOK
  <2>5. FaultCauses'
    BY <1>5, EnvironmentFixed, SMT DEF FaultCauses, LocateFileSystems, TypeOK
  <2>6. Pool'
    BY <1>5, SMT DEF Pool, VerdictReleasesBuffers, LocateFileSystems, TypeOK
  <2> QED
    BY <2>1, <2>2, <2>3, <2>4, <2>5, <2>6
<1>6. CASE SkipFileSystem
  <2>a. NumFs \in Nat
    BY LoaderAssumption
  <2>1. TypeOK'
    BY <1>6, SMT DEF TypeOK, SkipFileSystem, environment, Buffers
  <2>2. Search'
    <3>1. pc' = "open" => fsIndex' \in 1..NumFs
      BY <1>6, <2>a, SMT DEF Search, SkipFileSystem, TypeOK
    <3>2. pc' = "open" => \A j \in 1..(fsIndex' - 1) : ~HoldsFile(j)
      BY <1>6, <2>a, SMT DEF Search, SkipFileSystem, HoldsFile
    <3>3. section' = NoKey /\ pc' \in {"open", "done"}
      BY <1>6, EnvironmentFixed, SMT DEF Search, SkipFileSystem
    <3> QED
      BY <1>6, <3>1, <3>2, <3>3, EnvironmentFixed, SMT
         DEF Search, SkipFileSystem
  <2>3. Blob'
    BY <1>6, EnvironmentFixed, SMT DEF Blob, SkipFileSystem, TypeOK, HaveKey, KeyAt
  <2>4. Judgement'
    BY <1>6, EnvironmentFixed, SMT DEF Judgement, SkipFileSystem, TypeOK
  <2>5. FaultCauses'
    BY <1>6, EnvironmentFixed, SMT DEF FaultCauses, SkipFileSystem, TypeOK
  <2>6. Pool'
    BY <1>6, SMT DEF Pool, VerdictReleasesBuffers, SkipFileSystem,
       Blob, HaveKey
  <2> QED
    BY <2>1, <2>2, <2>3, <2>4, <2>5, <2>6
<1>7. CASE OpenKeyFile
  <2>1. TypeOK'
    BY <1>7, SMT DEF TypeOK, OpenKeyFile, environment, Buffers
  <2>2. Search'
    <3>1. HoldsFile(fsIndex)
      BY <1>7 DEF OpenKeyFile, HoldsFile
    <3> QED
      BY <1>7, <3>1, EnvironmentFixed, SMT
         DEF Search, OpenKeyFile, environment
  <2>3. Blob'
    BY <1>7, EnvironmentFixed, SMT DEF Blob, OpenKeyFile, TypeOK, HaveKey, KeyAt
  <2>4. Judgement'
    BY <1>7, EnvironmentFixed, SMT DEF Judgement, OpenKeyFile, TypeOK
  <2>5. FaultCauses'
    BY <1>7, EnvironmentFixed, SMT DEF FaultCauses, OpenKeyFile, TypeOK
  <2>6. Pool'
    BY <1>7, SMT DEF Pool, VerdictReleasesBuffers, OpenKeyFile,
       Blob, HaveKey
  <2> QED
    BY <2>1, <2>2, <2>3, <2>4, <2>5, <2>6
<1>8. CASE AllocateKeyBuffer
  <2>1. TypeOK'
    <3>1. live' \subseteq Buffers
      <4>1. live' = live \cup {"file"} \/ live' = live
        BY <1>8 DEF AllocateKeyBuffer
      <4> QED
        BY <4>1, Zenon DEF TypeOK, Buffers, Owned
    <3> QED
      BY <1>8, <3>1, SMT DEF TypeOK, AllocateKeyBuffer, environment
  <2>2. Search'
    BY <1>8, EnvironmentFixed, SMT DEF environment, Search, AllocateKeyBuffer, TypeOK
  <2>3. Blob'
    BY <1>8, EnvironmentFixed, SMT DEF Blob, AllocateKeyBuffer, TypeOK, HaveKey, KeyAt
  <2>4. Judgement'
    BY <1>8, EnvironmentFixed, SMT DEF Judgement, AllocateKeyBuffer, TypeOK
  <2>5. FaultCauses'
    BY <1>8, EnvironmentFixed, SMT DEF FaultCauses, AllocateKeyBuffer, TypeOK
  <2>6. Pool'
    BY <1>8, SMT DEF Pool, VerdictReleasesBuffers, AllocateKeyBuffer,
       Blob, HaveKey
  <2> QED
    BY <2>1, <2>2, <2>3, <2>4, <2>5, <2>6
<1>9. CASE ReadKeyFile
  <2>a. "handles" \in live
    BY <1>9, SMT DEF Pool, ReadKeyFile
  <2>b. PreferredKey = fs[fsIndex].key
    BY <1>9, FirstFilePreferred, LoaderAssumption, SMT
       DEF Search, ReadKeyFile, FirstFile
  <2>c. PreferredKey # NoKey
    BY <1>9, <2>b, SMT DEF Search, ReadKeyFile, NoKey
  <2>d. \/ pc' = "decrypt" /\ fileData' = "file" /\ live' = live \ {"handles"}
        \/ pc' = "done" /\ fileData' = fileData /\ live' = live
    BY <1>9, <2>a, SMT DEF ReadKeyFile, FreePool
  <2>1. TypeOK'
    BY <1>9, <2>d, SMT DEF TypeOK, ReadKeyFile, environment
  <2>2. Search'
    BY <1>9, EnvironmentFixed, SMT DEF environment, Search, ReadKeyFile, FreePool, TypeOK
  <2>3. Blob'
    <3>1. fileData \notin {"section", "file"}
      BY <1>9, SMT DEF Blob, ReadKeyFile, HaveKey
    <3>2. fileData' = "file" => KeyAt(fileData)' = PreferredKey
      BY <1>9, <2>b, EnvironmentFixed, SMT DEF KeyAt, ReadKeyFile
    <3> QED
      BY <1>9, <2>c, <2>d, <3>1, <3>2, EnvironmentFixed, SMT
         DEF Blob, Search, ReadKeyFile, HaveKey
  <2>4. Judgement'
    BY <1>9, EnvironmentFixed, SMT DEF Judgement, ReadKeyFile, FreePool, TypeOK
  <2>5. FaultCauses'
    BY <2>d, SMT DEF FaultCauses
  <2>6. Pool'
    <3>1. fileData \notin {"section", "file"}
      BY <1>9, SMT DEF Blob, ReadKeyFile, HaveKey
    <3> QED
      BY <1>9, <2>d, <3>1, SMT DEF Pool, VerdictReleasesBuffers, ReadKeyFile
  <2> QED
    BY <2>1, <2>2, <2>3, <2>4, <2>5, <2>6
<1>10. CASE Decrypt
  <2>a. KeyAt(fileData) = PreferredKey /\ fileData \in {"section", "file"}
    BY <1>10, SMT DEF Blob, Decrypt, HaveKey
  <2>b. PreferredKey.message \in Seq(Byte) /\ PreferredKey.size \in Nat
    BY KeyType, SMT
  <2>c. BufLen \in Nat /\ MsgBuffer(PreferredKey.message) \in Digests
    BY <2>b, LoaderAssumption, MsgBufferType
  <2>d. \/ /\ pc' = "compare"
           /\ msg' \in {MsgBuffer(PreferredKey.message), MsgBuffer(Undecodable)}
        \/ pc' = "fault" /\ PreferredKey.size > BufLen /\ msg' = msg
    BY <1>10, <2>a, <2>b, <2>c, SMT DEF Decrypt
  <2>e. MsgBuffer(Undecodable) \in Digests
    <3>1. Undecodable \in Seq(Byte)
      BY SMT DEF Undecodable
    <3> QED
      BY <3>1, MsgBufferType
  <2>1. TypeOK'
    BY <1>10, <2>c, <2>d, <2>e, SMT DEF TypeOK, Decrypt, environment
  <2>2. Search'
    BY <1>10, EnvironmentFixed, SMT DEF environment, Search, Decrypt, TypeOK
  <2>3. Blob'
    BY <1>10, EnvironmentFixed, SMT DEF Blob, Decrypt, TypeOK, HaveKey, KeyAt
  <2>4. Judgement'
    BY <1>10, <2>d, EnvironmentFixed, SMT DEF Judgement, Decrypt
  <2>5. FaultCauses'
    BY <1>10, <2>d, EnvironmentFixed, SMT DEF FaultCauses, Decrypt
  <2>6. Pool'
    BY <1>10, SMT DEF Pool, VerdictReleasesBuffers, Decrypt, TypeOK
  <2> QED
    BY <2>1, <2>2, <2>3, <2>4, <2>5, <2>6
<1>11. CASE CompareMeasured
  <2>a. /\ msg \in {MsgBuffer(PreferredKey.message), MsgBuffer(Undecodable)}
        /\ hash = Digest(board)
        /\ fileData \in {"section", "file"}
    BY <1>11, SMT DEF CompareMeasured, Judgement, Blob, HaveKey
  <2>b. encPass' = 1 => MsgBuffer(PreferredKey.message) = hash
    <3>1. MsgBuffer(Undecodable) # Digest(board)
      BY LoaderAssumption, UndecodableMatchesNoBoard DEF TypeOK
    <3>2. encPass' = 1 => msg = hash
      BY <1>11, SMT DEF CompareMeasured
    <3> QED
      BY <2>a, <3>1, <3>2, Zenon
  <2>1. TypeOK'
    BY <1>11, SMT DEF TypeOK, CompareMeasured, environment, Buffers
  <2>2. Search'
    BY <1>11, EnvironmentFixed, SMT DEF environment, Search, CompareMeasured, TypeOK
  <2>3. Blob'
    BY <1>11, EnvironmentFixed, SMT DEF Blob, CompareMeasured, TypeOK, HaveKey, KeyAt
  <2>4. Judgement'
    BY <1>11, <2>a, <2>b, EnvironmentFixed, SMT DEF Judgement, CompareMeasured
  <2>5. FaultCauses'
    BY <1>11, EnvironmentFixed, SMT DEF FaultCauses, CompareMeasured, TypeOK
  <2>6. Pool'
    BY <1>11, SMT DEF Pool, VerdictReleasesBuffers, CompareMeasured, TypeOK
  <2> QED
    BY <2>1, <2>2, <2>3, <2>4, <2>5, <2>6
<1>12. CASE CompareUnmeasured
  <2>1. TypeOK'
    BY <1>12, SMT DEF TypeOK, CompareUnmeasured, environment, Buffers
  <2>2. Search'
    BY <1>12, EnvironmentFixed, SMT DEF environment, Search, CompareUnmeasured, TypeOK
  <2>3. Blob'
    BY <1>12, EnvironmentFixed, SMT DEF Blob, CompareUnmeasured, TypeOK, HaveKey, KeyAt
  <2>4. Judgement'
    <3>1. fileData \in {"section", "file"}
      BY <1>12, SMT DEF CompareUnmeasured, Blob, HaveKey
    <3> QED
      BY <1>12, <3>1, EnvironmentFixed, SMT DEF Judgement, CompareUnmeasured
  <2>5. FaultCauses'
    BY <1>12, EnvironmentFixed, SMT DEF FaultCauses, CompareUnmeasured, TypeOK
  <2>6. Pool'
    BY <1>12, SMT DEF Pool, VerdictReleasesBuffers, CompareUnmeasured, TypeOK
  <2> QED
    BY <2>1, <2>2, <2>3, <2>4, <2>5, <2>6
<1>13. CASE FreeKey
  <2>a. fileData \in live
    BY <1>13, SMT DEF FreeKey, Pool
  <2>b. /\ pc' = IF encPass = 1 THEN "process" ELSE "done"
        /\ live' = live \ {fileData}
    BY <1>13, <2>a DEF FreeKey, FreePool
  <2>1. TypeOK'
    BY <1>13, <2>b, SMT DEF TypeOK, FreeKey, environment
  <2>2. Search'
    BY <1>13, EnvironmentFixed, SMT DEF environment, Search, FreeKey, FreePool, TypeOK
  <2>3. Blob'
    BY <1>13, EnvironmentFixed, SMT DEF Blob, FreeKey, FreePool, TypeOK, HaveKey, KeyAt
  <2>4. Judgement'
    BY <1>13, EnvironmentFixed, SMT DEF Judgement, FreeKey, FreePool, TypeOK
  <2>5. FaultCauses'
    BY <2>b, SMT DEF FaultCauses
  <2>6. Pool'
    BY <1>13, SMT DEF Pool, VerdictReleasesBuffers, FreeKey, FreePool, TypeOK
  <2> QED
    BY <2>1, <2>2, <2>3, <2>4, <2>5, <2>6
<1>14. CASE ProcessVolume
  <2>1. TypeOK'
    BY <1>14, SMT DEF TypeOK, ProcessVolume, environment, Buffers
  <2>2. Search'
    BY <1>14, EnvironmentFixed, SMT DEF environment, Search, ProcessVolume, TypeOK
  <2>3. Blob'
    BY <1>14, EnvironmentFixed, SMT DEF Blob, ProcessVolume, TypeOK, HaveKey, KeyAt
  <2>4. Judgement'
    BY <1>14, EnvironmentFixed, SMT DEF Judgement, ProcessVolume, TypeOK
  <2>5. FaultCauses'
    BY <1>14, EnvironmentFixed, SMT DEF FaultCauses, ProcessVolume, TypeOK
  <2>6. Pool'
    BY <1>14, SMT DEF Pool, VerdictReleasesBuffers, ProcessVolume, TypeOK
  <2> QED
    BY <2>1, <2>2, <2>3, <2>4, <2>5, <2>6
<1>15. CASE Dispatch
  <2>1. TypeOK'
    BY <1>15, SMT DEF TypeOK, Dispatch, environment, Buffers
  <2>2. Search'
    BY <1>15, EnvironmentFixed, SMT DEF environment, Search, Dispatch, TypeOK
  <2>3. Blob'
    BY <1>15, EnvironmentFixed, SMT DEF Blob, Dispatch, TypeOK, HaveKey, KeyAt
  <2>4. Judgement'
    BY <1>15, EnvironmentFixed, SMT DEF Judgement, Dispatch, TypeOK
  <2>5. FaultCauses'
    BY <1>15, EnvironmentFixed, SMT DEF FaultCauses, Dispatch, TypeOK
  <2>6. Pool'
    BY <1>15, SMT DEF Pool, VerdictReleasesBuffers, Dispatch, TypeOK
  <2> QED
    BY <2>1, <2>2, <2>3, <2>4, <2>5, <2>6
<1>16. CASE UNCHANGED vars
  BY <1>16 DEF vars, IInv, TypeOK, Search, Blob, Judgement, FaultCauses, Pool,
     VerdictReleasesBuffers, PreferredKey, FirstFile, HoldsFile, KeyAt
<1> QED
  BY <1>1, <1>2, <1>3, <1>4, <1>5, <1>6, <1>7, <1>8, <1>9, <1>10, <1>11, <1>12, <1>13, <1>14, <1>15, <1>16 DEF Next, Terminated

-----------------------------------------------------------------------------
\* The invariant holds in every state of every execution.
THEOREM Invariance == Spec => []IInv
<1>1. Init => IInv
  BY InitIInv
<1>2. IInv /\ [Next]_vars => IInv'
  BY NextIInv
<1> QED
  BY <1>1, <1>2, PTL DEF Spec

\* Every variable of the driver keeps its type.
THEOREM TypeCorrect == Spec => []TypeOK
<1>1. IInv => TypeOK
  BY DEF IInv
<1> QED
  BY <1>1, Invariance, PTL

\* What is decrypted is the section's blob, or that of the first file system
\* with the file, for any number of file systems (InfoGetEncFile's loop).
THEOREM KeyPreferred == Spec => []KeyPreference
<1>1. IInv => KeyPreference
  BY DEF IInv, Blob, KeyPreference
<1> QED
  BY <1>1, Invariance, PTL

\* A measured board gets its volume launched only by its own blob.
THEOREM LaunchIsJustified == Spec => []LaunchJustified
<1>1. IInv => LaunchJustified
  BY SMT DEF IInv, Judgement, Blob, LaunchJustified
<1> QED
  BY <1>1, Invariance, PTL

\* Three causes of a fault, and no others: no double free, no foreign free.
THEOREM FaultsHaveCauses == Spec => []FaultCauses
<1>1. IInv => FaultCauses
  BY DEF IInv
<1> QED
  BY <1>1, Invariance, PTL

\* At a verdict the driver has given back the blob and the handles, for any
\* number of file systems and whatever InfoEntry left behind.
THEOREM BuffersReleased == Spec => []VerdictReleasesBuffers
<1>1. IInv => VerdictReleasesBuffers
  BY DEF IInv, Pool
<1> QED
  BY <1>1, Invariance, PTL

-----------------------------------------------------------------------------
abstractVars == <<Digest(board), MsgBuffer(PreferredKey.message), Verdict>>

LEMMA AbstractInit == Init => Abstract!Init
<1> SUFFICES ASSUME Init PROVE Abstract!Init
  OBVIOUS
<1>1. TypeOK
  BY InitIInv DEF IInv
<1>2. Digest(board) \in Digests
  BY <1>1, LoaderAssumption, DigestType DEF TypeOK
<1>3. PreferredKey.message \in Seq(Byte)
  BY <1>1, KeyType, SMT
<1>4. MsgBuffer(PreferredKey.message) \in Digests
  BY <1>3, MsgBufferType
<1>5. Verdict = "waiting"
  BY SMT DEF Init, Verdict
<1>6. Digests = Abstract!Digests
  BY DEF Digests, Abstract!Digests, Byte, Abstract!Byte
<1> QED
  BY <1>2, <1>4, <1>5, <1>6 DEF Abstract!Init

\* Only the comparison, the two calls to the dispatcher and the returns change
\* the verdict, and each does so as the abstract boot may.
LEMMA AbstractStep ==
    ASSUME "measure" \notin Failures, IInv, [Next]_vars
    PROVE  [Abstract!Next]_abstractVars
<1>1. /\ Digest(board)' = Digest(board)
      /\ MsgBuffer(PreferredKey.message)' = MsgBuffer(PreferredKey.message)
  <2>1. UNCHANGED environment
    BY DEF Next, vars, environment, Terminated, Measure, FindSection,
       MissSection, FreeStale, LocateFileSystems, SkipFileSystem, OpenKeyFile,
       AllocateKeyBuffer, ReadKeyFile, Decrypt, CompareMeasured,
       CompareUnmeasured, FreeKey, ProcessVolume, Dispatch
  <2> QED
    BY <2>1, EnvironmentFixed
<1>2. Verdict' = Verdict => [Abstract!Next]_abstractVars
  BY <1>1 DEF abstractVars
<1>3. ASSUME Verdict = "waiting", Verdict' = "refused"
      PROVE  Abstract!Next
  BY <1>1, <1>3 DEF Abstract!Next, Abstract!Refuse
<1>4. ASSUME Verdict = "approved", Verdict' \in {"launched", "refused"}
      PROVE  Abstract!Next
  BY <1>1, <1>4 DEF Abstract!Next, Abstract!Launch, Abstract!Abandon
<1>5. ASSUME Verdict = "waiting", Verdict' = "approved",
             MsgBuffer(PreferredKey.message) = Digest(board)
      PROVE  Abstract!Next
  BY <1>1, <1>5 DEF Abstract!Next, Abstract!Approve
<1>6. CASE CompareMeasured \/ CompareUnmeasured
  <2>1. CompareMeasured /\ hash = Digest(board)
    BY <1>6, SMT DEF CompareMeasured, CompareUnmeasured, IInv, Judgement
  <2>2. Verdict = "waiting"
    BY <2>1, SMT DEF CompareMeasured, Verdict, IInv, Judgement
  <2>3. msg \in {MsgBuffer(PreferredKey.message), MsgBuffer(Undecodable)}
    BY <2>1, SMT DEF CompareMeasured, IInv, Judgement
  <2>4. CASE msg = hash
    <3>1. Verdict' = "approved"
      BY <2>1, <2>4, SMT DEF CompareMeasured, Verdict, IInv, Judgement
    <3>2. MsgBuffer(Undecodable) # Digest(board)
      BY LoaderAssumption, UndecodableMatchesNoBoard DEF IInv, TypeOK
    <3>3. MsgBuffer(PreferredKey.message) = Digest(board)
      BY <2>1, <2>3, <2>4, <3>2, Zenon
    <3> QED
      BY <1>5, <2>2, <3>1, <3>3
  <2>5. CASE msg # hash
    <3>1. Verdict' = "waiting"
      BY <2>1, <2>5, SMT DEF CompareMeasured, Verdict, IInv, Judgement
    <3> QED
      BY <1>2, <2>2, <3>1
  <2> QED
    BY <2>4, <2>5
<1>7. CASE ProcessVolume
  BY <1>4, <1>7, SMT DEF ProcessVolume, Verdict, IInv, Judgement
<1>8. CASE Dispatch
  <2>1. Verdict = "launched" /\ Verdict' = "launched"
    BY <1>8, SMT DEF Dispatch, Verdict, IInv, Judgement, Blob, TypeOK
  <2> QED
    BY <1>2, <2>1
<1>9. CASE FreeKey
  <2>1. fileData \in live
    BY <1>9, SMT DEF FreeKey, IInv, Pool
  <2>2. /\ pc' = IF encPass = 1 THEN "process" ELSE "done"
        /\ launched' = launched /\ encPass' = encPass
    BY <1>9, <2>1 DEF FreeKey, FreePool
  <2> QED
    BY <1>2, <1>3, <1>9, <2>2, SMT DEF FreeKey, Verdict, IInv, Judgement, TypeOK
<1>10. ASSUME pc \in {"measure", "section", "free_stale", "locate", "open",
                      "alloc", "read", "decrypt"},
              pc' # pc => pc' \in {"section", "free_stale", "locate", "open",
                             "alloc", "read", "decrypt", "compare", "done",
                             "fault"},
              launched' = launched, encPass' = encPass
       PROVE  [Abstract!Next]_abstractVars
  BY <1>2, <1>3, <1>10, SMT DEF Verdict, IInv, Judgement, TypeOK
<1>11. CASE Measure \/ FindSection \/ MissSection
  BY <1>10, <1>11, SMT DEF Measure, FindSection, MissSection
<1>12. CASE FreeStale
  BY <1>10, <1>12, SMT DEF FreeStale, FreePool
<1>13. CASE LocateFileSystems \/ SkipFileSystem \/ OpenKeyFile
  BY <1>10, <1>13, SMT DEF LocateFileSystems, SkipFileSystem, OpenKeyFile
<1>14. CASE AllocateKeyBuffer \/ ReadKeyFile \/ Decrypt
  BY <1>10, <1>14, SMT DEF AllocateKeyBuffer, ReadKeyFile, FreePool, Decrypt
<1>15. CASE UNCHANGED vars
  BY <1>2, <1>15 DEF vars, Verdict
<1> QED
  BY <1>6, <1>7, <1>8, <1>9, <1>11, <1>12, <1>13, <1>14, <1>15
     DEF Next, Terminated

\* The driver implements the abstract measured boot when InfoEntry cannot fail.
THEOREM LoaderImplementsMeasuredBoot ==
    ASSUME "measure" \notin Failures
    PROVE  Spec => ImplementsMeasuredBoot
<1>1. Init => Abstract!Init
  BY AbstractInit
<1>2. IInv /\ [Next]_vars => [Abstract!Next]_abstractVars
  BY AbstractStep
<1> QED
  BY <1>1, <1>2, Invariance, PTL
     DEF Spec, ImplementsMeasuredBoot, Abstract!Spec, abstractVars

-----------------------------------------------------------------------------
(* The system. *)

\* Where everything the two programs hand to each other comes from.
Provenance ==
    /\ table \in Tables
    /\ interfaces \in Interfaces
    /\ seals \subseteq Runs
    /\ \A s \in seals : s.read \in Reads(s.interfaces)
    /\ series # Undecodable =>
         \/ series \in Junk
         \/ \E s \in seals : series = Sealed(DataOf(s))
    /\ \A k \in signed :
         \/ \E m \in Junk : k = KeyFor(m)
         \/ \E s \in seals : k = KeyFor(Sealed(DataOf(s)))
    /\ boots \in 1..MaxBoots
    /\ Installed

SystemIInv == IInv /\ Provenance

-----------------------------------------------------------------------------
\* What the tool may seal is known to the loader's parameters.
LEMMA SealedKeys ==
    ASSUME NEW s \in Runs
    PROVE  /\ DataOf(s) \in AllData
           /\ Sha(DataOf(s)) \in RawDigests
           /\ KeyFor(Sealed(DataOf(s))) \in Keys
           /\ Sealed(DataOf(s)) \in Seq(Byte)
<1>1. DataOf(s) \in AllData
  BY DEF AllData
<1>2. Sha(DataOf(s)) \in Boards /\ KeyFor(Sealed(DataOf(s))) \in Keys
  BY <1>1, SystemAssumption
<1>3. KeyFor(Sealed(DataOf(s))).message \in Seq(Byte)
  BY <1>2, LoaderAssumption
<1> QED
  BY <1>1, <1>2, <1>3, LoaderAssumption DEF KeyFor

\* The board at hand is the board of a run with the default list.
LEMMA CurrentRun ==
    ASSUME NEW t \in Tables, NEW m \in Interfaces, NEW r \in Reads(m)
    PROVE  /\ Data(t, DefaultList, r) \in AllData
           /\ Sha(Data(t, DefaultList, r)) \in Boards
<1> DEFINE run == [table |-> t, interfaces |-> m, list |-> DefaultList, read |-> r]
<1>1. run \in Runs
  BY DEF Runs, Readings
<1>2. DataOf(run) = Data(t, DefaultList, r)
  BY DEF DataOf
<1>3. DataOf(run) \in AllData
  BY <1>1 DEF AllData
<1> QED
  BY <1>2, <1>3, SystemAssumption

\* Keys that come from runs of the tool are keys the loader knows.
LEMMA InstalledKeys ==
    ASSUME NEW keys, NEW runs \in SUBSET Runs,
           \A k \in keys : \/ \E m \in Junk : k = KeyFor(m)
                          \/ \E s \in runs : k = KeyFor(Sealed(DataOf(s)))
    PROVE  keys \subseteq Keys
<1>1. SUFFICES ASSUME NEW k \in keys PROVE k \in Keys
  OBVIOUS
<1>2. CASE \E m \in Junk : k = KeyFor(m)
  BY <1>2, SystemAssumption
<1>3. CASE \E s \in runs : k = KeyFor(Sealed(DataOf(s)))
  BY <1>3, SealedKeys
<1> QED
  BY <1>2, <1>3

LEMMA VolumesAreStates ==
    ASSUME signed \subseteq Keys
    PROVE  [1..NumFs -> Volumes] \subseteq [1..NumFs -> FsState]
<1>1. Volumes \subseteq FsState
  <2>1. [kind : {"no_file"}, key : {NoKey}]
          \subseteq [kind : {"no_protocol", "no_volume", "no_file"}, key : {NoKey}]
    OBVIOUS
  <2>2. signed \cup Strays \subseteq Keys \cup {NoKey}
    BY SystemAssumption
  <2>3. [kind : {"file"}, key : signed \cup Strays]
          \subseteq [kind : {"file"}, key : Keys \cup {NoKey}]
    BY <2>2
  <2> QED
    BY <2>1, <2>3 DEF Volumes, FsState
<1> QED
  BY <1>1

-----------------------------------------------------------------------------
LEMMA SystemInitial == SystemInit => SystemIInv
<1> SUFFICES ASSUME SystemInit PROVE SystemIInv
  OBVIOUS
<1>1. IInv
  BY InitIInv DEF SystemInit
<1>2. Provenance
  BY SystemAssumption, SMT DEF SystemInit, Provenance
<1> QED
  BY <1>1, <1>2 DEF SystemIInv

\* A start is an initial state of the driver.
LEMMA StartIsInitial ==
    ASSUME Provenance, Start
    PROVE  Init'
<1>1. signed \subseteq Keys
  BY InstalledKeys DEF Provenance
<1>2. board' \in Boards
  <2>1. PICK m \in Machines : table' = m.table /\ interfaces' = m.interfaces
    BY DEF Start
  <2>2. table' \in Tables /\ interfaces' \in Interfaces
    BY <2>1 DEF Tables, Interfaces
  <2> QED
    BY <2>2, CurrentRun DEF Start
<1>3. section' \in Keys \cup {NoKey}
  BY <1>1 DEF Start
<1>4. fs' \in [1..NumFs -> FsState]
  BY <1>1, VolumesAreStates DEF Start
<1> QED
  BY <1>2, <1>3, <1>4 DEF Start, Init

\* A start leaves the origin of everything on the board as it was.
LEMMA StartKeepsProvenance ==
    ASSUME Provenance, Start,
           seals \subseteq seals', seals' \subseteq Runs,
           \A s \in seals' : s.read \in Reads(s.interfaces),
           series' # Undecodable =>
             \/ series' \in Junk
             \/ \E s \in seals' : series' = Sealed(DataOf(s))
    PROVE  Provenance'
<1>m. PICK m \in Machines : table' = m.table /\ interfaces' = m.interfaces
  BY DEF Start
<1>1. Installed'
  <2>1. m = [table |-> table', interfaces |-> interfaces']
    BY <1>m, SystemAssumption
  <2> QED
    BY <2>1 DEF Start, Installed, Volumes
<1>2. \A k \in signed' : \/ \E j \in Junk : k = KeyFor(j)
                        \/ \E s \in seals' : k = KeyFor(Sealed(DataOf(s)))
  BY DEF Start, Provenance
<1>3. boots' \in 1..MaxBoots
  BY SystemAssumption, SMT DEF Start, Provenance
<1>4. table' \in Tables /\ interfaces' \in Interfaces
  BY <1>m DEF Tables, Interfaces
<1> QED
  BY <1>1, <1>2, <1>3, <1>4 DEF Provenance

\* The driver changes nothing of what it was given.
LEMMA LoaderKeepsProvenance ==
    ASSUME Provenance, LoaderStep
    PROVE  Provenance'
<1>1. UNCHANGED environment
  BY DEF LoaderStep, Next, vars, environment, Terminated, Measure,
     FindSection, MissSection, FreeStale, LocateFileSystems, SkipFileSystem,
     OpenKeyFile, AllocateKeyBuffer, ReadKeyFile, Decrypt, CompareMeasured,
     CompareUnmeasured, FreeKey, ProcessVolume, Dispatch
<1>2. UNCHANGED <<table, interfaces, read, series, seals, signed, boots>>
  BY DEF LoaderStep
<1> QED
  BY <1>1, <1>2 DEF Provenance, Installed, Volumes, environment

\* The signer's key is made of a message that a run of the tool sealed, be it
\* what stood at address 0.
LEMMA SignKeepsProvenance ==
    ASSUME Provenance, Sign
    PROVE  Provenance'
<1>1. \A k \in signed' : \/ \E m \in Junk : k = KeyFor(m)
                        \/ \E s \in seals' : k = KeyFor(Sealed(DataOf(s)))
  BY DEF Sign, Provenance
<1>2. Volumes \subseteq Volumes'
  BY DEF Sign, Volumes
<1>3. UNCHANGED environment
  BY DEF Sign, vars, environment
<1>4. fs' \in [1..NumFs -> Volumes']
  BY <1>2, <1>3 DEF Provenance, Installed, environment
<1>5. Installed'
  BY <1>3, <1>4 DEF Sign, Provenance, Installed, environment
<1> QED
  BY <1>1, <1>5 DEF Sign, Provenance

LEMMA SystemStep == SystemIInv /\ [SystemNext]_systemVars => SystemIInv'
<1> SUFFICES ASSUME IInv, Provenance, [SystemNext]_systemVars
             PROVE  SystemIInv'
  BY DEF SystemIInv
<1>1. Init' => IInv'
  BY InitIInv, PTL
<1>2. CASE LoaderStep
  <2>1. IInv'
    BY <1>2, NextIInv DEF LoaderStep
  <2> QED
    BY <1>2, <2>1, LoaderKeepsProvenance DEF SystemIInv
<1>3. CASE PowerCycle
  <2>1. Provenance'
    BY <1>3, StartKeepsProvenance DEF PowerCycle, Provenance
  <2> QED
    BY <1>1, <1>3, <2>1, StartIsInitial DEF PowerCycle, SystemIInv
<1>4. ASSUME NEW list \in Lists \cup {DefaultList}, RunTool(list)
      PROVE  SystemIInv'
  <2>0. PICK found \in Reads(interfaces) :
             /\ series' = Sealed(Data(table, list, found))
             /\ seals' = seals \cup {[table |-> table, interfaces |-> interfaces,
                                     list |-> list, read |-> found]}
    BY <1>4 DEF RunTool
  <2> DEFINE run == [table |-> table, interfaces |-> interfaces, list |-> list,
                     read |-> found]
  <2>1. run \in Runs
    BY DEF Provenance, Runs, Readings
  <2>2. seals' = seals \cup {run} /\ series' = Sealed(DataOf(run)) /\ Start
    BY <1>4, <2>0 DEF RunTool, DataOf
  <2>3. Provenance'
    <3>1. /\ seals' \subseteq Runs
          /\ \A s \in seals' : s.read \in Reads(s.interfaces)
      BY <2>1, <2>2 DEF Provenance
    <3>2. \E s \in seals' : series' = Sealed(DataOf(s))
      BY <2>2
    <3> HIDE DEF run
    <3> QED
      BY <2>2, <3>1, <3>2, StartKeepsProvenance
  <2> QED
    BY <1>1, <2>2, <2>3, StartIsInitial DEF SystemIInv
<1>5. CASE RunToolInVain
  <2>1. Provenance'
    <3>1. series' # Undecodable =>
            \/ series' \in Junk
            \/ \E s \in seals' : series' = Sealed(DataOf(s))
      BY <1>5 DEF RunToolInVain, Provenance
    <3> QED
      BY <1>5, <3>1, StartKeepsProvenance DEF RunToolInVain, Provenance
  <2> QED
    BY <1>1, <1>5, <2>1, StartIsInitial DEF RunToolInVain, SystemIInv
<1>6. CASE Sign
  <2>1. IInv'
    BY <1>6, NextIInv DEF Sign
  <2> QED
    BY <1>6, <2>1, SignKeepsProvenance DEF SystemIInv
<1>7. CASE UNCHANGED systemVars
  <2>1. IInv'
    BY <1>7, NextIInv DEF systemVars
  <2> QED
    BY <1>7, <2>1 DEF systemVars, vars, SystemIInv, Provenance, Installed, Volumes
<1> QED
  BY <1>2, <1>3, <1>4, <1>5, <1>6, <1>7 DEF SystemNext

-----------------------------------------------------------------------------
\* The invariant of the composition, for any number of starts.
THEOREM SystemInvariance == SystemSpec => []SystemIInv
  BY SystemInitial, SystemStep, PTL DEF SystemSpec

\* Every variable of the composition keeps its type.
THEOREM SystemTypeCorrect == SystemSpec => []SystemTypeOK
<1>1. SystemIInv => SystemTypeOK
  <2>1. SUFFICES ASSUME IInv, Provenance PROVE SystemTypeOK
    BY DEF SystemIInv
  <2>2. signed \subseteq Keys
    BY <2>1, InstalledKeys DEF Provenance
  <2>3. series \in Seq(Byte)
    <3>1. Undecodable \in Seq(Byte)
      BY SMT DEF Undecodable
    <3>2. \A m \in Junk : m \in Seq(Byte)
      <4>1. \A m \in Junk : KeyFor(m).message \in Seq(Byte)
        BY SystemAssumption, LoaderAssumption
      <4> QED
        BY <4>1 DEF KeyFor
    <3> QED
      BY <2>1, <3>1, <3>2, SealedKeys DEF Provenance
  <2>4. read \in Readings
    BY <2>1 DEF Provenance, Installed, Readings
  <2> QED
    BY <2>1, <2>2, <2>3, <2>4 DEF IInv, Provenance, SystemTypeOK
<1> QED
  BY <1>1, SystemInvariance, PTL

\* A blob that is judged is the signer's or a stray.
LEMMA PreferredKeyOrigin ==
    ASSUME IInv, Provenance, PreferredKey # NoKey
    PROVE  PreferredKey \in signed \cup Strays
<1>1. CASE section # NoKey
  BY <1>1, Zenon DEF PreferredKey, Provenance, Installed
<1>2. CASE section = NoKey
  <2>1. PICK i \in 1..NumFs : FirstFile(i)
    BY <1>2, Zenon DEF PreferredKey
  <2>2. PreferredKey = fs[i].key
    BY <1>2, <2>1, FirstFilePreferred, LoaderAssumption
  <2>3. fs[i] \in Volumes
    BY Zenon DEF Provenance, Installed
  <2>4. fs[i].kind = "file"
    BY <2>1 DEF FirstFile, HoldsFile
  <2> QED
    BY <2>2, <2>3, <2>4, Zenon DEF Volumes
<1> QED
  BY <1>1, <1>2

\* The end-to-end promise: the volume of a measured board is launched only if
\* the tool sealed the very data that the loader reads now.
THEOREM LaunchedOnlyIfSealed == SystemSpec => []SealedBefore
<1>1. SystemIInv => SealedBefore
  <2>1. SUFFICES ASSUME IInv, Provenance, launched # "no", hash # NoHash
                 PROVE  \E s \in seals :
                            DataOf(s) = Data(table, DefaultList, read)
    BY DEF SystemIInv, SealedBefore
  <2> DEFINE here == Data(table, DefaultList, read)
  <2>2. /\ PreferredKey # NoKey
        /\ MsgBuffer(PreferredKey.message) = Digest(board)
    BY <2>1, SMT DEF IInv, Judgement, Blob
  <2>3. board = Sha(here) /\ here \in AllData /\ board \in RawDigests
    BY <2>1, CurrentRun, LoaderAssumption DEF Provenance, Installed
  <2>4. PreferredKey \notin Strays
    BY <2>2, <2>3, UndecodableMatchesNoBoard, SystemAssumption
  <2>j. \A m \in Junk : PreferredKey # KeyFor(m)
    BY <2>2, <2>3, SystemAssumption DEF KeyFor
  <2>5. PICK s \in seals : PreferredKey = KeyFor(Sealed(DataOf(s)))
    BY <2>1, <2>2, <2>4, <2>j, PreferredKeyOrigin DEF Provenance
  <2>6. s \in Runs
    BY <2>1 DEF Provenance
  <2>7. PreferredKey.message = MessageOf(Digest(Sha(DataOf(s))))
    BY <2>5 DEF KeyFor, Sealed
  <2>8. Digest(Sha(DataOf(s))) = Digest(Sha(here))
    BY <2>2, <2>3, <2>6, <2>7, SealedKeys, SealRoundTrip
  <2>9. DataOf(s) = here
    BY <2>3, <2>6, <2>8, SealedKeys, SystemAssumption
  <2> QED
    BY <2>9
<1> QED
  BY <1>1, SystemInvariance, PTL

-----------------------------------------------------------------------------
(* What the data of a board tell about its parts. *)

Pieces == [id : Nat, clock : Nat, bytes : Nat]

\* The pieces of the structures of a type.
OfKind(type) ==
    {x \in Pieces :
        \E t \in Tables : \E k \in DOMAIN t : t[k].id = x.id /\ t[k].type = type}

\* A structure occurs twice.
Repeats(w) == \E j, k \in 1..Len(w) : j # k /\ w[j].id = w[k].id

\* The pieces of the first n listed types.
Joined(tab, lst, n) == JoinUpTo(ListedPieces(tab, lst))[n]

\* The structures of a type are structures of the table.
LEMMA OfTypeFacts ==
    ASSUME NEW tab \in Tables, NEW type
    PROVE  LET o == OfTypeIn(tab, type) IN
           /\ o \in Seq(Structure)
           /\ \A k \in 1..Len(o) : \E i \in DOMAIN tab : o[k] = tab[i]
           /\ \A k \in 1..Len(o) : o[k].type = type
           /\ o = << >> <=> ~Present(tab, type)
           /\ \A j, k \in 1..Len(o) : j # k => o[j].id # o[k].id
<1> DEFINE S == {s \in Structure : s.type = type}
           o == OfTypeIn(tab, type)
<1>1. o = Select(tab, S) /\ tab \in Seq(Structure)
  BY SystemAssumption DEF OfTypeIn
<1>2. DOMAIN tab = 1..Len(tab) /\ \A i \in 1..Len(tab) : tab[i] \in Structure
  BY <1>1, LenProperties, ElementOfSeq
<1>3. /\ \A i \in 1..Len(tab) : tab[i] \in S <=> tab[i].type = type
      /\ \A x \in S : x.type = type
  BY <1>2, Zenon
<1> HIDE DEF S, o
<1>4. /\ o \in Seq(Structure)
      /\ \A k \in 1..Len(o) : \E i \in 1..Len(tab) : o[k] = tab[i] /\ tab[i] \in S
      /\ o = << >> <=> \A i \in 1..Len(tab) : tab[i] \notin S
  BY <1>1, SelectMembers
<1>5. \A j, k \in 1..Len(o) :
        j # k => \E i, l \in 1..Len(tab) : i # l /\ tab[i] = o[j] /\ tab[l] = o[k]
  BY <1>1, SelectApart
<1>6. \A j, k \in 1..Len(o) : j # k => o[j].id # o[k].id
  <2>1. \A i, l \in 1..Len(tab) : i # l => tab[i].id # tab[l].id
    BY <1>2, StructureAssumption, Zenon
  <2>2. SUFFICES ASSUME NEW j \in 1..Len(o), NEW k \in 1..Len(o), j # k
                 PROVE  o[j].id # o[k].id
    OBVIOUS
  <2>3. PICK i, l \in 1..Len(tab) : i # l /\ tab[i] = o[j] /\ tab[l] = o[k]
    BY <1>5, <2>2
  <2> QED
    BY <2>1, <2>3
<1>7. o = << >> <=> ~Present(tab, type)
  BY <1>2, <1>3, <1>4, Zenon DEF Present
<1>8. \A k \in 1..Len(o) : o[k].type = type
  BY <1>3, <1>4, Zenon
<1>9. \A k \in 1..Len(o) : \E i \in DOMAIN tab : o[k] = tab[i]
  BY <1>2, <1>4, Zenon
<1> QED
  BY <1>4, <1>6, <1>7, <1>8, <1>9, Zenon DEF o

\* Their pieces: none is blank, none occurs twice, and they are of this type.
LEMMA PiecesFacts ==
    ASSUME NEW tab \in Tables, NEW type, NEW kind
    PROVE  LET w == PiecesOf(tab, type) IN
           /\ w \in Seq(Pieces)
           /\ w = << >> <=> ~Present(tab, type)
           /\ \A k \in 1..Len(w) : w[k].id # 0
           /\ \A k \in 1..Len(w) : w[k] \in OfKind(kind) <=> type = kind
           /\ ~Repeats(w)
<1>1. PICK o : o = OfTypeIn(tab, type)
  OBVIOUS
<1>2. /\ o \in Seq(Structure)
      /\ \A k \in 1..Len(o) : \E i \in DOMAIN tab : o[k] = tab[i]
      /\ \A k \in 1..Len(o) : o[k].type = type
      /\ o = << >> <=> ~Present(tab, type)
      /\ \A j, k \in 1..Len(o) : j # k => o[j].id # o[k].id
  BY <1>1, OfTypeFacts
<1>3. DOMAIN o = 1..Len(o) /\ Len(o) \in Nat /\ \A k \in 1..Len(o) : o[k] \in Structure
  BY <1>2, LenProperties, ElementOfSeq
<1> DEFINE w == PiecesOf(tab, type)
<1>4. w = [k \in 1..Len(o) |-> Cleared(o[k])]
  BY <1>1, <1>3 DEF PiecesOf
<1>5. \A s \in Structure : /\ Cleared(s) \in Pieces
                           /\ Cleared(s).id = s.id /\ s.id # 0
  BY DEF Structure, Cleared, Piece, Pieces
<1> HIDE DEF w
<1>6. /\ w \in Seq(Pieces) /\ Len(w) = Len(o)
      /\ \A k \in 1..Len(o) : w[k] = Cleared(o[k]) /\ w[k] \in Pieces
  BY <1>3, <1>4, <1>5
<1>7. w = << >> <=> ~Present(tab, type)
  <2>1. w = << >> <=> Len(w) = 0
    BY <1>6, EmptySeq
  <2>2. o = << >> <=> Len(o) = 0
    BY <1>2, EmptySeq
  <2> QED
    BY <1>2, <1>6, <2>1, <2>2
<1>8. \A k \in 1..Len(w) : w[k].id # 0 /\ w[k].id = o[k].id
  BY <1>3, <1>5, <1>6
<1>9. ~Repeats(w)
  BY <1>2, <1>6, <1>8 DEF Repeats
<1>10. ASSUME NEW k \in 1..Len(w)
       PROVE  w[k] \in OfKind(kind) <=> type = kind
  <2>1. PICK i \in DOMAIN tab : o[k] = tab[i]
    BY <1>2, <1>6
  <2>2. tab[i].id = w[k].id /\ tab[i].type = type
    BY <1>2, <1>6, <1>8, <2>1
  <2>3. type = kind => w[k] \in OfKind(kind)
    BY <1>6, <2>2 DEF OfKind
  <2>4. w[k] \in OfKind(kind) => type = kind
    <3>1. SUFFICES ASSUME NEW t \in Tables, NEW j \in DOMAIN t,
                          t[j].id = w[k].id, t[j].type = kind
                   PROVE  type = kind
      BY DEF OfKind
    <3> QED
      BY <2>2, <3>1, StructureAssumption
  <2> QED
    BY <2>3, <2>4
<1> QED
  BY <1>6, <1>7, <1>8, <1>9, <1>10, Zenon DEF w

\* The structures of one more type go behind those of the types before it.
LEMMA JoinedFacts ==
    ASSUME NEW tab \in Tables, NEW lst \in Seq(Nat)
    PROVE  /\ Joined(tab, lst, 0) = << >>
           /\ \A n \in 1..Len(lst) :
                Joined(tab, lst, n) =
                    Joined(tab, lst, n - 1) \o PiecesOf(tab, lst[n])
           /\ \A n \in 0..Len(lst) : Joined(tab, lst, n) \in Seq(Pieces)
           /\ Join(ListedPieces(tab, lst)) = Joined(tab, lst, Len(lst))
<1>1. PICK ss : ss = ListedPieces(tab, lst)
  OBVIOUS
<1>2. DOMAIN lst = 1..Len(lst) /\ Len(lst) \in Nat
  BY LenProperties
<1>3. ss = [t \in 1..Len(lst) |-> PiecesOf(tab, lst[t])]
  BY <1>1, <1>2 DEF ListedPieces
<1>4. \A t \in 1..Len(lst) : PiecesOf(tab, lst[t]) \in Seq(Pieces)
  BY PiecesFacts
<1>5. /\ ss \in Seq(Seq(Pieces)) /\ Len(ss) = Len(lst)
      /\ \A n \in 1..Len(lst) : ss[n] = PiecesOf(tab, lst[n])
  BY <1>2, <1>3, <1>4
<1>6. /\ JoinUpTo(ss)[0] = << >>
      /\ \A n \in 1..Len(ss) : JoinUpTo(ss)[n] = JoinUpTo(ss)[n - 1] \o ss[n]
      /\ \A n \in 0..Len(ss) : JoinUpTo(ss)[n] \in Seq(Pieces)
  BY <1>5, JoinLoop, Zenon
<1>7. Join(ss) = JoinUpTo(ss)[Len(lst)]
  BY <1>5 DEF Join
<1> QED
  BY <1>1, <1>5, <1>6, <1>7, Zenon DEF Joined

\* Of one more type, a choice by type takes all pieces or none.
LEMMA KindOfJoined ==
    ASSUME NEW tab \in Tables, NEW lst \in Seq(Nat), NEW kind,
           NEW n \in 1..Len(lst)
    PROVE  Select(Joined(tab, lst, n), OfKind(kind)) =
               IF lst[n] = kind
               THEN Select(Joined(tab, lst, n - 1), OfKind(kind))
                      \o PiecesOf(tab, kind)
               ELSE Select(Joined(tab, lst, n - 1), OfKind(kind))
<1> DEFINE S == OfKind(kind)
           v == Joined(tab, lst, n - 1)
           w == PiecesOf(tab, lst[n])
<1>1. n - 1 \in 0..Len(lst)
  BY LenProperties, SMT
<1>2. /\ v \in Seq(Pieces) /\ w \in Seq(Pieces)
      /\ Joined(tab, lst, n) = v \o w
  <2>1. v \in Seq(Pieces)
    BY <1>1, JoinedFacts
  <2>2. w \in Seq(Pieces)
    BY PiecesFacts, Zenon
  <2> QED
    BY <2>1, <2>2, JoinedFacts
<1>3. \A k \in 1..Len(w) : w[k] \in S <=> lst[n] = kind
  BY PiecesFacts
<1> HIDE DEF S, v, w
<1>4. Select(v \o w, S) = Select(v, S) \o Select(w, S) /\ Select(v, S) \in Seq(Pieces)
  <2>1. Select(v \o w, S) = Select(v, S) \o Select(w, S)
    BY <1>2, SelectConcat
  <2>2. Select(v, S) \in Seq(Pieces)
    BY <1>2, SelectMembers
  <2> QED
    BY <2>1, <2>2
<1>5. CASE lst[n] = kind
  <2>1. Select(w, S) = w
    BY <1>2, <1>3, <1>5, SelectWhole
  <2> QED
    BY <1>2, <1>4, <1>5, <2>1 DEF S, v, w
<1>6. CASE lst[n] # kind
  <2>1. Select(w, S) = << >>
    BY <1>2, <1>3, <1>6, SelectMembers
  <2>2. Select(v, S) \o << >> = Select(v, S)
    BY <1>4, ConcatEmptySeq
  <2> QED
    BY <1>2, <1>4, <1>6, <2>1, <2>2 DEF S, v, w
<1> QED
  BY <1>5, <1>6

\* In a list without duplicates every listed type is chosen once.
LEMMA ChosenOnce ==
    ASSUME NEW tab \in Tables, NEW lst \in Seq(Nat),
           \A j, k \in 1..Len(lst) : lst[j] = lst[k] => j = k,
           NEW m \in 1..Len(lst)
    PROVE  Select(Join(ListedPieces(tab, lst)), OfKind(lst[m]))
               = PiecesOf(tab, lst[m])
<1> DEFINE N == Len(lst)
           V(n) == Select(Joined(tab, lst, n), OfKind(lst[m]))
           own == PiecesOf(tab, lst[m])
           Good == {n \in 0..N : V(n) = IF n < m THEN << >> ELSE own}
<1>1. N \in Nat /\ m \in 1..N
  BY LenProperties
<1>2. own \in Seq(Pieces)
  BY PiecesFacts
<1>3. V(0) = << >>
  <2>1. Joined(tab, lst, 0) = << >> /\ << >> \in Seq(Pieces) /\ 1..Len(<< >>) = {}
    BY JoinedFacts, EmptySeq, SMT
  <2> QED
    BY <2>1, SelectMembers, Zenon
<1>4. \A n \in 1..N : V(n) = IF n = m THEN V(n - 1) \o own ELSE V(n - 1)
  <2>1. SUFFICES ASSUME NEW n \in 1..N
                 PROVE  V(n) = IF n = m THEN V(n - 1) \o own ELSE V(n - 1)
    OBVIOUS
  <2>2. lst[n] = lst[m] <=> n = m
    OBVIOUS
  <2>3. V(n) = IF lst[n] = lst[m] THEN V(n - 1) \o own ELSE V(n - 1)
    BY KindOfJoined
  <2> QED
    BY <2>2, <2>3, Zenon
<1>5. << >> \o own = own
  BY <1>2, ConcatEmptySeq
<1> HIDE DEF V, own, N
<1>6. 0 \in Good
  BY <1>1, <1>3, SMT
<1>7. ASSUME NEW n \in 0..(N - 1), n \in Good PROVE n + 1 \in Good
  <2>1. n + 1 \in 1..N /\ n + 1 \in 0..N /\ (n + 1) - 1 = n
    BY <1>1, SMT
  <2>2. V(n + 1) = IF n + 1 = m THEN V(n) \o own ELSE V(n)
    BY <1>4, <2>1
  <2>3. V(n) = IF n < m THEN << >> ELSE own
    BY <1>7
  <2>4. CASE n + 1 = m
    <3>1. n < m /\ ~(n + 1 < m)
      BY <1>1, <2>4, SMT
    <3>2. V(n + 1) = << >> \o own
      BY <2>2, <2>3, <2>4, <3>1, Zenon
    <3> QED
      BY <1>5, <2>1, <3>1, <3>2, Zenon
  <2>5. CASE n + 1 # m
    <3>1. n + 1 < m <=> n < m
      BY <1>1, <2>5, SMT
    <3> QED
      BY <2>1, <2>2, <2>3, <2>5, <3>1
  <2> QED
    BY <2>4, <2>5
<1>8. N \in Good
  <2> HIDE DEF Good
  <2>1. \A n \in 0..N : n \in Good
    BY <1>1, <1>6, <1>7, BoundedInduction, Zenon
  <2>2. N \in 0..N
    BY <1>1, SMT
  <2> QED
    BY <2>1, <2>2
<1>9. V(N) = own
  BY <1>1, <1>8, SMT
<1> QED
  BY <1>9, JoinedFacts DEF V, own, N

\* In any list a type is not chosen, or once, or its structures repeat.
LEMMA ChosenOrRepeated ==
    ASSUME NEW tab \in Tables, NEW lst \in Seq(Nat), NEW kind
    PROVE  LET w == Select(Join(ListedPieces(tab, lst)), OfKind(kind)) IN
           w = << >> \/ w = PiecesOf(tab, kind) \/ Repeats(w)
<1> DEFINE N == Len(lst)
           V(n) == Select(Joined(tab, lst, n), OfKind(kind))
           own == PiecesOf(tab, kind)
           Good == {n \in 0..N : V(n) = << >> \/ V(n) = own \/ Repeats(V(n))}
<1>1. N \in Nat
  BY LenProperties
<1>2. own \in Seq(Pieces)
  BY PiecesFacts, Zenon
<1>3. V(0) = << >>
  <2>1. Joined(tab, lst, 0) = << >> /\ << >> \in Seq(Pieces) /\ 1..Len(<< >>) = {}
    BY JoinedFacts, EmptySeq, SMT
  <2> QED
    BY <2>1, SelectMembers, Zenon
<1>4. \A n \in 1..N : V(n) = V(n - 1) \o own \/ V(n) = V(n - 1)
  <2>1. SUFFICES ASSUME NEW n \in 1..N
                 PROVE  V(n) = V(n - 1) \o own \/ V(n) = V(n - 1)
    OBVIOUS
  <2>2. V(n) = IF lst[n] = kind THEN V(n - 1) \o own ELSE V(n - 1)
    BY KindOfJoined
  <2> QED
    BY <2>2, Zenon
<1>5. \A n \in 0..N : V(n) \in Seq(Pieces)
  <2>1. \A n \in 0..N : Joined(tab, lst, n) \in Seq(Pieces)
    BY JoinedFacts
  <2> QED
    BY <2>1, SelectMembers, Zenon
<1> HIDE DEF V, own, N
<1>6. 0 \in Good
  BY <1>1, <1>3, SMT
<1>7. ASSUME NEW n \in 0..(N - 1), n \in Good PROVE n + 1 \in Good
  <2>1. n + 1 \in 1..N /\ n + 1 \in 0..N /\ (n + 1) - 1 = n /\ n \in 0..N
    BY <1>1, SMT
  <2>2. V(n + 1) = V(n) \o own \/ V(n + 1) = V(n)
    BY <1>4, <2>1
  <2> DEFINE x == V(n)
             z == x \o own
  <2>3. x \in Seq(Pieces) /\ (x = << >> \/ x = own \/ Repeats(x))
    BY <1>5, <1>7, <2>1
  <2> HIDE DEF x
  <2>4. /\ z \in Seq(Pieces) /\ Len(z) = Len(x) + Len(own)
        /\ \A i \in 1..(Len(x) + Len(own)) :
             z[i] = IF i <= Len(x) THEN x[i] ELSE own[i - Len(x)]
    BY <1>2, <2>3, ConcatProperties, Zenon
  <2>5. Len(x) \in Nat /\ Len(own) \in Nat
    BY <1>2, <2>3, LenProperties
  <2> HIDE DEF z
  <2>6. z = << >> \/ z = own \/ Repeats(z)
    <3>1. CASE x = << >>
      BY <1>2, <3>1, ConcatEmptySeq DEF z
    <3>2. CASE own = << >>
      BY <2>3, <3>2, ConcatEmptySeq DEF z
    <3>3. CASE Repeats(x)
      <4>1. PICK j, k \in 1..Len(x) : j # k /\ x[j].id = x[k].id
        BY <3>3 DEF Repeats
      <4>2. /\ j \in 1..Len(z) /\ k \in 1..Len(z)
            /\ j \in 1..(Len(x) + Len(own)) /\ k \in 1..(Len(x) + Len(own))
            /\ j <= Len(x) /\ k <= Len(x)
        BY <2>4, <2>5, SMT
      <4>3. z[j] = x[j] /\ z[k] = x[k]
        BY <2>4, <4>2
      <4> QED
        BY <4>1, <4>2, <4>3 DEF Repeats
    <3>4. CASE x = own /\ own # << >>
      <4>1. Len(own) # 0
        BY <1>2, <3>4, EmptySeq
      <4> DEFINE j == 1
                 k == Len(x) + 1
      <4>2. /\ j \in 1..Len(z) /\ k \in 1..Len(z) /\ j # k
            /\ j \in 1..(Len(x) + Len(own)) /\ k \in 1..(Len(x) + Len(own))
            /\ j <= Len(x) /\ ~(k <= Len(x)) /\ k - Len(x) = 1
        BY <2>4, <2>5, <3>4, <4>1, SMT
      <4>3. z[j] = x[1] /\ z[k] = own[1]
        BY <2>4, <4>2
      <4> HIDE DEF k
      <4>4. z[1].id = z[k].id
        BY <3>4, <4>3
      <4> QED
        BY <4>2, <4>4 DEF Repeats
    <3> QED
      BY <2>3, <3>1, <3>2, <3>3, <3>4
  <2>7. V(n + 1) = << >> \/ V(n + 1) = own \/ Repeats(V(n + 1))
    <3>1. V(n + 1) = z \/ V(n + 1) = x
      BY <2>2 DEF x, z
    <3> QED
      BY <2>3, <2>6, <3>1, Zenon
  <2> QED
    BY <2>1, <2>7
<1>8. N \in Good
  <2> HIDE DEF Good
  <2>1. \A n \in 0..N : n \in Good
    BY <1>1, <1>6, <1>7, BoundedInduction, Zenon
  <2>2. N \in 0..N
    BY <1>1, SMT
  <2> QED
    BY <2>1, <2>2
<1>9. V(N) = << >> \/ V(N) = own \/ Repeats(V(N))
  BY <1>8
<1> QED
  BY <1>9, JoinedFacts DEF V, own, N

\* Two boards that yield the same pieces, one of them with the default list and
\* without a missing type, have the same listed structures.
LEMMA SamePiecesSameStructures ==
    ASSUME NEW tab \in Tables, NEW tab2 \in Tables, NEW lst \in Seq(Nat),
           \A k \in DOMAIN DefaultList : Present(tab, DefaultList[k]),
           Join(ListedPieces(tab2, lst)) = Join(ListedPieces(tab, DefaultList)),
           NEW m \in DOMAIN DefaultList
    PROVE  SameStructures(tab2, tab, DefaultList[m])
<1> DEFINE kind == DefaultList[m]
           w == PiecesOf(tab, kind)
<1>1. DefaultList \in Seq(Nat) /\ DOMAIN DefaultList = 1..Len(DefaultList)
  <2>1. DefaultList \in Seq(Nat)
    BY StructureAssumption, Zenon
  <2> QED
    BY <2>1, LenProperties, Zenon
<1>2. \A j, k \in 1..Len(DefaultList) : DefaultList[j] = DefaultList[k] => j = k
  BY <1>1, StructureAssumption, Zenon
<1>3. Select(Join(ListedPieces(tab, DefaultList)), OfKind(kind)) = w
  BY <1>1, <1>2, ChosenOnce, Zenon
<1>4. Present(tab, kind)
  OBVIOUS
<1>5. w # << >> /\ ~Repeats(w)
  BY <1>4, PiecesFacts, Zenon
<1> HIDE DEF kind, w
<1>6. w = << >> \/ w = PiecesOf(tab2, kind) \/ Repeats(w)
  BY <1>3, ChosenOrRepeated
<1> QED
  BY <1>5, <1>6 DEF SameStructures, kind, w

\* Sequences over two alphabets, one behind the other, split in one way only.
LEMMA SplitWhereTheAlphabetEnds ==
    ASSUME NEW P, NEW Q, P \cap Q = {},
           NEW x \in Seq(P), NEW y \in Seq(P), NEW r \in Seq(Q), NEW s \in Seq(Q),
           x \o r = y \o s
    PROVE  x = y /\ r = s
<1> DEFINE T == P \cup Q
<1>1. /\ x \in Seq(T) /\ y \in Seq(T) /\ r \in Seq(T) /\ s \in Seq(T)
  OBVIOUS
<1>2. /\ Len(x) \in Nat /\ Len(y) \in Nat /\ Len(r) \in Nat /\ Len(s) \in Nat
  BY LenProperties
<1>3. /\ \A i \in 1..Len(x) : x[i] \in P
      /\ \A i \in 1..Len(y) : y[i] \in P
      /\ \A i \in 1..Len(r) : r[i] \in Q
      /\ \A i \in 1..Len(s) : s[i] \in Q
  BY ElementOfSeq
<1> DEFINE z == x \o r
<1>4. /\ Len(z) = Len(x) + Len(r)
      /\ \A i \in 1..(Len(x) + Len(r)) :
           z[i] = IF i <= Len(x) THEN x[i] ELSE r[i - Len(x)]
  BY <1>1, ConcatProperties, Zenon
<1>5. /\ Len(z) = Len(y) + Len(s)
      /\ \A i \in 1..(Len(y) + Len(s)) :
           z[i] = IF i <= Len(y) THEN y[i] ELSE s[i - Len(y)]
  <2>1. z = y \o s
    OBVIOUS
  <2> HIDE DEF z
  <2> QED
    BY <1>1, <2>1, ConcatProperties, Zenon
<1> HIDE DEF z
<1>6. ~(Len(x) < Len(y))
  <2>1. SUFFICES ASSUME Len(x) < Len(y) PROVE FALSE
    OBVIOUS
  <2> DEFINE i == Len(x) + 1
  <2>2. /\ i \in 1..(Len(x) + Len(r)) /\ i \in 1..(Len(y) + Len(s))
        /\ ~(i <= Len(x)) /\ i - Len(x) = 1 /\ i <= Len(y) /\ i \in 1..Len(y)
        /\ 1 \in 1..Len(r)
    BY <1>2, <1>4, <1>5, <2>1, SMT
  <2> HIDE DEF i
  <2>3. z[i] = r[1] /\ z[i] = y[i]
    BY <1>4, <1>5, <2>2
  <2> QED
    BY <1>3, <2>2, <2>3
<1>7. ~(Len(y) < Len(x))
  <2>1. SUFFICES ASSUME Len(y) < Len(x) PROVE FALSE
    OBVIOUS
  <2> DEFINE i == Len(y) + 1
  <2>2. /\ i \in 1..(Len(x) + Len(r)) /\ i \in 1..(Len(y) + Len(s))
        /\ ~(i <= Len(y)) /\ i - Len(y) = 1 /\ i <= Len(x) /\ i \in 1..Len(x)
        /\ 1 \in 1..Len(s)
    BY <1>2, <1>4, <1>5, <2>1, SMT
  <2> HIDE DEF i
  <2>3. z[i] = s[1] /\ z[i] = x[i]
    BY <1>4, <1>5, <2>2
  <2> QED
    BY <1>3, <2>2, <2>3
<1>8. Len(x) = Len(y) /\ Len(r) = Len(s)
  BY <1>2, <1>4, <1>5, <1>6, <1>7, SMT
<1>9. x = y
  <2>1. \A i \in 1..Len(x) : i \in 1..(Len(x) + Len(r)) /\ i <= Len(x)
    BY <1>2, SMT
  <2>2. \A i \in 1..Len(x) : x[i] = y[i]
    BY <1>4, <1>5, <1>8, <2>1
  <2> QED
    BY <1>8, <2>2, SeqEqual
<1>10. r = s
  <2>1. \A i \in 1..Len(r) : /\ Len(x) + i \in 1..(Len(x) + Len(r))
                             /\ ~(Len(x) + i <= Len(x))
                             /\ (Len(x) + i) - Len(x) = i
    BY <1>2, SMT
  <2>2. \A i \in 1..Len(r) : r[i] = s[i]
    BY <1>4, <1>5, <1>8, <2>1, Zenon
  <2> QED
    BY <1>8, <2>2, SeqEqual
<1> QED
  BY <1>9, <1>10

\* The parts behind a board's data: what stands for the structures, and the
\* processor id.
LEMMA CollectedParts ==
    ASSUME NEW tab \in Tables, NEW lst \in Seq(Nat)
    PROVE  LET body == IF \A t \in DOMAIN lst : Present(tab, lst[t])
                       THEN Join(ListedPieces(tab, lst)) ELSE <<Zeros(CpuIdSize)>>
               id == Piece(OfTypeIn(tab, Processor)[1].id, 0, CpuIdSize)
           IN  /\ body \in Seq(Pieces) /\ id \in Pieces
               /\ CpuId(tab) = <<id>>
               /\ Collected(tab, lst) = body \o <<id>>
<1> DEFINE o == OfTypeIn(tab, Processor)
           id == Piece(o[1].id, 0, CpuIdSize)
           body == IF \A t \in DOMAIN lst : Present(tab, lst[t])
                   THEN Join(ListedPieces(tab, lst)) ELSE <<Zeros(CpuIdSize)>>
<1>1. o[1].id \in Nat
  <2>1. Present(tab, Processor)
    BY SystemAssumption
  <2>2. o \in Seq(Structure) /\ o # << >>
    BY <2>1, OfTypeFacts
  <2> HIDE DEF o
  <2>3. 1 \in 1..Len(o)
    BY <2>2, EmptySeq, SMT
  <2>4. o[1] \in Structure
    BY <2>2, <2>3, ElementOfSeq
  <2> QED
    BY <2>4 DEF Structure
<1>2. CpuId(tab) = <<id>>
  BY DEF CpuId
<1>3. Collected(tab, lst) = body \o CpuId(tab)
  BY DEF Collected
<1>4. body \in Seq(Pieces) /\ id \in Pieces
  <2>1. id \in Pieces
    BY <1>1, StructureAssumption DEF Piece, Pieces
  <2>2. Join(ListedPieces(tab, lst)) \in Seq(Pieces)
    <3>1. Len(lst) \in 0..Len(lst)
      BY LenProperties, SMT
    <3> QED
      BY <3>1, JoinedFacts
  <2>3. <<Zeros(CpuIdSize)>> \in Seq(Pieces)
    BY StructureAssumption DEF Zeros, Piece, Pieces
  <2> QED
    BY <2>1, <2>2, <2>3
<1> QED
  BY <1>2, <1>3, <1>4

\* Readings are addresses.
LEMMA ReadingType ==
    ASSUME NEW r \in Readings
    PROVE  r \in Seq([mac : Nat])
<1>1. PICK macs \in Interfaces : r \in Reads(macs)
  BY DEF Readings
<1>2. macs \in Seq([mac : Nat]) /\ Garbage \subseteq [mac : Nat]
  BY SystemAssumption
<1>3. /\ Len(macs) \in Nat
      /\ {macs[k] : k \in DOMAIN macs} \cup Garbage \subseteq [mac : Nat]
  <2>1. DOMAIN macs = 1..Len(macs) /\ Len(macs) \in Nat
    BY <1>2, LenProperties
  <2> QED
    BY <1>2, <2>1, ElementOfSeq
<1>4. CASE r = << >>
  BY <1>4
<1>5. CASE r # << >>
  <2>1. r \in [1..Len(macs) -> [mac : Nat]]
    BY <1>1, <1>3, <1>5, Zenon DEF Reads
  <2> DEFINE Mac == [mac : Nat]
             n == Len(macs)
  <2>2. n \in Nat /\ r \in [1..n -> Mac]
    BY <1>3, <2>1
  <2> HIDE DEF Mac, n
  <2>3. r \in Seq(Mac)
    BY <2>2, SMT
  <2> QED
    BY <2>3 DEF Mac
<1> QED
  BY <1>4, <1>5

\* A reading that is not NULL has the length and the first address of what was
\* read, so what two boards have in common by it.
LEMMA SameReading ==
    ASSUME NEW m \in Interfaces, NEW m2 \in Interfaces,
           NEW r \in Reads(m), r \in Reads(m2), r # << >>
    PROVE  Len(m2) = Len(m) /\ m2[1] = m[1]
<1>1. ASSUME NEW x \in Interfaces, r \in Reads(x)
      PROVE  Len(x) = Len(r) /\ x[1] = r[1]
  <2>1. x \in Seq([mac : Nat])
    BY SystemAssumption
  <2>2. Len(x) \in Nat
    BY <2>1, LenProperties
  <2>3. /\ r \in [1..Len(x) -> {x[k] : k \in DOMAIN x} \cup Garbage]
        /\ \A k \in 1..Len(x) : r[k] = x[k] \/ (k > 1 /\ r[k] \in Garbage)
    BY <1>1, Zenon DEF Reads
  <2>4. Len(r) = Len(x)
    <3>1. r \in Seq({x[k] : k \in DOMAIN x} \cup Garbage)
      BY <2>2, <2>3, SMT
    <3>2. Len(r) \in Nat /\ DOMAIN r = 1..Len(r)
      BY <3>1, LenProperties
    <3>3. DOMAIN r = 1..Len(x)
      BY <2>3
    <3> QED
      BY <2>2, <3>2, <3>3, SMT
  <2>5. 1 \in 1..Len(x)
    <3>1. r \in Seq({x[k] : k \in DOMAIN x} \cup Garbage)
      BY <2>2, <2>3, SMT
    <3>2. Len(r) # 0
      BY <3>1, EmptySeq
    <3> QED
      BY <2>2, <2>4, <3>2, SMT
  <2>6. r[1] = x[1]
    BY <2>3, <2>5, SMT
  <2> QED
    BY <2>4, <2>6
<1> QED
  BY <1>1

\* What equal data of two boards say, the second of which was measured with the
\* default list.
LEMMA SameDataSameParts ==
    ASSUME NEW tab \in Tables, NEW tab2 \in Tables,
           NEW macs \in Readings, NEW macs2 \in Readings,
           NEW lst \in Lists \cup {DefaultList},
           Data(tab2, lst, macs2) = Data(tab, DefaultList, macs)
    PROVE  /\ CpuId(tab2) = CpuId(tab)
           /\ macs2 = macs
           /\ \/ \A k \in DOMAIN DefaultList :
                   SameStructures(tab2, tab, DefaultList[k])
              \/ \E k \in DOMAIN DefaultList : ~Present(tab, DefaultList[k])
<1> DEFINE Body(t, l) == IF \A k \in DOMAIN l : Present(t, l[k])
                         THEN Join(ListedPieces(t, l)) ELSE <<Zeros(CpuIdSize)>>
           Id(t) == Piece(OfTypeIn(t, Processor)[1].id, 0, CpuIdSize)
           Mac == [mac : Nat]
           x == Collected(tab, DefaultList)
           x2 == Collected(tab2, lst)
<1>1. lst \in Seq(Nat) /\ DefaultList \in Seq(Nat)
  BY StructureAssumption
<1>2. /\ Body(tab, DefaultList) \in Seq(Pieces) /\ Id(tab) \in Pieces
      /\ CpuId(tab) = <<Id(tab)>> /\ x = Body(tab, DefaultList) \o <<Id(tab)>>
  BY <1>1, CollectedParts
<1>3. /\ Body(tab2, lst) \in Seq(Pieces) /\ Id(tab2) \in Pieces
      /\ CpuId(tab2) = <<Id(tab2)>> /\ x2 = Body(tab2, lst) \o <<Id(tab2)>>
  BY <1>1, CollectedParts
<1>4. macs \in Seq(Mac) /\ macs2 \in Seq(Mac) /\ Pieces \cap Mac = {}
  <2>1. Pieces \cap Mac = {}
    <3>1. \A p \in Pieces : DOMAIN p = {"id", "clock", "bytes"}
      BY DEF Pieces
    <3>2. \A m \in Mac : DOMAIN m = {"mac"}
      OBVIOUS
    <3>3. {"id", "clock", "bytes"} # {"mac"}
      OBVIOUS
    <3> QED
      BY <3>1, <3>2, <3>3, Zenon
  <2> QED
    BY <2>1, ReadingType
<1>5. x2 \o macs2 = x \o macs
  BY DEF Data
<1> HIDE DEF Body, Id, Mac, x, x2
<1>6. /\ x = Append(Body(tab, DefaultList), Id(tab)) /\ x \in Seq(Pieces)
      /\ x2 = Append(Body(tab2, lst), Id(tab2)) /\ x2 \in Seq(Pieces)
  BY <1>2, <1>3, AppendIsConcat, AppendProperties
<1>7. x2 = x /\ macs2 = macs
  <2>1. x2 \in Seq(Pieces) /\ x \in Seq(Pieces)
    BY <1>6
  <2> QED
    BY <1>4, <1>5, <2>1, SplitWhereTheAlphabetEnds, Zenon
<1>8. Body(tab2, lst) = Body(tab, DefaultList) /\ Id(tab2) = Id(tab)
  BY <1>2, <1>3, <1>6, <1>7, AppendInjective
<1>9. ASSUME \A k \in DOMAIN DefaultList : Present(tab, DefaultList[k]),
             NEW m \in DOMAIN DefaultList
      PROVE  SameStructures(tab2, tab, DefaultList[m])
  <2> DEFINE w == Join(ListedPieces(tab, DefaultList))
  <2>1. Body(tab, DefaultList) = w
    BY <1>9 DEF Body
  <2>2. CASE \A k \in DOMAIN lst : Present(tab2, lst[k])
    <3>1. Body(tab2, lst) = Join(ListedPieces(tab2, lst))
      BY <2>2 DEF Body
    <3> QED
      BY <1>1, <1>8, <1>9, <2>1, <3>1, SamePiecesSameStructures
  <2>3. CASE ~ \A k \in DOMAIN lst : Present(tab2, lst[k])
    <3>1. w = <<Zeros(CpuIdSize)>>
      BY <1>8, <2>1, <2>3 DEF Body
    <3>2. Select(w, OfKind(DefaultList[m])) = PiecesOf(tab, DefaultList[m])
      <4>1. DOMAIN DefaultList = 1..Len(DefaultList)
        BY <1>1, LenProperties
      <4>2. \A j, k \in 1..Len(DefaultList) : DefaultList[j] = DefaultList[k] => j = k
        BY <4>1, StructureAssumption, Zenon
      <4> QED
        BY <1>1, <4>1, <4>2, ChosenOnce
    <3> DEFINE v == PiecesOf(tab, DefaultList[m])
    <3>3. /\ v \in Seq(Pieces) /\ v # << >> /\ \A k \in 1..Len(v) : v[k].id # 0
      BY <1>9, PiecesFacts, Zenon
    <3>4. w \in Seq(Pieces)
      BY <1>2, <2>1
    <3> HIDE DEF v, w
    <3>5. 1 \in 1..Len(v)
      BY <3>3, EmptySeq, SMT
    <3>6. PICK i \in 1..Len(w) : v[1] = w[i]
      BY <3>2, <3>4, <3>5, SelectMembers DEF v
    <3>7. w[i].id = 0
      BY <3>1, <3>6 DEF Zeros, Piece
    <3> QED
      BY <3>3, <3>5, <3>6, <3>7
  <2> QED
    BY <2>2, <2>3
<1> QED
  BY <1>2, <1>3, <1>7, <1>8, <1>9

\* End to end, in terms of the board's parts: a measured board launches its
\* volume only if the tool has run on a board with the same processor and the
\* same structures of every listed type, or with none of them looked at because
\* a listed type is missing here.  If the loader found interfaces that board had
\* as many, and the same first one; of the others nothing follows.
THEOREM LaunchedOnlyWithSealedParts == SystemSpec => []SealedPartsMatch
<1>1. SystemIInv /\ SealedBefore => SealedPartsMatch
  <2>1. SUFFICES ASSUME Provenance, SealedBefore, launched # "no", hash # NoHash
                 PROVE  \E s \in seals :
                          /\ CpuId(s.table) = CpuId(table)
                          /\ read # << >> =>
                               /\ Len(s.interfaces) = Len(interfaces)
                               /\ s.interfaces[1] = interfaces[1]
                          /\ \/ \A k \in DOMAIN DefaultList :
                                  SameStructures(s.table, table, DefaultList[k])
                             \/ \E k \in DOMAIN DefaultList :
                                  ~Present(table, DefaultList[k])
    BY Zenon DEF SystemIInv, SealedPartsMatch
  <2>2. PICK s \in seals : DataOf(s) = Data(table, DefaultList, read)
    BY <2>1 DEF SealedBefore
  <2>3. /\ s.table \in Tables /\ s.interfaces \in Interfaces
        /\ s.list \in Lists \cup {DefaultList} /\ s.read \in Readings
        /\ s.read \in Reads(s.interfaces)
        /\ table \in Tables /\ interfaces \in Interfaces
        /\ read \in Reads(interfaces) /\ read \in Readings
    BY <2>1 DEF Provenance, Runs, Installed, Readings
  <2>4. Data(s.table, s.list, s.read) = Data(table, DefaultList, read)
    BY <2>2 DEF DataOf
  <2>5. /\ CpuId(s.table) = CpuId(table)
        /\ s.read = read
        /\ \/ \A k \in DOMAIN DefaultList :
                SameStructures(s.table, table, DefaultList[k])
           \/ \E k \in DOMAIN DefaultList : ~Present(table, DefaultList[k])
    BY <2>3, <2>4, SameDataSameParts
  <2>6. read # << >> => /\ Len(s.interfaces) = Len(interfaces)
                        /\ s.interfaces[1] = interfaces[1]
    BY <2>3, <2>5, SameReading
  <2> QED
    BY <2>5, <2>6
<1> QED
  BY <1>1, SystemInvariance, LaunchedOnlyIfSealed, PTL

-----------------------------------------------------------------------------
\* When InfoEntry cannot fail, start after start implements the abstract boot:
\* a step of the driver is one of its steps, a start is its restart.
THEOREM SystemImplementsRestartingBoot ==
    ASSUME "measure" \notin Failures
    PROVE  SystemSpec => ImplementsRestartingBoot
<1>1. SystemInit => Abstract!Init
  BY AbstractInit DEF SystemInit
<1>2. SystemIInv /\ [SystemNext]_systemVars
        => [Abstract!Next \/ Abstract!Restart]_abstractVars
  <2>1. SUFFICES ASSUME SystemIInv, [SystemNext]_systemVars
                 PROVE  [Abstract!Next \/ Abstract!Restart]_abstractVars
    OBVIOUS
  <2>2. IInv /\ Provenance
    BY <2>1 DEF SystemIInv
  <2>3. CASE [Next]_vars
    BY <2>2, <2>3, AbstractStep
  <2>4. CASE Start
    <3>1. Init' => Abstract!Init'
      BY AbstractInit, PTL
    <3>2. Abstract!Init'
      BY <2>2, <2>4, <3>1, StartIsInitial
    <3> QED
      BY <3>2 DEF Abstract!Init, Abstract!Restart
  <2> QED
    BY <2>1, <2>3, <2>4 DEF SystemNext, LoaderStep, PowerCycle, RunTool,
       RunToolInVain, Sign, systemVars
<1> QED
  BY <1>1, <1>2, SystemInvariance, PTL
     DEF SystemSpec, ImplementsRestartingBoot, Abstract!RestartingSpec,
         abstractVars
=============================================================================

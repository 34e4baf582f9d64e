------------------------------- MODULE System -------------------------------
(***************************************************************************)
(* The two programs and the board they run on, from one start to the next: *)
(* the loader runs at every start; behind it the shell tool measures the   *)
(* board, writes series.txt and resets; the signer turns that file into a  *)
(* key.  Power may be lost between any two steps, and while the board is   *)
(* off its parts, its network interfaces and the keys on it may change.    *)
(*                                                                         *)
(* The loader's steps are those of Loader.  What InfoEntry and the tool    *)
(* collect is BoardData, which SmbiosData refines, and behind it what they *)
(* read of the interfaces' addresses, which is what MacData leaves.        *)
(***************************************************************************)
EXTENDS Loader, BoardData

CONSTANTS
    Machines,     \* what the board may be: its SMBIOS table and its interfaces
    Garbage,      \* what may be read where an address was stored out of bounds
    DefaultList,  \* mDefaultTypeList
    Lists,        \* the lists the tool may be given with -t
    Sha(_),       \* SHA-256
    KeySize,      \* size of a signed key
    Strays,       \* blobs nobody signed
    Junk,         \* the messages that may be read at address 0
    MaxBoots      \* number of starts considered

Tables == {m.table : m \in Machines}
Interfaces == {m.interfaces : m \in Machines}

\* What InfoEntry gets of a board's interfaces.  InfoGetMacData gives NULL when
\* a device path has no MAC node, or when no interface has its driver yet.  Of
\* what it gives the first address is intact; each further one was stored behind
\* the buffer, and what is there when the data are put together is copied.
Reads(macs) ==
    {<< >>} \cup
    {read \in [1..Len(macs) -> {macs[k] : k \in DOMAIN macs} \cup Garbage] :
        \A k \in 1..Len(macs) :
            read[k] = macs[k] \/ (k > 1 /\ read[k] \in Garbage)}

Readings == UNION {Reads(macs) : macs \in Interfaces}

\* Mutant: the interfaces are left out.
DataWithoutInterfaces(structures, list, read) == Collected(structures, list)

\* The data that are hashed: the structures, the processor id, the addresses as
\* they were read.
Data(structures, list, read) == Collected(structures, list) \o read

\* A run of the tool: the board as it was, the list, and what was read.
Runs == [table : Tables, interfaces : Interfaces,
         list : Lists \cup {DefaultList}, read : Readings]

DataOf(run) == Data(run.table, run.list, run.read)
AllData == {DataOf(run) : run \in Runs}

\* The key the signer makes of a message.
KeyFor(message) == [size |-> KeySize, message |-> message]

Sealed(data) == MessageOf(Digest(Sha(data)))

\* SHA-256 has no collisions among the data under study, not even where zero
\* bytes become 1; it is not what stands at address 0; and only the signer can
\* make a key that decrypts.
ASSUME SystemAssumption ==
    /\ Machines \subseteq [table : Tables, interfaces : Interfaces]
    /\ \A t \in Tables : t \in Seq(Structure) /\ Present(t, Processor)
    /\ Interfaces \subseteq Seq([mac : Nat]) /\ Garbage \subseteq [mac : Nat]
    /\ \A d \in AllData : Sha(d) \in Boards /\ KeyFor(Sealed(d)) \in Keys
    /\ \A d, e \in AllData : Digest(Sha(d)) = Digest(Sha(e)) => d = e
    /\ Strays \subseteq Keys
    /\ \A k \in Strays : k.message = Undecodable
    /\ \A m \in Junk : KeyFor(m) \in Keys
    /\ \A m \in Junk, d \in AllData : MsgBuffer(m) # Digest(Sha(d))
    /\ MaxBoots \in Nat \ {0}

\* What tells the parts of a board apart.  A structure's contents begin with
\* its type and its handle, which no other structure of the table has, and say
\* where they end; mDefaultTypeList names no type twice; and a MAC address is
\* no structure.  (A structure with an overlong string would leave no bytes.)
ASSUME StructureAssumption ==
    /\ \A t \in Tables : \A k \in DOMAIN t : ~t[k].overlong
    /\ \A t, u \in Tables : \A j \in DOMAIN t : \A k \in DOMAIN u :
         t[j].id = u[k].id => t[j].type = u[k].type
    /\ \A t \in Tables : \A j, k \in DOMAIN t : t[j].id = t[k].id => j = k
    /\ CpuIdSize \in Nat
    /\ Lists \cup {DefaultList} \subseteq Seq(Nat)
    /\ \A j, k \in DOMAIN DefaultList :
         DefaultList[j] = DefaultList[k] => j = k

VARIABLES
    table,       \* the board's SMBIOS table
    interfaces,  \* its network interfaces
    read,        \* what InfoEntry reads of them at this start
    series,      \* the message series.txt seals, or Undecodable
    seals,       \* the runs of the tool that sealed a digest
    signed,      \* the keys the signer has made
    boots        \* number of starts so far

systemVars == <<vars, table, interfaces, read, series, seals, signed, boots>>

\* What the loader finds at a start: the board, and keys from the signer or
\* strays, in the firmware or on a file system.  (Why a handle gives no file is
\* told apart in Loader.)
Volumes == [kind : {"no_file"}, key : {NoKey}]
             \cup [kind : {"file"}, key : signed \cup Strays]

Installed ==
    /\ [table |-> table, interfaces |-> interfaces] \in Machines
    /\ read \in Reads(interfaces)
    /\ board = Sha(Data(table, DefaultList, read))
    /\ section \in signed \cup {NoKey}
    /\ fs \in [1..NumFs -> Volumes]

SystemInit ==
    /\ table \in Tables
    /\ interfaces \in Interfaces
    /\ read \in Reads(interfaces)
    /\ series = Undecodable
    /\ seals = {}
    /\ signed = {}
    /\ boots = 1
    /\ Installed
    /\ Init

-----------------------------------------------------------------------------
\* The driver starts over and remembers nothing.
Start ==
    /\ boots < MaxBoots
    /\ boots' = boots + 1
    /\ \E m \in Machines : table' = m.table /\ interfaces' = m.interfaces
    /\ read' \in Reads(interfaces')
    /\ UNCHANGED signed
    /\ board' = Sha(Data(table', DefaultList, read'))
    /\ section' \in signed \cup {NoKey}
    /\ fs' \in [1..NumFs -> Volumes]
    /\ pc' = "measure"
    /\ hash' = NoHash
    /\ fileData' = "undefined"
    /\ fsIndex' = 1
    /\ msg' = MsgBuffer(Undecodable)
    /\ encPass' = 0
    /\ launched' = "no"
    /\ live' = {}

LoaderStep ==
    /\ Next
    /\ UNCHANGED <<table, interfaces, read, series, seals, signed, boots>>

\* Power is lost, or somebody resets the board.
PowerCycle ==
    /\ Start
    /\ UNCHANGED <<series, seals>>

\* The tool reads the interfaces for itself, seals the digest of the board it
\* runs on and resets the board.
RunTool(list) ==
    /\ pc = "done"
    /\ \E found \in Reads(interfaces) :
         /\ series' = Sealed(Data(table, list, found))
         /\ seals' = seals \cup {[table |-> table, interfaces |-> interfaces,
                                 list |-> list, read |-> found]}
    /\ Start

\* No digest is sealed.  series.txt is not written: the old one is deleted or
\* stays.  Or it is: with Data = NULL the tool seals what it reads at address 0.
\* After an error the tool resets the board all the same, or else power is lost
\* on the way.
RunToolInVain ==
    /\ pc = "done"
    /\ series' \in {Undecodable, series} \cup Junk
    /\ UNCHANGED seals
    /\ Start

\* The signer takes whatever series.txt holds.
Sign ==
    /\ boots < MaxBoots
    /\ series # Undecodable
    /\ signed' = signed \cup {KeyFor(series)}
    /\ UNCHANGED vars
    /\ UNCHANGED <<table, interfaces, read, series, seals, boots>>

SystemNext ==
    \/ LoaderStep
    \/ PowerCycle
    \/ \E list \in Lists \cup {DefaultList} : RunTool(list)
    \/ RunToolInVain
    \/ Sign

\* The driver, once started, is run to its end; nobody need use the tool.
SystemSpec == SystemInit /\ [][SystemNext]_systemVars /\ WF_systemVars(LoaderStep)

-----------------------------------------------------------------------------
(* Properties *)

\* The types of what the two programs hand to each other; after a start the
\* driver's variables have their types again.
SystemTypeOK ==
    /\ TypeOK
    /\ table \in Tables /\ interfaces \in Interfaces
    /\ read \in Readings
    /\ series \in Seq(Byte)
    /\ seals \subseteq Runs
    /\ signed \subseteq Keys
    /\ boots \in 1..MaxBoots

\* A measured board launches its volume only if the tool has sealed exactly the
\* data the loader reads now: stale series files, what a failed run sealed, keys
\* of other boards, keys sealed with another list and stray blobs do not do
\* (SHA-256 and the signature taken to be unbroken).
SealedBefore ==
    launched # "no" /\ hash # NoHash =>
        \E s \in seals : DataOf(s) = Data(table, DefaultList, read)

\* Nothing but the values of clocks distinguishes the structures of a type.
SameStructures(t, u, type) == PiecesOf(t, type) = PiecesOf(u, type)

\* The volume is launched only on a board on which the tool has run with every
\* listed part as it is now.  A board without one of the listed types is told
\* apart by its processor and interfaces only.  Of the interfaces the first and
\* their number were the same; two boards that differ in a further address may
\* measure alike (InfoMac.c:94), and when InfoGetMacData finds none at this start
\* nothing is known of them (Info.c:239).
SealedPartsMatch ==
    launched # "no" /\ hash # NoHash =>
        \E s \in seals :
            /\ CpuId(s.table) = CpuId(table)
            /\ read # << >> =>
                 /\ Len(s.interfaces) = Len(interfaces)
                 /\ s.interfaces[1] = interfaces[1]
            /\ \/ \A k \in DOMAIN DefaultList :
                     SameStructures(s.table, table, DefaultList[k])
               \/ \E k \in DOMAIN DefaultList : ~Present(table, DefaultList[k])

\* The key judged at this start was made of a seal of this very board, taken
\* with the default list, whatever its clocks are now; and the loader reads of
\* the interfaces what the tool read.
HoldsOwnKey ==
    \E s \in seals :
        /\ s.list = DefaultList
        /\ s.interfaces = interfaces
        /\ s.read = read
        /\ Len(s.table) = Len(table)
        /\ \A k \in DOMAIN table :
             [s.table[k] EXCEPT !.clock = 0] = [table[k] EXCEPT !.clock = 0]
        /\ \A k \in DOMAIN table :
             table[k].type \notin {Processor, MemoryDevice} =>
                 s.table[k].clock = table[k].clock
        /\ PreferredKey = KeyFor(Sealed(DataOf(s)))

\* Such a start ends with the volume launched, unless it is cut short by the
\* next: the seal outlives clock changes and any number of restarts.
OwnBoardBoots ==
    \A b \in 1..MaxBoots :
        (boots = b /\ Failures = {} /\ KeySize <= BufLen /\ HoldsOwnKey)
        ~> (launched = "dispatched" \/ boots > b)

\* Start after start the two programs implement the abstract measured boot.
ImplementsRestartingBoot == Abstract!RestartingSpec
=============================================================================

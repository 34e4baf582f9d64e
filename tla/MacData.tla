------------------------------ MODULE MacData -------------------------------
(***************************************************************************)
(* InfoGetMacData (InfoMac.c): walk the load file handles and concatenate  *)
(* the MAC addresses of those with an IPv4 node in their device path.      *)
(*                                                                         *)
(* Sizes are counted in addresses (6 bytes each).  "fault" stands for an   *)
(* access the C code leaves undefined and the platform traps: a write      *)
(* through NULL or past the end of the buffer, a read through an unset     *)
(* Handles.  When it is not trapped, the write past the end may be read    *)
(* back or may be lost (Garbage), and the handles may be anything.         *)
(***************************************************************************)
EXTENDS Loops

CONSTANTS Address,      \* MAC addresses
          NoAddress,    \* of a device path without a MAC node
          Garbage,      \* what is read where an address was lost
          MaxHandles    \* bound: load file handles of a board

ASSUME MacAssumption ==
    /\ NoAddress \notin Address
    /\ Garbage \notin Address
    /\ MaxHandles \in Nat

\* A load file handle: does it have a device path, which MAC address is in the
\* path, and is there an IPv4 node (IsEfiNetWorkType).
Handle == [path : BOOLEAN, mac : Address \cup {NoAddress}, ip4 : BOOLEAN]

VARIABLES
    memory,     \* may an allocation fail: "ample" or "tight"
    located,    \* did LocateHandleBuffer succeed: "yes" or "no"
    handles,    \* Handles, up to HandleCount
    index,      \* Index
    macData,    \* MacData: "null" or "pool"
    capacity,   \* size of the buffer MacData points at
    stored,     \* what is read at MacData, address by address
    sumSize,    \* SumSize
    size,       \* *Size
    pc

environment == <<memory, located, handles>>
vars == <<memory, located, handles, index, macData, capacity, stored, sumSize, size, pc>>

\* The status of LocateHandleBuffer is not tested: when it failed, HandleCount
\* and Handles are what it left in them, or what they were before.
Init ==
    /\ memory \in {"ample", "tight"}
    /\ located \in {"yes", "no"}
    /\ handles \in UNION {[1..n -> Handle] : n \in 0..MaxHandles}
    /\ index = 1
    /\ macData = "null"
    /\ capacity = 0
    /\ stored = << >>
    /\ sumSize = 0
    /\ size = 0
    /\ pc = "scan"

Scanning == pc = "scan" /\ index <= Len(handles)

\* The next handle has a device path, and a MAC node in it.
HasMac ==
    /\ Scanning
    /\ handles[index].path
    /\ handles[index].mac # NoAddress

\* Handles[Index] of a buffer that was never located.
ReadUnlocated ==
    /\ Scanning
    /\ located = "no"
    /\ pc' = "fault"
    /\ UNCHANGED environment
    /\ UNCHANGED <<index, macData, capacity, stored, sumSize, size>>

\* Mutant: a handle that is skipped takes the next one along.
SkipTwoHandles ==
    /\ Scanning
    /\ \/ ~handles[index].path
       \/ HasMac /\ ~handles[index].ip4
    /\ index' = index + 2
    /\ UNCHANGED environment
    /\ UNCHANGED <<macData, capacity, stored, sumSize, size, pc>>

\* Mutant: Index is not incremented.
SkipForever ==
    /\ Scanning
    /\ \/ ~handles[index].path
       \/ HasMac /\ ~handles[index].ip4
    /\ UNCHANGED vars

\* HandleProtocol fails, or there is no IPv4 node: on to the next handle.
SkipHandle ==
    /\ Scanning
    /\ \/ ~handles[index].path
       \/ HasMac /\ ~handles[index].ip4
    /\ index' = index + 1
    /\ UNCHANGED environment
    /\ UNCHANGED <<macData, capacity, stored, sumSize, size, pc>>

\* Mutant: a device path without a MAC node is skipped.
GoOn ==
    /\ Scanning
    /\ handles[index].path
    /\ handles[index].mac = NoAddress
    /\ index' = index + 1
    /\ UNCHANGED environment
    /\ UNCHANGED <<macData, capacity, stored, sumSize, size, pc>>

\* A device path without a MAC node ends the walk: return NULL.
GiveUp ==
    /\ Scanning
    /\ handles[index].path
    /\ handles[index].mac = NoAddress
    /\ macData' = "null"
    /\ pc' = "done"
    /\ UNCHANGED environment
    /\ UNCHANGED <<index, capacity, stored, sumSize, size>>

\* CopyMem (MacData + TempSize, ..., 6) into a buffer of cap addresses, where
\* TempSize is the SumSize before this address.
Store(cap) ==
    /\ \E read \in {handles[index].mac, Garbage} :
         /\ sumSize < cap => read = handles[index].mac
         /\ stored' = Append(stored, read)
    /\ capacity' = cap
    /\ macData' = "pool"
    /\ IF sumSize < cap THEN UNCHANGED pc ELSE pc' \in {"scan", "fault"}

\* No buffer: CopyMem through NULL, and MacData stays NULL.
StoreNowhere ==
    /\ memory = "tight"
    /\ stored' = Append(stored, Garbage)
    /\ capacity' = 0
    /\ macData' = "null"
    /\ pc' \in {"scan", "fault"}

Count ==
    /\ HasMac
    /\ handles[index].ip4
    /\ sumSize' = sumSize + 1
    /\ size' = sumSize'
    /\ index' = index + 1
    /\ UNCHANGED environment

\* AllocateZeroPool (6), whatever SumSize is by now.
FirstAddress ==
    /\ macData = "null"
    /\ Count
    /\ Store(1) \/ StoreNowhere

\* Mutant: the buffer does not grow at all.
NextAddressNoGrowth ==
    /\ macData = "pool"
    /\ Count
    /\ Store(1) \/ StoreNowhere

\* ReallocatePool (TempSize, SumSize, MacData), with SumSize still TempSize.
NextAddress ==
    /\ macData = "pool"
    /\ Count
    /\ Store(sumSize) \/ StoreNowhere

\* All handles seen: return MacData, which is still NULL when SumSize is 0.
Finish ==
    /\ pc = "scan"
    /\ index > Len(handles)
    /\ pc' = "done"
    /\ UNCHANGED environment
    /\ UNCHANGED <<index, macData, capacity, stored, sumSize, size>>

Terminated == pc \in {"done", "fault"} /\ UNCHANGED vars

Next ==
    \/ ReadUnlocated \/ SkipHandle \/ GiveUp
    \/ FirstAddress \/ NextAddress \/ Finish
    \/ Terminated

Spec == Init /\ [][Next]_vars /\ WF_vars(Next)

-----------------------------------------------------------------------------
(* Properties *)

TypeOK ==
    /\ memory \in {"ample", "tight"}
    /\ located \in {"yes", "no"}
    /\ handles \in Seq(Handle)
    /\ index \in 1..(Len(handles) + 1)
    /\ macData \in {"null", "pool"}
    /\ capacity \in Nat
    /\ stored \in Seq(Address \cup {Garbage})
    /\ sumSize \in Nat
    /\ size \in Nat
    /\ pc \in {"scan", "done", "fault"}

\* The IPv4 interfaces among the first n handles, in handle order.
Interfaces(n) ==
    SelectUpTo(handles, {h \in Handle : h.path /\ h.ip4})[n]

Blocked == \E i \in DOMAIN handles : handles[i].path /\ handles[i].mac = NoAddress

\* With enough memory the walk returns NULL exactly when some device path has no
\* MAC node or no handle is an IPv4 interface, and otherwise one entry per
\* interface, in handle order, of which the first is always intact.
MacResult ==
    pc = "done" /\ memory = "ample" =>
        LET expected == Interfaces(Len(handles)) IN
        /\ macData = "null" <=> (Blocked \/ expected = << >>)
        /\ macData = "pool" =>
             /\ size = Len(expected)
             /\ Len(stored) = size
             /\ stored[1] = expected[1].mac
             /\ \A k \in 1..size : stored[k] \in {expected[k].mac, Garbage}

\* A board with a single IPv4 interface gets a buffer of the reported size that
\* holds its address.
SingleInterface ==
    macData = "pool" /\ size = 1 /\ memory = "ample" =>
        /\ capacity = size
        /\ Garbage \notin {stored[k] : k \in 1..Len(stored)}

\* While there is a buffer it is short of the reported size by at most one
\* address, unless an allocation failed on the way.
ShortByOne ==
    macData = "pool" /\ memory = "ample" =>
        capacity = IF sumSize = 1 THEN 1 ELSE sumSize - 1

\* The buffer returned has the size reported in *Size ("The size of mac
\* address" of "The returned ptr of mac address").
SizeIsCapacity ==
    pc = "done" /\ macData = "pool" => size <= capacity

\* The walk ends for every set of handles.
Terminates == <>(pc \in {"done", "fault"})
=============================================================================

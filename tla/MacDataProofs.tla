--------------------------- MODULE MacDataProofs ----------------------------
(***************************************************************************)
(* The size and the content of the MAC buffer for every number of handles. *)
(***************************************************************************)
EXTENDS MacData, Induction

\* How the sizes hang together, in particular while memory is ample.
Sizes ==
    /\ size = sumSize
    /\ Len(stored) = sumSize
    /\ macData = "null" /\ pc = "scan" /\ memory = "ample" => sumSize = 0
    /\ macData = "pool" => sumSize > 0
    /\ macData = "pool" /\ memory = "ample" => stored[1] # Garbage
    /\ ShortByOne

IInv == TypeOK /\ Sizes

BlockedAt(i) == handles[i].path /\ handles[i].mac = NoAddress

\* What is stored are the addresses of the interfaces seen, or lost ones; the
\* first is never lost.
Holds(seen) ==
    /\ Len(stored) = Len(seen)
    /\ \A k \in 1..Len(stored) : stored[k] \in {seen[k].mac, Garbage}
    /\ Len(stored) > 0 => stored[1] = seen[1].mac

\* How far the walk has come, and how it ended.
Walked ==
    /\ \A i \in 1..(index - 1) : ~BlockedAt(i)
    /\ memory = "ample" => Holds(Interfaces(index - 1))
    /\ pc = "done" /\ memory = "ample" =>
         \/ Blocked /\ macData = "null"
         \/ index = Len(handles) + 1 /\ (macData = "null" => sumSize = 0)

LEMMA InitIInv == Init => IInv
<1> SUFFICES ASSUME Init PROVE IInv
  OBVIOUS
<1>1. TypeOK
  <2>1. PICK n \in 0..MaxHandles : handles \in [1..n -> Handle]
    BY DEF Init
  <2>2. handles \in Seq(Handle)
    BY <2>1, MacAssumption, SMT
  <2> QED
    BY <2>2, SMT DEF Init, TypeOK
<1>2. Sizes
  BY SMT DEF Init, Sizes, ShortByOne
<1> QED
  BY <1>1, <1>2 DEF IInv

LEMMA NextIInv == IInv /\ [Next]_vars => IInv'
<1> SUFFICES ASSUME IInv, [Next]_vars PROVE IInv'
  OBVIOUS
<1>1. ASSUME HasMac
      PROVE  /\ handles[index].mac \in Address
             /\ handles[index].mac # Garbage
  <2>1. handles[index] \in Handle
    BY <1>1, SMT DEF HasMac, Scanning, IInv, TypeOK
  <2> QED
    BY <1>1, <2>1, MacAssumption, SMT DEF HasMac, Handle
<1>2. TypeOK'
  <2> USE DEF IInv, TypeOK
  <2>1. CASE SkipHandle
    BY <2>1, SMT DEF SkipHandle, HasMac, Scanning, environment
  <2>2. CASE GiveUp
    BY <2>2, SMT DEF GiveUp, Scanning, environment
  <2>3. CASE FirstAddress
    <3>1. CASE Store(1)
      BY <1>1, <2>3, <3>1, SMT
         DEF FirstAddress, Count, HasMac, Scanning, Store, environment
    <3>2. CASE StoreNowhere
      BY <2>3, <3>2, SMT
         DEF FirstAddress, Count, HasMac, Scanning, StoreNowhere, environment
    <3> QED
      BY <2>3, <3>1, <3>2 DEF FirstAddress
  <2>4. CASE NextAddress
    <3>1. CASE Store(sumSize)
      BY <1>1, <2>4, <3>1, SMT
         DEF NextAddress, Count, HasMac, Scanning, Store, environment
    <3>2. CASE StoreNowhere
      BY <2>4, <3>2, SMT
         DEF NextAddress, Count, HasMac, Scanning, StoreNowhere, environment
    <3> QED
      BY <2>4, <3>1, <3>2 DEF NextAddress
  <2>5. CASE Finish
    BY <2>5, SMT DEF Finish, environment
  <2>7. CASE ReadUnlocated
    BY <2>7, SMT DEF ReadUnlocated, environment
  <2>6. CASE UNCHANGED vars
    BY <2>6 DEF vars
  <2> QED
    BY <2>1, <2>2, <2>3, <2>4, <2>5, <2>6, <2>7 DEF Next, Terminated
<1>3. Sizes'
  <2> USE DEF IInv, TypeOK, Sizes
  <2>1. CASE SkipHandle
    BY <2>1, SMT DEF SkipHandle, environment, ShortByOne
  <2>2. CASE GiveUp
    BY <2>2, SMT DEF GiveUp, environment, ShortByOne
  <2>3. CASE FirstAddress
    <3>1. CASE Store(1)
      BY <1>1, <2>3, <3>1, SMT
         DEF FirstAddress, Count, HasMac, Scanning, Store, ShortByOne, environment
    <3>2. CASE StoreNowhere
      BY <2>3, <3>2, SMT
         DEF FirstAddress, Count, HasMac, Scanning, StoreNowhere, ShortByOne,
             environment
    <3> QED
      BY <2>3, <3>1, <3>2 DEF FirstAddress
  <2>4. CASE NextAddress
    <3>1. CASE Store(sumSize)
      BY <1>1, <2>4, <3>1, SMT
         DEF NextAddress, Count, HasMac, Scanning, Store, ShortByOne, environment
    <3>2. CASE StoreNowhere
      BY <2>4, <3>2, SMT
         DEF NextAddress, Count, HasMac, Scanning, StoreNowhere, ShortByOne,
             environment
    <3> QED
      BY <2>4, <3>1, <3>2 DEF NextAddress
  <2>5. CASE Finish
    BY <2>5, SMT DEF Finish, environment, ShortByOne
  <2>7. CASE ReadUnlocated
    BY <2>7, SMT DEF ReadUnlocated, environment, ShortByOne
  <2>6. CASE UNCHANGED vars
    BY <2>6 DEF vars, ShortByOne
  <2> QED
    BY <2>1, <2>2, <2>3, <2>4, <2>5, <2>6, <2>7 DEF Next, Terminated
<1> QED
  BY <1>2, <1>3 DEF IInv

-----------------------------------------------------------------------------
\* The invariant holds in every state of every walk.
THEOREM Invariance == Spec => []IInv
  BY InitIInv, NextIInv, PTL DEF Spec

\* Every variable of the walk keeps its type.
THEOREM TypeCorrect == Spec => []TypeOK
<1>1. IInv => TypeOK
  BY DEF IInv
<1> QED
  BY <1>1, Invariance, PTL

\* However many interfaces a board has, the buffer is one address short of the
\* size reported, and exact when there is one interface: ReallocatePool is
\* called before SumSize is increased.
THEOREM CapacityShortByOne == Spec => []ShortByOne
<1>1. IInv => ShortByOne
  BY DEF IInv, Sizes
<1> QED
  BY <1>1, Invariance, PTL

\* A board with one interface is measured exactly.
THEOREM OneInterfaceIsExact == Spec => []SingleInterface
<1>1. IInv => SingleInterface
  BY SMT DEF IInv, TypeOK, Sizes, ShortByOne, SingleInterface
<1> QED
  BY <1>1, Invariance, PTL

-----------------------------------------------------------------------------
(* What is in the buffer. *)

\* What f says is what the loop over the handles has seen.
Sees(f) ==
    /\ f[0] = << >>
    /\ \A n \in 1..Len(handles) :
         f[n] = IF handles[n].path /\ handles[n].ip4
                THEN Append(f[n - 1], handles[n])
                ELSE f[n - 1]
    /\ \A n \in 0..Len(handles) : f[n] \in Seq(Handle)

LEMMA InterfacesSeen ==
    ASSUME handles \in Seq(Handle)
    PROVE  \E f : Sees(f) /\ \A n : Interfaces(n) = f[n]
<1> DEFINE S == {h \in Handle : h.path /\ h.ip4}
           f == SelectUpTo(handles, S)
<1>1. \A n \in 1..Len(handles) :
        handles[n] \in S <=> handles[n].path /\ handles[n].ip4
  OBVIOUS
<1>2. \A n : Interfaces(n) = f[n]
  BY DEF Interfaces
<1> HIDE DEF S
<1>3. /\ f[0] = << >>
      /\ \A n \in 1..Len(handles) :
           f[n] = IF handles[n] \in S
                  THEN Append(f[n - 1], handles[n])
                  ELSE f[n - 1]
      /\ \A n \in 0..Len(handles) : f[n] \in Seq(Handle)
  BY SelectLoop
<1> HIDE DEF f
<1>4. Sees(f)
  BY <1>1, <1>3, Zenon DEF Sees
<1> QED
  BY <1>2, <1>4

\* An address goes behind those stored as its handle goes behind those seen.
LEMMA AppendHolds ==
    ASSUME NEW seen \in Seq(Handle), NEW h \in Handle, NEW A,
           NEW s \in Seq(A), NEW read \in {h.mac, Garbage},
           Len(s) = 0 => read = h.mac,
           Len(s) = Len(seen),
           \A k \in 1..Len(s) : s[k] \in {seen[k].mac, Garbage},
           Len(s) > 0 => s[1] = seen[1].mac
    PROVE  /\ Len(Append(s, read)) = Len(Append(seen, h))
           /\ \A k \in 1..Len(Append(s, read)) :
                Append(s, read)[k] \in {Append(seen, h)[k].mac, Garbage}
           /\ Len(Append(s, read)) > 0 =>
                Append(s, read)[1] = Append(seen, h)[1].mac
<1>1. /\ Len(Append(s, read)) = Len(s) + 1
      /\ Len(Append(seen, h)) = Len(s) + 1
      /\ \A k \in 1..Len(s) : /\ Append(s, read)[k] = s[k]
                              /\ Append(seen, h)[k] = seen[k]
      /\ Append(s, read)[Len(s) + 1] = read
      /\ Append(seen, h)[Len(s) + 1] = h
  BY SMT
<1>2. \A k \in 1..(Len(s) + 1) : k = Len(s) + 1 \/ k \in 1..Len(s)
  BY SMT
<1>3. (1 \in 1..Len(s) /\ Len(s) > 0) \/ Len(s) = 0
  BY SMT
<1> QED
  BY <1>1, <1>2, <1>3

LEMMA InitWalked == Init => Walked
<1> SUFFICES ASSUME Init PROVE Walked
  OBVIOUS
<1>1. handles \in Seq(Handle)
  BY InitIInv DEF IInv, TypeOK
<1>2. Interfaces(0) = << >>
  BY <1>1, InterfacesSeen, Zenon DEF Sees
<1>3. Interfaces(index - 1) = Interfaces(0) /\ 1..(index - 1) = {}
  BY SMT DEF Init
<1> QED
  BY <1>2, <1>3 DEF Init, Walked, Holds

LEMMA NextWalked == IInv /\ Walked /\ [Next]_vars => Walked'
<1> SUFFICES ASSUME IInv, Walked, [Next]_vars PROVE Walked'
  OBVIOUS
<1>1. PICK f : Sees(f) /\ \A n : Interfaces(n) = f[n]
  BY InterfacesSeen, Zenon DEF IInv, TypeOK
<1>2. handles' = handles /\ memory' = memory
  BY DEF Next, Terminated, ReadUnlocated, SkipHandle, GiveUp, FirstAddress,
     NextAddress, Finish, Count, vars, environment
<1>3. /\ Interfaces(index - 1) = f[index - 1]
      /\ Interfaces(index - 1)' = f[index' - 1]
  <2>1. \A n : Interfaces(n) = SelectUpTo(handles, {h \in Handle : h.path /\ h.ip4})[n]
    BY DEF Interfaces
  <2>2. Interfaces(index - 1)'
           = SelectUpTo(handles, {h \in Handle : h.path /\ h.ip4})[index' - 1]
    BY <1>2 DEF Interfaces
  <2> QED
    BY <1>1, <2>1, <2>2, Zenon
<1>4. index \in Nat \ {0} /\ Len(handles) \in Nat /\ Len(stored) \in Nat
  BY DEF IInv, TypeOK
<1>5. ASSUME Scanning
      PROVE  /\ index \in 1..Len(handles) /\ index - 1 \in 0..Len(handles)
             /\ (index + 1) - 1 = index
             /\ \A i \in 1..index : i = index \/ i \in 1..(index - 1)
  BY <1>4, <1>5, SMT DEF Scanning
<1>6. CASE SkipHandle
  <2>1. f[index] = f[index - 1]
    BY <1>1, <1>5, <1>6 DEF SkipHandle, HasMac, Sees
  <2>2. ~BlockedAt(index)
    BY <1>6 DEF SkipHandle, HasMac, BlockedAt
  <2>3. \A i \in 1..(index' - 1) : ~BlockedAt(i)'
    BY <1>2, <1>5, <1>6, <2>2 DEF SkipHandle, BlockedAt, Walked
  <2>4. Interfaces(index - 1)' = Interfaces(index - 1)
    BY <1>3, <1>5, <1>6, <2>1 DEF SkipHandle
  <2> QED
    BY <1>2, <1>6, <2>3, <2>4, Zenon
       DEF SkipHandle, Scanning, Walked, Holds
<1>7. CASE GiveUp
  <2>1. Blocked'
    <3>1. index \in DOMAIN handles /\ BlockedAt(index)
      BY <1>5, <1>7 DEF GiveUp, BlockedAt, IInv, TypeOK
    <3> QED
      BY <1>2, <3>1, Zenon DEF Blocked, BlockedAt
  <2> QED
    BY <1>2, <1>3, <1>7, <2>1, Zenon DEF GiveUp, Walked, Holds, BlockedAt
<1>8. CASE Finish
  <2>1. index = Len(handles) + 1
    BY <1>4, <1>8, SMT DEF Finish, IInv, TypeOK
  <2>2. memory = "ample" /\ macData = "null" => sumSize = 0
    BY <1>8, Zenon DEF Finish, IInv, Sizes
  <2> QED
    BY <1>2, <1>3, <1>8, <2>1, <2>2, Zenon
       DEF Finish, Walked, Holds, BlockedAt
<1>9. CASE FirstAddress \/ NextAddress
  <2>1. Count /\ HasMac /\ Scanning /\ index' = index + 1
    BY <1>9 DEF FirstAddress, NextAddress, Count, HasMac
  <2>2. \A i \in 1..(index' - 1) : ~BlockedAt(i)'
    BY <1>2, <1>5, <2>1 DEF HasMac, BlockedAt, Walked
  <2>3. pc' # "done"
    BY <1>9, <2>1 DEF FirstAddress, NextAddress, Store, StoreNowhere, Scanning
  <2>4. ASSUME memory = "ample"
        PROVE  Holds(Interfaces(index - 1))'
    <3>1. PICK read \in {handles[index].mac, Garbage} :
             /\ stored' = Append(stored, read)
             /\ Len(stored) = 0 => read = handles[index].mac
      <4>1. /\ memory # "tight" /\ Len(stored) = sumSize
            /\ macData = "pool" => sumSize # 0
            /\ sumSize = 0 => sumSize < 1
        BY <2>4 DEF IInv, Sizes
      <4>2. \/ Store(1)
            \/ sumSize # 0 /\ Store(sumSize)
        BY <1>9, <4>1, Zenon
           DEF FirstAddress, NextAddress, StoreNowhere
      <4>3. ASSUME NEW cap, Store(cap), sumSize = 0 => sumSize < cap
            PROVE  \E read \in {handles[index].mac, Garbage} :
                      /\ stored' = Append(stored, read)
                      /\ sumSize = 0 => read = handles[index].mac
        BY <4>3, Zenon DEF Store
      <4> QED
        BY <4>1, <4>2, <4>3
    <3>2. f[index] = Append(f[index - 1], handles[index])
      BY <1>1, <1>5, <2>1 DEF Count, HasMac, Sees
    <3>3. f[index - 1] \in Seq(Handle) /\ handles[index] \in Handle
      BY <1>1, <1>5, <2>1 DEF Sees, IInv, TypeOK
    <3>4. Interfaces(index - 1)' = f[index]
      BY <1>3, <1>5, <2>1
    <3>5. /\ Len(stored) = Len(f[index - 1])
          /\ \A k \in 1..Len(stored) : stored[k] \in {f[index - 1][k].mac, Garbage}
          /\ Len(stored) > 0 => stored[1] = f[index - 1][1].mac
      BY <1>3, <2>4 DEF Walked, Holds
    <3>6. stored \in Seq(Address \cup {Garbage}) /\ memory' = memory
      BY <1>2 DEF IInv, TypeOK
    <3>7. /\ Len(stored') = Len(f[index])
          /\ \A k \in 1..Len(stored') :
               stored'[k] \in {f[index][k].mac, Garbage}
          /\ Len(stored') > 0 => stored'[1] = f[index][1].mac
      BY <3>1, <3>2, <3>3, <3>5, <3>6, AppendHolds
    <3> QED
      BY <3>4, <3>7 DEF Holds
  <2> QED
    BY <1>2, <2>2, <2>3, <2>4 DEF Walked
<1>10. CASE ReadUnlocated
  BY <1>10 DEF ReadUnlocated, environment, Walked, Holds, BlockedAt,
     Interfaces, Blocked
<1>11. CASE UNCHANGED vars
  BY <1>11 DEF vars, Walked, Holds, BlockedAt, Interfaces, Blocked
<1> QED
  BY <1>6, <1>7, <1>8, <1>9, <1>10, <1>11 DEF Next, Terminated

\* What a board with any number of handles is given: NULL when a path has no MAC
\* node or nothing is an IPv4 interface, and else an entry for each interface in
\* handle order, where only entries behind the first may be lost.
THEOREM ResultIsInterfaces == Spec => []MacResult
<1>1. ASSUME IInv, Walked, pc = "done", memory = "ample"
      PROVE  LET expected == Interfaces(Len(handles)) IN
             /\ macData = "null" <=> (Blocked \/ expected = << >>)
             /\ macData = "pool" =>
                  /\ size = Len(expected)
                  /\ Len(stored) = size
                  /\ stored[1] = expected[1].mac
                  /\ \A k \in 1..size : stored[k] \in {expected[k].mac, Garbage}
  <2>1. CASE Blocked /\ macData = "null"
    BY <2>1
  <2>2. CASE index = Len(handles) + 1 /\ (macData = "null" => sumSize = 0)
    <3>1. Len(handles) \in Nat /\ index - 1 = Len(handles)
      BY <1>1, <2>2 DEF IInv, TypeOK
    <3>2. ~Blocked
      BY <1>1, <3>1 DEF Walked, BlockedAt, Blocked, IInv, TypeOK
    <3>3. Holds(Interfaces(Len(handles)))
      BY <1>1, <3>1 DEF Walked
    <3>4. Interfaces(Len(handles)) \in Seq(Handle)
      <4>1. PICK f : Sees(f) /\ \A n : Interfaces(n) = f[n]
        BY <1>1, InterfacesSeen, Zenon DEF IInv, TypeOK
      <4> QED
        BY <3>1, <4>1 DEF Sees
    <3> QED
      BY <1>1, <2>2, <3>2, <3>3, <3>4, SMT DEF Holds, IInv, Sizes, TypeOK
  <2> QED
    BY <1>1, <2>1, <2>2 DEF Walked
<1>2. IInv /\ Walked => MacResult
  BY <1>1, Zenon DEF MacResult
<1>3. Spec => [](IInv /\ Walked)
  BY InitIInv, NextIInv, InitWalked, NextWalked, PTL DEF Spec
<1> QED
  BY <1>2, <1>3, PTL
=============================================================================

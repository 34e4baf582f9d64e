------------------------------ MODULE MCSystem ------------------------------
(***************************************************************************)
(* An instance of System for TLC.  Type 1 is the system information, 4 the *)
(* processor, 17 the memory device.                                        *)
(***************************************************************************)
EXTENDS System, Functions

S(type, id, clock) ==
    [type |-> type, id |-> id, clock |-> clock, bytes |-> 4, overlong |-> FALSE]

\* A board, the same with other clocks, with another system part, and these
\* two systems without a memory device.
A == <<S(1, 1, 0), S(4, 3, 7), S(17, 5, 7)>>
AClocks == <<S(1, 1, 0), S(4, 3, 8), S(17, 5, 8)>>
B == <<S(1, 2, 0), S(4, 3, 7), S(17, 5, 7)>>
ANoMemory == <<S(1, 1, 0), S(4, 3, 7)>>
BNoMemory == <<S(1, 2, 0), S(4, 3, 7)>>

Macs(numbers) == [k \in DOMAIN numbers |-> [mac |-> numbers[k]]]
M(structures, numbers) == [table |-> structures, interfaces |-> Macs(numbers)]

\* One interface; none; two, of which the second differs.
MCMachines ==
    {M(A, <<1>>), M(AClocks, <<1>>), M(B, << >>),
     M(ANoMemory, <<1, 2>>), M(BNoMemory, <<1, 3>>), M(BNoMemory, << >>)}

\* What lies behind the buffer of the first address may be the other's second.
MCGarbage == Range(Macs(<<3>>))

MCDefaultList == <<1, 17>>
MCLists == {<<1>>}

\* SHA-256: one value for each of the data, zero bytes inside and at the end
\* included, that stay apart when zero bytes become 1.
MCSha(data) ==
    LET Holds(id) == \E k \in DOMAIN data : data[k] \in [id : {id}, clock : Nat, bytes : Nat]
        macs == {m \in 1..3 : [mac |-> m] \in Range(data)}
    IN  <<IF Holds(3) THEN 2 ELSE 3,
          IF Holds(0) THEN 0
          ELSE (IF Holds(5) THEN 4 ELSE 2) + (IF Holds(1) THEN 1 ELSE 0),
          CASE macs = {} -> 0 [] macs = {1} -> 2 [] 2 \in macs -> 3 [] OTHER -> 4>>

MCBoards == {<<a, b, c>> : a \in 2..3, b \in 0..5, c \in 0..5}

\* A blob that RSA would reject and that does not fit into base64[].
MCStrays == {[size |-> 3, message |-> Undecodable]}

\* What is mapped at address 0: a zero behind one byte.
MCJunk == {<<5>>}

MCKeys == MCStrays \cup {[size |-> 2, message |-> Sealed(d)] : d \in AllData}
            \cup {[size |-> 2, message |-> m] : m \in MCJunk}

MCNoFailures == {}
=============================================================================

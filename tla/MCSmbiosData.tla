---------------------------- MODULE MCSmbiosData ----------------------------
(***************************************************************************)
(* Instances of SmbiosData for TLC.  Type 4 is the processor, type 17 the  *)
(* memory device, type 1 has no clocks.                                    *)
(***************************************************************************)
EXTENDS SmbiosData

S(type, id, bytes, overlong) ==
    [type |-> type, id |-> id, clock |-> 7, bytes |-> bytes,
     overlong |-> overlong]

\* Structures that are long enough, too short for their clocks, or overlong.
MCStructures ==
    {S(1, 1, 2, FALSE), S(1, 2, 3, TRUE), S(4, 3, 4, FALSE), S(4, 4, 2, FALSE),
     S(17, 5, 4, FALSE), S(17, 6, 4, TRUE)}

\* All tables of up to three of these structures.
MCTables == UNION {[1..n -> MCStructures] : n \in 0..3}

MCTypeLists == {<< >>, <<1>>, <<17, 1>>, <<4, 1, 4>>}
=============================================================================

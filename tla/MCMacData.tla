----------------------------- MODULE MCMacData ------------------------------
(***************************************************************************)
(* Instances of MacData for TLC: up to three handles over two addresses.   *)
(***************************************************************************)
EXTENDS MacData
CONSTANTS a1, a2
MCAddress == {a1, a2}
=============================================================================

------------------------------ MODULE MCLoader ------------------------------
(***************************************************************************)
(* Instances of Loader for TLC.  Digests have two bytes of three values.   *)
(***************************************************************************)
EXTENDS Loader

\* A board with no zero byte in its SHA-256 value, one with a zero byte in
\* front and one with it at the end.
MCBoards == {<<1, 2>>, <<0, 2>>, <<2, 0>>}

MCBufLen == 2

\* Blobs sealed for two of the boards (one of them with a longer message),
\* one that RSA rejects, and one that does not fit into base64[].
MCKeys ==
    {[size |-> 2, message |-> MessageOf(Digest(<<0, 2>>))],
     [size |-> 1, message |-> MessageOf(Digest(<<2, 0>>)) \o <<2>>],
     [size |-> 2, message |-> Undecodable],
     [size |-> 3, message |-> MessageOf(Digest(<<0, 2>>))]}

\* Every call may fail.
MCAllFailures == FailureKinds

\* Every call succeeds.
MCNoFailures == {}
=============================================================================

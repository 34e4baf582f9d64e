------------------------------- MODULE MCTool -------------------------------
(***************************************************************************)
(* Instances of Tool for TLC.  Argc and ArgIndex count modulo 5, so that   *)
(* the command lines reach and pass the limit.                             *)
(***************************************************************************)
EXTENDS Tool

MCWords == {"a", Series}

\* Every command line of up to three arguments behind the name, the two-option
\* ones with distinct and with equal names, and one longer than the counter.
MCArgvs ==
    {<<"a">> \o rest :
        rest \in UNION {[1..n -> Options \cup MCWords] : n \in 0..3}}
    \cup {<<"a", "-f", f, "-o", o>> : f \in MCWords, o \in MCWords}
    \cup {<<"a", "-o", "a", "a", "-f">>, <<"a", "a", "a", "a", "a", "-f">>}

MCAllFailures == FailureKinds
=============================================================================

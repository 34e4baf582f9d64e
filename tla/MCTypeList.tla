----------------------------- MODULE MCTypeList -----------------------------
(***************************************************************************)
(* Instances of TypeList for TLC: command lines of up to five arguments    *)
(* over the options, a type, the terminator's value, a value above 0x7F    *)
(* and one that does not fit into a byte.                                  *)
(***************************************************************************)
EXTENDS TypeList, TLC

MCDecimal ==
    ("-t" :> 0) @@ ("-s" :> 0) @@ ("-e" :> 0) @@ ("17" :> 17)
    @@ ("127" :> 127) @@ ("200" :> 200) @@ ("260" :> 260)

MCTokens == DOMAIN MCDecimal
=============================================================================

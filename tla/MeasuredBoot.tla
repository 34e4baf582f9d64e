---------------------------- MODULE MeasuredBoot ----------------------------
(***************************************************************************)
(* What the loader promises, without saying how: the embedded volume is    *)
(* launched only after the message the board's key seals was found equal   *)
(* to the digest of the board, and a refusal is final until the board is   *)
(* started again, when nothing is left of the earlier verdict.             *)
(***************************************************************************)
EXTENDS Digest

VARIABLES digest,   \* the digest of the board
          offered,  \* the message the board's key decrypts to
          state     \* the verdict and what came of it

Init ==
    /\ digest \in Digests
    /\ offered \in Digests
    /\ state = "waiting"

Approve ==
    /\ state = "waiting"
    /\ offered = digest
    /\ state' = "approved"

\* No key, no memory, or a key for another board.
Refuse ==
    /\ state = "waiting"
    /\ state' = "refused"

Launch ==
    /\ state = "approved"
    /\ state' = "launched"

\* The dispatcher does not accept the volume.
Abandon ==
    /\ state = "approved"
    /\ state' = "refused"

Next ==
    /\ Approve \/ Refuse \/ Launch \/ Abandon
    /\ UNCHANGED <<digest, offered>>

\* The board is started, perhaps with other parts and another key.
Restart ==
    /\ digest' \in Digests
    /\ offered' \in Digests
    /\ state' = "waiting"

\* One boot.
Spec == Init /\ [][Next]_<<digest, offered, state>>

\* One boot after the other.
RestartingSpec == Init /\ [][Next \/ Restart]_<<digest, offered, state>>
=============================================================================

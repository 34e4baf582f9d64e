------------------------------- MODULE Digest -------------------------------
(***************************************************************************)
(* The bytes on which the signing tool and the loader have to agree.       *)
(*                                                                         *)
(* InfoHashInfoData turns a SHA-256 value into the board's digest by       *)
(* replacing its zero bytes; public_encrypt takes that digest as a C       *)
(* string; the signer (not in this repository) signs the string; the       *)
(* loader lets public_decrypt write the signed message into a zeroed       *)
(* buffer and compares as many bytes as a digest has.                      *)
(* RSA itself is abstracted: what is decrypted is what was signed, or      *)
(* nothing at all.                                                         *)
(***************************************************************************)
EXTENDS Naturals, Sequences

CONSTANTS DigestLen,   \* SHA256_DIGEST_SIZE (32 in the code)
          MaxByte      \* the largest byte (255 in the code)

ASSUME DigestAssumption ==
    /\ DigestLen \in Nat \ {0}
    /\ MaxByte \in Nat \ {0}

Byte == 0..MaxByte

\* The values Sha256Final can leave in Digest.
RawDigests == [1..DigestLen -> Byte]

\* Mutant: the zero bytes of the hash stay.
DigestWithZeros(raw) == raw

\* The loop of InfoHashInfoData that leaves no zero byte in the digest.
Digest(raw) == [i \in 1..DigestLen |-> IF raw[i] = 0 THEN 1 ELSE raw[i]]

Digests == [1..DigestLen -> Byte]

\* strlen of a digest copied into the zeroed 501 byte input of public_encrypt.
CStrLen(digest) ==
    CHOOSE n \in 0..DigestLen :
        /\ \A i \in 1..n : digest[i] # 0
        /\ n = DigestLen \/ digest[n + 1] = 0

\* The message public_encrypt seals: the digest up to its first zero byte.
MessageOf(digest) == [i \in 1..CStrLen(digest) |-> digest[i]]

\* Mutant: msg is not zeroed before public_decrypt writes into it.
MsgBufferNotZeroed(message) == message

\* What public_decrypt leaves in the first DigestLen bytes of msg, which the
\* loader has zeroed: a message longer than that is cut by the comparison.
MsgBuffer(message) ==
    [i \in 1..DigestLen |-> IF i \in DOMAIN message THEN message[i] ELSE 0]

\* A key file that public_decrypt rejects writes nothing at all.
Undecodable == << >>
=============================================================================

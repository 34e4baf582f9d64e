-------------------------------- MODULE Seal --------------------------------
(***************************************************************************)
(* The way of one digest from the tool to the loader, byte for byte: the   *)
(* tool prints the measured data, pads and encrypts the digest and writes  *)
(* it as text; the signer reads that text and writes a signed text of its  *)
(* own; the loader reads this one and decrypts it.                         *)
(*                                                                         *)
(* The RSA operation on a block is given as a pair of inverse functions    *)
(* (RsaBlock has it in full); everything around it is the code's.  The     *)
(* signer is not in this repository, but the functions it needs are.       *)
(***************************************************************************)
EXTENDS Digest, Clock, Codec

CONSTANTS
    ModulusLen,     \* modulus_len, in bytes (512 in the code)
    Overhead,       \* the bytes of a block that no message may use (11)
    Modulus,        \* pk->modulus
    PublicBlock(_), PrivateBlock(_),    \* on blocks below the modulus
    LineWidth,      \* the bytes on a line of HexToString (16)
    Sizes,          \* the sizes of measured data
    Hashes,         \* the SHA-256 values under study
    StartTimes,     \* when the tool gets to the padding
    MaxTicks,       \* bound on the seconds that pass there, as LastYear is
    OtherMessages,  \* what else the signer's key may have signed
    Endings         \* what an editor may leave at the end of key.txt

ASSUME SizesAssumption ==
    /\ LineWidth \in Nat \ {0}
    /\ Sizes \subseteq Nat \ {0}

ASSUME SealAssumption ==
    /\ MaxByte = 255
    /\ ModulusLen \in Nat /\ Overhead \in Nat /\ Overhead >= 4
    /\ DigestLen + Overhead <= ModulusLen
    /\ Modulus \in [1..ModulusLen -> Byte] /\ Modulus[1] # 0
    /\ Hashes \subseteq RawDigests
    /\ OtherMessages \subseteq Seq(Byte)
    /\ \A m \in OtherMessages : Len(m) + 3 <= ModulusLen
    /\ Endings \subseteq {<< >>, <<10>>, <<13>>, <<13, 10>>}
    /\ MaxTicks \in Nat
    /\ \A t \in StartTimes : Valid(t) /\ timeX(t) >= 0

VARIABLES
    pc,
    inSize, hexIndex, index,    \* InSize, HexIndex and Index of HexToString
    time, ticks,                \* the clock, and how far it has moved
    digest,
    block,      \* pkcs_block of the tool as far as it is filled
    text,       \* series.txt, then key.txt
    ending,     \* the end of key.txt that is not the signer's
    signed,     \* the message the signer signed
    bytes,      \* what str_hex stores into str1 and behind it
    message     \* the set of the message public_decrypt yields, if any

dump == <<inSize, hexIndex, index>>
clock == <<time, ticks>>
vars == <<pc, inSize, hexIndex, index, time, ticks, digest, block, text, ending,
          signed, bytes, message>>

Init ==
    /\ pc = "dump"
    /\ inSize \in Sizes /\ hexIndex = 0 /\ index = 0
    /\ time \in StartTimes /\ ticks = 0
    /\ digest = << >> /\ block = << >> /\ text = << >> /\ ending = << >>
    /\ signed = << >> /\ bytes = << >> /\ message = {}

-----------------------------------------------------------------------------
(* HexToString *)

\* Mutant: the line breaks are forgotten.
StringSizeOneLine == inSize * 3 + 1

StringSize == inSize * 3 + inSize \div LineWidth + 1

\* One pass of the do loop: a line break where a line is full, two digits and
\* a blank.
DumpByte ==
    /\ pc = "dump"
    /\ index' = index + (IF hexIndex % LineWidth = 0 /\ hexIndex # 0 THEN 4 ELSE 3)
    /\ hexIndex' = hexIndex + 1
    /\ pc' = IF hexIndex + 1 < inSize THEN "dump" ELSE "dumped"
    /\ UNCHANGED inSize
    /\ UNCHANGED clock
    /\ UNCHANGED <<digest, block, text, ending, signed, bytes, message>>

\* The text is written to the file, the data are hashed.
HashData ==
    /\ pc = "dumped"
    /\ inSize' = 0 /\ hexIndex' = 0 /\ index' = 0
    /\ \E raw \in Hashes : digest' = Digest(raw)
    /\ block' = <<0, 2>>
    /\ pc' = "pad"
    /\ UNCHANGED clock
    /\ UNCHANGED <<text, ending, signed, bytes, message>>

-----------------------------------------------------------------------------
(* public_encrypt *)

\* The clock goes on; only the padding loop looks at it.
Tick ==
    /\ pc = "pad"
    /\ ticks < MaxTicks
    /\ NextSecond(time).year <= LastYear
    /\ time' = NextSecond(time)
    /\ ticks' = ticks + 1
    /\ UNCHANGED dump
    /\ UNCHANGED <<pc, digest, block, text, ending, signed, bytes, message>>

\* How much of the block is in front of the separating zero.
PaddedLen == ModulusLen - CStrLen(digest) - 1

\* Mutant: a zero byte is not drawn again.
DrawAnyByte ==
    /\ pc = "pad"
    /\ block' = Append(block, generate_rand(time))
    /\ pc' = IF Len(block') = PaddedLen THEN "encrypt" ELSE "pad"
    /\ UNCHANGED dump
    /\ UNCHANGED clock
    /\ UNCHANGED <<digest, text, ending, signed, bytes, message>>

\* A byte from the clock's second, when it is not zero.
DrawByte ==
    /\ pc = "pad"
    /\ generate_rand(time) # 0
    /\ block' = Append(block, generate_rand(time))
    /\ pc' = IF Len(block') = PaddedLen THEN "encrypt" ELSE "pad"
    /\ UNCHANGED dump
    /\ UNCHANGED clock
    /\ UNCHANGED <<digest, text, ending, signed, bytes, message>>

\* The byte is zero: the loop goes round.
DrawAgain ==
    /\ pc = "pad"
    /\ generate_rand(time) = 0
    /\ UNCHANGED vars

\* bn_cmp (m, n, ndigits) < 0
BelowModulus(b) ==
    \E k \in 1..ModulusLen :
        b[k] < Modulus[k] /\ \A j \in 1..(k - 1) : b[j] = Modulus[j]

\* public_block_operation; the text of the result, two digits a byte, in base64.
Encrypt ==
    /\ pc = "encrypt"
    /\ LET pkcs_block == block \o <<0>> \o MessageOf(digest) IN
         /\ BelowModulus(pkcs_block)
         /\ text' = base64_encode(HexText(PublicBlock(pkcs_block), UpperA))
    /\ block' = << >>
    /\ pc' = "sign"
    /\ UNCHANGED dump
    /\ UNCHANGED clock
    /\ UNCHANGED <<digest, ending, signed, bytes, message>>

-----------------------------------------------------------------------------
(* The signer *)

\* The message in a block of the given type whose padding ends at the byte
\* with index i, counted from 0 as in rsa.c.
MessageBehind(b, type, i) ==
    IF b[1] = 0 /\ b[2] = type /\ ModulusLen - i - 1 + Overhead <= ModulusLen
    THEN {SubSeq(b, i + 2, ModulusLen)} ELSE {}

\* bn_decode fills up a short input with zeros in front.
bn_decode(in) ==
    LET missing == ModulusLen - Len(in) IN
    [k \in 1..ModulusLen |-> IF k <= missing THEN 0 ELSE in[k - missing]]

\* rsa_private_decrypt: the set of the message it yields, if any.
private_decrypt(in) ==
    IF Len(in) > ModulusLen \/ ~BelowModulus(bn_decode(in)) THEN {}
    ELSE LET b == PrivateBlock(bn_decode(in))
             i == CHOOSE i \in 2..(ModulusLen - 1) :
                      /\ i = ModulusLen - 1 \/ b[i + 1] = 0
                      /\ \A j \in 2..(i - 1) : b[j + 1] # 0
         IN  IF i + 1 >= ModulusLen THEN {} ELSE MessageBehind(b, 2, i)

SignatureBlock(m) ==
    <<0, 1>> \o [k \in 1..(ModulusLen - Len(m) - 3) |-> 255] \o <<0>> \o m

\* The digits of a signed block, in lower case, or with a blank between bytes.
Spaced(bytes_) ==
    [k \in 1..(3 * Len(bytes_) - 1) |->
        IF k % 3 = 0 THEN 32
        ELSE HexText(<<bytes_[(k + 2) \div 3]>>, UpperA)[k % 3]]

TextsOf(b) == {HexText(b, UpperA), HexText(b, LowerA), Spaced(b)}

\* rsa_private_encrypt of what was read, or of something else; key.txt.
Sign ==
    /\ pc = "sign"
    /\ \E m \in private_decrypt(str_hex(base64_decode(text))) \cup OtherMessages :
         /\ signed' = m
         /\ \E hex \in TextsOf(PrivateBlock(SignatureBlock(m))), end \in Endings :
              /\ text' = base64_encode(hex) \o end
              /\ ending' = end
    /\ pc' = "read"
    /\ UNCHANGED dump
    /\ UNCHANGED clock
    /\ UNCHANGED <<digest, block, bytes, message>>

-----------------------------------------------------------------------------
(* public_decrypt *)

\* base64_decode and str_hex.  Bytes behind str1 overwrite something else.
ReadKey ==
    /\ pc = "read"
    /\ bytes' = str_hex(base64_decode(text))
    /\ \/ pc' = "decrypt"
       \/ Len(bytes') > ModulusLen /\ pc' = "fault"
    /\ UNCHANGED dump
    /\ UNCHANGED clock
    /\ UNCHANGED <<digest, block, text, ending, signed, message>>

\* Mutant: the message has to have a byte.
public_decryptNonempty(in) ==
    IF ~BelowModulus(in) THEN {}
    ELSE LET b == PublicBlock(in)
             i == CHOOSE i \in 2..(ModulusLen - 1) :
                      /\ i = ModulusLen - 1 \/ b[i + 1] # 255
                      /\ \A j \in 2..(i - 1) : b[j + 1] = 255
         IN  IF b[i + 1] # 0 \/ i = ModulusLen - 1 THEN {}
             ELSE MessageBehind(b, 1, i)

\* rsa_public_decrypt: the set of the message it yields, if any.
public_decrypt(in) ==
    IF ~BelowModulus(in) THEN {}
    ELSE LET b == PublicBlock(in)
             i == CHOOSE i \in 2..(ModulusLen - 1) :
                      /\ i = ModulusLen - 1 \/ b[i + 1] # 255
                      /\ \A j \in 2..(i - 1) : b[j + 1] = 255
         IN  IF b[i + 1] # 0 THEN {} ELSE MessageBehind(b, 1, i)

\* Of str1, ModulusLen bytes are taken, written or not.
DecryptKey ==
    /\ pc = "decrypt"
    /\ message' = public_decrypt(SubSeq(bytes, 1, ModulusLen))
    /\ pc' = "done"
    /\ UNCHANGED dump
    /\ UNCHANGED clock
    /\ UNCHANGED <<digest, block, text, ending, signed, bytes>>

Terminated == pc \in {"done", "fault"} /\ UNCHANGED vars

Next ==
    \/ DumpByte \/ HashData \/ Tick \/ DrawByte \/ DrawAgain
    \/ Encrypt \/ Sign \/ ReadKey \/ DecryptKey \/ Terminated

\* The tool is not preempted, and a clock that runs keeps running.
Spec == Init /\ [][Next]_vars /\ WF_vars(DrawByte) /\ WF_vars(Tick)
-----------------------------------------------------------------------------
(* Properties *)

\* The type of every variable; every byte is one.
TypeOK ==
    /\ pc \in {"dump", "dumped", "pad", "encrypt", "sign", "read", "decrypt",
              "fault", "done"}
    /\ inSize \in Nat /\ hexIndex \in Nat /\ index \in Nat
    /\ time \in Times /\ ticks \in 0..MaxTicks
    /\ digest \in {<< >>} \cup Digests
    /\ {block, text, ending, signed, bytes} \cup message \subseteq Seq(Byte)

\* HexToString never writes behind the string it allocated by a formula, and
\* leaves the NUL that "safety add 1" is for.
DumpInBounds == pc \in {"dump", "dumped"} => index < StringSize

\* In a tool that waits for a nonzero byte the wait ends, whatever second it
\* began in, and also when the clock cannot be read at all.
PaddingEnds == (pc = "pad") ~> (pc = "encrypt")

\* timeX advances by one with every second of the clock: over the ends of
\* months and years and leap days, no second is seeded twice or skipped.
SecondsAdvance ==
    [][time.year >= 1970 /\ time' # time => timeX(time') = timeX(time) + 1]_time

\* The signer reads from series.txt exactly the digest, whatever bytes it has and
\* whatever bytes the padding drew (rsa_public_encrypt, rsa_private_decrypt).
SealReadable ==
    pc = "sign" =>
        private_decrypt(str_hex(base64_decode(text))) = {MessageOf(digest)}

\* key.txt fills str1 in any of its forms; an end of line behind it is decoded
\* too and makes str_hex store one byte more than str1 has, and no more.
TextFillsBlock ==
    pc \in {"decrypt", "done", "fault"} =>
        Len(bytes) = ModulusLen + (IF ending = << >> THEN 0 ELSE 1)

\* The loader gets back what was signed, unless the message leaves too few bytes
\* for the padding: the empty message too, which the signer's side rejects.
SignedIsAccepted ==
    pc = "done" =>
        message = IF Len(signed) + Overhead <= ModulusLen THEN {signed} ELSE {}
=============================================================================

-------------------------------- MODULE Codec --------------------------------
(***************************************************************************)
(* The text encodings of a block: hexadecimal digits as public_encrypt     *)
(* prints and str_hex reads them, and base64 on top.  Characters are their *)
(* ASCII codes; a string is the sequence before its NUL, and what follows  *)
(* it reads as 0, as in the zeroed buffers of both programs.               *)
(***************************************************************************)
EXTENDS Loops

Char(s, k) == IF k \in DOMAIN s THEN s[k] ELSE 0

\* The part before the first NUL.
CString(s) ==
    LET n == CHOOSE n \in 0..Len(s) :
                 Char(s, n + 1) = 0 /\ \A k \in 1..n : s[k] # 0
    IN  SubSeq(s, 1, n)

-----------------------------------------------------------------------------
(* Hexadecimal *)

UpperA == 65
LowerA == 97

\* A nibble, with letters from the given one on.
HexDigit(n, letter) == IF n < 10 THEN 48 + n ELSE letter + n - 10

\* "%02X" of every byte.
HexText(bytes, letter) ==
    [k \in 1..(2 * Len(bytes)) |->
        LET byte == bytes[(k + 1) \div 2]
        IN  HexDigit(IF k % 2 = 1 THEN byte \div 16 ELSE byte % 16, letter)]

IsGap(c) == c \in {32, 44, 9}

\* Any other character counts too, modulo a byte.
DigitValue(c) ==
    (IF c >= LowerA THEN c - LowerA + 10
     ELSE IF c >= UpperA THEN c - UpperA + 10 ELSE c - 48) % 256

\* Mutant: a last digit without a second one is dropped.
str_hexEven(str) ==
    LET s == CString(str)
        from[k \in 1..(Len(s) + 1)] ==
            IF k >= Len(s) THEN << >>
            ELSE IF IsGap(s[k]) THEN from[k + 1]
            ELSE IF IsGap(s[k + 1]) THEN <<DigitValue(s[k]) % 16>> \o from[k + 2]
            ELSE <<(DigitValue(s[k]) * 16 + DigitValue(s[k + 1])) % 256>>
                   \o from[k + 2]
    IN  from[1]

\* The bytes str_hex stores: gaps before a byte are skipped, a gap or the end
\* behind its first digit makes it a byte of one digit.
str_hex(str) ==
    LET s == CString(str)
        from[k \in 1..(Len(s) + 1)] ==
            IF k > Len(s) THEN << >>
            ELSE IF IsGap(s[k]) THEN from[k + 1]
            ELSE IF k = Len(s) THEN <<DigitValue(s[k]) % 16>>
            ELSE IF IsGap(s[k + 1]) THEN <<DigitValue(s[k]) % 16>> \o from[k + 2]
            ELSE <<(DigitValue(s[k]) * 16 + DigitValue(s[k + 1])) % 256>>
                   \o from[k + 2]
    IN  from[1]

-----------------------------------------------------------------------------
(* Base64 *)

base64char ==
    [k \in 0..63 |-> IF k < 26 THEN UpperA + k
                     ELSE IF k < 52 THEN LowerA + k - 26
                     ELSE IF k < 62 THEN 48 + k - 52
                     ELSE IF k = 62 THEN 43 ELSE 47]

padding_char == 61

\* The index of a character: the NUL of the table is found behind the last
\* one, and a character that is not there gives -1.
num_strchr(c) ==
    IF c = 0 THEN 64
    ELSE IF \E k \in 0..63 : base64char[k] = c
    THEN CHOOSE k \in 0..63 : base64char[k] = c
    ELSE -1

\* The four indices of three bytes.
Sextets(x, y, z) ==
    <<x \div 4, (x % 4) * 16 + y \div 16, (y % 16) * 4 + z \div 64, z % 64>>

\* The three bytes of four indices: only the low six bits of each count.
Octets(t0, t1, t2, t3) ==
    <<(t0 % 64) * 4 + (t1 % 64) \div 16,
      (t1 % 16) * 16 + (t2 % 64) \div 4,
      (t2 % 4) * 64 + (t3 % 64)>>

base64_encode(source) ==
    LET s == CString(source)
    IN  [k \in 1..(4 * ((Len(s) + 2) \div 3)) |->
            LET i == 3 * ((k - 1) \div 4)
                r == (k - 1) % 4
            IN  IF r > Len(s) - i THEN padding_char
                ELSE base64char[Sextets(s[i + 1], Char(s, i + 2),
                                        Char(s, i + 3))[r + 1]]]

\* The bytes of the group of four behind index i, one or two when padded.
Group(base64, i) ==
    LET T(k) == num_strchr(Char(base64, i + k))
        octets == Octets(T(1), T(2), T(3), T(4))
    IN  IF Char(base64, i + 3) = padding_char THEN SubSeq(octets, 1, 1)
        ELSE IF Char(base64, i + 4) = padding_char THEN SubSeq(octets, 1, 2)
        ELSE octets

\* Groups up to the one that begins with the NUL; a NUL inside a group is
\* decoded with it.
base64_decode(base64) ==
    LET groups == CHOOSE g \in 0..(Len(base64) \div 4 + 1) :
                      /\ Char(base64, 4 * g + 1) = 0
                      /\ \A h \in 0..(g - 1) : Char(base64, 4 * h + 1) # 0
    IN  Join([g \in 1..groups |-> Group(base64, 4 * (g - 1))])
=============================================================================

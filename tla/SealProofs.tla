----------------------------- MODULE SealProofs -----------------------------
(***************************************************************************)
(* Proofs about the way of a digest, for blocks of any size: the text      *)
(* encodings lose nothing, whatever the bytes; timeX counts the seconds of *)
(* the calendar, and two seconds in a row never both fail to give a        *)
(* padding byte; HexToString stays in its string; and with block           *)
(* operations that are inverse to each other the signer reads the digest   *)
(* of the tool and the loader the message of the signer.                   *)
(*                                                                         *)
(* The last part follows the digest with an inductive invariant, SealInv,  *)
(* that says for every stage where the text comes from: from a block of    *)
(* the tool, then from a block of the signer, which is then in str1.       *)
(***************************************************************************)
EXTENDS Seal, Induction


-----------------------------------------------------------------------------
(* Constants *)

\* A byte is a number up to 255.
LEMMA Bytes == MaxByte = 255 /\ \A k \in 0..255 : k \in Byte
BY SealAssumption DEF Byte

\* A digest leaves room for a padding.
LEMMA Lengths ==
    /\ ModulusLen \in Nat /\ Overhead \in Nat /\ DigestLen \in Nat
    /\ DigestLen > 0 /\ Overhead >= 4 /\ DigestLen + Overhead <= ModulusLen
BY SealAssumption, DigestAssumption, SMT

-----------------------------------------------------------------------------
(* Sequences *)

\* A function on 1..n is a sequence of n elements.
LEMMA FunctionIsSeq ==
    ASSUME NEW T, NEW n \in Nat, NEW f \in [1..n -> T]
    PROVE  f \in Seq(T) /\ Len(f) = n
<1>1. f \in Seq(T)
  BY SeqDef, Zenon
<1>2. 1..n = 1..Len(f) /\ Len(f) \in Nat
  BY <1>1, LenProperties, Zenon
<1> QED
  BY <1>1, <1>2, SMT

\* Pieces of one, two and three elements.
LEMMA ShortSubSeq ==
    ASSUME NEW s, NEW m \in Int
    PROVE  /\ SubSeq(s, m, m) = <<s[m]>>
           /\ SubSeq(s, m, m + 1) = <<s[m], s[m + 1]>>
           /\ SubSeq(s, m, m + 2) = <<s[m], s[m + 1], s[m + 2]>>
<1> DEFINE S == {s[m], s[m + 1], s[m + 2]}
<1>1. /\ \A i \in m..m : i = m
      /\ \A i \in m..(m + 1) : i = m \/ i = m + 1
      /\ \A i \in m..(m + 2) : i = m \/ i = m + 1 \/ i = m + 2
      /\ m + 1 \in Int /\ m + 2 \in Int
      /\ m - m + 1 = 1 /\ (m + 1) - m + 1 = 2 /\ (m + 2) - m + 1 = 3
      /\ m + 1 - 1 = m /\ m + 2 - 1 = m + 1 /\ m + 3 - 1 = m + 2
      /\ m <= m /\ m <= m + 1 /\ m <= m + 2
  BY SMT
<1>2. /\ \A i \in m..m : s[i] \in S
      /\ \A i \in m..(m + 1) : s[i] \in S
      /\ \A i \in m..(m + 2) : s[i] \in S
  BY <1>1
<1>3. /\ s[m] \in S /\ s[m + 1] \in S /\ s[m + 2] \in S
  OBVIOUS
<1> HIDE DEF S
<1>4. 1 \in 1..1 /\ 1 \in 1..2 /\ 2 \in 1..2 /\ 1 \in 1..3 /\ 2 \in 1..3 /\ 3 \in 1..3
      /\ (\A i \in 1..1 : i = 1) /\ (\A i \in 1..2 : i = 1 \/ i = 2)
      /\ (\A i \in 1..3 : i = 1 \/ i = 2 \/ i = 3)
  BY SMT
<1>5. SubSeq(s, m, m) = <<s[m]>>
  <2> DEFINE p == SubSeq(s, m, m)
             q == <<s[m]>>
  <2>1. p \in Seq(S) /\ Len(p) = 1 /\ p[1] = s[m]
    BY <1>1, <1>2, <1>4, SubSeqProperties
  <2>2. q \in Seq(S) /\ Len(q) = 1 /\ q[1] = s[m]
    BY <1>3
  <2> HIDE DEF p, q
  <2> QED
    BY <2>1, <2>2, <1>4, SeqEqual DEF p, q
<1>6. SubSeq(s, m, m + 1) = <<s[m], s[m + 1]>>
  <2> DEFINE p == SubSeq(s, m, m + 1)
             q == <<s[m], s[m + 1]>>
  <2>1. p \in Seq(S) /\ Len(p) = 2 /\ p[1] = s[m] /\ p[2] = s[m + 1]
    BY <1>1, <1>2, <1>4, SubSeqProperties
  <2>2. q \in Seq(S) /\ Len(q) = 2 /\ q[1] = s[m] /\ q[2] = s[m + 1]
    BY <1>3
  <2> HIDE DEF p, q
  <2>3. \A i \in 1..2 : p[i] = q[i]
    BY <2>1, <2>2, <1>4
  <2> QED
    BY <2>1, <2>2, <2>3, SeqEqual DEF p, q
<1>7. SubSeq(s, m, m + 2) = <<s[m], s[m + 1], s[m + 2]>>
  <2> DEFINE p == SubSeq(s, m, m + 2)
             q == <<s[m], s[m + 1], s[m + 2]>>
  <2>1. /\ p \in Seq(S) /\ Len(p) = 3 /\ p[1] = s[m] /\ p[2] = s[m + 1]
        /\ p[3] = s[m + 2]
    BY <1>1, <1>2, <1>4, SubSeqProperties
  <2>2. /\ q \in Seq(S) /\ Len(q) = 3 /\ q[1] = s[m] /\ q[2] = s[m + 1]
        /\ q[3] = s[m + 2]
    BY <1>3
  <2> HIDE DEF p, q
  <2>3. \A i \in 1..3 : p[i] = q[i]
    BY <2>1, <2>2, <1>4
  <2> QED
    BY <2>1, <2>2, <2>3, SeqEqual DEF p, q
<1> QED
  BY <1>5, <1>6, <1>7

\* Two sequences of known lengths, one behind the other.
LEMMA ConcatIs ==
    ASSUME NEW T, NEW s \in Seq(T), NEW t \in Seq(T), NEW m, NEW n,
           Len(s) = m, Len(t) = n
    PROVE  /\ s \o t \in Seq(T) /\ Len(s \o t) = m + n
           /\ \A i \in 1..(m + n) : (s \o t)[i] = IF i <= m THEN s[i] ELSE t[i - m]
<1>1. /\ s \o t \in Seq(T) /\ Len(s \o t) = Len(s) + Len(t)
      /\ \A i \in 1..(Len(s) + Len(t)) :
           (s \o t)[i] = IF i <= Len(s) THEN s[i] ELSE t[i - Len(s)]
  BY ConcatProperties, Zenon
<1> QED
  BY <1>1, Zenon

\* Three elements in two pieces.
LEMMA ThreeInAll ==
    ASSUME NEW x, NEW y, NEW w
    PROVE  <<x>> \o <<y, w>> = <<x, y, w>> /\ <<x, y>> \o <<w>> = <<x, y, w>>
<1> DEFINE T == {x, y, w}
<1>1. /\ <<x>> \in Seq(T) /\ <<y, w>> \in Seq(T) /\ <<x, y>> \in Seq(T)
      /\ <<w>> \in Seq(T) /\ <<x, y, w>> \in Seq(T)
  OBVIOUS
<1>2. /\ Len(<<x>>) = 1 /\ Len(<<y, w>>) = 2 /\ Len(<<x, y>>) = 2
      /\ Len(<<w>>) = 1 /\ Len(<<x, y, w>>) = 3
  OBVIOUS
<1>3. /\ \A i \in 1..3 : i = 1 \/ i = 2 \/ i = 3
      /\ 1 \in 1..3 /\ 2 \in 1..3 /\ 3 \in 1..3 /\ 1 + 2 = 3 /\ 2 + 1 = 3
      /\ 1 <= 1 /\ ~(2 <= 1) /\ ~(3 <= 1) /\ 1 <= 2 /\ 2 <= 2 /\ ~(3 <= 2)
      /\ 2 - 1 = 1 /\ 3 - 1 = 2 /\ 3 - 2 = 1
  BY SMT
<1>4. <<x>> \o <<y, w>> = <<x, y, w>>
  <2> DEFINE a == <<x>>
             b == <<y, w>>
             c == <<x, y, w>>
  <2>1. a[1] = x /\ b[1] = y /\ b[2] = w /\ c[1] = x /\ c[2] = y /\ c[3] = w
    OBVIOUS
  <2>2. a \in Seq(T) /\ b \in Seq(T) /\ c \in Seq(T) /\ Len(a) = 1 /\ Len(b) = 2 /\ Len(c) = 3
    BY <1>1, <1>2
  <2> HIDE DEF a, b, c, T
  <2>3. /\ a \o b \in Seq(T) /\ Len(a \o b) = 3
        /\ \A i \in 1..3 : (a \o b)[i] = IF i <= 1 THEN a[i] ELSE b[i - 1]
    <3>1. /\ a \o b \in Seq(T) /\ Len(a \o b) = Len(a) + Len(b)
          /\ \A i \in 1..(Len(a) + Len(b)) :
               (a \o b)[i] = IF i <= Len(a) THEN a[i] ELSE b[i - Len(a)]
      BY <2>2, ConcatProperties
    <3> QED
      BY <1>3, <2>2, <3>1
  <2>4. \A i \in 1..3 : (a \o b)[i] = c[i]
    BY <1>3, <2>1, <2>3
  <2>5. a \o b = c
    BY <2>2, <2>3, <2>4, SeqEqual
  <2> QED
    BY <2>5 DEF a, b, c
<1>5. <<x, y>> \o <<w>> = <<x, y, w>>
  <2> DEFINE a == <<x, y>>
             b == <<w>>
             c == <<x, y, w>>
  <2>1. a[1] = x /\ a[2] = y /\ b[1] = w /\ c[1] = x /\ c[2] = y /\ c[3] = w
    OBVIOUS
  <2>2. a \in Seq(T) /\ b \in Seq(T) /\ c \in Seq(T) /\ Len(a) = 2 /\ Len(b) = 1 /\ Len(c) = 3
    BY <1>1, <1>2
  <2> HIDE DEF a, b, c, T
  <2>3. /\ a \o b \in Seq(T) /\ Len(a \o b) = 3
        /\ \A i \in 1..3 : (a \o b)[i] = IF i <= 2 THEN a[i] ELSE b[i - 2]
    BY <1>3, <2>2, ConcatProperties
  <2>4. \A i \in 1..3 : (a \o b)[i] = c[i]
    BY <1>3, <2>1, <2>3
  <2>5. a \o b = c
    BY <2>2, <2>3, <2>4, SeqEqual
  <2> QED
    BY <2>5 DEF a, b, c
<1> QED
  BY <1>4, <1>5

-----------------------------------------------------------------------------
(* Strings *)

\* The string in a sequence: what is before the first zero, if one follows.
LEMMA CStringIs ==
    ASSUME NEW T, NEW s \in Seq(T), NEW n \in 0..Len(s),
           \A k \in 1..n : s[k] # 0, n = Len(s) \/ s[n + 1] = 0
    PROVE  CString(s) = SubSeq(s, 1, n)
<1> DEFINE L == Len(s)
           Ends(m) == Char(s, m + 1) = 0 /\ \A k \in 1..m : s[k] # 0
           c == CHOOSE m \in 0..L : Ends(m)
<1>1. L \in Nat /\ DOMAIN s = 1..L
  BY LenProperties
<1> HIDE DEF L
<1>2. Ends(n)
  <2>1. n = L => n + 1 \notin 1..L
    BY <1>1, SMT
  <2>2. n \in 0..L
    BY DEF L
  <2>3. n # L => n + 1 \in 1..L
    BY <1>1, <2>2, SMT
  <2> QED
    BY <1>1, <2>1, <2>3 DEF Char, L
<1>3. c \in 0..L /\ Ends(c)
  <2>1. n \in 0..L
    BY DEF L
  <2> HIDE DEF Ends
  <2> QED
    BY <1>2, <2>1
<1>4. CString(s) = SubSeq(s, 1, c)
  BY DEF CString, L
<1> HIDE DEF c
<1>5. c = n
  <2>1. n \in 0..L
    BY DEF L
  <2>2. CASE c < n
    <3>1. c + 1 \in 1..n /\ c + 1 \in 1..L
      BY <1>1, <1>3, <2>1, <2>2, SMT
    <3> QED
      BY <1>1, <1>3, <3>1 DEF Char
  <2>3. CASE n < c
    <3>1. n + 1 \in 1..c /\ n + 1 \in 1..L
      BY <1>1, <1>3, <2>1, <2>3, SMT
    <3> QED
      BY <1>1, <1>2, <1>3, <3>1 DEF Char
  <2> QED
    BY <1>1, <1>3, <2>1, <2>2, <2>3, SMT
<1> QED
  BY <1>4, <1>5

\* A text without a zero is its own string.
LEMMA CStringWhole ==
    ASSUME NEW T, NEW s \in Seq(T), \A k \in 1..Len(s) : s[k] # 0
    PROVE  CString(s) = s
<1>1. Len(s) \in Nat
  BY LenProperties
<1>2. Len(s) \in 0..Len(s)
  BY <1>1, SMT
<1>3. CString(s) = SubSeq(s, 1, Len(s))
  BY <1>2, CStringIs
<1> QED
  BY <1>3, SubSeqFull

\* The string before the first zero behind it.
LEMMA CStringPrefix ==
    ASSUME NEW u \in Seq(Byte), u # << >>, \A k \in 1..Len(u) : u[k] # 0,
           NEW z \in Seq(Byte), z = << >> \/ z[1] = 0
    PROVE  CString(u \o z) = u
<1> DEFINE s == u \o z
           n == Len(u)
<1>1. n \in Nat /\ n # 0 /\ Len(z) \in Nat
  BY EmptySeq, LenProperties
<1>2. /\ s \in Seq(Byte) /\ Len(s) = n + Len(z)
      /\ \A i \in 1..(n + Len(z)) : s[i] = IF i <= n THEN u[i] ELSE z[i - n]
  BY ConcatProperties
<1>3. n = Len(s) \/ s[n + 1] = 0
  <2>1. CASE z = << >>
    <3>1. Len(z) = 0
      BY <2>1, EmptySeq
    <3> HIDE DEF s, n
    <3> QED
      BY <1>1, <1>2, <3>1, SMT
  <2>2. CASE z # << >> /\ z[1] = 0
    <3>1. Len(z) # 0
      BY <2>2, EmptySeq
    <3> HIDE DEF s, n
    <3>2. n + 1 \in 1..(n + Len(z)) /\ ~(n + 1 <= n) /\ (n + 1) - n = 1
      BY <1>1, <3>1, SMT
    <3> QED
      BY <1>2, <2>2, <3>2
  <2> QED
    BY <2>1, <2>2
<1>4. \A k \in 1..n : s[k] # 0
  <2>1. \A k \in 1..n : k \in 1..(n + Len(z)) /\ k <= n
    BY <1>1, SMT
  <2> QED
    BY <1>2, <2>1
<1>5. CString(s) = SubSeq(s, 1, n)
  <2>1. n \in 0..Len(s)
    BY <1>1, <1>2, SMT
  <2> HIDE DEF s, n
  <2> QED
    BY <1>2, <1>3, <1>4, <2>1, CStringIs, Zenon
<1>6. SubSeq(s, 1, n) = u
  <2>1. 1 \in 1..n /\ n \in 1..n
    BY <1>1, SMT
  <2>2. SubSeq(s, 1, n) = SubSeq(u, 1, n)
    BY <2>1, SubSeqOfConcat1
  <2> QED
    BY <2>2, SubSeqFull
<1> QED
  BY <1>5, <1>6

-----------------------------------------------------------------------------
(* Base64 *)

\* Three bytes come back from the four indices base64_encode makes of them.
THEOREM GroupRoundTrip ==
    ASSUME NEW x \in 0..255, NEW y \in 0..255, NEW z \in 0..255
    PROVE  LET s == Sextets(x, y, z) IN
           /\ \A k \in 1..4 : s[k] \in 0..63
           /\ Octets(s[1], s[2], s[3], s[4]) = <<x, y, z>>
<1>. DEFINE a == x \div 4
            b == (x % 4) * 16 + y \div 16
            c == (y % 16) * 4 + z \div 64
            d == z % 64
<1>1. a \in 0..63 /\ b \in 0..63 /\ c \in 0..63 /\ d \in 0..63
  OBVIOUS
<1>2. Sextets(x, y, z) = <<a, b, c, d>>
  BY DEF Sextets
<1>3. a % 64 = a /\ b % 64 = b /\ c % 64 = c /\ d % 64 = d
  BY <1>1
<1>4. a * 4 + b \div 16 = x
  OBVIOUS
<1>5. (b % 16) * 16 + c \div 4 = y
  OBVIOUS
<1>6. (c % 4) * 64 + d = z
  OBVIOUS
<1>. HIDE DEF a, b, c, d
<1>7. Octets(a, b, c, d) = <<x, y, z>>
  BY <1>3, <1>4, <1>5, <1>6 DEF Octets
<1>. QED BY <1>1, <1>2, <1>7

\* num_strchr finds the index of every character of the alphabet.
THEOREM AlphabetRoundTrip ==
    \A k \in 0..63 : num_strchr(base64char[k]) = k
<1>. SUFFICES ASSUME NEW k \in 0..63 PROVE num_strchr(base64char[k]) = k
  OBVIOUS
<1>1. \A j \in 0..63 : base64char[j] = base64char[k] => j = k
  BY DEF base64char, UpperA, LowerA
<1>2. base64char[k] # 0
  BY DEF base64char, UpperA, LowerA
<1>. QED BY <1>1, <1>2 DEF num_strchr

\* What is behind the texts.
LineEnds == {<< >>, <<10>>, <<13>>, <<13, 10>>}

\* What base64_decode makes of an end of line.
DecodedEnd(end) == IF end = << >> THEN << >>
                   ELSE IF Len(end) = 1 THEN <<252, 0, 0>> ELSE <<255, 240, 0>>

\* The number of groups of a text of L characters.
GroupsOf(L) == (L + 2) \div 3

\* The characters of an encoded text, by group and place.
LEMMA EncodedChars ==
    ASSUME NEW h \in Seq(Byte), MaxByte = 255, \A k \in 1..Len(h) : h[k] # 0
    PROVE  LET e == base64_encode(h)
               G == GroupsOf(Len(h)) IN
           /\ G \in Nat /\ e \in Seq(Byte) /\ Len(e) = 4 * G
           /\ \A k \in 1..(4 * G) : e[k] # 0
           /\ \A g \in 0..(G - 1), r \in 0..3 :
                e[4 * g + r + 1] =
                    IF r > Len(h) - 3 * g THEN padding_char
                    ELSE base64char[Sextets(h[3 * g + 1], Char(h, 3 * g + 2),
                                            Char(h, 3 * g + 3))[r + 1]]
<1> DEFINE L == Len(h)
           G == GroupsOf(L)
           e == base64_encode(h)
           At(i, r) == IF r > L - i THEN padding_char
                       ELSE base64char[Sextets(h[i + 1], Char(h, i + 2),
                                               Char(h, i + 3))[r + 1]]
<1>1. L \in Nat /\ DOMAIN h = 1..L /\ G \in Nat /\ 3 * G < L + 3
  BY LenProperties, SMT DEF GroupsOf
<1>2. e = [k \in 1..(4 * G) |-> At(3 * ((k - 1) \div 4), (k - 1) % 4)]
  BY CStringWhole DEF base64_encode, GroupsOf
<1>3. ASSUME NEW k \in 0..63
      PROVE  base64char[k] \in Byte /\ base64char[k] # 0
  <2>1. base64char[k] = IF k < 26 THEN 65 + k
                        ELSE IF k < 52 THEN 97 + k - 26
                        ELSE IF k < 62 THEN 48 + k - 52
                        ELSE IF k = 62 THEN 43 ELSE 47
    BY SMT DEF base64char, UpperA, LowerA
  <2>2. base64char[k] \in 0..255 /\ base64char[k] # 0
    BY <2>1, SMT
  <2> QED
    BY <2>2 DEF Byte
<1>4. padding_char \in Byte /\ padding_char # 0
  BY SMT DEF padding_char, Byte
<1>5. \A k : Char(h, k) \in 0..255
  <2> SUFFICES ASSUME NEW k PROVE Char(h, k) \in 0..255
    OBVIOUS
  <2>1. CASE k \in 1..L
    BY <1>1, <2>1, ElementOfSeq DEF Char, Byte
  <2>2. CASE k \notin 1..L
    BY <1>1, <2>2, SMT DEF Char
  <2> QED
    BY <2>1, <2>2
<1>6. ASSUME NEW g \in 0..(G - 1), NEW r \in 0..3
      PROVE  At(3 * g, r) \in Byte /\ At(3 * g, r) # 0
  <2>1. 3 * g + 1 \in 1..L
    <3> HIDE DEF L, G
    <3> QED
    BY <1>1, SMT
  <2>2. h[3 * g + 1] \in 0..255
    BY <2>1, ElementOfSeq DEF Byte
  <2>3. r + 1 \in 1..4
    BY SMT
  <2> DEFINE x == h[3 * g + 1]
             y == Char(h, 3 * g + 2)
             z == Char(h, 3 * g + 3)
  <2>4. x \in 0..255 /\ y \in 0..255 /\ z \in 0..255
    BY <1>5, <2>2
  <2> HIDE DEF x, y, z
  <2>5. Sextets(x, y, z)[r + 1] \in 0..63
    BY <2>3, <2>4, GroupRoundTrip, Zenon
  <2>6. /\ base64char[Sextets(x, y, z)[r + 1]] \in Byte
        /\ base64char[Sextets(x, y, z)[r + 1]] # 0
    BY <1>3, <2>5
  <2> QED
    BY <1>4, <2>6 DEF x, y, z
<1> HIDE DEF At, L, G
<1>7. ASSUME NEW k \in 1..(4 * G)
      PROVE  e[k] \in Byte /\ e[k] # 0
  <2>1. (k - 1) \div 4 \in 0..(G - 1) /\ (k - 1) % 4 \in 0..3
    BY <1>1, SMT
  <2>2. e[k] = At(3 * ((k - 1) \div 4), (k - 1) % 4)
    BY <1>2
  <2> QED
    BY <1>6, <2>1, <2>2
<1>8. e \in [1..(4 * G) -> Byte] /\ 4 * G \in Nat
  BY <1>1, <1>2, <1>7, SMT
<1>9. e \in Seq(Byte) /\ Len(e) = 4 * G
  BY <1>8, FunctionIsSeq, Zenon
<1>10. ASSUME NEW g \in 0..(G - 1), NEW r \in 0..3
       PROVE  e[4 * g + r + 1] = At(3 * g, r)
  <2>1. /\ 4 * g + r + 1 \in 1..(4 * G)
        /\ ((4 * g + r + 1) - 1) \div 4 = g /\ ((4 * g + r + 1) - 1) % 4 = r
    BY <1>1, SMT
  <2> QED
    BY <1>2, <2>1
<1> QED
  BY <1>1, <1>7, <1>9, <1>10 DEF At, L, G

\* The characters that are not in the alphabet, and the NUL.
LEMMA OtherChars ==
    /\ \A k \in 0..63 : base64char[k] \notin {10, 13, padding_char}
    /\ num_strchr(0) = 64
    /\ num_strchr(10) = -1 /\ num_strchr(13) = -1
    /\ num_strchr(padding_char) = -1
<1>1. ASSUME NEW k \in 0..63
      PROVE  base64char[k] \notin {10, 13, 61}
  <2>1. base64char[k] = IF k < 26 THEN 65 + k
                        ELSE IF k < 52 THEN 97 + k - 26
                        ELSE IF k < 62 THEN 48 + k - 52
                        ELSE IF k = 62 THEN 43 ELSE 47
    BY SMT DEF base64char, UpperA, LowerA
  <2> QED
    BY <2>1, SMT
<1>2. padding_char = 61
  BY DEF padding_char
<1> QED
  BY <1>1, <1>2, SMT DEF num_strchr

\* A group of the text gives back the bytes it stands for.
LEMMA GroupDecoded ==
    ASSUME NEW h \in Seq(Byte), MaxByte = 255, \A k \in 1..Len(h) : h[k] # 0,
           NEW t, NEW g \in 0..(GroupsOf(Len(h)) - 1),
           \A r \in 0..3 : Char(t, 4 * g + r + 1) = base64_encode(h)[4 * g + r + 1]
    PROVE  Group(t, 4 * g) =
             SubSeq(h, 3 * g + 1, IF 3 * g + 3 <= Len(h) THEN 3 * g + 3 ELSE Len(h))
<1> DEFINE L == Len(h)
           G == GroupsOf(L)
           x == h[3 * g + 1]
           y == Char(h, 3 * g + 2)
           z == Char(h, 3 * g + 3)
           s == Sextets(x, y, z)
           C(r) == IF r > L - 3 * g THEN padding_char ELSE base64char[s[r + 1]]
           T(k) == num_strchr(Char(t, 4 * g + k))
           octets == Octets(T(1), T(2), T(3), T(4))
<1>1. L \in Nat /\ DOMAIN h = 1..L /\ G \in Nat /\ 3 * G < L + 3
  BY LenProperties, SMT DEF GroupsOf
<1>2. \A k : Char(h, k) \in 0..255
  <2> SUFFICES ASSUME NEW k PROVE Char(h, k) \in 0..255
    OBVIOUS
  <2>1. CASE k \in 1..L
    BY <1>1, <2>1, ElementOfSeq DEF Char, Byte
  <2>2. CASE k \notin 1..L
    BY <1>1, <2>2, SMT DEF Char
  <2> QED
    BY <2>1, <2>2
<1>3. \A r \in 0..3 : Char(t, 4 * g + r + 1) = C(r)
  BY EncodedChars
<1>4. 3 * g + 1 \in 1..L /\ g \in Nat
  <2>1. g \in 0..(G - 1)
    OBVIOUS
  <2> HIDE DEF L, G
  <2> QED
    BY <1>1, <2>1, SMT
<1>5. x = Char(h, 3 * g + 1)
  BY <1>1, <1>4 DEF Char
<1>6. x \in 0..255 /\ y \in 0..255 /\ z \in 0..255
  BY <1>2, <1>5
<1>7. /\ 4 * g + 0 + 1 = 4 * g + 1 /\ 4 * g + 1 + 1 = 4 * g + 2
      /\ 4 * g + 2 + 1 = 4 * g + 3 /\ 4 * g + 3 + 1 = 4 * g + 4
      /\ 0 \in 0..3 /\ 1 \in 0..3 /\ 2 \in 0..3 /\ 3 \in 0..3
      /\ 0 + 1 = 1 /\ 1 + 1 = 2 /\ 2 + 1 = 3 /\ 3 + 1 = 4
  BY <1>4, SMT
<1>8. /\ Char(t, 4 * g + 1) = C(0) /\ Char(t, 4 * g + 2) = C(1)
      /\ Char(t, 4 * g + 3) = C(2) /\ Char(t, 4 * g + 4) = C(3)
  <2> HIDE DEF C
  <2> QED
    BY <1>3, <1>7, Zenon
<1>9. /\ s[1] \in 0..63 /\ s[2] \in 0..63 /\ s[3] \in 0..63 /\ s[4] \in 0..63
      /\ Octets(s[1], s[2], s[3], s[4]) = <<x, y, z>>
  <2>1. 1 \in 1..4 /\ 2 \in 1..4 /\ 3 \in 1..4 /\ 4 \in 1..4
    BY SMT
  <2> HIDE DEF x, y, z
  <2> QED
    BY <1>6, <2>1, GroupRoundTrip, Zenon
<1> HIDE DEF s
<1>10. \A k \in 1..4 : s[k] \in 0..63 =>
         /\ num_strchr(base64char[s[k]]) = s[k]
         /\ base64char[s[k]] # padding_char
  BY AlphabetRoundTrip, OtherChars
<1>11. /\ num_strchr(base64char[s[1]]) = s[1] /\ num_strchr(base64char[s[2]]) = s[2]
       /\ num_strchr(base64char[s[3]]) = s[3] /\ num_strchr(base64char[s[4]]) = s[4]
       /\ base64char[s[3]] # padding_char /\ base64char[s[4]] # padding_char
  BY <1>9, <1>10, SMT
<1>12. Group(t, 4 * g) =
         IF Char(t, 4 * g + 3) = padding_char THEN SubSeq(octets, 1, 1)
         ELSE IF Char(t, 4 * g + 4) = padding_char THEN SubSeq(octets, 1, 2)
         ELSE octets
  BY DEF Group
<1>13. T(1) = s[1] /\ T(2) = s[2]
  <2>1. C(0) = base64char[s[1]] /\ C(1) = base64char[s[2]]
    <3>1. ~(0 > L - 3 * g) /\ ~(1 > L - 3 * g)
      <4> HIDE DEF L
      <4> QED
        BY <1>1, <1>4, SMT
    <3> QED
      BY <1>7, <3>1
  <2> QED
    BY <1>8, <1>11, <2>1
<1> HIDE DEF L, G, x, y, z
<1>14. \A a, b : /\ Octets(s[1], s[2], a, b)[1] = x
  BY <1>9 DEF Octets
<1>15. \A b : Octets(s[1], s[2], s[3], b)[2] = y
  BY <1>9 DEF Octets
<1>16. /\ SubSeq(octets, 1, 1) = <<octets[1]>>
       /\ SubSeq(octets, 1, 2) = <<octets[1], octets[2]>>
  <2>1. 1 + 1 = 2 /\ 1 \in Int
    BY SMT
  <2> HIDE DEF octets
  <2> QED
    BY <2>1, ShortSubSeq
<1>17. /\ 3 * g + 1 \in Int /\ 3 * g + 1 + 1 = 3 * g + 2
       /\ 3 * g + 1 + 2 = 3 * g + 3
  BY <1>4, SMT
<1>18. CASE 3 * g + 3 <= L
  <2>1. C(2) = base64char[s[3]] /\ C(3) = base64char[s[4]]
    <3>1. ~(2 > L - 3 * g) /\ ~(3 > L - 3 * g)
      BY <1>1, <1>4, <1>18, SMT
    <3> QED
      BY <1>7, <3>1
  <2>2. T(3) = s[3] /\ T(4) = s[4]
    BY <1>8, <1>11, <2>1
  <2>3. Group(t, 4 * g) = <<x, y, z>>
    BY <1>8, <1>9, <1>11, <1>12, <1>13, <2>1, <2>2
  <2>4. /\ 3 * g + 2 \in 1..L /\ 3 * g + 3 \in 1..L
    BY <1>1, <1>4, <1>18, SMT
  <2>5. x = h[3 * g + 1] /\ y = h[3 * g + 2] /\ z = h[3 * g + 3]
    BY <1>1, <2>4 DEF x, y, z, Char
  <2>6. SubSeq(h, 3 * g + 1, 3 * g + 3) = <<h[3 * g + 1], h[3 * g + 2], h[3 * g + 3]>>
    BY <1>17, ShortSubSeq
  <2> QED
    BY <1>18, <2>3, <2>5, <2>6 DEF L
<1>19. CASE 3 * g + 2 = L
  <2>1. C(2) = base64char[s[3]] /\ C(3) = padding_char
    <3>1. ~(2 > L - 3 * g) /\ 3 > L - 3 * g
      BY <1>1, <1>4, <1>19, SMT
    <3> QED
      BY <1>7, <3>1
  <2>2. T(3) = s[3]
    BY <1>8, <1>11, <2>1
  <2>3. octets[1] = x /\ octets[2] = y
    BY <1>13, <1>14, <1>15, <2>2
  <2>4. Group(t, 4 * g) = <<x, y>>
    BY <1>8, <1>11, <1>12, <1>16, <2>1, <2>3
  <2>5. 3 * g + 2 \in 1..L /\ ~(3 * g + 3 <= L)
    BY <1>1, <1>4, <1>19, SMT
  <2>6. x = h[3 * g + 1] /\ y = h[3 * g + 2]
    BY <1>1, <2>5 DEF x, y, Char
  <2>7. SubSeq(h, 3 * g + 1, 3 * g + 2) = <<h[3 * g + 1], h[3 * g + 2]>>
    BY <1>17, ShortSubSeq
  <2> QED
    BY <1>19, <2>4, <2>5, <2>6, <2>7 DEF L
<1>20. CASE 3 * g + 1 = L
  <2>1. C(2) = padding_char
    <3>1. 2 > L - 3 * g
      BY <1>1, <1>4, <1>20, SMT
    <3> QED
      BY <1>7, <3>1
  <2>2. octets[1] = x
    BY <1>13, <1>14
  <2>3. Group(t, 4 * g) = <<x>>
    BY <1>8, <1>12, <1>16, <2>1, <2>2
  <2>4. ~(3 * g + 3 <= L)
    BY <1>1, <1>4, <1>20, SMT
  <2>5. SubSeq(h, 3 * g + 1, 3 * g + 1) = <<h[3 * g + 1]>>
    BY <1>17, ShortSubSeq
  <2> QED
    BY <1>20, <2>3, <2>4, <2>5 DEF L, x
<1>21. 3 * g + 3 <= L \/ 3 * g + 2 = L \/ 3 * g + 1 = L
  BY <1>1, <1>4, SMT
<1> QED
  BY <1>18, <1>19, <1>20, <1>21, Zenon

\* What base64_decode makes of an end of line, for which num_strchr gives -1.
LEMMA EndDecoded ==
    ASSUME NEW t, NEW i, NEW end \in LineEnds \ {<< >>},
           \A k \in 1..4 : Char(t, i + k) = Char(end, k)
    PROVE  Group(t, i) = DecodedEnd(end)
<1> DEFINE T(k) == num_strchr(Char(t, i + k))
<1>1. 1 \in 1..4 /\ 2 \in 1..4 /\ 3 \in 1..4 /\ 4 \in 1..4
  BY SMT
<1>2. Char(end, 3) = 0 /\ Char(end, 4) = 0
  BY DEF Char, LineEnds
<1>3. 0 # padding_char
  BY SMT DEF padding_char
<1>4. Group(t, i) = Octets(T(1), T(2), T(3), T(4))
  BY <1>1, <1>2, <1>3 DEF Group
<1>5. T(3) = 64 /\ T(4) = 64
  BY <1>1, <1>2, OtherChars
<1>6. PICK missing \in Int : missing = num_strchr(10) /\ missing + 1 = 0
  BY OtherChars, SMT
<1>7. num_strchr(13) = missing
  BY <1>6, OtherChars
<1>8. missing % 64 = 63 /\ missing % 16 = 15
  <2>1. missing \in Int /\ missing + 1 = 0
    BY <1>6
  <2> QED
    BY <2>1, SMT
<1>9. CASE Len(end) = 1
  <2>1. end[1] \in {10, 13} /\ Char(end, 1) = end[1] /\ Char(end, 2) = 0
    BY <1>9 DEF Char, LineEnds
  <2>2. T(1) = missing /\ T(2) = 64
    BY <1>1, <1>6, <1>7, <2>1, OtherChars
  <2>3. Octets(missing, 64, 64, 64) = <<252, 0, 0>>
    BY <1>8, SMT DEF Octets
  <2> QED
    BY <1>4, <1>5, <1>9, <2>2, <2>3 DEF DecodedEnd
<1>10. CASE Len(end) = 2
  <2>1. Char(end, 1) = 13 /\ Char(end, 2) = 10
    <3>1. end = <<13, 10>>
      BY <1>10 DEF LineEnds
    <3>2. 1 \in DOMAIN <<13, 10>> /\ 2 \in DOMAIN <<13, 10>>
      OBVIOUS
    <3> QED
      BY <3>1, <3>2 DEF Char
  <2>2. T(1) = missing /\ T(2) = missing
    BY <1>1, <1>6, <1>7, <2>1
  <2>3. Octets(missing, missing, 64, 64) = <<255, 240, 0>>
    BY <1>8, SMT DEF Octets
  <2> QED
    BY <1>4, <1>5, <1>10, <2>2, <2>3 DEF DecodedEnd
<1> QED
  BY <1>9, <1>10 DEF LineEnds

\* An encoded text comes back, with what its end of line becomes behind it.
THEOREM TextRoundTrip ==
    ASSUME NEW h \in Seq(Byte), MaxByte = 255, \A k \in 1..Len(h) : h[k] # 0,
           NEW end \in LineEnds
    PROVE  base64_decode(base64_encode(h) \o end) = h \o DecodedEnd(end)
<1> DEFINE L == Len(h)
           G == GroupsOf(L)
           e == base64_encode(h)
           t == e \o end
           N == IF end = << >> THEN G ELSE G + 1
           Ends(g) == Char(t, 4 * g + 1) = 0
           Counts(n) == Ends(n) /\ \A m \in 0..(n - 1) : ~Ends(m)
           c == CHOOSE n \in 0..(Len(t) \div 4 + 1) : Counts(n)
           upto(g) == IF 3 * g <= L THEN 3 * g ELSE L
<1>1. L \in Nat /\ DOMAIN h = 1..L /\ G \in Nat /\ 3 * G < L + 3 /\ L <= 3 * G
  BY LenProperties, SMT DEF GroupsOf
<1>2. e \in Seq(Byte) /\ Len(e) = 4 * G /\ \A k \in 1..(4 * G) : e[k] # 0
  BY EncodedChars
<1>3. end \in Seq(Byte) /\ Len(end) \in 0..2
  <2>1. 10 \in Byte /\ 13 \in Byte
    BY SMT DEF Byte
  <2>2. /\ << >> \in Seq(Byte) /\ <<10>> \in Seq(Byte) /\ <<13>> \in Seq(Byte)
        /\ <<13, 10>> \in Seq(Byte)
    BY <2>1
  <2>3. Len(end) \in 0..2
    BY SMT DEF LineEnds
  <2> QED
    BY <2>2, <2>3 DEF LineEnds
<1>4. /\ t \in Seq(Byte) /\ Len(t) = 4 * G + Len(end)
      /\ \A i \in 1..(4 * G + Len(end)) :
           t[i] = IF i <= 4 * G THEN e[i] ELSE end[i - 4 * G]
      /\ DOMAIN t = 1..(4 * G + Len(end)) /\ DOMAIN end = 1..Len(end)
  <2>1. /\ t \in Seq(Byte) /\ Len(t) = Len(e) + Len(end)
        /\ \A i \in 1..(Len(e) + Len(end)) :
             t[i] = IF i <= Len(e) THEN e[i] ELSE end[i - Len(e)]
    BY <1>2, <1>3, ConcatProperties
  <2>2. DOMAIN t = 1..Len(t) /\ DOMAIN end = 1..Len(end)
    BY <1>3, <2>1, LenProperties
  <2> HIDE DEF t
  <2> QED
    BY <1>2, <2>1, <2>2
<1> HIDE DEF L, G, t, e
<1>5. /\ \A k \in 1..(4 * G) : Char(t, k) = e[k]
      /\ \A k \in 1..8 : Char(t, 4 * G + k) = Char(end, k)
  <2>1. ASSUME NEW k \in 1..(4 * G)
        PROVE  Char(t, k) = e[k]
    <3>1. k \in 1..(4 * G + Len(end)) /\ k <= 4 * G
      BY <1>1, <1>3, SMT
    <3> QED
      BY <1>4, <3>1 DEF Char
  <2>2. ASSUME NEW k \in 1..8
        PROVE  Char(t, 4 * G + k) = Char(end, k)
    <3>1. CASE k \in 1..Len(end)
      <4>1. /\ 4 * G + k \in 1..(4 * G + Len(end)) /\ ~(4 * G + k <= 4 * G)
            /\ (4 * G + k) - 4 * G = k
        BY <1>1, <1>3, <3>1, SMT
      <4> QED
        BY <1>4, <3>1, <4>1 DEF Char
    <3>2. CASE k \notin 1..Len(end)
      <4>1. 4 * G + k \notin 1..(4 * G + Len(end))
        BY <1>1, <1>3, <3>2, SMT
      <4> QED
        BY <1>4, <3>2, <4>1 DEF Char
    <3> QED
      BY <3>1, <3>2
  <2> QED
    BY <2>1, <2>2
<1>6. ASSUME NEW g \in 0..(G - 1)
      PROVE  ~Ends(g)
  <2>1. 4 * g + 1 \in 1..(4 * G)
    BY <1>1, SMT
  <2> QED
    BY <1>2, <1>5, <2>1
<1>7. Counts(N) /\ N \in 0..(Len(t) \div 4 + 1)
  <2>1. CASE end = << >>
    <3>1. Len(end) = 0 /\ Char(end, 1) = 0 /\ 1 \in 1..8
      BY <2>1, SMT DEF Char
    <3>2. G \in 0..(Len(t) \div 4 + 1)
      BY <1>1, <1>4, <3>1, SMT
    <3> QED
      BY <1>5, <1>6, <2>1, <3>1, <3>2
  <2>2. CASE end # << >>
    <3>1. Char(end, 5) = 0 /\ 5 \in 1..8 /\ 1 \in 1..8 /\ Char(end, 1) # 0
      BY <2>2, SMT DEF Char, LineEnds
    <3>2. G + 1 \in 0..(Len(t) \div 4 + 1) /\ 4 * (G + 1) + 1 = 4 * G + 5
      BY <1>1, <1>3, <1>4, SMT
    <3>3. \A m \in 0..((G + 1) - 1) : m = G \/ m \in 0..(G - 1)
      BY <1>1, SMT
    <3>4. ~Ends(G) /\ Ends(G + 1)
      BY <1>5, <3>1, <3>2
    <3> HIDE DEF Ends
    <3> QED
      BY <1>6, <2>2, <3>2, <3>3, <3>4
  <2> QED
    BY <2>1, <2>2
<1>8. c = N
  <2>1. c \in 0..(Len(t) \div 4 + 1) /\ Counts(c)
    <3> HIDE DEF Counts, N
    <3> QED
      BY <1>7
  <2> DEFINE K == Len(t) \div 4 + 1
  <2>2. c \in 0..K /\ N \in 0..K
    BY <1>7, <2>1
  <2> HIDE DEF c, N, Ends, K
  <2>3. CASE c < N
    <3>1. c \in 0..(N - 1)
      BY <2>2, <2>3, SMT
    <3> QED
      BY <1>7, <2>1, <3>1
  <2>4. CASE N < c
    <3>1. N \in 0..(c - 1)
      BY <2>2, <2>4, SMT
    <3> QED
      BY <1>7, <2>1, <3>1
  <2> QED
    BY <2>2, <2>3, <2>4, SMT
<1> DEFINE ss == [g \in 1..N |-> Group(t, 4 * (g - 1))]
<1>9. base64_decode(t) = Join(ss)
  <2>1. base64_decode(t) = Join([g \in 1..c |-> Group(t, 4 * (g - 1))])
    BY DEF base64_decode
  <2> HIDE DEF c
  <2> QED
    BY <1>8, <2>1
<1> HIDE DEF c
<1>10. N \in Nat /\ G <= N
  BY <1>1, SMT
<1>11. ASSUME NEW g \in 0..(G - 1)
       PROVE  Group(t, 4 * g) = SubSeq(h, 3 * g + 1, upto(g + 1))
  <2>1. \A r \in 0..3 : Char(t, 4 * g + r + 1) = e[4 * g + r + 1]
    <3>1. \A r \in 0..3 : 4 * g + r + 1 \in 1..(4 * G)
      BY <1>1, SMT
    <3> QED
      BY <1>5, <3>1
  <2>2. Group(t, 4 * g) = SubSeq(h, 3 * g + 1, IF 3 * g + 3 <= L THEN 3 * g + 3 ELSE L)
    BY <2>1, GroupDecoded DEF L, G, e
  <2>3. 3 * (g + 1) = 3 * g + 3
    BY SMT
  <2> QED
    BY <2>2, <2>3
<1>12. ASSUME end # << >>
       PROVE  Group(t, 4 * G) = DecodedEnd(end)
  <2>1. \A k \in 1..4 : Char(t, 4 * G + k) = Char(end, k)
    BY <1>5
  <2> QED
    BY <1>12, <2>1, EndDecoded
<1>13. ASSUME NEW g \in 0..G
       PROVE  upto(g) \in 0..L /\ (g < G => upto(g) = 3 * g)
  BY <1>1, SMT
<1>14. \A i \in 1..L : h[i] \in Byte
  BY ElementOfSeq DEF L
<1>15. ss \in Seq(Seq(Byte)) /\ Len(ss) = N
  <2>1. ASSUME NEW g \in 1..N
        PROVE  Group(t, 4 * (g - 1)) \in Seq(Byte)
    <3>1. CASE g - 1 \in 0..(G - 1)
      <4>1. Group(t, 4 * (g - 1)) = SubSeq(h, 3 * (g - 1) + 1, upto((g - 1) + 1))
        BY <1>11, <3>1
      <4>2. (g - 1) + 1 \in 0..G
        BY <1>1, <3>1, SMT
      <4>3. /\ 3 * (g - 1) + 1 \in Int /\ upto((g - 1) + 1) \in Int
            /\ \A i \in (3 * (g - 1) + 1)..upto((g - 1) + 1) : i \in 1..L
        BY <1>1, <3>1, <4>2, <1>13, SMT
      <4>4. \A i \in (3 * (g - 1) + 1)..upto((g - 1) + 1) : h[i] \in Byte
        BY <1>14, <4>3
      <4> HIDE DEF upto
      <4>5. SubSeq(h, 3 * (g - 1) + 1, upto((g - 1) + 1)) \in Seq(Byte)
        BY <4>3, <4>4, SubSeqProperties
      <4> QED
        BY <4>1, <4>5
    <3>2. CASE g - 1 \notin 0..(G - 1)
      <4>1. end # << >> /\ g - 1 = G
        <5>1. end = << >> => g - 1 \in 0..(G - 1)
          BY <1>1, SMT
        <5>2. end # << >> => g - 1 \in 0..(G - 1) \/ g - 1 = G
          BY <1>1, SMT
        <5> QED
          BY <3>2, <5>1, <5>2
      <4>2. DecodedEnd(end) \in Seq(Byte)
        <5>1. 252 \in Byte /\ 0 \in Byte /\ 255 \in Byte /\ 240 \in Byte
          BY SMT DEF Byte
        <5>2. <<252, 0, 0>> \in Seq(Byte) /\ <<255, 240, 0>> \in Seq(Byte)
          BY <5>1
        <5> QED
          BY <4>1, <5>2 DEF DecodedEnd
      <4> QED
        BY <1>12, <4>1, <4>2
    <3> QED
      BY <3>1, <3>2
  <2>2. ss \in [1..N -> Seq(Byte)]
    BY <2>1
  <2> HIDE DEF ss
  <2> QED
    BY <1>10, <2>2, FunctionIsSeq
<1>16. \A g \in 1..N : ss[g] = Group(t, 4 * (g - 1))
  OBVIOUS
<1> HIDE DEF ss, N
<1>17. PICK J : J = JoinUpTo(ss)
  OBVIOUS
<1>18. /\ J[0] = << >>
       /\ \A n \in 1..N : J[n] = J[n - 1] \o ss[n]
       /\ Join(ss) = J[N]
  BY <1>15, <1>17, JoinLoop DEF Join
<1> DEFINE Good == {g \in 0..G : J[g] = SubSeq(h, 1, upto(g))}
<1>19. 0 \in Good
  <2>1. 0 \in 0..G /\ upto(0) = 0 /\ 0 < 1 /\ 0 \in Int /\ 1 \in Int
    BY <1>1, SMT
  <2>2. SubSeq(h, 1, 0) = << >>
    BY <2>1, SubSeqEmpty
  <2> QED
    BY <1>18, <2>1, <2>2
<1>20. ASSUME NEW g \in 0..(G - 1), g \in Good
       PROVE  g + 1 \in Good
  <2>1. /\ g + 1 \in 1..N /\ g + 1 \in 0..G /\ (g + 1) - 1 = g /\ g \in 0..G /\ g < G
    BY <1>1, <1>10, SMT
  <2>2. J[g + 1] = SubSeq(h, 1, 3 * g) \o SubSeq(h, 3 * g + 1, upto(g + 1))
    <3>1. J[g + 1] = J[g] \o ss[g + 1]
      BY <1>18, <2>1
    <3>2. J[g] = SubSeq(h, 1, upto(g)) /\ upto(g) = 3 * g
      BY <1>13, <1>20, <2>1
    <3>3. ss[g + 1] = SubSeq(h, 3 * g + 1, upto(g + 1))
      BY <1>11, <1>16, <2>1
    <3> QED
      BY <3>1, <3>2, <3>3
  <2>3. 1 \in 1..(L + 1) /\ 3 * g \in 0..L /\ upto(g + 1) \in (3 * g)..L
    BY <1>1, <1>13, <2>1, SMT
  <2>4. 1 - 1 = 0
    BY SMT
  <2> HIDE DEF upto
  <2>5. SubSeq(h, 1, 3 * g) \o SubSeq(h, 3 * g + 1, upto(g + 1)) = SubSeq(h, 1, upto(g + 1))
    BY <2>3, <2>4, ConcatAdjacentSubSeq DEF L
  <2> QED
    BY <2>1, <2>2, <2>5
<1> HIDE DEF Good
<1>21. \A g \in 0..G : g \in Good
  BY <1>1, <1>19, <1>20, BoundedInduction, Zenon
<1>22. J[G] = h
  <2>1. G \in 0..G /\ upto(G) = L
    BY <1>1, SMT
  <2>2. J[G] = SubSeq(h, 1, L)
    BY <1>21, <2>1 DEF Good
  <2> QED
    BY <2>2, SubSeqFull DEF L
<1>23. Join(ss) = h \o DecodedEnd(end)
  <2>1. CASE end = << >>
    <3>1. N = G /\ DecodedEnd(end) = << >>
      BY <2>1 DEF N, DecodedEnd
    <3>2. h \o << >> = h
      BY ConcatEmptySeq
    <3> QED
      BY <1>18, <1>22, <3>1, <3>2
  <2>2. CASE end # << >>
    <3>1. N = G + 1 /\ G + 1 \in 1..N /\ (G + 1) - 1 = G
      BY <1>1, <2>2, SMT DEF N
    <3>2. ss[G + 1] = DecodedEnd(end)
      BY <1>12, <1>16, <2>2, <3>1
    <3> QED
      BY <1>18, <1>22, <3>1, <3>2
  <2> QED
    BY <2>1, <2>2
<1> QED
  BY <1>9, <1>23 DEF t, e

-----------------------------------------------------------------------------
(* Hexadecimal *)

\* The value str_hex gives a digit, in upper or lower case, is the nibble it
\* was printed for; no digit is a gap or the end of the string.
THEOREM DigitRoundTrip ==
    ASSUME NEW n \in 0..15, NEW letter \in {UpperA, LowerA}
    PROVE  /\ DigitValue(HexDigit(n, letter)) = n
           /\ ~IsGap(HexDigit(n, letter))
           /\ HexDigit(n, letter) # 0
BY DEF DigitValue, HexDigit, IsGap, UpperA, LowerA

\* Two digits give back the byte.
THEOREM PairRoundTrip ==
    ASSUME NEW byte \in 0..255, NEW letter \in {UpperA, LowerA}
    PROVE  (DigitValue(HexDigit(byte \div 16, letter)) * 16
              + DigitValue(HexDigit(byte % 16, letter))) % 256 = byte
<1>1. byte \div 16 \in 0..15 /\ byte % 16 \in 0..15
  OBVIOUS
<1>2. /\ DigitValue(HexDigit(byte \div 16, letter)) = byte \div 16
      /\ DigitValue(HexDigit(byte % 16, letter)) = byte % 16
  BY <1>1, DigitRoundTrip
<1>. QED BY <1>2

\* What str_hex stores from index k on of a string, f being that of the indices
\* behind it.
HexStep(s, f, k) ==
    IF k > Len(s) THEN << >>
    ELSE IF IsGap(s[k]) THEN f[k + 1]
    ELSE IF k = Len(s) THEN <<DigitValue(s[k]) % 16>>
    ELSE IF IsGap(s[k + 1]) THEN <<DigitValue(s[k]) % 16>> \o f[k + 2]
    ELSE <<(DigitValue(s[k]) * 16 + DigitValue(s[k + 1])) % 256>> \o f[k + 2]

\* f is a solution of the recursion of str_hex over s.
Solves(f, s) == \A k \in 1..(Len(s) + 1) : f[k] = HexStep(s, f, k)

\* The recursion of str_hex over a string has a solution.
LEMMA StrHexRecursion ==
    ASSUME NEW str, CString(str) \in Seq(Byte), MaxByte = 255
    PROVE  \E f : str_hex(str) = f[1] /\ Solves(f, CString(str))
<1> DEFINE s == CString(str)
           L == Len(s)
           V == Seq(Int)
           one(k) == <<DigitValue(s[k]) % 16>>
           two(k) == <<(DigitValue(s[k]) * 16 + DigitValue(s[k + 1])) % 256>>
           \* v[1] and v[2] are of the next two indices.
           Pass(v, k) == IF IsGap(s[k]) THEN v[1]
                         ELSE IF k = L THEN one(k)
                         ELSE IF IsGap(s[k + 1]) THEN one(k) \o v[2]
                         ELSE two(k) \o v[2]
           F == [x \in (V \X V) \X (1..L) |->
                   <<Pass(x[1], L + 1 - x[2]), x[1][1]>>]
           base == << << >>, << >> >>
           Is(f) == f = [k \in 1..(L + 1) |-> HexStep(s, f, k)]
<1>1. L \in Nat /\ \A k \in 1..L : s[k] \in 0..255
  BY LenProperties, ElementOfSeq DEF Byte
<1>2. ASSUME NEW c \in 0..255
      PROVE  DigitValue(c) \in Int
  BY SMT DEF DigitValue, UpperA, LowerA
<1>3. \A k \in 1..L : one(k) \in V /\ (k < L => two(k) \in V)
  <2> SUFFICES ASSUME NEW k \in 1..L PROVE one(k) \in V /\ (k < L => two(k) \in V)
    OBVIOUS
  <2>1. k < L => k + 1 \in 1..L
    BY <1>1, SMT
  <2>2. DigitValue(s[k]) \in Int /\ (k < L => DigitValue(s[k + 1]) \in Int)
    BY <1>1, <1>2, <2>1
  <2>3. DigitValue(s[k]) % 16 \in Int
    BY <2>2, SMT
  <2>4. k < L => (DigitValue(s[k]) * 16 + DigitValue(s[k + 1])) % 256 \in Int
    BY <2>2, SMT
  <2>5. \A x \in Int : <<x>> \in Seq(Int)
    OBVIOUS
  <2> QED
    BY <2>3, <2>4, <2>5
<1> HIDE DEF s, L, one, two
<1>4. ASSUME NEW v \in V \X V, NEW k \in 1..L
      PROVE  Pass(v, k) \in V
  <2>1. v[1] \in V /\ v[2] \in V
    OBVIOUS
  <2>2. k # L => k < L
    BY <1>1, SMT
  <2>3. \A p, q \in V : p \o q \in V
    OBVIOUS
  <2> HIDE DEF V
  <2> QED
    BY <1>3, <2>1, <2>2, <2>3
<1> HIDE DEF Pass
<1>5. \A n \in 1..L : L + 1 - n \in 1..L
  BY <1>1, SMT
<1>6. F \in [(V \X V) \X (1..L) -> V \X V]
  BY <1>4, <1>5
<1>7. base \in V \X V
  <2>1. << >> \in V
    BY EmptySeq
  <2> HIDE DEF V
  <2> QED
    BY <2>1
<1> HIDE DEF F, base
<1>8. PICK g \in [0..L -> V \X V] : IsLoop(g, L, base, F)
  BY <1>1, <1>6, <1>7, LoopExists
<1>9. ASSUME NEW n \in 1..L
      PROVE  g[n] = <<Pass(g[n - 1], L + 1 - n), g[n - 1][1]>>
  <2>1. n - 1 \in 0..L
    BY <1>1, SMT
  <2>2. <<g[n - 1], n>> \in (V \X V) \X (1..L)
    BY <2>1
  <2> QED
    BY <1>8, <2>2 DEF IsLoop, F
<1> DEFINE f == [k \in 1..(L + 1) |-> g[L + 1 - k][1]]
<1>10. ASSUME NEW k \in 1..(L + 1)
       PROVE  f[k] = HexStep(s, f, k)
  <2>1. CASE k = L + 1
    <3>1. L + 1 - k = 0 /\ k > L
      BY <1>1, <2>1, SMT
    <3>2. f[k] = << >>
      BY <1>8, <3>1 DEF IsLoop, base
    <3> QED
      BY <3>1, <3>2 DEF HexStep, L
  <2>2. CASE k # L + 1
    <3> DEFINE n == L + 1 - k
    <3>1. /\ k \in 1..L /\ n \in 1..L /\ ~(k > L) /\ k + 1 \in 1..(L + 1)
          /\ L + 1 - n = k /\ L + 1 - (k + 1) = n - 1
      BY <1>1, <2>2, SMT
    <3>2. f[k] = Pass(g[n - 1], k) /\ f[k + 1] = g[n - 1][1]
      BY <1>9, <3>1
    <3>3. k # L => f[k + 2] = g[n - 1][2]
      <4>1. SUFFICES ASSUME k # L PROVE f[k + 2] = g[n - 1][2]
        OBVIOUS
      <4>2. /\ k + 2 \in 1..(L + 1) /\ n - 1 \in 1..L
            /\ L + 1 - (k + 2) = (n - 1) - 1
        BY <1>1, <3>1, <4>1, SMT
      <4>3. g[n - 1][2] = g[(n - 1) - 1][1]
        BY <1>9, <4>2
      <4> HIDE DEF n
      <4> QED
        BY <4>2, <4>3
    <3> HIDE DEF f, n
    <3> QED
      BY <3>1, <3>2, <3>3 DEF HexStep, L, Pass, one, two
  <2> QED
    BY <2>1, <2>2
<1>11. Is(f)
  BY <1>10
<1>12. str_hex(str) = (CHOOSE ff : Is(ff))[1]
  BY DEF str_hex, HexStep, s, L
<1> HIDE DEF f
<1>13. PICK ff : str_hex(str) = ff[1] /\ Is(ff)
  BY <1>11, <1>12
<1> QED
  BY <1>13 DEF s, L, Solves

\* At the indices p[0], p[1], ... one byte of b after the other is put in front.
Chained(b, f, p) ==
    \A j \in 0..(Len(b) - 1) : f[p[j]] = <<b[j + 1]>> \o f[p[j + 1]]

\* At p[0] all of them are in front.
LEMMA HexChain ==
    ASSUME NEW T, NEW b \in Seq(T), NEW f, NEW p, f[p[Len(b)]] \in Seq(T),
           Chained(b, f, p)
    PROVE  f[p[0]] = b \o f[p[Len(b)]]
<1> DEFINE N == Len(b)
           R == f[p[N]]
           Good == {i \in 0..N : f[p[N - i]] = SubSeq(b, N - i + 1, N) \o R}
<1>1. N \in Nat /\ \A i \in 1..N : b[i] \in T
  BY LenProperties, ElementOfSeq
<1>2. R \in Seq(T)
  OBVIOUS
<1> HIDE DEF R
<1>3. ASSUME NEW m \in 1..(N + 1)
      PROVE  SubSeq(b, m, N) \in Seq(T)
  <2>1. m \in Int /\ N \in Int /\ \A i \in m..N : i \in 1..N
    BY <1>1, SMT
  <2>2. \A i \in m..N : b[i] \in T
    BY <1>1, <2>1
  <2> HIDE DEF N
  <2> QED
    BY <2>1, <2>2, SubSeqProperties
<1>4. 0 \in Good
  <2>1. N - 0 = N /\ N + 1 \in Int /\ N \in Int /\ N < N + 1 /\ 0 \in 0..N
    BY <1>1, SMT
  <2>2. f[p[N]] = R
    BY DEF R
  <2>3. SubSeq(b, N + 1, N) = << >>
    BY <2>1, SubSeqEmpty
  <2>4. << >> \o R = R
    BY <1>2, ConcatEmptySeq
  <2> QED
    BY <2>1, <2>3, <2>4, <2>2
<1>5. ASSUME NEW i \in 0..(N - 1), i \in Good
      PROVE  i + 1 \in Good
  <2> DEFINE j == N - (i + 1)
  <2>1. /\ j \in 0..(N - 1) /\ j + 1 = N - i /\ i + 1 \in 0..N
        /\ j + 1 \in 1..N /\ N \in (j + 1)..N /\ (j + 1) + 1 \in 1..(N + 1)
    BY <1>1, SMT
  <2>2. f[p[j]] = <<b[j + 1]>> \o (SubSeq(b, (j + 1) + 1, N) \o R)
    BY <1>5, <2>1 DEF Chained
  <2> HIDE DEF j
  <2>3. <<b[j + 1]>> \in Seq(T) /\ SubSeq(b, (j + 1) + 1, N) \in Seq(T)
    <3>1. b[j + 1] \in T
      BY <1>1, <2>1
    <3> QED
      BY <1>3, <2>1, <3>1
  <2>4. f[p[j]] = (<<b[j + 1]>> \o SubSeq(b, (j + 1) + 1, N)) \o R
    <3> DEFINE u == <<b[j + 1]>>
               v == SubSeq(b, (j + 1) + 1, N)
    <3>1. u \in Seq(T) /\ v \in Seq(T)
      BY <2>3
    <3> HIDE DEF u, v
    <3>2. (u \o v) \o R = u \o (v \o R)
      BY <1>2, <3>1, ConcatAssociative
    <3> QED
      BY <2>2, <3>2 DEF u, v
  <2>5. SubSeq(b, j + 1, N) = <<b[j + 1]>> \o SubSeq(b, (j + 1) + 1, N)
    BY <2>1, SubSeqRecursiveFirst
  <2> QED
    BY <2>1, <2>4, <2>5 DEF j
<1> HIDE DEF Good
<1>6. \A i \in 0..N : i \in Good
  BY <1>1, <1>4, <1>5, BoundedInduction, Zenon
<1>7. N \in 0..N /\ N - N = 0 /\ N - N + 1 = 1
  BY <1>1, SMT
<1>8. f[p[0]] = SubSeq(b, 1, N) \o R
  <2>1. f[p[N - N]] = SubSeq(b, N - N + 1, N) \o R
    <3>1. N \in Good
      BY <1>6, <1>7, Zenon
    <3> QED
      BY <3>1 DEF Good
  <2> QED
    BY <1>7, <2>1, Zenon
<1> QED
  BY <1>8, SubSeqFull DEF R

\* What of a decoded end of line is in front of its first NUL,
Cut(end) == IF end = << >> THEN << >>
            ELSE IF Len(end) = 1 THEN <<252>> ELSE <<255, 240>>

\* and the byte str_hex stores for it.
Stray(end) == IF end = << >> THEN << >> ELSE IF Len(end) = 1 THEN <<5>> ELSE <<25>>

\* What comes behind the first H elements of s.
Behind(s, H, e) == Len(s) = H + Len(e) /\ \A i \in 1..Len(e) : s[H + i] = e[i]

\* Behind a text str_hex stores the stray byte and nothing else.
LEMMA StrayIs ==
    ASSUME NEW end \in LineEnds, NEW s, NEW f, NEW H \in Nat,
           Solves(f, s), Behind(s, H, Cut(end))
    PROVE  f[H + 1] = Stray(end)
<1> DEFINE P == H + 1
<1>1. /\ P \in Nat /\ Len(s) = P - 1 + Len(Cut(end))
      /\ \A i \in 1..Len(Cut(end)) : s[P - 1 + i] = Cut(end)[i]
      /\ \A k \in P..(Len(s) + 1) : f[k] = HexStep(s, f, k)
      /\ Len(Cut(end)) \in Nat
  <2>1. Len(Cut(end)) \in Nat
    BY SMT DEF Cut
  <2>2. /\ P - 1 = H /\ P \in Nat
        /\ Len(s) = H + Len(Cut(end))
        /\ \A k \in P..(Len(s) + 1) : k \in 1..(Len(s) + 1)
    BY <2>1, SMT DEF Behind
  <2> QED
    BY <2>1, <2>2 DEF Behind, Solves
<1> SUFFICES f[P] = Stray(end)
  OBVIOUS
<1> HIDE DEF P
<1>2. /\ DigitValue(252) = 165 /\ DigitValue(255) = 168 /\ DigitValue(240) = 153
      /\ ~IsGap(252) /\ ~IsGap(255) /\ ~IsGap(240)
  BY SMT DEF DigitValue, IsGap, UpperA, LowerA
<1>3. CASE end = << >>
  <2>1. Cut(end) = << >> /\ Stray(end) = << >>
    BY <1>3 DEF Cut, Stray
  <2>2. Len(s) = P - 1 /\ P \in P..(Len(s) + 1) /\ P > Len(s)
    BY <1>1, <2>1, SMT
  <2> QED
    BY <1>1, <2>1, <2>2 DEF HexStep
<1>4. CASE end # << >> /\ Len(end) = 1
  <2>1. Cut(end) = <<252>> /\ Stray(end) = <<5>>
    BY <1>4 DEF Cut, Stray
  <2>2. Len(s) = P /\ P \in P..(Len(s) + 1) /\ ~(P > Len(s)) /\ P - 1 + 1 = P
    BY <1>1, <2>1, SMT
  <2>3. s[P] = 252
    <3>1. Len(<<252>>) = 1 /\ 1 \in 1..1 /\ <<252>>[1] = 252
      OBVIOUS
    <3> QED
      BY <1>1, <2>1, <2>2, <3>1
  <2>4. f[P] = <<DigitValue(252) % 16>>
    <3>1. f[P] = HexStep(s, f, P)
      BY <1>1, <2>2
    <3>2. ~IsGap(s[P])
      BY <1>2, <2>3, Zenon
    <3>3. HexStep(s, f, P) = <<DigitValue(s[P]) % 16>>
      BY <2>2, <3>2, Zenon DEF HexStep
    <3> QED
      BY <2>3, <3>1, <3>3, Zenon
  <2>5. DigitValue(252) % 16 = 5
    BY <1>2, SMT
  <2> QED
    BY <2>1, <2>4, <2>5
<1>5. CASE end # << >> /\ Len(end) # 1
  <2>1. Cut(end) = <<255, 240>> /\ Stray(end) = <<25>>
    BY <1>5 DEF Cut, Stray
  <2>2. /\ Len(s) = P + 1 /\ P \in P..(Len(s) + 1) /\ ~(P > Len(s)) /\ P # Len(s)
        /\ P - 1 + 1 = P /\ P - 1 + 2 = P + 1
        /\ P + 2 \in P..(Len(s) + 1) /\ P + 2 > Len(s)
    BY <1>1, <2>1, SMT
  <2>3. s[P] = 255 /\ s[P + 1] = 240
    <3>1. /\ Len(<<255, 240>>) = 2 /\ 1 \in 1..2 /\ 2 \in 1..2
          /\ <<255, 240>>[1] = 255 /\ <<255, 240>>[2] = 240
      OBVIOUS
    <3> QED
      BY <1>1, <2>1, <2>2, <3>1
  <2>4. f[P + 2] = << >>
    BY <1>1, <2>2 DEF HexStep
  <2>5. f[P] = <<(DigitValue(255) * 16 + DigitValue(240)) % 256>> \o << >>
    <3>1. f[P] = HexStep(s, f, P)
      BY <1>1, <2>2
    <3>2. ~IsGap(s[P]) /\ ~IsGap(s[P + 1])
      BY <1>2, <2>3, Zenon
    <3>3. HexStep(s, f, P)
            = <<(DigitValue(s[P]) * 16 + DigitValue(s[P + 1])) % 256>> \o f[P + 2]
      BY <2>2, <3>2, Zenon DEF HexStep
    <3> QED
      BY <2>3, <2>4, <3>1, <3>3, Zenon
  <2>6. (DigitValue(255) * 16 + DigitValue(240)) % 256 = 25
    BY <1>2, SMT
  <2>7. <<25>> \o << >> = <<25>>
    <3>1. <<25>> \in Seq({25})
      OBVIOUS
    <3> QED
      BY <3>1, ConcatEmptySeq
  <2> QED
    BY <2>1, <2>5, <2>6, <2>7
<1> QED
  BY <1>3, <1>4, <1>5

\* An end of line gives at most one byte more.
LEMMA CutType ==
    ASSUME NEW end \in LineEnds, MaxByte = 255
    PROVE  /\ Cut(end) \in Seq(Byte) /\ Stray(end) \in Seq(Byte)
           /\ Len(Cut(end)) \in Nat
           /\ Len(Stray(end)) = IF end = << >> THEN 0 ELSE 1
           /\ \A k \in 1..Len(Cut(end)) : Cut(end)[k] # 0
<1>1. 5 \in Byte /\ 25 \in Byte /\ 252 \in Byte /\ 255 \in Byte /\ 240 \in Byte
  BY SMT DEF Byte
<1>2. /\ << >> \in Seq(Byte) /\ <<5>> \in Seq(Byte) /\ <<25>> \in Seq(Byte)
      /\ <<252>> \in Seq(Byte) /\ <<255, 240>> \in Seq(Byte)
      /\ Len(<<5>>) = 1 /\ Len(<<25>>) = 1 /\ Len(<< >>) = 0
  BY <1>1
<1>3. Cut(end) \in {<< >>, <<252>>, <<255, 240>>}
  BY DEF Cut
<1>4. \A k \in 1..Len(Cut(end)) : Cut(end)[k] # 0
  <2>1. CASE Cut(end) = << >>
    BY <2>1
  <2>2. CASE Cut(end) = <<252>>
    BY <2>2
  <2>3. CASE Cut(end) = <<255, 240>>
    BY <2>3
  <2> QED
    BY <1>3, <2>1, <2>2, <2>3
<1>5. Cut(end) \in Seq(Byte)
  BY <1>2, <1>3
<1> QED
  BY <1>2, <1>4, <1>5, LenProperties DEF Stray

\* A byte has two nibbles.
LEMMA NibblesOf ==
    ASSUME NEW c \in 0..255
    PROVE  c \div 16 \in 0..15 /\ c % 16 \in 0..15
OBVIOUS

\* A text h that has two digits for each byte of b, from the indices p[0], p[1],
\* ... on, and a blank between bytes or none.
Writes(h, b, letter, p) ==
    /\ p[0] = 1 /\ p[Len(b)] = Len(h) + 1
    /\ \A j \in 0..(Len(b) - 1) :
         /\ p[j] \in Nat /\ 1 <= p[j] /\ p[j] + 1 <= Len(h)
         /\ h[p[j]] = HexDigit(b[j + 1] \div 16, letter)
         /\ h[p[j] + 1] = HexDigit(b[j + 1] % 16, letter)
         /\ \/ p[j + 1] = p[j] + 2
            \/ /\ p[j + 1] = p[j] + 3 /\ p[j] + 2 <= Len(h)
               /\ h[p[j] + 2] = 32

\* str_hex gives back the bytes, and one more when an end of line follows.
LEMMA TextRead ==
    ASSUME NEW str, NEW h \in Seq(Byte), NEW end \in LineEnds, MaxByte = 255,
           CString(str) = h \o Cut(end),
           NEW b \in Seq(Byte), NEW letter \in {UpperA, LowerA},
           NEW p, Writes(h, b, letter, p)
    PROVE  str_hex(str) = b \o Stray(end)
<1> DEFINE N == Len(b)
           H == Len(h)
           s == CString(str)
           S == H + Len(Cut(end))
<1>1. /\ N \in Nat /\ H \in Nat /\ Cut(end) \in Seq(Byte) /\ Len(Cut(end)) \in Nat
  BY LenProperties, CutType
<1>2. /\ s \in Seq(Byte) /\ Len(s) = S
      /\ \A i \in 1..S : s[i] = IF i <= H THEN h[i] ELSE Cut(end)[i - H]
  BY <1>1, ConcatProperties
<1>3. PICK f : /\ str_hex(str) = f[1]
               /\ \A k \in 1..(S + 1) : f[k] = HexStep(s, f, k)
  <2>1. PICK f : str_hex(str) = f[1] /\ Solves(f, s)
    BY <1>2, StrHexRecursion
  <2> QED
    BY <1>2, <2>1 DEF Solves
<1> HIDE DEF s, H
<1>4. \A i \in 1..H : s[i] = h[i]
  <2>1. \A i \in 1..H : i \in 1..S /\ i <= H
    BY <1>1, SMT
  <2> QED
    BY <1>2, <2>1
<1>5. f[p[N]] = Stray(end)
  <2>1. /\ H \in Nat /\ Len(s) = H + Len(Cut(end)) /\ p[N] = H + 1
        /\ Solves(f, s)
    BY <1>1, <1>2, <1>3 DEF H, Solves, Writes
  <2>2. \A i \in 1..Len(Cut(end)) : s[H + i] = Cut(end)[i]
    <3>1. \A i \in 1..Len(Cut(end)) : /\ H + i \in 1..S /\ ~(H + i <= H)
                                      /\ (H + i) - H = i
      BY <1>1, SMT
    <3> QED
      BY <1>2, <3>1
  <2>3. Behind(s, H, Cut(end))
    BY <2>1, <2>2 DEF Behind
  <2>4. f[H + 1] = Stray(end)
    BY <2>1, <2>3, StrayIs
  <2> QED
    BY <2>1, <2>4
<1>6. ASSUME NEW j \in 0..(N - 1)
      PROVE  f[p[j]] = <<b[j + 1]>> \o f[p[j + 1]]
  <2> DEFINE k == p[j]
             c == b[j + 1]
  <2>1. /\ k \in Nat /\ 1 <= k /\ k + 1 <= H
        /\ h[k] = HexDigit(c \div 16, letter)
        /\ h[k + 1] = HexDigit(c % 16, letter)
        /\ \/ p[j + 1] = k + 2
           \/ p[j + 1] = k + 3 /\ k + 2 <= H /\ h[k + 2] = 32
    BY DEF H, Writes
  <2>2. c \in 0..255
    <3>1. j + 1 \in 1..N
      BY <1>1, SMT
    <3> QED
      BY <3>1, ElementOfSeq DEF Byte
  <2> HIDE DEF k, c
  <2>3. /\ k \in 1..H /\ k + 1 \in 1..H /\ k \in 1..(S + 1) /\ ~(k > S) /\ k # S
        /\ k + 2 \in 1..(S + 1)
    BY <1>1, <2>1, SMT
  <2>4. /\ ~IsGap(s[k]) /\ ~IsGap(s[k + 1])
        /\ (DigitValue(s[k]) * 16 + DigitValue(s[k + 1])) % 256 = c
    <3>1. c \div 16 \in 0..15 /\ c % 16 \in 0..15
      BY <2>2, NibblesOf
    <3>2. /\ s[k] = HexDigit(c \div 16, letter)
          /\ s[k + 1] = HexDigit(c % 16, letter)
      BY <1>4, <2>1, <2>3
    <3>3. ~IsGap(HexDigit(c \div 16, letter)) /\ ~IsGap(HexDigit(c % 16, letter))
      BY <3>1, DigitRoundTrip
    <3>4. (DigitValue(HexDigit(c \div 16, letter)) * 16
              + DigitValue(HexDigit(c % 16, letter))) % 256 = c
      BY <2>2, PairRoundTrip
    <3> QED
      BY <3>2, <3>3, <3>4, Zenon
  <2>5. f[k] = <<c>> \o f[k + 2]
    <3>1. f[k] = HexStep(s, f, k)
      BY <1>3, <2>3
    <3>2. HexStep(s, f, k)
            = <<(DigitValue(s[k]) * 16 + DigitValue(s[k + 1])) % 256>> \o f[k + 2]
      BY <1>2, <2>3, <2>4, Zenon DEF HexStep
    <3> QED
      BY <2>4, <3>1, <3>2, Zenon
  <2>6. f[k + 2] = f[p[j + 1]]
    <3>1. CASE p[j + 1] = k + 2
      BY <3>1
    <3>2. CASE p[j + 1] = k + 3 /\ k + 2 <= H /\ h[k + 2] = 32
      <4>1. /\ k + 2 \in 1..H /\ ~(k + 2 > S) /\ (k + 2) + 1 = k + 3
        BY <1>1, <2>1, <3>2, SMT
      <4>2. IsGap(s[k + 2])
        <5>1. s[k + 2] = 32
          BY <1>4, <3>2, <4>1
        <5>2. IsGap(32)
          BY DEF IsGap
        <5> QED
          BY <5>1, <5>2, Zenon
      <4>3. f[k + 2] = HexStep(s, f, k + 2)
        BY <1>3, <2>3
      <4>4. HexStep(s, f, k + 2) = f[(k + 2) + 1]
        BY <1>2, <4>1, <4>2, Zenon DEF HexStep
      <4> QED
        BY <3>2, <4>1, <4>3, <4>4, Zenon
    <3> QED
      BY <2>1, <3>1, <3>2
  <2> QED
    BY <2>5, <2>6 DEF k, c
<1>7. f[p[0]] = b \o Stray(end)
  <2>1. Stray(end) \in Seq(Byte)
    BY CutType
  <2>2. f[p[Len(b)]] \in Seq(Byte)
    BY <1>5, <2>1
  <2>3. Chained(b, f, p)
    BY <1>6 DEF Chained
  <2> HIDE DEF N
  <2>4. f[p[0]] = b \o f[p[Len(b)]]
    BY <2>2, <2>3, HexChain, Zenon
  <2> QED
    BY <1>5, <2>4 DEF N
<1> QED
  BY <1>3, <1>7 DEF Writes

\* A text of digits, blanks and no zero, of at least one character.
IsText(h) == h \in Seq(Byte) /\ h # << >> /\ \A k \in 1..Len(h) : h[k] # 0

\* The digits of a byte are characters.
LEMMA DigitIsChar ==
    ASSUME NEW c \in 0..255, NEW letter \in {UpperA, LowerA}, MaxByte = 255
    PROVE  /\ HexDigit(c \div 16, letter) \in Byte /\ HexDigit(c \div 16, letter) # 0
           /\ HexDigit(c % 16, letter) \in Byte /\ HexDigit(c % 16, letter) # 0
<1>1. ASSUME NEW n \in 0..15
      PROVE  HexDigit(n, letter) \in 0..255 /\ HexDigit(n, letter) # 0
  BY SMT DEF HexDigit, UpperA, LowerA
<1> QED
  BY <1>1, NibblesOf DEF Byte

\* "%02X" writes the bytes,
LEMMA HexTextIs ==
    ASSUME NEW b \in Seq(Byte), b # << >>, NEW letter \in {UpperA, LowerA},
           MaxByte = 255
    PROVE  /\ IsText(HexText(b, letter))
           /\ Len(HexText(b, letter)) = 2 * Len(b)
           /\ Writes(HexText(b, letter), b, letter,
                     [j \in 0..Len(b) |-> 2 * j + 1])
<1> DEFINE N == Len(b)
           h == HexText(b, letter)
           p == [j \in 0..N |-> 2 * j + 1]
           hi(j) == HexDigit(b[j + 1] \div 16, letter)
           lo(j) == HexDigit(b[j + 1] % 16, letter)
<1>1. N \in Nat /\ N # 0 /\ \A k \in 1..N : b[k] \in 0..255
  BY EmptySeq, LenProperties, ElementOfSeq DEF Byte
<1>2. \A k \in 1..(2 * N) :
        h[k] = HexDigit(IF k % 2 = 1 THEN b[(k + 1) \div 2] \div 16
                        ELSE b[(k + 1) \div 2] % 16, letter)
  BY DEF HexText
<1>3. ASSUME NEW j \in 0..(N - 1)
      PROVE  /\ h[2 * j + 1] = hi(j) /\ h[2 * j + 2] = lo(j)
             /\ b[j + 1] \in 0..255
  <2>1. /\ 2 * j + 1 \in 1..(2 * N) /\ 2 * j + 2 \in 1..(2 * N) /\ j + 1 \in 1..N
        /\ (2 * j + 1) % 2 = 1 /\ ((2 * j + 1) + 1) \div 2 = j + 1
        /\ (2 * j + 2) % 2 # 1 /\ ((2 * j + 2) + 1) \div 2 = j + 1
    <3> HIDE DEF N
    <3> QED
      BY <1>1, SMT
  <2> HIDE DEF h
  <2> QED
    BY <1>1, <1>2, <2>1
<1>4. ASSUME NEW k \in 1..(2 * N)
      PROVE  h[k] \in Byte /\ h[k] # 0
  <2> DEFINE j == (k - 1) \div 2
  <2>1. j \in 0..(N - 1) /\ (k = 2 * j + 1 \/ k = 2 * j + 2)
    <3> HIDE DEF N
    <3> QED
      BY <1>1, SMT
  <2> HIDE DEF j, h
  <2> QED
    BY <1>3, <2>1, DigitIsChar
<1>5. h = [k \in 1..(2 * N) |-> h[k]]
  BY DEF HexText
<1>6. h \in Seq(Byte) /\ Len(h) = 2 * N
  <2> HIDE DEF h, N
  <2>1. h \in [1..(2 * N) -> Byte] /\ 2 * N \in Nat
    BY <1>1, <1>4, <1>5, SMT
  <2> QED
    BY <2>1, FunctionIsSeq, Zenon
<1> HIDE DEF h
<1>7. h # << >>
  BY <1>1, <1>6, EmptySeq, SMT
<1>8. IsText(h)
  BY <1>4, <1>6, <1>7 DEF IsText
<1>9. Writes(h, b, letter, p)
  <2>1. p[0] = 1 /\ p[N] = Len(h) + 1
    BY <1>1, <1>6, SMT
  <2>2. ASSUME NEW j \in 0..(N - 1)
        PROVE  /\ p[j] = 2 * j + 1 /\ p[j + 1] = p[j] + 2
               /\ p[j] \in Nat /\ 1 <= p[j] /\ p[j] + 1 <= Len(h)
               /\ h[p[j]] = hi(j) /\ h[p[j] + 1] = lo(j)
    <3>1. p[j] = 2 * j + 1 /\ p[j + 1] = 2 * j + 3
      <4>1. j \in 0..N /\ j + 1 \in 0..N /\ 2 * (j + 1) + 1 = 2 * j + 3
        BY <1>1, SMT
      <4> QED
        BY <4>1
    <3>2. /\ 2 * j + 3 = (2 * j + 1) + 2 /\ (2 * j + 1) + 1 = 2 * j + 2
          /\ 2 * j + 1 \in Nat /\ 1 <= 2 * j + 1 /\ (2 * j + 1) + 1 <= 2 * N
      BY <1>1, SMT
    <3> HIDE DEF p, N, hi, lo
    <3> QED
      BY <1>3, <1>6, <3>1, <3>2
  <2> HIDE DEF p
  <2> QED
    BY <2>1, <2>2 DEF Writes
<1> QED
  BY <1>6, <1>8, <1>9 DEF h

\* and so does a text with a blank between bytes.
LEMMA SpacedIs ==
    ASSUME NEW b \in Seq(Byte), b # << >>, MaxByte = 255
    PROVE  /\ IsText(Spaced(b))
           /\ Len(Spaced(b)) = 3 * Len(b) - 1
           /\ Writes(Spaced(b), b, UpperA,
                     [j \in 0..Len(b) |-> IF j = Len(b) THEN 3 * Len(b) ELSE 3 * j + 1])
<1> DEFINE N == Len(b)
           h == Spaced(b)
           p == [j \in 0..N |-> IF j = N THEN 3 * N ELSE 3 * j + 1]
           hi(j) == HexDigit(b[j + 1] \div 16, UpperA)
           lo(j) == HexDigit(b[j + 1] % 16, UpperA)
<1>1. N \in Nat /\ N # 0 /\ \A k \in 1..N : b[k] \in 0..255
  BY EmptySeq, LenProperties, ElementOfSeq DEF Byte
<1>2. \A k \in 1..(3 * N - 1) :
        h[k] = IF k % 3 = 0 THEN 32
               ELSE HexText(<<b[(k + 2) \div 3]>>, UpperA)[k % 3]
  BY DEF Spaced
<1>3. ASSUME NEW c
       PROVE  /\ HexText(<<c>>, UpperA)[1] = HexDigit(c \div 16, UpperA)
              /\ HexText(<<c>>, UpperA)[2] = HexDigit(c % 16, UpperA)
  <2>1. /\ 1 \in 1..(2 * 1) /\ 2 \in 1..(2 * 1) /\ 1 % 2 = 1 /\ 2 % 2 # 1
        /\ (1 + 1) \div 2 = 1 /\ (2 + 1) \div 2 = 1
    BY SMT
  <2>2. Len(<<c>>) = 1 /\ <<c>>[1] = c
    OBVIOUS
  <2> QED
    BY <2>1, <2>2 DEF HexText
<1>4. ASSUME NEW j \in 0..(N - 1)
      PROVE  /\ h[3 * j + 1] = hi(j) /\ h[3 * j + 2] = lo(j)
             /\ (j # N - 1 => h[3 * j + 3] = 32)
             /\ b[j + 1] \in 0..255
  <2>1. /\ 3 * j + 1 \in 1..(3 * N - 1) /\ 3 * j + 2 \in 1..(3 * N - 1)
        /\ j + 1 \in 1..N /\ (j # N - 1 => 3 * j + 3 \in 1..(3 * N - 1))
    <3> HIDE DEF N
    <3> QED
      BY <1>1, SMT
  <2>2. /\ (3 * j + 1) % 3 = 1 /\ ((3 * j + 1) + 2) \div 3 = j + 1
        /\ (3 * j + 2) % 3 = 2 /\ ((3 * j + 2) + 2) \div 3 = j + 1
        /\ (3 * j + 3) % 3 = 0
    <3> HIDE DEF N
    <3> QED
      BY <1>1, SMT
  <2>3. 1 # 0 /\ 2 # 0
    BY SMT
  <2> HIDE DEF h
  <2> QED
    BY <1>1, <1>2, <1>3, <2>1, <2>2, <2>3
<1>5. ASSUME NEW k \in 1..(3 * N - 1)
      PROVE  h[k] \in Byte /\ h[k] # 0
  <2> DEFINE j == (k - 1) \div 3
  <2>1. /\ j \in 0..(N - 1)
        /\ k = 3 * j + 1 \/ k = 3 * j + 2 \/ (k = 3 * j + 3 /\ j # N - 1)
    <3> HIDE DEF N
    <3> QED
      BY <1>1, SMT
  <2>2. 32 \in Byte /\ 32 # 0 /\ UpperA \in {UpperA, LowerA}
    BY SMT DEF Byte
  <2> HIDE DEF j, h
  <2> QED
    BY <1>4, <2>1, <2>2, DigitIsChar
<1>6. h = [k \in 1..(3 * N - 1) |-> h[k]]
  BY DEF Spaced
<1>7. h \in Seq(Byte) /\ Len(h) = 3 * N - 1
  <2> HIDE DEF h, N
  <2>1. h \in [1..(3 * N - 1) -> Byte] /\ 3 * N - 1 \in Nat
    BY <1>1, <1>5, <1>6, SMT
  <2> QED
    BY <2>1, FunctionIsSeq, Zenon
<1> HIDE DEF h
<1>8. h # << >>
  BY <1>1, <1>7, EmptySeq, SMT
<1>9. IsText(h)
  BY <1>5, <1>7, <1>8 DEF IsText
<1>10. Writes(h, b, UpperA, p)
  <2>1. p[0] = 1 /\ p[N] = Len(h) + 1
    BY <1>1, <1>7, SMT
  <2>2. ASSUME NEW j \in 0..(N - 1)
        PROVE  /\ p[j] \in Nat /\ 1 <= p[j] /\ p[j] + 1 <= Len(h)
               /\ h[p[j]] = hi(j) /\ h[p[j] + 1] = lo(j)
               /\ \/ p[j + 1] = p[j] + 2
                  \/ /\ p[j + 1] = p[j] + 3 /\ p[j] + 2 <= Len(h)
                     /\ h[p[j] + 2] = 32
    <3>1. /\ p[j] = 3 * j + 1
          /\ p[j + 1] = IF j = N - 1 THEN 3 * N ELSE 3 * j + 4
      <4>1. /\ j \in 0..N /\ j + 1 \in 0..N /\ 3 * (j + 1) + 1 = 3 * j + 4 /\ j # N
            /\ (j + 1 = N <=> j = N - 1)
        BY <1>1, SMT
      <4> QED
        BY <4>1
    <3>2. /\ 3 * j + 4 = (3 * j + 1) + 3 /\ (3 * j + 1) + 1 = 3 * j + 2
          /\ (j = N - 1 => 3 * N = (3 * j + 1) + 2)
          /\ (3 * j + 1) + 2 = 3 * j + 3
          /\ 3 * j + 1 \in Nat /\ 1 <= 3 * j + 1 /\ (3 * j + 1) + 1 <= 3 * N - 1
          /\ (j # N - 1 => (3 * j + 1) + 2 <= 3 * N - 1)
      BY <1>1, SMT
    <3> HIDE DEF p, N, hi, lo
    <3> QED
      BY <1>4, <1>7, <3>1, <3>2
  <2> HIDE DEF p
  <2> QED
    BY <2>1, <2>2 DEF Writes
<1> QED
  BY <1>7, <1>9, <1>10 DEF h

\* The bytes of a block come back from each of the texts in which the tool and
\* the signer write it: base64_encode, base64_decode and str_hex together.  An
\* end of line behind the text adds one byte.
THEOREM KeyRoundTrip ==
    ASSUME NEW b \in Seq(Byte), b # << >>, NEW hex \in TextsOf(b),
           NEW end \in LineEnds, MaxByte = 255
    PROVE  str_hex(base64_decode(base64_encode(hex) \o end)) = b \o Stray(end)
<1>1. PICK letter, p : letter \in {UpperA, LowerA} /\ IsText(hex) /\ Writes(hex, b, letter, p)
  BY HexTextIs, SpacedIs DEF TextsOf
<1>2. hex \in Seq(Byte) /\ hex # << >> /\ \A k \in 1..Len(hex) : hex[k] # 0
  BY <1>1 DEF IsText
<1>3. base64_decode(base64_encode(hex) \o end) = hex \o DecodedEnd(end)
  BY <1>2, TextRoundTrip
<1>4. PICK z \in Seq(Byte) : /\ DecodedEnd(end) = Cut(end) \o z
                             /\ z = << >> \/ z[1] = 0
  <2>1. 0 \in Byte
    BY SMT DEF Byte
  <2>2. /\ << >> \in Seq(Byte) /\ <<0>> \in Seq(Byte) /\ <<0, 0>> \in Seq(Byte)
        /\ <<0>>[1] = 0 /\ <<0, 0>>[1] = 0
    BY <2>1
  <2>3. << >> \o << >> = << >>
    OBVIOUS
  <2>4. <<252>> \o <<0, 0>> = <<252, 0, 0>> /\ <<255, 240>> \o <<0>> = <<255, 240, 0>>
    <3>1. \A x, y, w : <<x>> \o <<y, w>> = <<x, y, w>> /\ <<x, y>> \o <<w>> = <<x, y, w>>
      BY ThreeInAll
    <3> QED
      BY <3>1
  <2> QED
    BY <2>2, <2>3, <2>4 DEF DecodedEnd, Cut
<1>5. Cut(end) \in Seq(Byte) /\ \A k \in 1..Len(Cut(end)) : Cut(end)[k] # 0
  BY CutType
<1> DEFINE u == hex \o Cut(end)
<1>6. u \in Seq(Byte) /\ u # << >> /\ \A k \in 1..Len(u) : u[k] # 0
  <2>1. /\ u \in Seq(Byte) /\ Len(u) = Len(hex) + Len(Cut(end))
        /\ \A i \in 1..(Len(hex) + Len(Cut(end))) :
             u[i] = IF i <= Len(hex) THEN hex[i] ELSE Cut(end)[i - Len(hex)]
    BY <1>2, <1>5, ConcatProperties
  <2>2. Len(hex) \in Nat /\ Len(Cut(end)) \in Nat
    BY <1>2, <1>5, LenProperties
  <2>3. u # << >>
    BY <1>2, <1>5, ConcatEqualIffEmpty
  <2>4. ASSUME NEW i \in 1..(Len(hex) + Len(Cut(end)))
        PROVE  u[i] # 0
    <3>1. CASE i <= Len(hex)
      <4>1. i \in 1..Len(hex)
        BY <2>2, <3>1, SMT
      <4> QED
        BY <1>2, <2>1, <3>1, <4>1
    <3>2. CASE ~(i <= Len(hex))
      <4>1. i - Len(hex) \in 1..Len(Cut(end))
        BY <2>2, <3>2, SMT
      <4> QED
        BY <1>5, <2>1, <3>2, <4>1
    <3> QED
      BY <3>1, <3>2
  <2> QED
    BY <2>1, <2>3, <2>4
<1>7. CString(hex \o DecodedEnd(end)) = u
  <2>1. hex \o DecodedEnd(end) = u \o z
    <3> DEFINE c == Cut(end)
    <3>1. c \in Seq(Byte) /\ hex \in Seq(Byte) /\ z \in Seq(Byte)
      BY <1>2, <1>5
    <3> HIDE DEF c
    <3>2. hex \o (c \o z) = (hex \o c) \o z
      BY <3>1, ConcatAssociative
    <3> QED
      BY <1>4, <3>2 DEF c
  <2> HIDE DEF u
  <2> QED
    BY <1>4, <1>6, <2>1, CStringPrefix
<1>8. str_hex(hex \o DecodedEnd(end)) = b \o Stray(end)
  <2> DEFINE str == hex \o DecodedEnd(end)
  <2>1. CString(str) = hex \o Cut(end)
    BY <1>7
  <2> HIDE DEF str
  <2>2. str_hex(str) = b \o Stray(end)
    BY <1>1, <1>2, <2>1, TextRead
  <2> QED
    BY <2>2 DEF str
<1> QED
  BY <1>3, <1>8

-----------------------------------------------------------------------------
(* The padding byte of a second *)

\* The numbers rand makes of consecutive seeds differ by 16807, modulo RAND_MAX.
LEMMA ConsecutiveSeeds ==
    ASSUME NEW s \in Nat, 0 < s, s < MaxRand - 1
    PROVE  /\ rand(s) \in Int
           /\ \/ rand(s + 1) = rand(s) + 16807
              \/ rand(s + 1) = rand(s) + 16807 - MaxRand
<1>. DEFINE lo(n) == n % 127773
            hi(n) == n \div 127773
            x(n) == 16807 * lo(n) - 2836 * hi(n)
<1>1. ASSUME NEW n \in Nat
      PROVE  /\ lo(n) \in Nat /\ lo(n) < 127773 /\ hi(n) \in Nat
             /\ n = 127773 * hi(n) + lo(n)
  BY SMTT(30)
<1>2. ASSUME NEW n \in Nat, n # 0
      PROVE  rand(n) = IF x(n) < 0 THEN x(n) + MaxRand ELSE x(n)
  BY <1>2, SMTT(30) DEF rand
<1>3. s \in Nat /\ s # 0 /\ s + 1 \in Nat /\ s + 1 # 0 /\ s + 1 <= 2147483646
  BY SMTT(30) DEF MaxRand
<1>. DEFINE l == lo(s)
            h == hi(s)
            l1 == lo(s + 1)
            h1 == hi(s + 1)
<1>4. /\ l \in Nat /\ l < 127773 /\ h \in Nat /\ s = 127773 * h + l
      /\ l1 \in Nat /\ l1 < 127773 /\ h1 \in Nat /\ s + 1 = 127773 * h1 + l1
  BY <1>1, <1>3
<1>5. /\ rand(s) = IF 16807 * l - 2836 * h < 0
                   THEN 16807 * l - 2836 * h + MaxRand ELSE 16807 * l - 2836 * h
      /\ rand(s + 1) = IF 16807 * l1 - 2836 * h1 < 0
                       THEN 16807 * l1 - 2836 * h1 + MaxRand
                       ELSE 16807 * l1 - 2836 * h1
  BY <1>2, <1>3
<1>. HIDE DEF l, h, l1, h1
<1>6. \/ l1 = l + 1 /\ h1 = h
      \/ l = 127772 /\ l1 = 0 /\ h1 = h + 1
  BY <1>3, <1>4, SMTT(30)
<1>7. h <= 16807 /\ h1 <= 16807
  BY <1>3, <1>4, SMTT(30)
<1>. QED BY <1>4, <1>5, <1>6, <1>7, SMTT(30) DEF MaxRand

\* A second that gives a zero byte is followed by one that does not: the loop of
\* rsa_public_encrypt waits for the next second and never for a third.
THEOREM NoTwoZeroSeconds ==
    ASSUME NEW s \in Nat, 0 < s, s < MaxRand - 1, rand(s) % 256 = 0
    PROVE  rand(s + 1) % 256 # 0
<1>. DEFINE x == rand(s)
            y == rand(s + 1)
<1>1. x \in Int /\ (y = x + 16807 \/ y = x + 16807 - 2147483647)
  BY ConsecutiveSeeds, SMTT(30) DEF MaxRand
<1>2. x % 256 = 0
  OBVIOUS
<1>. HIDE DEF x, y
<1>3. y % 256 \in {167, 168}
  BY <1>1, <1>2, SMTT(30)
<1>. QED BY <1>3, SMTT(30) DEF y

\* A clock that cannot be read gives a byte at once.
THEOREM DeadClockGivesByte == generate_rand(NoTime) = 66
BY SMTT(30) DEF generate_rand, timeX, NoTime, rand, MaxRand

-----------------------------------------------------------------------------
(* The calendar *)

\* The recursion over the years has a value for every year.
LEMMA YearsAddUp ==
    /\ DaysBefore[1970] = 0
    /\ \A y \in 1971..LastYear :
         DaysBefore[y] = DaysBefore[y - 1] + CumulativeDays(y - 1)[13]
    /\ \A y \in 1970..LastYear : DaysBefore[y] \in Int
<1> DEFINE Y == 1970
           N == LastYear - Y
           V == Int
           base == 0
           Days(y) == CumulativeDays(y)[13]
           Pass(v, y) == v + Days(y - 1)
           F == [x \in V \X (1..N) |-> Pass(x[1], x[2] + Y)]
           Is(f) == f = [y \in Y..LastYear |->
                            IF y = Y THEN base ELSE Pass(f[y - 1], y)]
<1>1. \A v \in V, y \in Int : Pass(v, y) \in V
  BY SMT DEF CumulativeDays
<1>2. N \in Nat /\ base \in V
  BY SMT DEF LastYear, Y
<1>3. DaysBefore = CHOOSE f : Is(f)
  BY DEF DaysBefore
<1>4. /\ \A y \in Y..LastYear : y = Y \/ (y \in (Y + 1)..LastYear /\ y # Y)
      /\ \A y \in (Y + 1)..LastYear : y \in Y..LastYear /\ y - 1 \in Y..LastYear
      /\ Y \in Y..LastYear
  BY SMT DEF LastYear, Y
<1>5. ASSUME NEW n \in 1..N
       PROVE  n - 1 \in 0..N /\ n \in 0..N /\ n + Y \in Int
  BY SMT DEF LastYear, Y
<1>6. ASSUME NEW y \in (Y + 1)..LastYear
       PROVE  /\ y - Y \in 1..N /\ (y - 1) - Y = (y - Y) - 1
              /\ (y - Y) + Y = y /\ y # Y
  BY SMT DEF LastYear, Y
<1> HIDE DEF V, N, base, Pass, Y
<1>7. F \in [V \X (1..N) -> V]
  BY <1>1, <1>5
<1>8. \A v \in V, n \in 1..N : F[<<v, n>>] = Pass(v, n + Y)
  OBVIOUS
<1> HIDE DEF F
<1>9. PICK g \in [0..N -> V] : IsLoop(g, N, base, F)
  BY <1>2, <1>7, LoopExists
<1>10. \E f : Is(f)
  <2> DEFINE h == [y \in Y..LastYear |-> g[y - Y]]
  <2>1. g[0] = base /\ \A n \in 1..N : g[n] = F[<<g[n - 1], n>>]
    BY <1>9 DEF IsLoop
  <2>2. \A n \in 1..N : g[n - 1] \in V
    BY <1>9, <1>5
  <2>3. ASSUME NEW n \in 1..N
        PROVE  g[n] = Pass(g[n - 1], n + Y)
    <3>1. g[n] = F[<<g[n - 1], n>>] /\ g[n - 1] \in V
      BY <2>1, <2>2
    <3>2. F[<<g[n - 1], n>>] = Pass(g[n - 1], n + Y)
      BY <1>8, <3>1, Zenon
    <3> QED
      BY <3>1, <3>2
  <2>4. ASSUME NEW y \in (Y + 1)..LastYear
        PROVE  g[y - Y] = Pass(g[(y - 1) - Y], y)
    <3>1. g[y - Y] = Pass(g[(y - Y) - 1], (y - Y) + Y)
      BY <1>6, <2>3
    <3> QED
      BY <1>6, <3>1
  <2>5. ASSUME NEW y \in (Y + 1)..LastYear
        PROVE  h[y] = Pass(h[y - 1], y)
    BY <1>4, <2>4
  <2>6. h[Y] = base
    <3>1. h[Y] = g[Y - Y]
      BY <1>4
    <3>2. Y - Y = 0
      BY SMT DEF Y
    <3> QED
      BY <2>1, <3>1, <3>2
  <2>7. \A y \in Y..LastYear :
          h[y] = IF y = Y THEN base ELSE Pass(h[y - 1], y)
    <3> HIDE DEF h
    <3> QED
      BY <1>4, <2>5, <2>6
  <2>8. h = [y \in Y..LastYear |->
               IF y = Y THEN base ELSE Pass(h[y - 1], y)]
    <3> DEFINE r(y) == IF y = Y THEN base ELSE Pass(h[y - 1], y)
    <3>1. \A y \in Y..LastYear : g[y - Y] = r(y)
      BY <2>7
    <3> HIDE DEF r
    <3>2. [y \in Y..LastYear |-> g[y - Y]] = [y \in Y..LastYear |-> r(y)]
      BY <3>1
    <3> QED
      BY <3>2, Zenon DEF r, h
  <2>9. Is(h)
    BY <2>8, Zenon
  <2> HIDE DEF h, Is
  <2> QED
    BY <2>9, Zenon
<1>11. PICK f : f = DaysBefore /\ Is(f)
  BY <1>3, <1>10
<1>12. f[Y] = base /\ \A y \in (Y + 1)..LastYear : f[y] = Pass(f[y - 1], y)
  BY <1>4, <1>11
<1>13. \A n \in 0..N : f[n + Y] \in V
  <2> DEFINE e == [n \in 0..N |-> f[n + Y]]
  <2>1. e[0] \in V
    <3>1. 0 \in 0..N /\ 0 + Y = Y
      BY <1>2, SMT DEF Y
    <3> QED
      BY <1>2, <1>12, <3>1
  <2>2. ASSUME NEW n \in 1..N, e[n - 1] \in V PROVE e[n] \in V
    <3>1. /\ n + Y \in (Y + 1)..LastYear /\ (n + Y) - 1 = (n - 1) + Y
          /\ n + Y \in Int
      BY SMT DEF N, LastYear, Y
    <3>2. f[n + Y] = Pass(f[(n - 1) + Y], n + Y)
      BY <1>12, <3>1
    <3>3. f[n + Y] = e[n] /\ f[(n - 1) + Y] = e[n - 1]
      BY <1>5
    <3> QED
      BY <1>1, <2>2, <3>1, <3>2, <3>3
  <2> HIDE DEF e
  <2>3. \A n \in 0..N : e[n] \in V
    BY <1>2, <2>1, <2>2, LoopType
  <2> QED
    BY <2>3 DEF e
<1>14. \A y \in Y..LastYear : f[y] \in V
  <2>1. ASSUME NEW y \in Y..LastYear
        PROVE  y - Y \in 0..N /\ (y - Y) + Y = y
    BY SMT DEF N, LastYear, Y
  <2>2. ASSUME NEW y \in Y..LastYear
        PROVE  f[y] \in V
    <3>1. f[(y - Y) + Y] \in V
      BY <1>13, <2>1
    <3> QED
      BY <2>1, <3>1
  <2> QED
    BY <2>2
<1> QED
  BY <1>11, <1>12, <1>14 DEF V, base, Pass, Y

\* The table of the days before each month is the calendar's.
LEMMA MonthsAddUp ==
    ASSUME NEW y \in Int
    PROVE  /\ \A m \in 1..13 : CumulativeDays(y)[m] \in Int
           /\ \A m \in 1..12 :
                CumulativeDays(y)[m + 1] = CumulativeDays(y)[m] + DaysIn(y, m)
           /\ CumulativeDays(y)[1] = 0
<1>1. IsLeap(y) <=> ((y % 4 = 0 /\ y % 100 # 0) \/ y % 400 = 0)
  BY SMT DEF IsLeap
<1>2. /\ \A m \in 1..13 : m \in {1,2,3,4,5,6,7,8,9,10,11,12,13}
      /\ \A m \in 1..12 : m \in {1,2,3,4,5,6,7,8,9,10,11,12}
  BY SMT
<1> DEFINE leap == IF IsLeap(y) THEN 1 ELSE 0
<1>3. leap \in {0, 1} /\ DaysIn(y, 2) = 28 + leap
  BY <1>1 DEF DaysIn
<1>4. CumulativeDays(y) =
        <<0, 31, 59 + leap, 90 + leap, 120 + leap, 151 + leap, 181 + leap,
          212 + leap, 243 + leap, 273 + leap, 304 + leap, 334 + leap,
          365 + leap>>
  BY DEF CumulativeDays
<1>5. /\ DaysIn(y, 1) = 31 /\ DaysIn(y, 3) = 31 /\ DaysIn(y, 4) = 30
      /\ DaysIn(y, 5) = 31 /\ DaysIn(y, 6) = 30 /\ DaysIn(y, 7) = 31
      /\ DaysIn(y, 8) = 31 /\ DaysIn(y, 9) = 30 /\ DaysIn(y, 10) = 31
      /\ DaysIn(y, 11) = 30 /\ DaysIn(y, 12) = 31
  BY DEF DaysIn
<1> HIDE DEF leap
<1> QED
  BY <1>2, <1>3, <1>4, <1>5, SMT

\* A month has 28 to 31 days.
LEMMA DaysInMonth ==
    ASSUME NEW y \in Int, NEW m \in 1..12
    PROVE  DaysIn(y, m) \in 28..31 /\ DaysIn(y, 1) = 31 /\ DaysIn(y, 12) = 31
BY SMT DEF DaysIn

\* timeX of a time with a year the loop reaches.
LEMMA SecondsOf ==
    ASSUME NEW t \in Times, 1970 <= t.year
    PROVE  /\ timeX(t) \in Int
           /\ timeX(t) =
                (DaysBefore[t.year] + CumulativeDays(t.year)[t.month] + t.day - 1)
                  * 86400
                + (IF t.zone = Unspecified THEN 0 ELSE t.zone * 60)
                + t.hour * 3600 + t.minute * 60 + t.second
<1>1. /\ t.year \in 1970..LastYear /\ t.month \in 1..13 /\ t.day \in 1..31
      /\ t.hour \in Int /\ t.minute \in Int /\ t.second \in Int /\ t.zone \in Int
      /\ t.year \in Int
  BY SMT DEF Times, LastYear
<1>2. DaysBefore[t.year] \in Int /\ CumulativeDays(t.year)[t.month] \in Int
  BY <1>1, YearsAddUp, MonthsAddUp
<1> QED
  BY <1>1, <1>2, SMT DEF timeX

\* One second more, wherever the times are in the calendar: over the ends of
\* months and years and leap days the clock stays in its calendar, and timeX
\* grows by one.
THEOREM SecondsAreCounted ==
    ASSUME NEW t \in Times, Valid(t), NextSecond(t).year <= LastYear
    PROVE  /\ NextSecond(t) \in Times /\ Valid(NextSecond(t))
           /\ t.year >= 1970 => timeX(NextSecond(t)) = timeX(t) + 1
<1> DEFINE u == NextSecond(t)
           y == t.year
           m == t.month
<1>1. /\ y \in Int /\ m \in 1..12 /\ t.day \in 1..31 /\ t.hour \in 0..23
      /\ t.minute \in 0..59 /\ t.second \in 0..59 /\ t.zone \in Int
      /\ y = 0 \/ y \in 1900..LastYear
      /\ t.day <= DaysIn(y, m)
      /\ t = [year |-> y, month |-> m, day |-> t.day, hour |-> t.hour,
              minute |-> t.minute, second |-> t.second, zone |-> t.zone]
  BY SMT DEF Times, Valid, LastYear
<1>2. CASE y = 0
  BY <1>2 DEF NextSecond
<1>3. CASE y # 0
  \* What the clock shows next: all fields before the first that is not at its
  \* end begin anew.
  <2> DEFINE At(yy, mm, d, h, i, s) ==
               [year |-> yy, month |-> mm, day |-> d, hour |-> h,
                minute |-> i, second |-> s, zone |-> t.zone]
  <2>1. DaysIn(y, m) \in 28..31 /\ DaysIn(y, 12) = 31
    BY <1>1, DaysInMonth
  <2>2. u = IF t.second < 59 THEN At(y, m, t.day, t.hour, t.minute, t.second + 1)
            ELSE IF t.minute < 59 THEN At(y, m, t.day, t.hour, t.minute + 1, 0)
            ELSE IF t.hour < 23 THEN At(y, m, t.day, t.hour + 1, 0, 0)
            ELSE IF t.day < DaysIn(y, m) THEN At(y, m, t.day + 1, 0, 0, 0)
            ELSE IF m < 12 THEN At(y, m + 1, 1, 0, 0, 0)
            ELSE At(y + 1, 1, 1, 0, 0, 0)
    BY <1>3 DEF NextSecond
  <2> DEFINE Good(w) == /\ w \in Times /\ Valid(w)
                        /\ y >= 1970 => timeX(w) = timeX(t) + 1
             Sum(yy, mm, d, h, i, s) ==
               (DaysBefore[yy] + CumulativeDays(yy)[mm] + d - 1) * 86400
                 + h * 3600 + i * 60 + s
             Now == Sum(y, m, t.day, t.hour, t.minute, t.second)
  <2>3. ASSUME NEW yy, NEW mm, NEW d, NEW h, NEW i, NEW s, yy \in Int,
               mm \in 1..12, d \in 1..31, h \in 0..23, i \in 0..59, s \in 0..59,
               yy \in 1900..LastYear, d <= DaysIn(yy, mm),
               y >= 1970 =>
                 /\ yy >= 1970
                 /\ Sum(yy, mm, d, h, i, s) = Now + 1
        PROVE  Good(At(yy, mm, d, h, i, s))
    <3> DEFINE w == At(yy, mm, d, h, i, s)
    <3>1. /\ w.year = yy /\ w.month = mm /\ w.day = d /\ w.hour = h
          /\ w.minute = i /\ w.second = s /\ w.zone = t.zone
      OBVIOUS
    <3>2. w \in Times
      BY <1>1, <2>3 DEF Times
    <3> HIDE DEF w
    <3>3. yy # 0
      BY <2>3, SMT
    <3>4. Valid(w)
      BY <2>3, <3>1, <3>2, <3>3 DEF Valid
    <3>5. ASSUME y >= 1970
          PROVE  timeX(w) = timeX(t) + 1
      <4> DEFINE A == (DaysBefore[yy] + CumulativeDays(yy)[mm] + d - 1) * 86400
                 B == (DaysBefore[y] + CumulativeDays(y)[m] + t.day - 1) * 86400
                 z == IF t.zone = Unspecified THEN 0 ELSE t.zone * 60
      <4>1. timeX(w) = A + z + h * 3600 + i * 60 + s
        BY <2>3, <3>1, <3>2, <3>5, SecondsOf
      <4>2. timeX(t) = B + z + t.hour * 3600 + t.minute * 60 + t.second
        BY <3>5, SecondsOf
      <4>3. yy \in 1970..LastYear /\ y \in 1970..LastYear
        BY <1>1, <2>3, <3>5, SMT
      <4>4. A \in Int /\ B \in Int /\ z \in Int
        <5>1. /\ DaysBefore[yy] \in Int /\ DaysBefore[y] \in Int
              /\ CumulativeDays(yy)[mm] \in Int /\ CumulativeDays(y)[m] \in Int
          <6>1. mm \in 1..13 /\ m \in 1..13
            BY <1>1, <2>3, SMT
          <6> QED
            BY <1>1, <4>3, <6>1, YearsAddUp, MonthsAddUp
        <5>2. t.day \in Int /\ d \in Int
          BY <1>1, <2>3, SMT
        <5>3. t.zone \in Int
          BY <1>1
        <5> QED
          BY <5>1, <5>2, <5>3, SMT
      <4>5. A + h * 3600 + i * 60 + s
              = B + t.hour * 3600 + t.minute * 60 + t.second + 1
        BY <2>3, <3>5
      <4> HIDE DEF A, B, z
      <4> QED
        <5>1. t.hour \in Int /\ t.minute \in Int /\ t.second \in Int
          BY <1>1, SMT
        <5>2. h \in Int /\ i \in Int /\ s \in Int
          BY <2>3, SMT
        <5>3. timeX(w) = (A + h * 3600 + i * 60 + s) + z
          BY <4>1, <4>4, <5>2, SMT
        <5>4. timeX(t) + 1
                = (B + t.hour * 3600 + t.minute * 60 + t.second + 1) + z
          BY <4>2, <4>4, <5>1, SMT
        <5> QED
          BY <4>5, <5>3, <5>4
    <3> QED
      BY <3>2, <3>4, <3>5 DEF w
  <2> SUFFICES Good(u)
    OBVIOUS
  <2> HIDE DEF Good, At, Sum, Now
  <2>4. y \in 1900..LastYear /\ y \in Int
    BY <1>1, <1>3
  <2> DEFINE days == DaysBefore[y]
             before == CumulativeDays(y)[m]
             K == (days + before + t.day - 1) * 86400
             H == t.hour * 3600
             I == t.minute * 60
  <2>5. /\ before \in Int /\ H \in Int /\ I \in Int /\ t.second \in Int
        /\ t.day \in Int /\ t.hour \in Int /\ t.minute \in Int
        /\ y >= 1970 => days \in Int /\ K \in Int
    <3>1. y >= 1970 => y \in 1970..LastYear
      BY <2>4, SMT
    <3>2. before \in Int /\ (y >= 1970 => days \in Int)
      BY <1>1, <2>4, <3>1, YearsAddUp, MonthsAddUp
    <3> HIDE DEF days, before
    <3> QED
      BY <1>1, <3>2, SMT
  <2>6. y >= 1970 => Now = K + H + I + t.second
    BY DEF Now, Sum
  <2>7. /\ m \in Int /\ t.day \in Int /\ t.hour \in Int /\ t.minute \in Int
         /\ t.second \in Int
         /\ m \in 1..12 /\ t.day \in 1..31 /\ t.hour \in 0..23
         /\ t.minute \in 0..59 /\ t.second \in 0..59
         /\ t.day <= DaysIn(y, m)
    BY <1>1, SMT
  <2>8. CASE t.second < 59
    <3>1. t.second + 1 \in 0..59
      BY <1>1, <2>8, SMT
    <3>2. y >= 1970 => Sum(y, m, t.day, t.hour, t.minute, t.second + 1) = Now + 1
      <4>1. Sum(y, m, t.day, t.hour, t.minute, t.second + 1)
              = K + H + I + (t.second + 1)
        BY DEF Sum
      <4> HIDE DEF K, H, I
      <4> QED
        BY <2>5, <2>6, <4>1, SMT
    <3>3. Good(At(y, m, t.day, t.hour, t.minute, t.second + 1))
      BY <2>3, <2>4, <2>7, <3>1, <3>2
    <3>4. u = At(y, m, t.day, t.hour, t.minute, t.second + 1)
      BY <1>1, <2>2, <2>8, SMT
    <3> QED
      BY <3>3, <3>4
  <2>9. CASE t.second = 59 /\ t.minute < 59
    <3>1. t.minute + 1 \in 0..59 /\ 0 \in 0..59
      BY <1>1, <2>9, SMT
    <3>2. y >= 1970 => Sum(y, m, t.day, t.hour, t.minute + 1, 0) = Now + 1
      <4>1. Sum(y, m, t.day, t.hour, t.minute + 1, 0)
              = K + H + (t.minute + 1) * 60 + 0
        BY DEF Sum
      <4> HIDE DEF K, H
      <4> QED
        BY <2>5, <2>9, <2>6, <4>1, SMT
    <3>3. Good(At(y, m, t.day, t.hour, t.minute + 1, 0))
      BY <2>3, <2>4, <2>7, <3>1, <3>2
    <3>4. u = At(y, m, t.day, t.hour, t.minute + 1, 0)
      BY <1>1, <2>2, <2>9, SMT
    <3> QED
      BY <3>3, <3>4
  <2>10. CASE t.second = 59 /\ t.minute = 59 /\ t.hour < 23
    <3>1. t.hour + 1 \in 0..23 /\ 0 \in 0..59
      BY <1>1, <2>10, SMT
    <3>2. y >= 1970 => Sum(y, m, t.day, t.hour + 1, 0, 0) = Now + 1
      <4>1. Sum(y, m, t.day, t.hour + 1, 0, 0)
              = K + (t.hour + 1) * 3600 + 0 * 60 + 0
        BY DEF Sum
      <4> HIDE DEF K
      <4> QED
        BY <2>5, <2>10, <2>6, <4>1, SMT
    <3>3. Good(At(y, m, t.day, t.hour + 1, 0, 0))
      BY <2>3, <2>4, <2>7, <3>1, <3>2
    <3>4. u = At(y, m, t.day, t.hour + 1, 0, 0)
      BY <1>1, <2>2, <2>10, SMT
    <3> QED
      BY <3>3, <3>4
  <2>11. CASE t.second = 59 /\ t.minute = 59 /\ t.hour = 23
    <3>1. 0 \in 0..59 /\ 0 \in 0..23
      BY SMT
    <3>2. CASE t.day < DaysIn(y, m)
      <4>1. t.day + 1 \in 1..31 /\ t.day + 1 <= DaysIn(y, m)
        BY <1>1, <2>1, <3>2, SMT
      <4>2. y >= 1970 =>
              Sum(y, m, t.day + 1, 0, 0, 0) = Now + 1
        <5>1. Sum(y, m, t.day + 1, 0, 0, 0)
                = (days + before + (t.day + 1) - 1) * 86400 + 0 * 3600 + 0 * 60 + 0
          BY DEF Sum
        <5> HIDE DEF days, before
        <5> QED
          BY <2>5, <2>11, <2>6, <5>1, SMT
      <4>3. Good(At(y, m, t.day + 1, 0, 0, 0))
        BY <2>3, <2>4, <2>7, <3>1, <4>1, <4>2
      <4>4. u = At(y, m, t.day + 1, 0, 0, 0)
        BY <1>1, <2>1, <2>2, <2>11, <3>2, SMT
      <4> QED
        BY <4>3, <4>4
    <3>3. CASE t.day = DaysIn(y, m) /\ m < 12
      <4>1. m + 1 \in 1..12 /\ 1 \in 1..31 /\ 1 <= DaysIn(y, m + 1)
        BY <1>1, <2>4, <3>3, DaysInMonth, SMT
      <4>2. CumulativeDays(y)[m + 1] = before + t.day
        BY <1>1, <2>4, <3>3, MonthsAddUp, SMT
      <4>3. y >= 1970 =>
              Sum(y, m + 1, 1, 0, 0, 0) = Now + 1
        BY <2>5, <2>11, <4>2, SMT DEF Sum, Now
      <4>4. Good(At(y, m + 1, 1, 0, 0, 0))
        BY <2>3, <2>4, <2>7, <3>1, <4>1, <4>2, <4>3
      <4>5. u = At(y, m + 1, 1, 0, 0, 0)
        BY <1>1, <2>1, <2>2, <2>11, <3>3, SMT
      <4> QED
        BY <4>4, <4>5
    <3>4. CASE t.day = DaysIn(y, m) /\ m = 12
      <4>1. u = At(y + 1, 1, 1, 0, 0, 0)
        BY <1>1, <2>1, <2>2, <2>11, <3>4
      <4>2. y + 1 <= LastYear
        BY <4>1 DEF At
      <4>3. /\ y + 1 \in Int /\ y + 1 \in 1900..LastYear /\ 1 \in 1..12 /\ 1 \in 1..31
            /\ 1 <= DaysIn(y + 1, 1)
        BY <2>4, <4>2, DaysInMonth, SMT
      <4>4. y >= 1970 =>
              /\ y + 1 >= 1970
              /\ DaysBefore[y + 1] = days + CumulativeDays(y)[13]
              /\ CumulativeDays(y)[13] = before + 31
              /\ CumulativeDays(y + 1)[1] = 0
        <5>1. y >= 1970 => y + 1 \in 1971..LastYear /\ (y + 1) - 1 = y /\ y + 1 >= 1970
          BY <2>4, <4>2, SMT
        <5>2. CumulativeDays(y)[12 + 1] = CumulativeDays(y)[12] + DaysIn(y, 12)
          BY <2>4, MonthsAddUp
        <5>3. 12 + 1 = 13
          BY SMT
        <5>4. CumulativeDays(y + 1)[1] = 0
          BY <4>3, MonthsAddUp
        <5> QED
          BY <2>1, <3>4, <5>1, <5>2, <5>3, <5>4, YearsAddUp
      <4>5. y >= 1970 =>
              y + 1 >= 1970 /\ Sum(y + 1, 1, 1, 0, 0, 0) = Now + 1
        <5>1. Sum(y + 1, 1, 1, 0, 0, 0)
                = (DaysBefore[y + 1] + CumulativeDays(y + 1)[1] + 1 - 1) * 86400
                    + 0 * 3600 + 0 * 60 + 0
          BY DEF Sum
        <5>2. ASSUME y >= 1970
              PROVE  Sum(y + 1, 1, 1, 0, 0, 0) =
                       (days + (before + 31) + 0 + 1 - 1) * 86400
                         + 0 * 3600 + 0 * 60 + 0
          BY <4>4, <5>1, <5>2
        <5> HIDE DEF days, before
        <5> QED
          BY <2>1, <2>4, <2>5, <2>11, <2>6, <3>4, <5>2, SMT
      <4>6. Good(At(y + 1, 1, 1, 0, 0, 0))
        BY <2>3, <3>1, <4>3, <4>5
      <4> QED
        BY <4>1, <4>6
    <3> QED
      BY <1>1, <2>1, <3>2, <3>3, <3>4, SMT
  <2>12. \/ t.second < 59
         \/ t.second = 59 /\ t.minute < 59
         \/ t.second = 59 /\ t.minute = 59 /\ t.hour < 23
         \/ t.second = 59 /\ t.minute = 59 /\ t.hour = 23
    BY <1>1, SMT
  <2> QED
    BY <2>8, <2>9, <2>10, <2>11, <2>12, Zenon
<1> QED
  BY <1>2, <1>3

\* Whatever the clock shows, generate_rand makes a byte of it.
LEMMA RandIsByte ==
    ASSUME NEW t, Valid(t)
    PROVE  timeX(t) \in Int /\ generate_rand(t) \in Byte
<1>1. t \in Times /\ t.year \in Int
  BY SMT DEF Valid, Times, LastYear
<1>2. timeX(t) \in Int
  <2>1. CASE t.year < 1970
    BY <2>1, SMT DEF timeX
  <2>2. CASE ~(t.year < 1970)
    <3>1. 1970 <= t.year
      BY <1>1, <2>2, SMT
    <3> QED
      BY <1>1, <3>1, SecondsOf
  <2> QED
    BY <2>1, <2>2
<1>3. ASSUME NEW n \in Int
      PROVE  rand(n) \in Int
  BY SMT DEF rand, MaxRand
<1>4. ASSUME NEW x \in Int
      PROVE  x % 256 \in Int /\ 0 <= x % 256 /\ x % 256 <= 255
  BY SMT
<1>5. generate_rand(t) \in Int /\ 0 <= generate_rand(t) /\ generate_rand(t) <= 255
  BY <1>2, <1>3, <1>4 DEF generate_rand
<1> QED
  BY <1>2, <1>5, Bytes, SMT DEF Byte

\* The clock shows a time of the calendar.
ClockInv == Valid(time) /\ ticks \in 0..MaxTicks

\* It does at the start,
LEMMA ClockInit == Init => ClockInv
BY SealAssumption, SMT DEF Init, ClockInv

\* and after every step; only Tick moves it, by one second.
LEMMA ClockStep ==
    ASSUME ClockInv, [Next]_vars
    PROVE  /\ ClockInv'
           /\ time.year >= 1970 /\ time' # time => timeX(time') = timeX(time) + 1
<1>1. CASE Tick
  <2>1. /\ ticks < MaxTicks /\ ticks' = ticks + 1
        /\ time' = NextSecond(time) /\ NextSecond(time).year <= LastYear
    BY <1>1 DEF Tick
  <2>2. /\ Valid(time')
        /\ time.year >= 1970 => timeX(time') = timeX(time) + 1
    <3>1. time \in Times /\ Valid(time)
      BY DEF ClockInv, Valid
    <3> QED
      BY <2>1, <3>1, SecondsAreCounted
  <2>3. ticks' \in 0..MaxTicks
    BY <2>1, SealAssumption, SMT DEF ClockInv
  <2> QED
    BY <2>2, <2>3 DEF ClockInv
<1>2. CASE UNCHANGED <<time, ticks>>
  BY <1>2 DEF ClockInv
<1>3. Tick \/ UNCHANGED <<time, ticks>>
  BY DEF Next, vars, clock, DumpByte, HashData, DrawByte, DrawAgain, Encrypt, Sign,
     ReadKey, DecryptKey, Terminated
<1> QED
  BY <1>1, <1>2, <1>3

\* timeX advances by one with every second in every run, from every start in the
\* calendar: SecondsAdvance.
THEOREM SecondsAdvanceByOne == Spec => SecondsAdvance
<1>1. ClockInv /\ [Next]_vars =>
        [time.year >= 1970 /\ time' # time => timeX(time') = timeX(time) + 1]_time
  BY ClockStep
<1>2. ClockInv /\ [Next]_vars => ClockInv'
  BY ClockStep
<1> QED
  BY <1>1, <1>2, ClockInit, PTL DEF Spec, SecondsAdvance

-----------------------------------------------------------------------------
(* HexToString *)

\* The lines that are full when k bytes are printed, seen from the next byte:
\* a line break is written only when another byte follows.
Breaks(k, lines) ==
    /\ lines * LineWidth <= k
    /\ k > 0 => lines * LineWidth < k /\ k <= (lines + 1) * LineWidth

\* How far the loop is in the data and in the string.
DumpInv ==
    /\ inSize \in Nat /\ hexIndex \in Nat /\ index \in Nat
    /\ pc = "dump" => hexIndex < inSize
    /\ pc \in {"dump", "dumped"} =>
         /\ hexIndex <= inSize
         /\ \E lines \in Nat : index = 3 * hexIndex + lines /\ Breaks(hexIndex, lines)

\* Where k stands between two multiples of L.
LEMMA Multiples ==
    ASSUME NEW L \in Nat, L > 0, NEW k \in Nat, NEW m \in Nat,
           m * L <= k, k <= (m + 1) * L
    PROVE  /\ k % L = 0 /\ m * L < k => k = (m + 1) * L
           /\ k % L # 0 => k < (m + 1) * L
<1>. DEFINE d == k \div L
            r == k % L
<1>1. d \in Nat /\ r \in Nat /\ r < L /\ k = L * d + r
  OBVIOUS
<1>. HIDE DEF d, r
<1>2. m <= d
  <2>1. SUFFICES ASSUME m >= d + 1 PROVE FALSE
    BY <1>1
  <2>2. (m - (d + 1)) * L >= 0
    BY <2>1, <1>1
  <2>. QED BY <2>2, <1>1
<1>3. ASSUME k = (m + 1) * L PROVE r = 0
  <2>1. r = L * (m + 1 - d)
    BY <1>1, <1>3
  <2>2. m + 1 - d > 0 => L * (m + 1 - d) >= L
    BY <1>1
  <2>. QED BY <2>1, <2>2, <1>1, <1>2
<1>4. ASSUME r = 0, m * L < k PROVE k = (m + 1) * L
  <2>1. m # d
    BY <1>1, <1>4
  <2>2. (d - (m + 1)) * L >= 0
    BY <2>1, <1>1, <1>2
  <2>. QED BY <2>2, <1>1, <1>4
<1>. QED BY <1>1, <1>2, <1>3, <1>4 DEF d, r

\* Nothing is printed yet.
LEMMA DumpInitial == Init => DumpInv
<1>. SUFFICES ASSUME Init PROVE DumpInv
  OBVIOUS
<1>1. inSize \in Nat /\ inSize > 0 /\ hexIndex = 0 /\ index = 0
  BY SizesAssumption DEF Init
<1>2. Breaks(0, 0)
  BY SizesAssumption DEF Breaks
<1>. QED BY <1>1, <1>2 DEF DumpInv

\* The loop keeps its place.
LEMMA DumpStep == DumpInv /\ [Next]_vars => DumpInv'
<1>. SUFFICES ASSUME DumpInv, [Next]_vars PROVE DumpInv'
  OBVIOUS
<1>1. CASE DumpByte
  <2>1. PICK lines \in Nat : index = 3 * hexIndex + lines /\ Breaks(hexIndex, lines)
    BY <1>1 DEF DumpInv, DumpByte
  <2>2. /\ inSize \in Nat /\ hexIndex \in Nat /\ hexIndex < inSize
        /\ inSize' = inSize /\ hexIndex' = hexIndex + 1
        /\ index' = index + (IF hexIndex % LineWidth = 0 /\ hexIndex # 0 THEN 4 ELSE 3)
        /\ pc' = IF hexIndex + 1 < inSize THEN "dump" ELSE "dumped"
    BY <1>1 DEF DumpInv, DumpByte
  <2>3. LineWidth \in Nat /\ LineWidth > 0
    BY SizesAssumption
  <2>4. \E n \in Nat : index' = 3 * hexIndex' + n /\ Breaks(hexIndex', n)
    <3>1. CASE hexIndex = 0
      <4>1. lines = 0
        <5>1. lines * LineWidth <= 0
          BY <2>1, <3>1 DEF Breaks
        <5>2. lines > 0 => lines * LineWidth >= LineWidth
          BY <2>3
        <5>. QED BY <5>1, <5>2, <2>3
      <4>2. index' = 3 * hexIndex' + 0 /\ hexIndex' = 1
        BY <4>1, <2>1, <2>2, <3>1
      <4>3. Breaks(1, 0)
        BY <2>3 DEF Breaks
      <4>. QED BY <4>2, <4>3
    <3>2. CASE hexIndex # 0 /\ hexIndex % LineWidth = 0
      <4>1. hexIndex = (lines + 1) * LineWidth
        <5>1. lines * LineWidth < hexIndex /\ hexIndex <= (lines + 1) * LineWidth
          BY <2>1, <2>2, <3>2 DEF Breaks
        <5>2. lines * LineWidth <= hexIndex
          BY <5>1, <2>2, <2>3
        <5>. QED BY <5>1, <5>2, <2>2, <2>3, <3>2, Multiples
      <4>2. index' = 3 * hexIndex' + (lines + 1)
        BY <2>1, <2>2, <3>2
      <4>3. (lines + 1 + 1) * LineWidth = (lines + 1) * LineWidth + LineWidth
        BY <2>3
      <4>4. Breaks(hexIndex + 1, lines + 1)
        BY <4>1, <4>3, <2>2, <2>3 DEF Breaks
      <4>. QED BY <4>2, <4>4, <2>2
    <3>3. CASE hexIndex # 0 /\ hexIndex % LineWidth # 0
      <4>1. lines * LineWidth < hexIndex /\ hexIndex < (lines + 1) * LineWidth
        <5>1. lines * LineWidth < hexIndex /\ hexIndex <= (lines + 1) * LineWidth
          BY <2>1, <2>2, <3>3 DEF Breaks
        <5>2. lines * LineWidth <= hexIndex
          BY <5>1, <2>2, <2>3
        <5>. QED BY <5>1, <5>2, <2>2, <2>3, <3>3, Multiples
      <4>2. index' = 3 * hexIndex' + lines
        BY <2>1, <2>2, <3>3
      <4>3. lines * LineWidth \in Nat /\ (lines + 1) * LineWidth \in Nat
        BY <2>3
      <4>4. Breaks(hexIndex + 1, lines)
        BY <4>1, <4>3, <2>2 DEF Breaks
      <4>. QED BY <4>2, <4>4, <2>2
    <3>. QED BY <3>1, <3>2, <3>3
  <2>5. index' \in Nat
    BY <2>1, <2>2
  <2>6. hexIndex' \in Nat /\ hexIndex' <= inSize' /\ (pc' = "dump" => hexIndex' < inSize')
    BY <2>2
  <2>. QED BY <2>2, <2>4, <2>5, <2>6 DEF DumpInv
<1>2. CASE HashData
  BY <1>2 DEF DumpInv, HashData
<1>3. CASE Tick
  BY <1>3 DEF DumpInv, Tick, dump
<1>4. CASE DrawByte
  BY <1>4 DEF DumpInv, DrawByte, dump
<1>5. CASE DrawAgain
  BY <1>5 DEF DumpInv, DrawAgain, vars
<1>6. CASE Encrypt
  BY <1>6 DEF DumpInv, Encrypt, dump
<1>7. CASE Sign
  BY <1>7 DEF DumpInv, Sign, dump
<1>8. CASE ReadKey
  BY <1>8 DEF DumpInv, ReadKey, dump
<1>9. CASE DecryptKey
  BY <1>9 DEF DumpInv, DecryptKey, dump
<1>10. CASE Terminated
  BY <1>10 DEF DumpInv, Terminated, vars
<1>11. CASE UNCHANGED vars
  BY <1>11 DEF DumpInv, vars
<1>. QED BY <1>1, <1>2, <1>3, <1>4, <1>5, <1>6, <1>7, <1>8, <1>9, <1>10, <1>11
         DEF Next

\* HexToString stays inside the string it allocates by a formula, for data of
\* any size and lines of any width.
THEOREM DumpStaysInBounds == Spec => []DumpInBounds
<1>1. DumpInv => DumpInBounds
  <2>. SUFFICES ASSUME DumpInv, pc \in {"dump", "dumped"} PROVE index < StringSize
    BY DEF DumpInBounds
  <2>1. PICK lines \in Nat : index = 3 * hexIndex + lines /\ Breaks(hexIndex, lines)
    BY DEF DumpInv
  <2>2. inSize \in Nat /\ hexIndex \in Nat /\ hexIndex <= inSize
    BY DEF DumpInv
  <2>3. LineWidth \in Nat /\ LineWidth > 0
    BY SizesAssumption
  <2>4. lines <= inSize \div LineWidth
    <3>1. inSize \div LineWidth \in Nat
          /\ inSize < LineWidth * (inSize \div LineWidth + 1)
      BY <2>2, <2>3
    <3>2. lines * LineWidth <= inSize
      BY <2>1, <2>2, <2>3 DEF Breaks
    <3>3. ASSUME lines >= inSize \div LineWidth + 1
          PROVE  LineWidth * (inSize \div LineWidth + 1) <= lines * LineWidth
      BY <3>1, <3>3, <2>3
    <3>. QED BY <3>1, <3>2, <3>3, <2>2, <2>3
  <2>5. inSize \div LineWidth \in Int
    BY <2>2, <2>3
  <2>6. StringSize = inSize * 3 + inSize \div LineWidth + 1
    BY DEF StringSize
  <2>. QED BY <2>1, <2>2, <2>4, <2>5, <2>6
<1>. QED BY <1>1, DumpInitial, DumpStep, PTL DEF Spec

-----------------------------------------------------------------------------
(* Blocks *)

\* The numbers below the modulus.
Blocks == {b \in [1..ModulusLen -> Byte] : BelowModulus(b)}

\* What the two block operations have to be: inverse to each other on these
\* numbers, which they do not leave.
BlocksInverse ==
    \A b \in Blocks :
        /\ PublicBlock(b) \in Blocks /\ PrivateBlock(PublicBlock(b)) = b
        /\ PrivateBlock(b) \in Blocks /\ PublicBlock(PrivateBlock(b)) = b

\* Padding p, the separating zero, a message m.
LEMMA BlockParts ==
    ASSUME NEW p \in Seq(Byte), NEW m \in Seq(Byte), 0 \in Byte
    PROVE  LET b == p \o <<0>> \o m IN
           /\ b \in Seq(Byte) /\ Len(b) = Len(p) + 1 + Len(m)
           /\ \A k \in 1..Len(p) : b[k] = p[k]
           /\ b[Len(p) + 1] = 0
           /\ SubSeq(b, Len(p) + 2, Len(p) + 1 + Len(m)) = m
<1> DEFINE z == <<0>>
           q == p \o z
           b == q \o m
           P == Len(p)
           M == Len(m)
<1>1. P \in Nat /\ M \in Nat
  BY LenProperties
<1>2. z \in Seq(Byte) /\ Len(z) = 1 /\ z[1] = 0
  OBVIOUS
<1> HIDE DEF z
<1>3. /\ q \in Seq(Byte) /\ Len(q) = P + 1
      /\ \A i \in 1..(P + 1) : q[i] = IF i <= P THEN p[i] ELSE z[i - P]
  <2>1. /\ q \in Seq(Byte) /\ Len(q) = Len(p) + Len(z)
        /\ \A i \in 1..(Len(p) + Len(z)) :
             q[i] = IF i <= Len(p) THEN p[i] ELSE z[i - Len(p)]
    BY <1>2, ConcatProperties, Zenon
  <2> HIDE DEF q
  <2> QED
    BY <1>2, <2>1
<1> HIDE DEF q, P, M
<1>4. /\ b \in Seq(Byte) /\ Len(b) = (P + 1) + M
      /\ \A i \in 1..((P + 1) + M) : b[i] = IF i <= P + 1 THEN q[i] ELSE m[i - (P + 1)]
  <2>1. Len(m) = M
    BY DEF M
  <2> QED
    BY <1>3, <2>1, ConcatIs
<1>5. \A k \in 1..P : b[k] = p[k]
  <2>1. \A k \in 1..P : k \in 1..(P + 1) /\ k \in 1..((P + 1) + M) /\ k <= P /\ k <= P + 1
    BY <1>1, SMT
  <2> QED
    BY <1>3, <1>4, <2>1
<1>6. b[P + 1] = 0
  <2>1. /\ P + 1 \in 1..(P + 1) /\ P + 1 \in 1..((P + 1) + M) /\ ~(P + 1 <= P)
        /\ P + 1 <= P + 1 /\ (P + 1) - P = 1
    BY <1>1, SMT
  <2> QED
    BY <1>2, <1>3, <1>4, <2>1
<1>7. SubSeq(b, P + 2, (P + 1) + M) = m
  <2>1. CASE m = << >>
    <3>1. M = 0
      BY <2>1, EmptySeq DEF M
    <3>2. P + 2 \in Int /\ (P + 1) + M \in Int /\ (P + 1) + M < P + 2
      BY <1>1, <3>1, SMT
    <3> HIDE DEF b
    <3> QED
      BY <2>1, <3>2, SubSeqEmpty
  <2>2. CASE m # << >>
    <3>1. M # 0
      BY <2>2, EmptySeq DEF M
    <3>2. /\ P + 2 \in (Len(q) + 1)..(Len(q) + M)
          /\ (P + 1) + M \in (Len(q) + 1)..(Len(q) + M)
          /\ (P + 2) - Len(q) = 1 /\ ((P + 1) + M) - Len(q) = M
      BY <1>1, <1>3, <3>1, SMT
    <3> DEFINE i == P + 2
               j == (P + 1) + M
    <3>3. /\ i \in (Len(q) + 1)..(Len(q) + M) /\ i - Len(q) = 1
          /\ j \in (Len(q) + 1)..(Len(q) + M) /\ j - Len(q) = M
      BY <3>2
    <3> HIDE DEF i, j
    <3>4. M = Len(m)
      BY DEF M
    <3>5. /\ i \in (Len(q) + 1)..(Len(q) + Len(m)) /\ i - Len(q) = 1
          /\ j \in (Len(q) + 1)..(Len(q) + Len(m)) /\ j - Len(q) = Len(m)
      BY <3>3, <3>4, Zenon
    <3>6. SubSeq(q \o m, i, j) = SubSeq(m, i - Len(q), j - Len(q))
      BY <1>3, <3>5, SubSeqOfConcat2
    <3>7. SubSeq(q \o m, i, j) = m
      BY <3>5, <3>6, SubSeqFull
    <3> QED
      BY <3>7 DEF i, j
  <2> QED
    BY <2>1, <2>2
<1> QED
  BY <1>4, <1>5, <1>6, <1>7 DEF P, M, q, z

\* Blocks are sequences of bytes; a block that begins with 0 is below the
\* modulus.
LEMMA BlockType ==
    ASSUME NEW b
    PROVE  /\ b \in Blocks => b \in Seq(Byte) /\ Len(b) = ModulusLen /\ b # << >>
           /\ b \in Seq(Byte) /\ Len(b) = ModulusLen /\ b[1] = 0 => b \in Blocks
<1>1. ASSUME b \in Blocks
      PROVE  b \in Seq(Byte) /\ Len(b) = ModulusLen /\ b # << >>
  <2>1. b \in [1..ModulusLen -> Byte]
    BY <1>1 DEF Blocks
  <2>2. b \in Seq(Byte) /\ Len(b) = ModulusLen
    BY <2>1, Lengths, FunctionIsSeq
  <2>3. Len(b) # 0
    BY <2>2, Lengths, SMT
  <2> QED
    BY <2>2, <2>3, EmptySeq
<1>2. ASSUME b \in Seq(Byte), Len(b) = ModulusLen, b[1] = 0
      PROVE  b \in Blocks
  <2>1. b \in [1..ModulusLen -> Byte]
    BY <1>2, LenProperties
  <2>2. 1 \in 1..ModulusLen /\ 1..(1 - 1) = {}
    BY Lengths, SMT
  <2>3. b[1] < Modulus[1]
    <3>1. Modulus[1] \in Nat /\ Modulus[1] # 0
      <4>1. Modulus[1] \in Byte /\ Modulus[1] # 0
        BY <2>2, SealAssumption
      <4> QED
        BY <4>1, DigestAssumption, SMT DEF Byte
    <3> QED
      BY <1>2, <3>1, SMT
  <2>4. BelowModulus(b)
    BY <2>2, <2>3 DEF BelowModulus
  <2> QED
    BY <2>1, <2>4 DEF Blocks
<1> QED
  BY <1>1, <1>2

-----------------------------------------------------------------------------
(* What the receivers make of a block *)

\* A padding of the tool: 0, 2 and n - 2 bytes that are not zero.
Padding(p, n) ==
    /\ p \in Seq(Byte) /\ Len(p) = n
    /\ p[1] = 0 /\ p[2] = 2 /\ \A k \in 3..n : p[k] # 0

\* A message that leaves room for its padding.
Message(m) == m \in Seq(Byte) /\ Len(m) + 3 <= ModulusLen

\* A digest as InfoHashInfoData leaves it.
Hashed(d) == d \in Digests /\ \A k \in 1..DigestLen : d[k] # 0

\* public_encrypt sees the whole digest: it has no zero byte to end it early.
LEMMA HashedIsMessage ==
    ASSUME NEW d, Hashed(d)
    PROVE  /\ CStrLen(d) = DigestLen /\ MessageOf(d) = d
           /\ Message(d) /\ Len(d) = DigestLen
<1> DEFINE Ends(n) == /\ \A i \in 1..n : d[i] # 0
                      /\ n = DigestLen \/ d[n + 1] = 0
           c == CHOOSE n \in 0..DigestLen : Ends(n)
<1>1. DigestLen \in 0..DigestLen /\ Ends(DigestLen)
  BY Lengths, SMT DEF Hashed
<1>2. c \in 0..DigestLen /\ Ends(c)
  <2> HIDE DEF Ends
  <2> QED
    BY <1>1
<1>3. c = DigestLen
  <2>1. ASSUME c # DigestLen PROVE FALSE
    <3>1. d[c + 1] = 0
      BY <1>2, <2>1
    <3>2. c + 1 \in 1..DigestLen
      <4> HIDE DEF c
      <4> QED
        BY <1>2, <2>1, Lengths, SMT
    <3> HIDE DEF c
    <3> QED
      BY <3>1, <3>2 DEF Hashed
  <2> QED
    BY <2>1
<1>4. CStrLen(d) = DigestLen
  BY <1>3 DEF CStrLen
<1>5. d \in [1..DigestLen -> Byte]
  BY DEF Hashed, Digests
<1>6. MessageOf(d) = d
  BY <1>4, <1>5 DEF MessageOf
<1>7. d \in Seq(Byte) /\ Len(d) = DigestLen
  BY <1>5, Lengths, FunctionIsSeq
<1>8. DigestLen + 3 <= ModulusLen
  BY Lengths, SMT
<1> QED
  BY <1>4, <1>6, <1>7, <1>8 DEF Message

\* A block of the full length is read as it stands.
LEMMA FullBlockStays ==
    ASSUME NEW in \in Blocks, Len(in) = ModulusLen
    PROVE  bn_decode(in) = in
<1>1. in \in [1..ModulusLen -> Byte] /\ ModulusLen \in Nat
  BY Lengths DEF Blocks
<1>2. \A k \in 1..ModulusLen : ~(k <= ModulusLen - Len(in))
                              /\ k - (ModulusLen - Len(in)) = k
  BY <1>1, SMT
<1>3. bn_decode(in) = [k \in 1..ModulusLen |-> in[k]]
  BY <1>2 DEF bn_decode
<1> QED
  BY <1>1, <1>3

\* rsa_private_decrypt finds the digest behind any padding of the tool.
LEMMA PrivateFinds ==
    ASSUME BlocksInverse, NEW d, Hashed(d), NEW p,
           Padding(p, ModulusLen - DigestLen - 1)
    PROVE  LET b == p \o <<0>> \o d IN
           b \in Blocks /\ private_decrypt(PublicBlock(b)) = {d}
<1> DEFINE b == p \o <<0>> \o d
           P == ModulusLen - DigestLen - 1
           Ends(i) == /\ i = ModulusLen - 1 \/ b[i + 1] = 0
                      /\ \A j \in 2..(i - 1) : b[j + 1] # 0
           c == CHOOSE i \in 2..(ModulusLen - 1) : Ends(i)
<1>1. /\ d \in Seq(Byte) /\ Len(d) = DigestLen /\ 0 \in Byte
      /\ p \in Seq(Byte) /\ Len(p) = P /\ p[1] = 0 /\ p[2] = 2
      /\ \A k \in 3..P : p[k] # 0
  BY HashedIsMessage, Bytes DEF Padding, Message
<1>2. /\ b \in Seq(Byte) /\ Len(b) = P + 1 + DigestLen
      /\ \A k \in 1..P : b[k] = p[k]
      /\ b[P + 1] = 0
      /\ SubSeq(b, P + 2, P + 1 + DigestLen) = d
  <2>1. /\ b \in Seq(Byte) /\ Len(b) = Len(p) + 1 + Len(d)
        /\ \A k \in 1..Len(p) : b[k] = p[k]
        /\ b[Len(p) + 1] = 0
        /\ SubSeq(b, Len(p) + 2, Len(p) + 1 + Len(d)) = d
    BY <1>1, BlockParts
  <2> HIDE DEF b, P
  <2> QED
    BY <1>1, <2>1
<1> HIDE DEF b, P
<1>3. /\ P \in Nat /\ P >= 3 /\ P + 1 + DigestLen = ModulusLen
      /\ 1 \in 1..P /\ 2 \in 1..P /\ P \in 2..(ModulusLen - 1)
      /\ P # ModulusLen - 1 /\ P + 1 < ModulusLen
      /\ ModulusLen - P - 1 + Overhead <= ModulusLen
  BY Lengths, SMT DEF P
<1>4. b[1] = 0 /\ b[2] = 2
  BY <1>1, <1>2, <1>3
<1>5. b \in Blocks
  BY <1>2, <1>3, <1>4, BlockType
<1>6. /\ PublicBlock(b) \in Blocks /\ PrivateBlock(PublicBlock(b)) = b
      /\ Len(PublicBlock(b)) = ModulusLen /\ BelowModulus(PublicBlock(b))
  <2>1. PublicBlock(b) \in Blocks /\ PrivateBlock(PublicBlock(b)) = b
    BY <1>5, Zenon DEF BlocksInverse
  <2> QED
    BY <2>1, BlockType DEF Blocks
<1>7. ASSUME NEW j \in 2..(P - 1)
      PROVE  b[j + 1] # 0
  <2>1. j + 1 \in 3..P /\ j + 1 \in 1..P
    BY <1>3, SMT
  <2> QED
    BY <1>1, <1>2, <2>1
<1>8. Ends(P)
  BY <1>2, <1>7
<1>9. c \in 2..(ModulusLen - 1) /\ Ends(c)
  <2> HIDE DEF Ends
  <2> QED
    BY <1>3, <1>8
<1>10. c = P
  <2> HIDE DEF c
  <2>1. CASE c < P
    <3>1. c \in 2..(P - 1) /\ c # ModulusLen - 1
      BY <1>3, <1>9, <2>1, SMT
    <3> QED
      BY <1>7, <1>9, <3>1
  <2>2. CASE P < c
    <3>1. P \in 2..(c - 1)
      BY <1>3, <1>9, <2>2, SMT
    <3> QED
      BY <1>2, <1>9, <3>1
  <2> QED
    BY <1>3, <1>9, <2>1, <2>2, SMT
<1>11. private_decrypt(PublicBlock(b)) =
         IF c + 1 >= ModulusLen THEN {} ELSE MessageBehind(b, 2, c)
  <2>1. bn_decode(PublicBlock(b)) = PublicBlock(b)
    BY <1>6, FullBlockStays
  <2>2. ~(Len(PublicBlock(b)) > ModulusLen)
    BY <1>6, Lengths, SMT
  <2> QED
    BY <1>6, <2>1, <2>2 DEF private_decrypt
<1> HIDE DEF c
<1>12. MessageBehind(b, 2, P) = {d}
  BY <1>2, <1>3, <1>4 DEF MessageBehind
<1>13. ~(P + 1 >= ModulusLen)
  BY <1>3, Lengths, SMT
<1>14. private_decrypt(PublicBlock(b)) = {d}
  BY <1>10, <1>11, <1>12, <1>13
<1> QED
  BY <1>5, <1>14 DEF b

\* rsa_public_decrypt finds the message in the block of the signer, if it
\* leaves the bytes that no message may use.
LEMMA PublicFinds ==
    ASSUME BlocksInverse, NEW m, Message(m)
    PROVE  /\ SignatureBlock(m) \in Blocks
           /\ public_decrypt(PrivateBlock(SignatureBlock(m))) =
                IF Len(m) + Overhead <= ModulusLen THEN {m} ELSE {}
<1> DEFINE P == ModulusLen - Len(m) - 1
           f == [k \in 1..(ModulusLen - Len(m) - 3) |-> 255]
           p == <<0, 1>> \o f
           b == p \o <<0>> \o m
           Ends(i) == /\ i = ModulusLen - 1 \/ b[i + 1] # 255
                      /\ \A j \in 2..(i - 1) : b[j + 1] = 255
           c == CHOOSE i \in 2..(ModulusLen - 1) : Ends(i)
<1>1. m \in Seq(Byte) /\ Len(m) \in Nat /\ Len(m) + 3 <= ModulusLen /\ 0 \in Byte
      /\ 1 \in Byte /\ 255 \in Byte
  BY LenProperties, Bytes DEF Message
<1>2. f \in Seq(Byte) /\ Len(f) = P - 2 /\ \A k \in 1..(P - 2) : f[k] = 255
  <2> DEFINE n == ModulusLen - Len(m) - 3
  <2>1. n \in Nat /\ n = P - 2
    BY <1>1, Lengths, SMT
  <2>2. f = [k \in 1..n |-> 255]
    OBVIOUS
  <2> HIDE DEF n, P, f
  <2>3. f \in [1..n -> Byte] /\ \A k \in 1..n : f[k] = 255
    BY <1>1, <2>2
  <2> QED
    BY <2>1, <2>3, FunctionIsSeq
<1> HIDE DEF f
<1>3. P \in Nat /\ P >= 2 /\ P + 1 + Len(m) = ModulusLen
      /\ 1 \in 1..P /\ 2 \in 1..P /\ P \in 2..(ModulusLen - 1)
      /\ (ModulusLen - P - 1 + Overhead <= ModulusLen
            <=> Len(m) + Overhead <= ModulusLen)
  BY <1>1, Lengths, SMT
<1> HIDE DEF P
<1>4. p \in Seq(Byte) /\ Len(p) = P /\ p[1] = 0 /\ p[2] = 1
      /\ \A k \in 3..P : p[k] = 255
  <2> DEFINE a == <<0, 1>>
  <2>1. a \in Seq(Byte) /\ Len(a) = 2 /\ a[1] = 0 /\ a[2] = 1
    BY <1>1
  <2> HIDE DEF a
  <2>2. /\ a \o f \in Seq(Byte) /\ Len(a \o f) = 2 + (P - 2)
        /\ \A i \in 1..(2 + (P - 2)) : (a \o f)[i] = IF i <= 2 THEN a[i] ELSE f[i - 2]
    <3> DEFINE g == a \o f
    <3>1. /\ g \in Seq(Byte) /\ Len(g) = Len(a) + Len(f)
          /\ \A i \in 1..(Len(a) + Len(f)) :
               g[i] = IF i <= Len(a) THEN a[i] ELSE f[i - Len(a)]
      <4>1. a \in Seq(Byte) /\ f \in Seq(Byte)
        BY <1>2, <2>1
      <4> QED
        BY <4>1, ConcatProperties
    <3> HIDE DEF g
    <3>2. /\ g \in Seq(Byte) /\ Len(g) = 2 + (P - 2)
          /\ \A i \in 1..(2 + (P - 2)) : g[i] = IF i <= 2 THEN a[i] ELSE f[i - 2]
      BY <1>2, <2>1, <3>1
    <3> QED
      BY <3>2 DEF g
  <2>3. /\ 2 + (P - 2) = P /\ 1 <= 2 /\ 2 <= 2
        /\ \A k \in 3..P : k \in 1..P /\ ~(k <= 2) /\ k - 2 \in 1..(P - 2)
    BY <1>3, SMT
  <2> QED
    BY <1>2, <1>3, <2>1, <2>2, <2>3 DEF a
<1> HIDE DEF p
<1>5. /\ b \in Seq(Byte) /\ Len(b) = P + 1 + Len(m)
      /\ \A k \in 1..P : b[k] = p[k]
      /\ b[P + 1] = 0
      /\ SubSeq(b, P + 2, P + 1 + Len(m)) = m
  BY <1>1, <1>4, BlockParts
<1>6. SignatureBlock(m) = b
  BY DEF SignatureBlock, p, f
<1> HIDE DEF b
<1>7. b[1] = 0 /\ b[2] = 1
  BY <1>3, <1>4, <1>5
<1>8. b \in Blocks
  BY <1>3, <1>5, <1>7, BlockType
<1>9. /\ PublicBlock(PrivateBlock(b)) = b /\ BelowModulus(PrivateBlock(b))
  <2>1. PrivateBlock(b) \in Blocks /\ PublicBlock(PrivateBlock(b)) = b
    BY <1>8, Zenon DEF BlocksInverse
  <2> QED
    BY <2>1 DEF Blocks
<1>10. ASSUME NEW j \in 2..(P - 1)
       PROVE  b[j + 1] = 255
  <2>1. j + 1 \in 3..P /\ j + 1 \in 1..P
    BY <1>3, SMT
  <2> QED
    BY <1>4, <1>5, <2>1
<1>11. Ends(P)
  BY <1>5, <1>10, SMT
<1>12. c \in 2..(ModulusLen - 1) /\ Ends(c)
  <2> HIDE DEF Ends
  <2> QED
    BY <1>3, <1>11
<1>13. c = P
  <2> HIDE DEF c
  <2>1. CASE c < P
    <3>1. c \in 2..(P - 1) /\ c # ModulusLen - 1
      BY <1>1, <1>3, <1>12, <2>1, SMT
    <3> QED
      BY <1>10, <1>12, <3>1
  <2>2. CASE P < c
    <3>1. P \in 2..(c - 1)
      BY <1>3, <1>12, <2>2, SMT
    <3>2. b[P + 1] = 255
      BY <1>12, <3>1
    <3> QED
      BY <1>5, <3>2, SMT
  <2> QED
    BY <1>3, <1>12, <2>1, <2>2, SMT
<1>14. public_decrypt(PrivateBlock(b)) =
         IF b[c + 1] # 0 THEN {} ELSE MessageBehind(b, 1, c)
  BY <1>9 DEF public_decrypt
<1> HIDE DEF c
<1>15. MessageBehind(b, 1, P) =
         IF Len(m) + Overhead <= ModulusLen THEN {m} ELSE {}
  BY <1>3, <1>5, <1>7 DEF MessageBehind
<1>16. public_decrypt(PrivateBlock(b)) =
         IF Len(m) + Overhead <= ModulusLen THEN {m} ELSE {}
  BY <1>5, <1>13, <1>14, <1>15
<1> QED
  BY <1>6, <1>8, <1>16

-----------------------------------------------------------------------------
(* The way of a digest, step by step *)

\* How much of a block is in front of the separating zero of a digest.
FullPadding == ModulusLen - DigestLen - 1

\* The text the tool makes of a padding and a digest,
SeriesOf(p, d) ==
    base64_encode(HexText(PublicBlock(p \o <<0>> \o d), UpperA))

\* and what it may be, whatever the padding has drawn.
Encrypted(t, d) == \E p \in Seq(Byte) : Padding(p, FullPadding) /\ t = SeriesOf(p, d)

\* The block of the signer,
SignedBlock == PrivateBlock(SignatureBlock(signed))

\* and the message the loader finds in it, if any.
Accepted == IF Len(signed) + Overhead <= ModulusLen THEN {signed} ELSE {}

\* key.txt is not there yet.
Unsigned == pc \in {"dump", "dumped", "pad", "encrypt", "sign"}

\* The tool has hashed the data and fills the block, and clears it afterwards.
BlockInv ==
    /\ digest \in {<< >>} \cup Digests
    /\ pc \notin {"dump", "dumped"} => Hashed(digest)
    /\ pc = "pad" => Padding(block, Len(block)) /\ 2 <= Len(block) /\ Len(block) < FullPadding
    /\ pc = "encrypt" => Padding(block, FullPadding)
    /\ pc \notin {"pad", "encrypt"} => block = << >>

\* The text is that of the tool's block, then that of the signer's.
TextInv ==
    /\ text \in Seq(Byte)
    /\ pc = "sign" => Encrypted(text, digest)
    /\ pc = "read" => \E hex \in TextsOf(SignedBlock) :
                        text = base64_encode(hex) \o ending
    /\ Unsigned => ending = << >> /\ signed = << >>
    /\ ~Unsigned => ending \in Endings /\ Message(signed)

\* What the loader has read and decrypted.
ReadInv ==
    /\ Unsigned \/ pc = "read" => bytes = << >>
    /\ pc \in {"decrypt", "fault", "done"} => bytes = SignedBlock \o Stray(ending)
    /\ message = IF pc = "done" THEN Accepted ELSE {}

\* The inductive invariant: every stage of the way, in terms of the one before.
SealInv ==
    /\ pc \in {"dump", "dumped", "pad", "encrypt", "sign", "read", "decrypt",
               "fault", "done"}
    /\ ClockInv /\ BlockInv /\ TextInv /\ ReadInv

\* An editor leaves an end of line or nothing.
LEMMA EndingsAre == Endings \subseteq LineEnds /\ << >> \in LineEnds
BY SealAssumption DEF LineEnds

\* A block and the texts of it.
LEMMA KeyOfBlock ==
    ASSUME NEW b \in Blocks, NEW hex \in TextsOf(b), NEW end \in LineEnds
    PROVE  /\ base64_encode(hex) \in Seq(Byte)
           /\ base64_encode(hex) \o end \in Seq(Byte)
           /\ str_hex(base64_decode(base64_encode(hex) \o end)) = b \o Stray(end)
<1>1. b \in Seq(Byte) /\ b # << >> /\ MaxByte = 255
  BY BlockType, Bytes
<1>2. IsText(hex)
  BY <1>1, HexTextIs, SpacedIs DEF TextsOf
<1>3. base64_encode(hex) \in Seq(Byte)
  BY <1>1, <1>2, EncodedChars DEF IsText
<1>4. end \in Seq(Byte)
  <2>1. 10 \in Byte /\ 13 \in Byte
    BY Bytes
  <2>2. /\ << >> \in Seq(Byte) /\ <<10>> \in Seq(Byte) /\ <<13>> \in Seq(Byte)
        /\ <<13, 10>> \in Seq(Byte)
    BY <2>1
  <2> QED
    BY <2>2 DEF LineEnds
<1>5. base64_encode(hex) \o end \in Seq(Byte)
  BY <1>3, <1>4, ConcatProperties
<1>6. str_hex(base64_decode(base64_encode(hex) \o end)) = b \o Stray(end)
  BY <1>1, KeyRoundTrip
<1> QED
  BY <1>3, <1>5, <1>6

\* The signer reads the digest from the text of the tool.
LEMMA SeriesIs ==
    ASSUME BlocksInverse, NEW d, Hashed(d), NEW t, Encrypted(t, d)
    PROVE  t \in Seq(Byte) /\ private_decrypt(str_hex(base64_decode(t))) = {d}
<1>1. PICK p \in Seq(Byte) : Padding(p, FullPadding) /\ t = SeriesOf(p, d)
  BY DEF Encrypted
<1> DEFINE b == p \o <<0>> \o d
           x == PublicBlock(b)
<1>2. b \in Blocks /\ private_decrypt(x) = {d}
  BY <1>1, PrivateFinds DEF FullPadding
<1> HIDE DEF b
<1>3. x \in Blocks
  BY <1>2, Zenon DEF BlocksInverse
<1>4. t = base64_encode(HexText(x, UpperA))
  BY <1>1 DEF SeriesOf, b
<1> HIDE DEF x
<1> DEFINE hex == HexText(x, UpperA)
<1>5. hex \in TextsOf(x)
  BY DEF TextsOf
<1> HIDE DEF hex
<1>6. /\ base64_encode(hex) \in Seq(Byte)
      /\ str_hex(base64_decode(base64_encode(hex) \o << >>)) = x \o Stray(<< >>)
  BY <1>3, <1>5, EndingsAre, KeyOfBlock
<1>7. t \in Seq(Byte) /\ str_hex(base64_decode(t)) = x
  <2>1. Stray(<< >>) = << >> /\ x \in Seq(Byte)
    BY <1>3, BlockType DEF Stray
  <2>2. base64_encode(hex) \o << >> = base64_encode(hex) /\ x \o << >> = x
    BY <1>6, <2>1, ConcatEmptySeq
  <2> QED
    BY <1>4, <1>6, <2>1, <2>2 DEF hex
<1> QED
  BY <1>2, <1>7 DEF x

\* Nothing is hashed, drawn, written or read.
LEMMA SealInit == Init => SealInv
<1> SUFFICES ASSUME Init PROVE SealInv
  OBVIOUS
<1>1. ClockInv
  BY SealAssumption, SMT DEF Init, ClockInv
<1>2. BlockInv /\ TextInv /\ ReadInv
  BY EmptySeq DEF Init, BlockInv, TextInv, ReadInv, Unsigned
<1> QED
  BY <1>1, <1>2 DEF Init, SealInv

\* Every action keeps the invariant; Encrypt, Sign, ReadKey and DecryptKey hand
\* the block on, and need that the block operations are inverse.
LEMMA SealStep ==
    ASSUME BlocksInverse, SealInv, [Next]_vars
    PROVE  SealInv'
<1> USE DEF SealInv
<1>1. ClockInv'
  BY ClockStep
<1>2. CASE DumpByte
  <2>1. /\ pc = "dump" /\ pc' \in {"dump", "dumped"}
        /\ UNCHANGED <<time, ticks, digest, block, text, ending, signed, bytes, message>>
    BY <1>2 DEF DumpByte, clock
  <2> QED
    BY <1>1, <2>1 DEF BlockInv, TextInv, ReadInv, Unsigned
<1>3. CASE HashData
  <2>1. /\ pc = "dumped" /\ pc' = "pad" /\ block' = <<0, 2>>
        /\ UNCHANGED <<time, ticks, text, ending, signed, bytes, message>>
    BY <1>3 DEF HashData, clock
  <2>2. Hashed(digest')
    <3>1. PICK raw \in RawDigests : digest' = Digest(raw)
      BY <1>3, SealAssumption DEF HashData
    <3>2. 1 \in Byte /\ 1 # 0
      BY Bytes, SMT
    <3> QED
      BY <3>1, <3>2 DEF Hashed, Digests, Digest, RawDigests
  <2>3. /\ Padding(block', Len(block')) /\ Len(block') = 2
    <3>1. 0 \in Byte /\ 2 \in Byte /\ 3..2 = {}
      BY Bytes, SMT
    <3>2. <<0, 2>> \in Seq(Byte) /\ Len(<<0, 2>>) = 2
      BY <3>1
    <3> QED
      BY <2>1, <3>1, <3>2 DEF Padding
  <2>4. 2 < FullPadding
    BY Lengths, SMT DEF FullPadding
  <2>5. BlockInv'
    BY <2>1, <2>2, <2>3, <2>4 DEF BlockInv, Hashed
  <2> QED
    BY <1>1, <2>1, <2>5 DEF TextInv, ReadInv, Unsigned
<1>4. CASE Tick
  <2>1. /\ pc = "pad" /\ pc' = pc
        /\ UNCHANGED <<digest, block, text, ending, signed, bytes, message>>
    BY <1>4 DEF Tick
  <2> QED
    BY <1>1, <2>1 DEF BlockInv, TextInv, ReadInv, Unsigned, SignedBlock, Accepted
<1>5. CASE DrawByte
  <2> DEFINE r == generate_rand(time)
             n == Len(block)
  <2>1. /\ pc = "pad" /\ r # 0 /\ block' = Append(block, r)
        /\ pc' = IF Len(block') = PaddedLen THEN "encrypt" ELSE "pad"
        /\ UNCHANGED <<time, ticks, digest, text, ending, signed, bytes, message>>
    BY <1>5 DEF DrawByte, clock
  <2>2. /\ Padding(block, n) /\ 2 <= n /\ n < FullPadding /\ Hashed(digest)
        /\ digest' = digest
    BY <2>1 DEF BlockInv
  <2>3. PaddedLen = FullPadding /\ FullPadding \in Nat
    <3>1. CStrLen(digest) = DigestLen
      BY <2>2, HashedIsMessage
    <3> QED
      BY <3>1, Lengths, SMT DEF PaddedLen, FullPadding
  <2>4. r \in Byte
    BY RandIsByte DEF ClockInv
  <2> HIDE DEF r
  <2>5. /\ block' \in Seq(Byte) /\ Len(block') = n + 1 /\ n \in Nat
        /\ \A i \in 1..n : block'[i] = block[i]
        /\ block'[n + 1] = r
    <3>1. block \in Seq(Byte)
      BY <2>2 DEF Padding
    <3> QED
      BY <2>1, <2>4, <3>1, AppendProperties, LenProperties
  <2> HIDE DEF n
  <2>6. Padding(block', n + 1)
    <3>1. 1 \in 1..n /\ 2 \in 1..n /\ \A k \in 3..(n + 1) : k = n + 1 \/ (k \in 3..n /\ k \in 1..n)
      BY <2>2, <2>5, SMT
    <3> QED
      BY <2>1, <2>2, <2>5, <3>1 DEF Padding
  <2>7. BlockInv'
    <3>1. CASE n + 1 = FullPadding
      <4>1. pc' = "encrypt"
        BY <2>1, <2>3, <2>5, <3>1
      <4> QED
        BY <2>2, <2>6, <3>1, <4>1 DEF BlockInv
    <3>2. CASE n + 1 # FullPadding
      <4>1. pc' = "pad"
        BY <2>1, <2>3, <2>5, <3>2
      <4>2. 2 <= n + 1 /\ n + 1 < FullPadding
        BY <2>2, <2>3, <2>5, <3>2, SMT
      <4> QED
        BY <2>2, <2>5, <2>6, <4>1, <4>2 DEF BlockInv
    <3> QED
      BY <3>1, <3>2
  <2>8. pc' \in {"pad", "encrypt"}
    BY <2>1
  <2> QED
    BY <1>1, <2>1, <2>7, <2>8 DEF TextInv, ReadInv, Unsigned
<1>6. CASE DrawAgain
  BY <1>6, <1>1 DEF DrawAgain, vars, BlockInv, TextInv, ReadInv, Unsigned,
     SignedBlock, Accepted
<1>7. CASE Encrypt
  <2>1. /\ pc = "encrypt" /\ pc' = "sign" /\ block' = << >>
        /\ text' = base64_encode(HexText(PublicBlock(block \o <<0>> \o MessageOf(digest)),
                                         UpperA))
        /\ UNCHANGED <<time, ticks, digest, ending, signed, bytes, message>>
    BY <1>7 DEF Encrypt, clock
  <2>2. Padding(block, FullPadding) /\ Hashed(digest)
    BY <2>1 DEF BlockInv
  <2>3. Encrypted(text', digest)
    <3>1. MessageOf(digest) = digest
      BY <2>2, HashedIsMessage
    <3>2. text' = SeriesOf(block, digest)
      BY <2>1, <3>1 DEF SeriesOf
    <3> QED
      BY <2>2, <3>2 DEF Encrypted, Padding
  <2>4. text' \in Seq(Byte)
    BY <2>2, <2>3, SeriesIs
  <2>5. BlockInv'
    BY <2>1, <2>2 DEF BlockInv
  <2>6. TextInv'
    BY <2>1, <2>3, <2>4 DEF TextInv, Unsigned
  <2> QED
    BY <1>1, <2>1, <2>5, <2>6 DEF ReadInv, Unsigned
<1>8. CASE Sign
  <2>1. /\ pc = "sign" /\ pc' = "read"
        /\ UNCHANGED <<time, ticks, digest, block, bytes, message>>
    BY <1>8 DEF Sign, clock
  <2>2. Hashed(digest) /\ Encrypted(text, digest)
    BY <2>1 DEF BlockInv, TextInv
  <2>3. PICK m \in {digest} \cup OtherMessages :
          /\ signed' = m
          /\ \E hex \in TextsOf(PrivateBlock(SignatureBlock(m))), end \in Endings :
               text' = base64_encode(hex) \o end /\ ending' = end
    <3>1. private_decrypt(str_hex(base64_decode(text))) = {digest}
      BY <2>2, SeriesIs
    <3> QED
      BY <1>8, <3>1 DEF Sign
  <2>4. PICK hex \in TextsOf(PrivateBlock(SignatureBlock(m))), end \in Endings :
          text' = base64_encode(hex) \o end /\ ending' = end
    BY <2>3
  <2>5. Message(m)
    BY <2>2, HashedIsMessage, SealAssumption DEF Message
  <2>6. text' \in Seq(Byte)
    <3>1. PrivateBlock(SignatureBlock(m)) \in Blocks
      <4>1. SignatureBlock(m) \in Blocks
        BY <2>5, PublicFinds
      <4> QED
        BY <4>1, Zenon DEF BlocksInverse
    <3> QED
      BY <2>4, <3>1, EndingsAre, KeyOfBlock
  <2>7. TextInv'
    BY <2>1, <2>3, <2>4, <2>5, <2>6 DEF TextInv, Unsigned, SignedBlock
  <2>8. BlockInv'
    BY <2>1 DEF BlockInv
  <2> QED
    BY <1>1, <2>1, <2>7, <2>8 DEF ReadInv, Unsigned
<1>9. CASE ReadKey
  <2>1. /\ pc = "read" /\ pc' \in {"decrypt", "fault"}
        /\ bytes' = str_hex(base64_decode(text))
        /\ UNCHANGED <<time, ticks, digest, block, text, ending, signed, message>>
    BY <1>9 DEF ReadKey, clock
  <2>2. ending \in LineEnds /\ Message(signed)
    BY <2>1, EndingsAre DEF TextInv, Unsigned
  <2>3. SignedBlock \in Blocks
    <3>1. SignatureBlock(signed) \in Blocks
      BY <2>2, PublicFinds
    <3> QED
      BY <3>1, Zenon DEF BlocksInverse, SignedBlock
  <2>4. PICK hex \in TextsOf(SignedBlock) : text = base64_encode(hex) \o ending
    BY <2>1 DEF TextInv
  <2>5. bytes' = SignedBlock \o Stray(ending)
    BY <2>1, <2>2, <2>3, <2>4, KeyOfBlock
  <2>6. SignedBlock' = SignedBlock
    BY <2>1 DEF SignedBlock
  <2>7. TextInv'
    BY <2>1 DEF TextInv, Unsigned
  <2>8. ReadInv'
    BY <2>1, <2>5, <2>6 DEF ReadInv, Unsigned
  <2> QED
    BY <1>1, <2>1, <2>7, <2>8 DEF BlockInv
<1>10. CASE DecryptKey
  <2>1. /\ pc = "decrypt" /\ pc' = "done"
        /\ message' = public_decrypt(SubSeq(bytes, 1, ModulusLen))
        /\ UNCHANGED <<time, ticks, digest, block, text, ending, signed, bytes>>
    BY <1>10 DEF DecryptKey, clock
  <2>2. ending \in LineEnds /\ Message(signed)
    BY <2>1, EndingsAre DEF TextInv, Unsigned
  <2>3. SignedBlock \in Blocks /\ public_decrypt(SignedBlock) = Accepted
    <3>1. SignatureBlock(signed) \in Blocks /\ public_decrypt(SignedBlock) = Accepted
      BY <2>2, PublicFinds DEF SignedBlock, Accepted
    <3> QED
      BY <3>1, Zenon DEF BlocksInverse, SignedBlock
  <2>4. bytes = SignedBlock \o Stray(ending)
    BY <2>1 DEF ReadInv
  <2>5. SubSeq(bytes, 1, ModulusLen) = SignedBlock
    <3>1. /\ SignedBlock \in Seq(Byte) /\ Len(SignedBlock) = ModulusLen
          /\ Stray(ending) \in Seq(Byte)
      BY <2>2, <2>3, BlockType, CutType, Bytes
    <3> DEFINE b == SignedBlock
    <3>2. 1 \in 1..Len(b) /\ Len(b) \in 1..Len(b)
      BY <3>1, Lengths, SMT
    <3>3. SubSeq(b \o Stray(ending), 1, Len(b)) = SubSeq(b, 1, Len(b))
      BY <3>1, <3>2, SubSeqOfConcat1
    <3>4. SubSeq(b, 1, Len(b)) = b
      BY <3>1, SubSeqFull
    <3> QED
      BY <2>4, <3>1, <3>3, <3>4
  <2>6. SignedBlock' = SignedBlock /\ Accepted' = Accepted
    BY <2>1 DEF SignedBlock, Accepted
  <2>7. TextInv'
    BY <2>1 DEF TextInv, Unsigned
  <2>8. ReadInv'
    BY <2>1, <2>3, <2>4, <2>5, <2>6 DEF ReadInv, Unsigned
  <2> QED
    BY <1>1, <2>1, <2>7, <2>8 DEF BlockInv
<1>11. CASE Terminated
  BY <1>11, <1>1 DEF Terminated, vars, BlockInv, TextInv, ReadInv, Unsigned,
     SignedBlock, Accepted
<1>12. CASE UNCHANGED vars
  BY <1>12, <1>1 DEF vars, BlockInv, TextInv, ReadInv, Unsigned,
     SignedBlock, Accepted
<1> QED
  BY <1>2, <1>3, <1>4, <1>5, <1>6, <1>7, <1>8, <1>9, <1>10, <1>11, <1>12 DEF Next

-----------------------------------------------------------------------------
(* What the way of a digest promises *)

\* The invariant of every stage, in every run: what the theorems below use.
THEOREM SealInvariant ==
    ASSUME BlocksInverse
    PROVE  Spec => []SealInv
<1>1. SealInv /\ [Next]_vars => SealInv'
  BY SealStep
<1> QED
  BY <1>1, SealInit, PTL DEF Spec

\* The signer reads from series.txt the digest of the tool and nothing else,
\* whatever bytes the clock gave the padding: SealReadable.
THEOREM SignerReadsDigest ==
    ASSUME BlocksInverse
    PROVE  Spec => []SealReadable
<1>1. SealInv => SealReadable
  <2> SUFFICES ASSUME SealInv, pc = "sign"
               PROVE  private_decrypt(str_hex(base64_decode(text))) = {MessageOf(digest)}
    BY DEF SealReadable
  <2>1. Hashed(digest) /\ Encrypted(text, digest)
    BY DEF SealInv, BlockInv, TextInv
  <2> QED
    BY <2>1, SeriesIs, HashedIsMessage
<1> QED
  BY <1>1, SealInvariant, PTL

\* key.txt fills str1; an end of line behind the text makes str_hex store one
\* byte more than str1 has, never two: TextFillsBlock.
THEOREM KeyFillsBlock ==
    ASSUME BlocksInverse
    PROVE  Spec => []TextFillsBlock
<1>1. SealInv => TextFillsBlock
  <2> SUFFICES ASSUME SealInv, pc \in {"decrypt", "done", "fault"}
               PROVE  Len(bytes) = ModulusLen + (IF ending = << >> THEN 0 ELSE 1)
    BY DEF TextFillsBlock
  <2>1. /\ bytes = SignedBlock \o Stray(ending)
        /\ ending \in LineEnds /\ Message(signed)
    BY EndingsAre DEF SealInv, ReadInv, TextInv, Unsigned
  <2>2. SignedBlock \in Seq(Byte) /\ Len(SignedBlock) = ModulusLen
    <3>1. SignatureBlock(signed) \in Blocks
      BY <2>1, PublicFinds
    <3>2. SignedBlock \in Blocks
      BY <3>1, Zenon DEF BlocksInverse, SignedBlock
    <3> QED
      BY <3>2, BlockType
  <2>3. /\ Stray(ending) \in Seq(Byte)
        /\ Len(Stray(ending)) = IF ending = << >> THEN 0 ELSE 1
    BY <2>1, CutType, Bytes
  <2> QED
    BY <2>1, <2>2, <2>3, ConcatProperties
<1> QED
  BY <1>1, SealInvariant, PTL

\* The loader gets back what was signed, the empty message too, when it leaves
\* the bytes of the padding: SignedIsAccepted.
THEOREM LoaderReadsMessage ==
    ASSUME BlocksInverse
    PROVE  Spec => []SignedIsAccepted
<1>1. SealInv => SignedIsAccepted
  BY DEF SealInv, ReadInv, SignedIsAccepted, Accepted
<1> QED
  BY <1>1, SealInvariant, PTL

\* Every variable has its type: every byte of every text is one.
THEOREM SealTypes ==
    ASSUME BlocksInverse
    PROVE  Spec => []TypeOK
<1>1. SealInv /\ DumpInv => TypeOK
  <2> SUFFICES ASSUME SealInv, DumpInv
               PROVE  TypeOK
    OBVIOUS
  <2>1. inSize \in Nat /\ hexIndex \in Nat /\ index \in Nat
    BY DEF DumpInv
  <2>2. time \in Times /\ ticks \in 0..MaxTicks
    BY DEF SealInv, ClockInv, Valid
  <2>3. block \in Seq(Byte)
    BY EmptySeq DEF SealInv, BlockInv, Padding
  <2>4. text \in Seq(Byte)
    BY DEF SealInv, TextInv
  <2>5. ending \in Seq(Byte) /\ signed \in Seq(Byte)
    <3>1. CASE Unsigned
      BY <3>1, EmptySeq DEF SealInv, TextInv
    <3>2. CASE ~Unsigned
      <4>1. ending \in LineEnds /\ signed \in Seq(Byte)
        BY <3>2, EndingsAre DEF SealInv, TextInv, Message
      <4>2. 10 \in Byte /\ 13 \in Byte
        BY Bytes
      <4>3. /\ << >> \in Seq(Byte) /\ <<10>> \in Seq(Byte) /\ <<13>> \in Seq(Byte)
            /\ <<13, 10>> \in Seq(Byte)
        BY <4>2
      <4> QED
        BY <4>1, <4>3 DEF LineEnds
    <3> QED
      BY <3>1, <3>2
  <2>6. bytes \in Seq(Byte)
    <3>1. CASE Unsigned \/ pc = "read"
      BY <3>1, EmptySeq DEF SealInv, ReadInv
    <3>2. CASE ~(Unsigned \/ pc = "read")
      <4>1. /\ bytes = SignedBlock \o Stray(ending)
            /\ ending \in LineEnds /\ Message(signed)
        BY <3>2, EndingsAre DEF SealInv, ReadInv, TextInv, Unsigned
      <4>2. SignatureBlock(signed) \in Blocks
        BY <4>1, PublicFinds
      <4>3. SignedBlock \in Blocks
        BY <4>2, Zenon DEF BlocksInverse, SignedBlock
      <4>4. SignedBlock \in Seq(Byte) /\ Stray(ending) \in Seq(Byte)
        BY <4>1, <4>3, BlockType, CutType, Bytes
      <4> QED
        BY <4>1, <4>4, ConcatProperties
    <3> QED
      BY <3>1, <3>2
  <2>7. message \subseteq Seq(Byte)
    BY <2>5 DEF SealInv, ReadInv, Accepted
  <2>8. digest \in {<< >>} \cup Digests
    BY DEF SealInv, BlockInv
  <2>9. pc \in {"dump", "dumped", "pad", "encrypt", "sign", "read", "decrypt",
                "fault", "done"}
    BY DEF SealInv
  <2> QED
    BY <2>1, <2>2, <2>3, <2>4, <2>5, <2>6, <2>7, <2>8, <2>9 DEF TypeOK
<1> QED
  BY <1>1, SealInvariant, DumpInitial, DumpStep, PTL DEF Spec
=============================================================================

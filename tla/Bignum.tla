------------------------------- MODULE Bignum -------------------------------
(***************************************************************************)
(* The unsigned numbers of bignum.c: digits in base Base, the least        *)
(* significant first, indexed from 0 as in the code.                       *)
(*                                                                         *)
(* Every operator does what its function does to machine words: sums and   *)
(* differences wrap, and carries are found by comparing.  An array has     *)
(* exactly the digits the code has written, so that reading one that was   *)
(* never written is an evaluation error and not a zero.                    *)
(***************************************************************************)
EXTENDS Integers, Sequences

CONSTANTS Base,         \* BN_MAX_DIGIT + 1 (2^32 in the code)
          DigitBits,    \* BN_DIGIT_BITS (32)
          ByteBits      \* bits of a byte (8)

ASSUME BignumAssumption ==
    /\ Base \in Nat \ {0, 1}
    /\ DigitBits \in Nat \ {0}
    /\ ByteBits \in Nat \ {0}

\* b to the n-th.
Power(b, n) ==
    LET power[k \in 0..n] == IF k = 0 THEN 1 ELSE b * power[k - 1]
    IN  power[n]

ASSUME WordAssumption ==
    /\ Base = Power(2, DigitBits)
    /\ DigitBits % ByteBits = 0
    /\ DigitBits % 2 = 0

Digit == 0..(Base - 1)
MaxDigit == Base - 1

\* Mutant: a result is kept in a wider type.
WrapNot(x) == x

\* What is left of a result in a bn_t.
Wrap(x) == x % Base

Zero(n) == [i \in 0..(n - 1) |-> 0]

\* The first n digits, as bn_assign copies them.
Low(a, n) == [i \in 0..(n - 1) |-> a[i]]

\* The array a with the digits of b written over it from index i on.
Over(a, i, b) ==
    [k \in DOMAIN a |-> IF k - i \in DOMAIN b THEN b[k - i] ELSE a[k]]

\* A loop from digit 0 to digit n - 1 that hands a carry on; body[i] makes a
\* digit and the next carry of a carry.
Ripple(body, n) ==
    LET carry[i \in 0..n] ==
            IF i = 0 THEN 0 ELSE body[i - 1][carry[i - 1]].carry
    IN  [digits |-> [i \in 0..(n - 1) |-> body[i][carry[i]].digit],
         carry |-> carry[n]]

-----------------------------------------------------------------------------
\* The body of the loop of bn_add.
AddDigit(b, c, carry) ==
    LET s == Wrap(b + carry)
        t == Wrap(s + c)
    IN  IF s < carry THEN [digit |-> c, carry |-> carry]
        ELSE [digit |-> t, carry |-> IF t < c THEN 1 ELSE 0]

bn_add(b, c, n) ==
    Ripple([i \in 0..(n - 1) |-> [k \in Digit |-> AddDigit(b[i], c[i], k)]], n)

\* The body of the loop of bn_sub.
SubDigit(b, c, borrow) ==
    LET s == Wrap(b - borrow)
        t == Wrap(s - c)
    IN  IF s > MaxDigit - borrow THEN [digit |-> MaxDigit - c, carry |-> borrow]
        ELSE [digit |-> t, carry |-> IF t > MaxDigit - c THEN 1 ELSE 0]

bn_sub(b, c, n) ==
    Ripple([i \in 0..(n - 1) |-> [k \in Digit |-> SubDigit(b[i], c[i], k)]], n)

\* The bodies of the loops of bn_add_digit_mul and bn_sub_digit_mul.
AddMulDigit(b, c, d, carry) ==
    LET s == Wrap(b + carry)
        t == Wrap(s + Wrap(c * d))
    IN  [digit |-> t,
         carry |-> Wrap((IF s < carry THEN 1 ELSE 0)
                          + (IF t < Wrap(c * d) THEN 1 ELSE 0)
                          + (c * d) \div Base)]

SubMulDigit(b, c, d, borrow) ==
    LET s == Wrap(b - borrow)
        t == Wrap(s - Wrap(c * d))
    IN  [digit |-> t,
         carry |-> Wrap((IF s > MaxDigit - borrow THEN 1 ELSE 0)
                          + (IF t > MaxDigit - Wrap(c * d) THEN 1 ELSE 0)
                          + (c * d) \div Base)]

bn_add_digit_mul(b, c, d, n) ==
    IF c = 0 THEN [digits |-> Low(b, n), carry |-> 0]
    ELSE Ripple([i \in 0..(n - 1) |->
                    [k \in Digit |-> AddMulDigit(b[i], c, d[i], k)]], n)

bn_sub_digit_mul(b, c, d, n) ==
    IF c = 0 THEN [digits |-> Low(b, n), carry |-> 0]
    ELSE Ripple([i \in 0..(n - 1) |->
                    [k \in Digit |-> SubMulDigit(b[i], c, d[i], k)]], n)

-----------------------------------------------------------------------------
\* The number of significant digits.
bn_digits(a, n) ==
    CHOOSE k \in 0..n :
        /\ \A i \in k..(n - 1) : a[i] = 0
        /\ k > 0 => a[k - 1] # 0

\* The number of significant bits of a digit.
bn_digit_bits(x) ==
    CHOOSE k \in 0..DigitBits : x < Power(2, k) /\ Power(2, k) <= 2 * x + 1

\* a >= b, from the most significant of n digits down.
AtLeast(a, b, n) ==
    \A i \in 0..(n - 1) :
        a[i] < b[i] => \E k \in (i + 1)..(n - 1) : a[k] > b[k]

bn_shift_l(b, c, n) ==
    Ripple([i \in 0..(n - 1) |-> [k \in Digit |->
               [digit |-> Wrap(b[i] * Power(2, c)) + k,
                carry |-> b[i] \div Power(2, DigitBits - c)]]], n)

\* bn_shift_r runs from the top digit down.
bn_shift_r(b, c, n) ==
    [i \in 0..(n - 1) |->
        (b[i] \div Power(2, c))
          + (IF i + 1 < n THEN Wrap(b[i + 1] * Power(2, DigitBits - c)) ELSE 0)]

\* One row of the product per significant digit of b.
bn_mul(b, c, n) ==
    LET cdigits == bn_digits(c, n)
        Row(t, i) == bn_add_digit_mul([k \in 0..(cdigits - 1) |-> t[i + k]],
                                      b[i], c, cdigits)
        t[i \in 0..bn_digits(b, n)] ==
            IF i = 0 THEN Zero(2 * n)
            ELSE LET row == Row(t[i - 1], i - 1) IN
                 [Over(t[i - 1], i - 1, row.digits) EXCEPT
                    ![i - 1 + cdigits] = Wrap(@ + row.carry)]
    IN  t[bn_digits(b, n)]

-----------------------------------------------------------------------------
(* The parts of bn_div: cc is the normalised dividend, of which the digits *)
(* from i to i + n are reduced by the n digits of the normalised divisor.  *)

Shift(d, n) == DigitBits - bn_digit_bits(d[n - 1])

Normalised(c, shift, cdigits, n) ==
    LET s == bn_shift_l(c, shift, cdigits)
    IN  [k \in 0..(IF cdigits < n THEN n - 1 ELSE cdigits) |->
            IF k < cdigits THEN s.digits[k]
            ELSE IF k = cdigits THEN s.carry ELSE 0]

\* Mutant: the top digit of the divisor is not rounded up.
EstimateHigh(cc, i, dd, n) ==
    Wrap((cc[i + n] * Base + cc[i + n - 1]) \div dd[n - 1])

\* The estimate of a quotient digit; t + 1 would wrap when t is MaxDigit.
Estimate(cc, i, dd, n) ==
    LET t == dd[n - 1]
    IN  IF t = MaxDigit THEN cc[i + n]
        ELSE Wrap((cc[i + n] * Base + cc[i + n - 1]) \div (t + 1))

Window(cc, i, n) == [k \in 0..(n - 1) |-> cc[i + k]]

\* cc with the window replaced and the borrow taken from the digit above it.
Reduce(cc, i, n, r) ==
    [Over(cc, i, r.digits) EXCEPT ![i + n] = Wrap(@ - r.carry)]

SubtractEstimate(cc, i, ai, dd, n) ==
    Reduce(cc, i, n, bn_sub_digit_mul(Window(cc, i, n), ai, dd, n))

SubtractOnce(cc, i, dd, n) ==
    Reduce(cc, i, n, bn_sub(Window(cc, i, n), dd, n))

\* The condition of the while loop that corrects the estimate.
TooSmall(cc, i, dd, n) == cc[i + n] # 0 \/ AtLeast(Window(cc, i, n), dd, n)

\* What the while loop makes of an array.
Corrected(Arrays, i, dd, n) ==
    LET corrected[x \in Arrays] ==
            IF TooSmall(x, i, dd, n) THEN corrected[SubtractOnce(x, i, dd, n)]
            ELSE x
    IN  corrected

-----------------------------------------------------------------------------
\* bn_mod: the same loops at once.  The remainder has m digits.
bn_mod(c, cdigits, d, m) ==
    LET n == bn_digits(d, m)
        shift == Shift(d, n)
        dd == bn_shift_l(d, shift, n).digits
        cc0 == Normalised(c, shift, cdigits, n)
        Arrays == [DOMAIN cc0 -> Digit]
        \* done[i]: cc when the quotient digits from i on are known
        done[i \in 0..(cdigits + 1)] ==
            IF i > cdigits - n THEN cc0
            ELSE LET cc == done[i + 1]
                     ai == Estimate(cc, i, dd, n)
                 IN  Corrected(Arrays, i, dd, n)
                         [SubtractEstimate(cc, i, ai, dd, n)]
        rest == bn_shift_r(Low(done[0], n), shift, n)
    IN  Over(Zero(m), 0, rest)

bn_mod_mul(b, c, d, n) == bn_mod(bn_mul(b, c, n), 2 * n, d, n)

\* The exponent, two bits at a time from the top, without leading zero pairs.
Pairs(c, n) ==
    LET perDigit == DigitBits \div 2
        Pair(k) == (c[k \div perDigit] \div Power(4, k % perDigit)) % 4
        top == CHOOSE k \in 0..(n * perDigit) :
                   /\ \A j \in k..(n * perDigit - 1) : Pair(j) = 0
                   /\ k > 0 => Pair(k - 1) # 0
    IN  [j \in 1..top |-> Pair(top - j)]

\* Times[x][y] is the product modulo d of two arrays of n digits.
bn_mod_exp(b, c, cdigits, d, n) ==
    LET Arrays == [0..(n - 1) -> Digit]
        Times == [x \in Arrays |-> [y \in Arrays |-> bn_mod_mul(x, y, d, n)]]
        power1 == Low(b, n)
        power2 == Times[power1][power1]
        power3 == Times[power2][power1]
        bpower == <<power1, power2, power3>>
        pairs == Pairs(c, cdigits)
        t[j \in 0..Len(pairs)] ==
            IF j = 0 THEN [Zero(n) EXCEPT ![0] = 1]
            ELSE LET square == Times[t[j - 1]][t[j - 1]]
                     fourth == Times[square][square]
                 IN  IF pairs[j] = 0 THEN fourth
                     ELSE Times[fourth][bpower[pairs[j]]]
    IN  t[Len(pairs)]

-----------------------------------------------------------------------------
BytesPerDigit == DigitBits \div ByteBits

\* bn_decode: a big-endian byte array as n digits; upTo[u] are the digits from
\* their u lowest bytes.
bn_decode(bytes, n) ==
    LET ByteAt(k) == IF k < Len(bytes) THEN bytes[Len(bytes) - k] ELSE 0
        upTo[u \in 0..BytesPerDigit] ==
            IF u = 0 THEN Zero(n)
            ELSE [i \in 0..(n - 1) |->
                     upTo[u - 1][i] + ByteAt(i * BytesPerDigit + u - 1)
                                        * Power(2, ByteBits * (u - 1))]
    IN  upTo[BytesPerDigit]

\* bn_encode: n digits as size bytes, big-endian; bytes with no digit are 0.
bn_encode(size, a, n) ==
    [j \in 1..size |->
        LET k == size - j
            i == k \div BytesPerDigit
        IN  IF i < n
            THEN (a[i] \div Power(2, ByteBits * (k % BytesPerDigit)))
                   % Power(2, ByteBits)
            ELSE 0]

\* The number an array of n digits stands for: the reference of the properties.
Value(a, n) ==
    LET v[i \in 0..n] ==
            IF i = 0 THEN 0 ELSE v[i - 1] + a[i - 1] * Power(Base, i - 1)
    IN  v[n]
=============================================================================

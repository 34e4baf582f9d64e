----------------------------- MODULE MCRsaBlock -----------------------------
(***************************************************************************)
(* Instances of RsaBlock for TLC: key pairs of one and two digits.         *)
(***************************************************************************)
EXTENDS RsaBlock

Digits(x, n) == [k \in 0..(n - 1) |-> (x \div Base^k) % Base]

Inverse(x, m) == CHOOSE y \in 1..(m - 1) : (x * y) % m = 1

\* A key pair from its primes and its public exponent.
KeyPair(p, q, e) ==
    LET n == p * q
        pdigits == CHOOSE k \in 1..8 : Base^(k - 1) <= p /\ p < Base^k
        ndigits == CHOOSE k \in 1..8 : Base^(k - 1) <= n /\ n < Base^k
    IN  [p |-> Digits(p, pdigits), q |-> Digits(q, pdigits),
         dp |-> Digits(Inverse(e, p - 1), pdigits),
         dq |-> Digits(Inverse(e, q - 1), pdigits),
         q_inv |-> Digits(Inverse(q, p), pdigits),
         n |-> Digits(n, ndigits), e |-> Digits(e, ndigits),
         ndigits |-> ndigits, pdigits |-> pdigits,
         size |-> ndigits * (DigitBits \div ByteBits)]

\* One digit; two digits, with a top digit that needs the largest shift and
\* one that is all ones when normalised; a second prime of fewer digits; and
\* the primes in the wrong order.
MCKeys ==
    {KeyPair(13, 11, 7), KeyPair(31, 17, 7), KeyPair(61, 53, 17),
     KeyPair(29, 13, 5), KeyPair(11, 13, 7)}

\* Every number that fits for the small moduli, and for the large one those
\* near the multiples of its primes.
MCInputs(k) ==
    LET n == Value(k.n, k.ndigits)
        p == Value(k.p, k.pdigits)
    IN  {x \in 0..(n + 2) : n < 600 \/ x % p \in {0, 1, p - 1} \/ x >= n}
=============================================================================

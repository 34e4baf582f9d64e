------------------------------ MODULE RsaBlock ------------------------------
(***************************************************************************)
(* private_block_operation (rsa.c) on one block, with the two reductions   *)
(* by bn_div digit by digit, and then public_block_operation on its        *)
(* result, as the loader applies it to what the signer produced.           *)
(***************************************************************************)
EXTENDS Bignum, FiniteSets

CONSTANTS Keys,     \* the key pairs under study
          Inputs(_) \* the numbers whose blocks are tried with a key

IsPrime(x) == x > 1 /\ \A y \in 2..(x - 1) : x % y # 0

\* A key: its primes, the exponents and the coefficient as digit arrays, the
\* number of digits of the modulus and of prime1, and the modulus in bytes.
\* Both operations take the numbers of digits from bn_digits.
ASSUME KeyAssumption ==
    \A key \in Keys :
        /\ {key.ndigits, key.pdigits, key.size} \subseteq Nat \ {0}
        /\ key.ndigits <= 2 * key.pdigits
        /\ \A name \in {"p", "q", "dp", "dq", "q_inv"} :
             key[name] \in [0..(key.pdigits - 1) -> Digit]
        /\ \A name \in {"n", "e"} : key[name] \in [0..(key.ndigits - 1) -> Digit]
        /\ bn_digits(key.p, key.pdigits) = key.pdigits
        /\ bn_digits(key.n, key.ndigits) = key.ndigits
        /\ Inputs(key) \subseteq Nat

\* What makes the numbers of a key a key pair.
ASSUME KeyPairAssumption ==
    \A key \in Keys :
        LET Of(name) == Value(key[name], key.pdigits)
            n == Value(key.n, key.ndigits)
            e == Value(key.e, key.ndigits)
        IN  /\ IsPrime(Of("p")) /\ IsPrime(Of("q"))
            /\ Of("p") * Of("q") = n
            /\ n <= Power(2, ByteBits * key.size)
            /\ (Of("dp") * e) % (Of("p") - 1) = 1
            /\ (Of("dq") * e) % (Of("q") - 1) = 1
            /\ (Of("q") * Of("q_inv")) % Of("p") = 1

VARIABLES
    key,
    in,         \* the block: size bytes
    pc,
    prime,      \* the modulus of the division under way or done: "p" or "q"
    cc, dd,     \* the normalised dividend and divisor of bn_div
    i,          \* the index of the quotient digit in bn_div
    ai,         \* that digit
    a,          \* the quotient
    corrections,\* how often the while loop of bn_div ran for this digit
    residue,    \* cp and cq, then mp and mq
    t,          \* t
    out,        \* the result: size bytes
    back        \* what public_block_operation makes of it

division == <<prime, cc, dd, i, ai, a, corrections>>
vars == <<key, in, pc, prime, cc, dd, i, ai, a, corrections, residue, t, out,
          back>>

c == bn_decode(in, key.ndigits)
cdigits == bn_digits(c, key.ndigits)
DigitsOf(name) == bn_digits(key[name], key.pdigits)
ShiftOf(name) == Shift(key[name], DigitsOf(name))
ddigits == DigitsOf(prime)

Init ==
    /\ key \in Keys
    /\ \E x \in Inputs(key) :
         in = bn_encode(key.size,
                        [k \in 0..(key.ndigits - 1) |->
                            (x \div Power(Base, k)) % Base],
                        key.ndigits)
    /\ pc = "compare"
    /\ prime = "none"
    /\ cc = << >> /\ dd = << >> /\ a = << >>
    /\ i = -1 /\ ai = 0 /\ corrections = 0
    /\ residue = [p |-> << >>, q |-> << >>]
    /\ t = << >> /\ out = << >> /\ back = << >>

\* ERR_WRONG_DATA for a block that is not below the modulus.
Compare ==
    /\ pc = "compare"
    /\ pc' = IF AtLeast(c, key.n, key.ndigits) THEN "rejected" ELSE "divide"
    /\ UNCHANGED division
    /\ UNCHANGED <<key, in, residue, t, out, back>>

-----------------------------------------------------------------------------
\* bn_mod (cp, c, cdigits, p, pdigits), then the same for q: bn_div normalises.
StartDivision ==
    /\ pc = "divide"
    /\ LET d == IF prime = "none" THEN "p" ELSE "q" IN
         /\ prime' = d
         /\ dd' = bn_shift_l(key[d], ShiftOf(d), DigitsOf(d)).digits
         /\ cc' = Normalised(c, ShiftOf(d), cdigits, DigitsOf(d))
         /\ i' = cdigits - DigitsOf(d)
    /\ a' = Zero(cdigits)
    /\ ai' = 0
    /\ corrections' = 0
    /\ pc' = "estimate"
    /\ UNCHANGED <<key, in, residue, t, out, back>>

EstimateDigit ==
    /\ pc = "estimate"
    /\ i >= 0
    /\ ai' = Estimate(cc, i, dd, ddigits)
    /\ cc' = SubtractEstimate(cc, i, ai', dd, ddigits)
    /\ corrections' = 0
    /\ pc' = "correct"
    /\ UNCHANGED <<key, in, prime, dd, i, a, residue, t, out, back>>

CorrectDigit ==
    /\ pc = "correct"
    /\ TooSmall(cc, i, dd, ddigits)
    /\ ai' = Wrap(ai + 1)
    /\ cc' = SubtractOnce(cc, i, dd, ddigits)
    /\ corrections' = corrections + 1
    /\ UNCHANGED <<key, in, pc, prime, dd, i, a, residue, t, out, back>>

SettleDigit ==
    /\ pc = "correct"
    /\ ~TooSmall(cc, i, dd, ddigits)
    /\ a' = [a EXCEPT ![i] = ai]
    /\ i' = i - 1
    /\ pc' = "estimate"
    /\ UNCHANGED <<key, in, prime, cc, dd, ai, corrections, residue, t, out,
                   back>>

\* The remainder, shifted back.
FinishDivision ==
    /\ pc = "estimate"
    /\ i < 0
    /\ residue' = [residue EXCEPT ![prime] =
                     Over(Zero(key.pdigits), 0, bn_shift_r(Low(cc, ddigits),
                                                           ShiftOf(prime),
                                                           ddigits))]
    /\ pc' = IF prime = "p" THEN "divide" ELSE "exponentiate"
    /\ UNCHANGED division
    /\ UNCHANGED <<key, in, t, out, back>>

-----------------------------------------------------------------------------
\* mp = cp ^ dp mod p, mq = cq ^ dq mod q
Exponentiate ==
    /\ pc = "exponentiate"
    /\ residue' = [p |-> bn_mod_exp(residue.p, key.dp, key.pdigits,
                                    key.p, key.pdigits),
                   q |-> bn_mod_exp(residue.q, key.dq, key.pdigits,
                                    key.q, key.pdigits)]
    /\ pc' = "subtract"
    /\ UNCHANGED division
    /\ UNCHANGED <<key, in, t, out, back>>

\* Mutant: the difference is formed without comparing.
SubtractUnordered ==
    /\ pc = "subtract"
    /\ t' = bn_sub(residue.p, residue.q, key.pdigits).digits
    /\ pc' = "combine"
    /\ UNCHANGED division
    /\ UNCHANGED <<key, in, residue, out, back>>

\* t = mp - mq mod p; the second borrow is not looked at.
Subtract ==
    /\ pc = "subtract"
    /\ t' = IF AtLeast(residue.p, residue.q, key.pdigits)
            THEN bn_sub(residue.p, residue.q, key.pdigits).digits
            ELSE bn_sub(key.p,
                        bn_sub(residue.q, residue.p, key.pdigits).digits,
                        key.pdigits).digits
    /\ pc' = "combine"
    /\ UNCHANGED division
    /\ UNCHANGED <<key, in, residue, out, back>>

\* t = (t * q_inv mod p) * q + mq, where mq is padded with zero digits.
Combine ==
    /\ pc = "combine"
    /\ t' = LET h == bn_mod_mul(t, key.q_inv, key.p, key.pdigits)
                mq == Over(Zero(2 * key.pdigits), 0, residue.q)
            IN  bn_add(bn_mul(h, key.q, key.pdigits), mq, key.ndigits).digits
    /\ out' = bn_encode(key.size, t', key.ndigits)
    /\ pc' = "public"
    /\ UNCHANGED division
    /\ UNCHANGED <<key, in, residue, back>>

\* public_block_operation on the result.
Public ==
    /\ pc = "public"
    /\ LET m == bn_decode(out, key.ndigits) IN
         IF AtLeast(m, key.n, key.ndigits)
         THEN pc' = "refused" /\ UNCHANGED back
         ELSE /\ back' = bn_encode(key.size,
                                   bn_mod_exp(m, key.e, key.ndigits,
                                              key.n, key.ndigits),
                                   key.ndigits)
              /\ pc' = "done"
    /\ UNCHANGED division
    /\ UNCHANGED <<key, in, residue, t, out>>

Terminated == pc \in {"rejected", "refused", "done"} /\ UNCHANGED vars

Next ==
    \/ Compare \/ StartDivision \/ EstimateDigit \/ CorrectDigit
    \/ SettleDigit \/ FinishDivision \/ Exponentiate \/ Subtract \/ Combine
    \/ Public \/ Terminated

Spec == Init /\ [][Next]_vars
-----------------------------------------------------------------------------
(* Properties *)

Array(x) ==
    \/ x = << >>
    \/ \E n \in 1..(2 * key.ndigits + 2) : x \in [0..(n - 1) -> Digit]

Bytes == [1..key.size -> 0..(Power(2, ByteBits) - 1)]

\* The type of every variable; every array holds digits that were written.
TypeOK ==
    /\ key \in Keys
    /\ in \in Bytes
    /\ pc \in {"compare", "divide", "estimate", "correct", "exponentiate",
              "subtract", "combine", "public", "rejected", "refused", "done"}
    /\ prime \in {"none", "p", "q"}
    /\ Array(cc) /\ Array(dd) /\ Array(a) /\ Array(t)
    /\ Array(residue.p) /\ Array(residue.q)
    /\ i \in Int /\ ai \in Digit /\ corrections \in Nat
    /\ {out, back} \subseteq {<< >>} \cup Bytes

Number(x) == Value(x, Cardinality(DOMAIN x))

Weight ==
    IF i < 0 THEN 1
    ELSE IF pc = "correct" THEN Power(Base, i) ELSE Power(Base, i + 1)

Abstract == INSTANCE LongDivision WITH
    dividend <- IF prime = "none" THEN 0
                ELSE Value(c, key.ndigits) * Power(2, ShiftOf(prime)),
    divisor <- Number(dd),
    quotient <- Number(a) + (IF pc = "correct" THEN ai * Weight ELSE 0),
    remainder <- Number(cc),
    unit <- Weight,
    phase <- IF pc = "estimate" THEN "digit"
             ELSE IF pc = "correct" THEN "correct" ELSE "idle"

\* Every step of bn_div on arrays is a step of long division on numbers: no
\* estimate is too large, no borrow or carry is lost, no digit overflows, and
\* two corrections suffice (the loop of bn_div).
ImplementsLongDivision == Abstract!Spec

\* The public operation accepts and undoes every result of the private one, which
\* computes modulo the two primes and recombines, for every block below the
\* modulus; unless mq exceeds mp by more than the first prime, when the
\* difference wraps.  With prime1 > prime2 that cannot be.
PublicUndoesPrivate ==
    /\ pc = "rejected" => Value(c, key.ndigits) >= Value(key.n, key.ndigits)
    /\ pc # "refused"
    /\ pc = "done" =>
         \/ back = in
         \/ Value(residue.q, key.pdigits)
              > Value(residue.p, key.pdigits) + Value(key.p, key.pdigits)
=============================================================================

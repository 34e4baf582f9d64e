---------------------------- MODULE BignumProofs ----------------------------
(***************************************************************************)
(* Proofs about the arithmetic of Bignum, about LongDivision and about     *)
(* RsaBlock, for every word width and every length of the arrays.  No      *)
(* carry and no borrow is lost in the loops of bignum.c, and bn_div,       *)
(* bn_mul and bn_mod_exp compute remainders, products and powers.  Every   *)
(* variable of RsaBlock keeps its type, its division is long division on   *)
(* numbers, and the public operation undoes the private one for every key  *)
(* pair.                                                                   *)
(***************************************************************************)
EXTENDS RsaBlock, Induction, FiniteSetTheorems

VARIABLES dividend, divisor, quotient, remainder, unit, passes, phase

\* Long division on numbers, with variables of its own.
Division == INSTANCE LongDivision WITH corrections <- passes

-----------------------------------------------------------------------------
(* Words *)

\* Dividing by the base splits a number uniquely.
LEMMA SplitIsUnique ==
    ASSUME NEW B \in Nat, B > 0, NEW x \in Int, NEW h \in Int,
           NEW l \in 0..(B - 1), x = h * B + l
    PROVE  x \div B = h /\ x % B = l
<1>1. x = B * (x \div B) + (x % B) /\ x % B \in 0..(B - 1) /\ x \div B \in Int
  OBVIOUS
<1>2. CASE x \div B < h
  <2>1. B * (h - x \div B) >= B
    BY <1>1, <1>2
  <2>. QED BY <2>1, <1>1
<1>3. CASE x \div B > h
  <2>1. B * (x \div B - h) >= B
    BY <1>1, <1>3
  <2>. QED BY <2>1, <1>1
<1>4. CASE x \div B = h
  BY <1>1, <1>4
<1>. QED BY <1>1, <1>2, <1>3, <1>4

\* What a sum or a difference of two words wraps to.
LEMMA WrapOnce ==
    ASSUME NEW x \in Int
    PROVE  /\ x \in Digit => Wrap(x) = x
           /\ x - Base \in Digit => Wrap(x) = x - Base
           /\ x + Base \in Digit => Wrap(x) = x + Base
           /\ Wrap(x) \in Digit
<1>. USE BignumAssumption DEF Digit, Wrap
<1>1. x \in Digit => Wrap(x) = x
  BY SplitIsUnique, x = 0 * Base + x
<1>2. x - Base \in Digit => Wrap(x) = x - Base
  BY SplitIsUnique, x = 1 * Base + (x - Base)
<1>3. x + Base \in Digit => Wrap(x) = x + Base
  BY SplitIsUnique, x = (-1) * Base + (x + Base)
<1>4. Wrap(x) \in Digit
  OBVIOUS
<1>. QED BY <1>1, <1>2, <1>3, <1>4

\* One digit of bn_add: the digit and the carry are those of the sum.
THEOREM AddDigitExact ==
    ASSUME NEW b \in Digit, NEW e \in Digit, NEW carry \in {0, 1}
    PROVE  LET r == AddDigit(b, e, carry) IN
           /\ r.digit \in Digit /\ r.carry \in {0, 1}
           /\ r.digit + Base * r.carry = b + e + carry
<1>. USE BignumAssumption DEF Digit, MaxDigit
<1>. DEFINE s == Wrap(b + carry)
            w == Wrap(s + e)
<1>1. /\ b + carry = Base => s = 0
      /\ b + carry < Base => s = b + carry
      /\ s \in Digit
  BY WrapOnce
<1>2. /\ s + e >= Base => w = s + e - Base
      /\ s + e < Base => w = s + e
      /\ w \in Digit
  <2>. HIDE DEF s
  <2>. QED BY <1>1, WrapOnce
<1>. HIDE DEF s, w
<1>3. CASE s < carry
  <2>1. b + carry = Base /\ s = 0 /\ carry = 1
    BY <1>1, <1>3
  <2>2. AddDigit(b, e, carry) = [digit |-> e, carry |-> carry]
    BY <1>3 DEF AddDigit, s
  <2>. QED BY <2>1, <2>2
<1>4. CASE ~(s < carry)
  <2>1. s = b + carry
    BY <1>1, <1>4
  <2>2. AddDigit(b, e, carry) = [digit |-> w, carry |-> IF w < e THEN 1 ELSE 0]
    BY <1>4 DEF AddDigit, s, w
  <2>3. CASE s + e >= Base
    <3>1. w = s + e - Base /\ w < e
      BY <2>3, <1>1, <1>2
    <3>2. AddDigit(b, e, carry) = [digit |-> w, carry |-> 1]
      BY <3>1, <2>2
    <3>. QED BY <3>1, <3>2, <2>1, <1>2
  <2>4. CASE s + e < Base
    <3>1. w = s + e /\ ~(w < e)
      BY <2>4, <1>1, <1>2
    <3>2. AddDigit(b, e, carry) = [digit |-> w, carry |-> 0]
      BY <3>1, <2>2
    <3>. QED BY <3>1, <3>2, <2>1, <1>2
  <2>. QED BY <2>3, <2>4, <1>1
<1>. QED BY <1>3, <1>4

\* One digit of bn_sub: the digit less the borrow is the difference.
THEOREM SubDigitExact ==
    ASSUME NEW b \in Digit, NEW e \in Digit, NEW borrow \in {0, 1}
    PROVE  LET r == SubDigit(b, e, borrow) IN
           /\ r.digit \in Digit /\ r.carry \in {0, 1}
           /\ r.digit - Base * r.carry = b - e - borrow
<1>. USE BignumAssumption DEF Digit, MaxDigit
<1>. DEFINE s == Wrap(b - borrow)
            w == Wrap(s - e)
<1>1. /\ b < borrow => s = Base - 1
      /\ b >= borrow => s = b - borrow
      /\ s \in Digit
  BY WrapOnce
<1>2. /\ s < e => w = s - e + Base
      /\ s >= e => w = s - e
      /\ w \in Digit
  <2>. HIDE DEF s
  <2>. QED BY <1>1, WrapOnce
<1>. HIDE DEF s, w
<1>3. CASE s > MaxDigit - borrow
  <2>1. b = 0 /\ borrow = 1
    BY <1>1, <1>3
  <2>2. SubDigit(b, e, borrow) = [digit |-> MaxDigit - e, carry |-> borrow]
    BY <1>3 DEF SubDigit, s
  <2>. QED BY <2>1, <2>2
<1>4. CASE ~(s > MaxDigit - borrow)
  <2>1. s = b - borrow
    BY <1>1, <1>4
  <2>2. SubDigit(b, e, borrow)
          = [digit |-> w, carry |-> IF w > MaxDigit - e THEN 1 ELSE 0]
    BY <1>4 DEF SubDigit, s, w
  <2>3. CASE s < e
    <3>1. w = s - e + Base /\ w > MaxDigit - e
      BY <2>3, <1>1, <1>2
    <3>2. SubDigit(b, e, borrow) = [digit |-> w, carry |-> 1]
      BY <3>1, <2>2
    <3>. QED BY <3>1, <3>2, <2>1, <1>2
  <2>4. CASE s >= e
    <3>1. w = s - e /\ ~(w > MaxDigit - e)
      BY <2>4, <1>1, <1>2
    <3>2. SubDigit(b, e, borrow) = [digit |-> w, carry |-> 0]
      BY <3>1, <2>2
    <3>. QED BY <3>1, <3>2, <2>1, <1>2
  <2>. QED BY <2>3, <2>4, <1>1
<1>. QED BY <1>3, <1>4

\* The two halves of a product of words.
LEMMA ProductOfWords ==
    ASSUME NEW e \in Digit, NEW d \in Digit
    PROVE  /\ Wrap(e * d) \in Digit
           /\ (e * d) \div Base \in 0..(Base - 2)
           /\ e * d = Base * ((e * d) \div Base) + Wrap(e * d)
<1>. DEFINE h == (e * d) \div Base
<1>1. e * d \in Nat /\ e * d <= (Base - 1) * (Base - 1)
  BY BignumAssumption DEF Digit
<1>2. /\ Wrap(e * d) \in Digit /\ h \in Int
      /\ e * d = Base * h + Wrap(e * d)
  BY <1>1, BignumAssumption DEF Digit, Wrap
<1>. HIDE DEF h
<1>3. h >= 0
  <2>1. SUFFICES ASSUME h < 0 PROVE FALSE
    BY <1>2
  <2>2. Base * h <= - Base
    BY <2>1, <1>2, BignumAssumption
  <2>. QED BY <2>2, <1>1, <1>2, BignumAssumption DEF Digit
<1>4. h < Base - 1
  <2>1. SUFFICES ASSUME h >= Base - 1 PROVE FALSE
    BY <1>2, BignumAssumption
  <2>2. Base * h >= Base * (Base - 1)
    BY <2>1, <1>2, BignumAssumption
  <2>3. (Base - 1) * (Base - 1) < Base * (Base - 1)
    BY BignumAssumption
  <2>. QED BY <2>2, <2>3, <1>1, <1>2, BignumAssumption DEF Digit
<1>. QED BY <1>2, <1>3, <1>4, BignumAssumption DEF h

\* A carry shows as a sum smaller than its second word.
LEMMA CarryOfSum ==
    ASSUME NEW x \in Digit, NEW y \in Digit
    PROVE  /\ Wrap(x + y) \in Digit
           /\ x + y = Wrap(x + y) + Base * (IF Wrap(x + y) < y THEN 1 ELSE 0)
<1>. USE BignumAssumption DEF Digit
<1>1. /\ Wrap(x + y) \in Digit
      /\ x + y >= Base => Wrap(x + y) = x + y - Base
      /\ x + y < Base => Wrap(x + y) = x + y
  BY WrapOnce
<1>2. CASE x + y >= Base
  BY <1>1, <1>2
<1>3. CASE x + y < Base
  BY <1>1, <1>3
<1>. QED BY <1>2, <1>3

\* A borrow shows as a difference that is too large to add the second word to.
LEMMA BorrowOfDifference ==
    ASSUME NEW x \in Digit, NEW y \in Digit
    PROVE  /\ Wrap(x - y) \in Digit
           /\ x - y = Wrap(x - y)
                        - Base * (IF Wrap(x - y) > MaxDigit - y THEN 1 ELSE 0)
<1>. USE BignumAssumption DEF Digit, MaxDigit
<1>1. /\ Wrap(x - y) \in Digit
      /\ x < y => Wrap(x - y) = x - y + Base
      /\ x >= y => Wrap(x - y) = x - y
  BY WrapOnce
<1>2. CASE x < y
  BY <1>1, <1>2
<1>3. CASE x >= y
  BY <1>1, <1>3
<1>. QED BY <1>2, <1>3

\* One digit of bn_add_digit_mul: the carry of sum and product fits a word.
THEOREM AddMulDigitExact ==
    ASSUME NEW b \in Digit, NEW e \in Digit, NEW d \in Digit,
           NEW carry \in Digit
    PROVE  LET r == AddMulDigit(b, e, d, carry) IN
           /\ r.digit \in Digit /\ r.carry \in Digit
           /\ r.digit + Base * r.carry = b + e * d + carry
<1>. DEFINE s == Wrap(b + carry)
            p == Wrap(e * d)
            h == (e * d) \div Base
            w == Wrap(s + p)
            k1 == IF s < carry THEN 1 ELSE 0
            k2 == IF w < p THEN 1 ELSE 0
<1>1. p \in Digit /\ h \in 0..(Base - 2) /\ e * d = Base * h + p
  BY ProductOfWords
<1>2. s \in Digit /\ b + carry = s + Base * k1
  BY CarryOfSum
<1>3. w \in Digit /\ s + p = w + Base * k2
  <2>. HIDE DEF s, p
  <2>. QED BY <1>1, <1>2, CarryOfSum
<1>4. k1 \in {0, 1} /\ k2 \in {0, 1}
  OBVIOUS
<1>5. AddMulDigit(b, e, d, carry) = [digit |-> w, carry |-> Wrap(k1 + k2 + h)]
  BY DEF AddMulDigit
<1>6. e * d \in Nat /\ e * d <= (Base - 1) * (Base - 1)
  BY BignumAssumption DEF Digit
<1>. HIDE DEF s, p, h, w, k1, k2
<1>7. b + e * d + carry = w + Base * (k1 + k2 + h)
  BY <1>1, <1>2, <1>3, <1>4, <1>6, BignumAssumption DEF Digit
<1>8. k1 + k2 + h \in Digit
  <2>1. SUFFICES ASSUME k1 + k2 + h >= Base PROVE FALSE
    BY <1>1, <1>4, BignumAssumption DEF Digit
  <2>2. Base * (k1 + k2 + h) >= Base * Base
    BY <2>1, <1>1, <1>4, BignumAssumption
  <2>3. (Base - 1) * (Base - 1) = Base * Base - 2 * Base + 1
    BY BignumAssumption
  <2>4. Base * (k1 + k2 + h) \in Int /\ Base * Base \in Int
    BY <1>1, <1>4, BignumAssumption
  <2>. QED BY <2>2, <2>3, <2>4, <1>3, <1>6, <1>7, BignumAssumption DEF Digit
<1>9. Wrap(k1 + k2 + h) = k1 + k2 + h
  BY <1>8, WrapOnce, BignumAssumption DEF Digit
<1>. QED BY <1>3, <1>5, <1>7, <1>8, <1>9

\* One digit of bn_sub_digit_mul: the borrow fits a word.
THEOREM SubMulDigitExact ==
    ASSUME NEW b \in Digit, NEW e \in Digit, NEW d \in Digit,
           NEW borrow \in Digit
    PROVE  LET r == SubMulDigit(b, e, d, borrow) IN
           /\ r.digit \in Digit /\ r.carry \in Digit
           /\ r.digit - Base * r.carry = b - e * d - borrow
<1>. DEFINE s == Wrap(b - borrow)
            p == Wrap(e * d)
            h == (e * d) \div Base
            w == Wrap(s - p)
            k1 == IF s > MaxDigit - borrow THEN 1 ELSE 0
            k2 == IF w > MaxDigit - p THEN 1 ELSE 0
<1>1. p \in Digit /\ h \in 0..(Base - 2) /\ e * d = Base * h + p
  BY ProductOfWords
<1>2. s \in Digit /\ b - borrow = s - Base * k1
  BY BorrowOfDifference
<1>3. w \in Digit /\ s - p = w - Base * k2
  <2>. HIDE DEF s, p
  <2>. QED BY <1>1, <1>2, BorrowOfDifference
<1>4. k1 \in {0, 1} /\ k2 \in {0, 1}
  OBVIOUS
<1>5. SubMulDigit(b, e, d, borrow) = [digit |-> w, carry |-> Wrap(k1 + k2 + h)]
  BY DEF SubMulDigit
<1>6. e * d \in Nat /\ e * d <= (Base - 1) * (Base - 1)
  BY BignumAssumption DEF Digit
<1>. HIDE DEF s, p, h, w, k1, k2
<1>7. b - e * d - borrow = w - Base * (k1 + k2 + h)
  BY <1>1, <1>2, <1>3, <1>4, <1>6, BignumAssumption DEF Digit
<1>8. k1 + k2 + h \in Digit
  <2>1. SUFFICES ASSUME k1 + k2 + h >= Base PROVE FALSE
    BY <1>1, <1>4, BignumAssumption DEF Digit
  <2>2. Base * (k1 + k2 + h) >= Base * Base
    BY <2>1, <1>1, <1>4, BignumAssumption
  <2>3. (Base - 1) * (Base - 1) = Base * Base - 2 * Base + 1
    BY BignumAssumption
  <2>4. Base * (k1 + k2 + h) \in Int /\ Base * Base \in Int
    BY <1>1, <1>4, BignumAssumption
  <2>. QED BY <2>2, <2>3, <2>4, <1>3, <1>6, <1>7, BignumAssumption DEF Digit
<1>9. Wrap(k1 + k2 + h) = k1 + k2 + h
  BY <1>8, WrapOnce, BignumAssumption DEF Digit
<1>. QED BY <1>3, <1>5, <1>7, <1>8, <1>9

-----------------------------------------------------------------------------
(* The estimate of a quotient digit *)

\* Multiplying keeps the order.
LEMMA Monotone ==
    ASSUME NEW x \in Int, NEW y \in Int, NEW z \in Nat, x <= y
    PROVE  x * z <= y * z
<1>1. (y - x) * z >= 0
  OBVIOUS
<1>. QED BY <1>1

\* The quotient digit bn_div estimates from the two top digits of what is left
\* (h and l; the digits below are worth rlo < S) and the top digit t of the
\* divisor D, normalised so that its top bit is set.
THEOREM EstimateIsSound ==
    ASSUME NEW x, NEW z, NEW j \in Nat, NEW n \in Nat \ {0},
           x[j + n] \in Digit, x[j + n - 1] \in Digit, z[n - 1] \in Digit,
           2 * z[n - 1] >= Base,
           NEW S \in Nat \ {0}, NEW lo \in 0..(S - 1), NEW rlo \in 0..(S - 1),
           NEW D \in Nat, D = z[n - 1] * S + lo,
           NEW R \in Nat, R = (x[j + n] * Base + x[j + n - 1]) * S + rlo,
           R < Base * D
    PROVE  LET q == Estimate(x, j, z, n) IN
           /\ q \in Digit
           /\ q * D <= R
           /\ R < (q + 3) * D
<1>. USE BignumAssumption DEF Digit, MaxDigit
<1>. DEFINE h == x[j + n]
            w == x[j + n - 1]
            v == z[n - 1]
            top == h * Base + w
<1>1. /\ h \in Digit /\ w \in Digit /\ v \in Digit /\ 2 * v >= Base
      /\ D = v * S + lo /\ R = top * S + rlo
      /\ Estimate(x, j, z, n)
           = IF v = MaxDigit THEN h ELSE Wrap(top \div (v + 1))
  BY DEF Estimate
<1>. HIDE DEF h, w, v
<1>2. top \in Nat /\ v > 0
  BY <1>1
<1>3. v * S <= D /\ D < (v + 1) * S
  BY <1>1
<1>4. top * S <= R /\ R < (top + 1) * S
  BY <1>1, <1>2
<1>5. CASE v = MaxDigit
  <2>1. h * D <= R
    <3>1. h * D <= h * (Base * S)
      BY <1>1, <1>3, <1>5, Monotone
    <3>2. h * (Base * S) = (h * Base) * S /\ (h * Base) * S <= top * S
      BY <1>1, <1>2, Monotone
    <3>. QED BY <3>1, <3>2, <1>1, <1>2, <1>4
  <2>2. R < (h + 3) * D
    <3>1. (top + 1) * S <= ((h + 1) * Base) * S
      BY <1>1, <1>2, Monotone
    <3>2. (h + 1) * Base <= (h + 3) * v
      BY <1>1, <1>5
    <3>3. ((h + 1) * Base) * S <= ((h + 3) * v) * S
      BY <3>2, <1>1, <1>5, Monotone
    <3>4. ((h + 3) * v) * S = (h + 3) * (v * S)
            /\ (h + 3) * (v * S) <= (h + 3) * D
      BY <1>1, <1>3, Monotone
    <3>. QED BY <3>1, <3>3, <3>4, <1>1, <1>2, <1>4
  <2>. QED BY <2>1, <2>2, <1>1, <1>5
<1>6. CASE v # MaxDigit
  <2>. DEFINE u == v + 1
              q == top \div u
  <2>1. u \in Nat /\ u > 1 /\ q \in Int /\ u * q <= top /\ top < u * (q + 1)
    BY <1>1, <1>2
  <2>. HIDE DEF q, u
  <2>2. q >= 0
    <3>1. q < 0 => u * (q + 1) <= 0
      BY <2>1
    <3>. QED BY <3>1, <2>1, <1>2
  <2>3. q < Base
    <3>1. Base * D <= Base * (u * S)
      BY <1>1, <1>3, Monotone DEF u
    <3>2. top * S < (Base * u) * S
      BY <3>1, <1>2, <1>4, <2>1
    <3>3. top < Base * u
      BY <3>2, <1>2, <2>1, Monotone
    <3>4. q >= Base => u * Base <= u * q
      BY <2>1, <2>2, Monotone
    <3>. QED BY <3>3, <3>4, <1>2, <2>1
  <2>4. Estimate(x, j, z, n) = q
    BY <2>2, <2>3, <2>1, <1>1, <1>6, WrapOnce DEF q, u
  <2>5. q * D <= R
    <3>1. q * D <= q * (u * S)
      BY <1>1, <1>3, <2>1, <2>2, Monotone DEF u
    <3>2. q * (u * S) = (u * q) * S /\ (u * q) * S <= top * S
      BY <1>2, <2>1, <2>2, Monotone
    <3>. QED BY <3>1, <3>2, <1>2, <1>4, <2>1, <2>2
  <2>6. R < (q + 3) * D
    <3>1. (top + 1) * S <= (u * (q + 1)) * S
      BY <1>2, <2>1, <2>2, Monotone
    <3>2. u * (q + 1) <= (q + 3) * v
      <4>1. u * (q + 1) = v * q + v + q + 1 /\ (q + 3) * v = v * q + 3 * v
        BY <1>1, <2>1 DEF u
      <4>. QED BY <4>1, <1>1, <2>1, <2>3
    <3>3. (u * (q + 1)) * S <= ((q + 3) * v) * S
      BY <3>2, <1>1, <2>1, <2>2, Monotone
    <3>4. ((q + 3) * v) * S = (q + 3) * (v * S)
            /\ (q + 3) * (v * S) <= (q + 3) * D
      BY <1>1, <1>3, <2>1, <2>2, Monotone
    <3>. QED BY <3>1, <3>3, <3>4, <1>1, <1>2, <1>4, <2>1, <2>2
  <2>. QED BY <2>1, <2>2, <2>3, <2>4, <2>5, <2>6
<1>. QED BY <1>5, <1>6

-----------------------------------------------------------------------------
(* Long division *)

\* What holds between any two steps of a division.
DivisionInv ==
    /\ dividend \in Nat /\ divisor \in Nat
    /\ quotient \in Nat /\ remainder \in Nat
    /\ unit \in Nat \ {0}
    /\ passes \in Nat
    /\ phase \in {"idle", "digit", "correct"}
    /\ dividend = quotient * divisor + remainder
    /\ phase # "idle" => divisor # 0
    /\ phase = "digit" => remainder < divisor * unit /\ passes <= 2
    /\ phase = "correct" =>
         passes <= 2 /\ remainder < (3 - passes) * (divisor * unit)
    /\ phase = "idle" =>
         passes <= 2 /\ (divisor # 0 => remainder < divisor)

\* The division starts with quotient 0 and the dividend left.
LEMMA DivisionInitial == Division!Init => DivisionInv
BY DEF Division!Init, DivisionInv

\* Every step of the division keeps its invariant.
LEMMA DivisionStep ==
    DivisionInv /\ [Division!Next]_(Division!vars) => DivisionInv'
<1>. SUFFICES ASSUME DivisionInv, [Division!Next]_(Division!vars)
              PROVE DivisionInv'
  OBVIOUS
<1>1. CASE Division!Start
  <2>1. /\ phase' = "digit" /\ passes' = 0 /\ quotient' = 0
        /\ dividend' \in Nat /\ divisor' \in Nat \ {0} /\ unit' \in Nat \ {0}
        /\ dividend' < divisor' * unit' /\ remainder' = dividend'
    BY <1>1 DEF Division!Start
  <2>2. \A x, y \in Nat : x = 0 * y + x
    OBVIOUS
  <2>3. dividend' = quotient' * divisor' + remainder'
    BY <2>1, <2>2, Zenon
  <2>4. /\ quotient' \in Nat /\ remainder' \in Nat /\ passes' \in Nat
        /\ passes' <= 2 /\ divisor' \in Nat /\ divisor' # 0
        /\ remainder' < divisor' * unit'
    <3>1. 0 \in Nat /\ 0 <= 2 /\ \A x \in Nat \ {0} : x \in Nat /\ x # 0
      OBVIOUS
    <3>. QED BY <2>1, <3>1, Zenon
  <2>. QED BY <2>1, <2>3, <2>4, Zenon DEF DivisionInv
<1>2. CASE Division!EstimateDigit
  <2>. PICK digit \in 0..(Base - 1) :
         /\ digit * (divisor * unit') <= remainder
         /\ remainder < (digit + 3) * (divisor * unit')
         /\ quotient' = quotient + digit * unit'
         /\ remainder' = remainder - digit * (divisor * unit')
    BY <1>2 DEF Division!EstimateDigit
  <2>1. /\ unit' \in Nat \ {0} /\ passes' = 0 /\ phase' = "correct"
        /\ dividend' = dividend /\ divisor' = divisor /\ phase = "digit"
    BY <1>2 DEF Division!EstimateDigit
  <2>2. /\ dividend \in Nat /\ divisor \in Nat \ {0} /\ quotient \in Nat
        /\ remainder \in Nat /\ dividend = quotient * divisor + remainder
    BY <2>1 DEF DivisionInv
  <2>3. digit \in Nat
    BY BignumAssumption
  <2>. DEFINE g == divisor * unit'
  <2>4. g \in Nat /\ digit * g \in Nat /\ digit * unit' \in Nat
    <3>1. g \in Nat
      <4>1. \A x, y \in Nat : x * y \in Nat
        OBVIOUS
      <4>2. divisor \in Nat /\ unit' \in Nat
        BY <2>1, <2>2
      <4>. QED BY <4>1, <4>2, Zenon
    <3>2. \A y \in Nat : digit * y \in Nat
      BY <2>3
    <3>. HIDE DEF g
    <3>. QED BY <3>1, <3>2, <2>1
  <2>5. quotient' * divisor = quotient * divisor + digit * g
    BY <2>1, <2>2, <2>3
  <2>6. (digit + 3) * g = digit * g + 3 * g
    BY <2>3, <2>4
  <2>. HIDE DEF g
  <2>7. /\ remainder' = remainder - digit * g /\ digit * g <= remainder
        /\ remainder < (digit + 3) * g
    BY DEF g
  <2>8. quotient' \in Nat /\ remainder' \in Nat /\ remainder' < 3 * g
    BY <2>2, <2>3, <2>4, <2>6, <2>7
  <2>9. dividend' = quotient' * divisor' + remainder'
    <3>1. quotient' * divisor' = quotient * divisor + digit * g
      BY <2>1, <2>5
    <3>2. quotient * divisor \in Nat
      BY <2>2
    <3>3. quotient * divisor + remainder
            = quotient * divisor + digit * g + (remainder - digit * g)
      BY <3>2, <2>2, <2>4
    <3>4. dividend' = quotient * divisor + remainder
      BY <2>1, <2>2
    <3>. QED BY <3>1, <3>3, <3>4, <2>7
  <2>10. remainder' < (3 - passes') * (divisor' * unit')
    <3>1. divisor' * unit' = g /\ 3 - passes' = 3
      BY <2>1 DEF g
    <3>. QED BY <3>1, <2>8, Zenon
  <2>11. /\ passes' \in Nat /\ passes' <= 2
         /\ divisor' \in Nat /\ divisor' # 0 /\ dividend' \in Nat
    BY <2>1, <2>2
  <2>. QED BY <2>1, <2>8, <2>9, <2>10, <2>11, Zenon DEF DivisionInv
<1>3. CASE Division!CorrectDigit
  <2>1. /\ phase = "correct" /\ phase' = "correct" /\ unit' = unit
        /\ dividend' = dividend /\ divisor' = divisor
        /\ quotient' = quotient + unit
        /\ remainder' = remainder - divisor * unit
        /\ passes' = passes + 1
        /\ remainder >= divisor * unit
    BY <1>3 DEF Division!CorrectDigit
  <2>2. /\ dividend \in Nat /\ divisor \in Nat \ {0} /\ quotient \in Nat
        /\ remainder \in Nat /\ unit \in Nat \ {0} /\ passes \in Nat
        /\ dividend = quotient * divisor + remainder /\ passes <= 2
        /\ remainder < (3 - passes) * (divisor * unit)
    BY <2>1 DEF DivisionInv
  <2>. DEFINE g == divisor * unit
  <2>3. g \in Nat \ {0}
    BY <2>2
  <2>4. quotient' * divisor = quotient * divisor + g
    BY <2>1, <2>2
  <2>. HIDE DEF g
  <2>5. remainder' = remainder - g /\ remainder >= g
        /\ remainder < (3 - passes) * g
    BY <2>1, <2>2 DEF g
  <2>6. passes # 2
    BY <2>2, <2>3, <2>5
  <2>7. remainder' < (3 - passes') * g /\ passes' <= 2
    <3>1. CASE passes = 0
      BY <3>1, <2>1, <2>2, <2>3, <2>5
    <3>2. CASE passes = 1
      BY <3>2, <2>1, <2>2, <2>3, <2>5
    <3>. QED BY <3>1, <3>2, <2>2, <2>6
  <2>8. quotient' \in Nat /\ remainder' \in Nat /\ passes' \in Nat
    BY <2>1, <2>2, <2>3, <2>5
  <2>9. dividend' = quotient' * divisor' + remainder'
    BY <2>1, <2>2, <2>3, <2>4, <2>5
  <2>. QED BY <2>1, <2>2, <2>7, <2>8, <2>9 DEF DivisionInv, g
<1>4. CASE Division!SettleDigit
  BY <1>4 DEF DivisionInv, Division!SettleDigit
<1>5. CASE Division!Finish
  <2>1. divisor * 1 = divisor
    BY DEF DivisionInv
  <2>. QED BY <1>5, <2>1 DEF DivisionInv, Division!Finish
<1>6. CASE UNCHANGED Division!vars
  BY <1>6 DEF DivisionInv, Division!vars
<1>. QED BY <1>1, <1>2, <1>3, <1>4, <1>5, <1>6 DEF Division!Next

\* A finished long division leaves quotient and remainder, and no digit is
\* corrected a third time: what bn_div does, once its steps are these.
THEOREM LongDivisionCorrect ==
    Division!Spec => [](Division!Divided /\ Division!TwoCorrections)
<1>1. DivisionInv => Division!Divided /\ Division!TwoCorrections
  BY DEF DivisionInv, Division!Divided, Division!TwoCorrections
<1>. QED BY <1>1, DivisionInitial, DivisionStep, PTL DEF Division!Spec

-----------------------------------------------------------------------------
(* The recursive functions of Bignum *)

\* Two loops that agree before and in every pass have the same values.
LEMMA LoopsAgree ==
    ASSUME NEW N \in Nat, NEW f, NEW g, f[0] = g[0],
           \A n \in 1..N : f[n - 1] = g[n - 1] => f[n] = g[n]
    PROVE  \A n \in 0..N : f[n] = g[n]
<1> DEFINE Same == {n \in 0..N : f[n] = g[n]}
<1>1. 0 \in Same
  BY SMT
<1>2. \A n \in 0..(N - 1) : n \in Same => n + 1 \in Same
  <2>1. SUFFICES ASSUME NEW n \in 0..(N - 1), n \in Same PROVE n + 1 \in Same
    OBVIOUS
  <2>2. n + 1 \in 1..N /\ n + 1 \in 0..N /\ (n + 1) - 1 = n
    BY SMT
  <2> QED
    BY <2>1, <2>2
<1> HIDE DEF Same
<1>3. \A n \in 0..N : n \in Same
  BY <1>1, <1>2, BoundedInduction, Zenon
<1> QED
  BY <1>3 DEF Same

\* A recursive function over 0..N has the values its equation says.
LEMMA RecursionExists ==
    ASSUME NEW N \in Nat, NEW S, NEW base \in S, NEW F \in [S \X (1..N) -> S]
    PROVE  \E f : /\ f = [n \in 0..N |-> IF n = 0 THEN base
                                         ELSE F[<<f[n - 1], n>>]]
<1>1. PICK g \in [0..N -> S] : IsLoop(g, N, base, F)
  BY LoopExists, Zenon
<1>2. \A n \in 0..N : n = 0 \/ n \in 1..N
  BY SMT
<1>3. \A n \in 0..N : g[n] = IF n = 0 THEN base ELSE F[<<g[n - 1], n>>]
  BY <1>1, <1>2 DEF IsLoop
<1> QED
  BY <1>1, <1>3

\* The function by which Power is defined exists.
LEMMA PowerLoop ==
    ASSUME NEW b \in Nat, NEW n \in Nat
    PROVE  \E f : /\ Power(b, n) = f[n] /\ f[0] = 1
                  /\ \A k \in 1..n : f[k] = b * f[k - 1]
                  /\ \A k \in 0..n : f[k] \in Nat
<1> DEFINE F == [x \in Nat \X (1..n) |-> b * x[1]]
           Is(f) == f = [k \in 0..n |-> IF k = 0 THEN 1 ELSE b * f[k - 1]]
<1>1. F \in [Nat \X (1..n) -> Nat] /\ \A v \in Nat, k \in 1..n :
        F[<<v, k>>] = b * v
  OBVIOUS
<1> HIDE DEF F
<1>2. PICK g \in [0..n -> Nat] : IsLoop(g, n, 1, F)
  BY <1>1, LoopExists
<1>3. /\ \A k \in 1..n : k - 1 \in 0..n /\ k \in 0..n /\ k # 0
      /\ \A k \in 0..n : k = 0 \/ k \in 1..n
      /\ 0 \in 0..n /\ n \in 0..n
  BY SMT
<1>4. Is(g)
  BY <1>1, <1>2, <1>3 DEF IsLoop
<1>5. Power(b, n) = (CHOOSE f : Is(f))[n]
  BY DEF Power
<1>6. PICK f : Is(f) /\ Power(b, n) = f[n]
  BY <1>4, <1>5
<1>7. f[0] = 1 /\ \A k \in 1..n : f[k] = b * f[k - 1]
  BY <1>3, <1>6
<1>8. f[0] \in Nat /\ \A k \in 1..n : f[k - 1] \in Nat => f[k] \in Nat
  BY <1>7
<1>9. \A k \in 0..n : f[k] \in Nat
  BY <1>8, LoopType, Zenon
<1> QED
  BY <1>6, <1>7, <1>9

\* Powers of a number.
LEMMA PowerFacts ==
    ASSUME NEW b \in Nat, NEW n \in Nat
    PROVE  /\ Power(b, n) \in Nat
           /\ Power(b, 0) = 1
           /\ Power(b, n + 1) = b * Power(b, n)
<1>1. PICK f : /\ Power(b, n) = f[n] /\ f[0] = 1
               /\ \A k \in 1..n : f[k] = b * f[k - 1]
               /\ \A k \in 0..n : f[k] \in Nat
  BY PowerLoop
<1>2. n + 1 \in Nat /\ 0 \in Nat
  OBVIOUS
<1>3. PICK g : /\ Power(b, n + 1) = g[n + 1] /\ g[0] = 1
               /\ \A k \in 1..(n + 1) : g[k] = b * g[k - 1]
               /\ \A k \in 0..(n + 1) : g[k] \in Nat
  BY <1>2, PowerLoop
<1>4. PICK h : /\ Power(b, 0) = h[0] /\ h[0] = 1
  BY <1>2, PowerLoop
<1>5. \A k \in 1..n : k \in 1..(n + 1)
  BY SMT
<1>6. \A k \in 1..n : f[k - 1] = g[k - 1] => f[k] = g[k]
  BY <1>1, <1>3, <1>5
<1>7. f[n] = g[n]
  <2>1. f[0] = g[0]
    BY <1>1, <1>3
  <2>2. \A k \in 0..n : f[k] = g[k]
    BY <1>6, <2>1, LoopsAgree, Zenon
  <2>3. n \in 0..n
    BY SMT
  <2> QED
    BY <2>2, <2>3
<1>8. g[n + 1] = b * g[n] /\ f[n] \in Nat
  <2>1. n + 1 \in 1..(n + 1) /\ (n + 1) - 1 = n /\ n \in 0..n
    BY SMT
  <2> QED
    BY <1>1, <1>3, <2>1
<1> QED
  BY <1>1, <1>3, <1>4, <1>7, <1>8, Zenon

\* A positive number has positive powers.
LEMMA PowerPositive ==
    ASSUME NEW b \in Nat \ {0}, NEW n \in Nat
    PROVE  Power(b, n) \in Nat \ {0}
<1> DEFINE S == {k \in Nat : Power(b, k) \in Nat \ {0}}
<1>1. 0 \in S
  BY PowerFacts
<1>2. ASSUME NEW k \in Nat, k \in S PROVE k + 1 \in S
  <2>1. Power(b, k + 1) = b * Power(b, k)
    BY PowerFacts
  <2>2. \A x, y \in Nat \ {0} : x * y \in Nat \ {0}
    OBVIOUS
  <2> QED
    BY <1>2, <2>1, <2>2
<1> HIDE DEF S
<1>3. n \in S
  BY <1>1, <1>2, SetInduction
<1> QED
  BY <1>3 DEF S

\* A power of a sum.
LEMMA PowerOfSum ==
    ASSUME NEW b \in Nat, NEW m \in Nat, NEW n \in Nat
    PROVE  Power(b, m + n) = Power(b, m) * Power(b, n)
<1> DEFINE S == {k \in Nat : Power(b, m + k) = Power(b, m) * Power(b, k)}
<1>1. 0 \in S
  <2>1. Power(b, 0) = 1 /\ Power(b, m) \in Nat /\ m + 0 = m
    BY PowerFacts
  <2> QED
    BY <2>1
<1>2. ASSUME NEW k \in Nat, k \in S PROVE k + 1 \in S
  <2>1. m + (k + 1) = (m + k) + 1 /\ m + k \in Nat
    OBVIOUS
  <2>2. Power(b, m + (k + 1)) = b * Power(b, m + k)
    BY <2>1, PowerFacts
  <2>3. Power(b, k + 1) = b * Power(b, k) /\ Power(b, k) \in Nat
          /\ Power(b, m) \in Nat
    BY PowerFacts
  <2>4. \A x, y \in Nat : b * (x * y) = x * (b * y)
    OBVIOUS
  <2>5. Power(b, m + k) = Power(b, m) * Power(b, k)
    BY <1>2
  <2>6. Power(b, m + (k + 1)) = Power(b, m) * Power(b, k + 1)
    BY <2>2, <2>3, <2>4, <2>5, Zenon
  <2> QED
    BY <2>6
<1> HIDE DEF S
<1>3. n \in S
  BY <1>1, <1>2, SetInduction
<1> QED
  BY <1>3 DEF S

\* A power grows with its exponent.
LEMMA PowerMonotone ==
    ASSUME NEW b \in Nat \ {0}, NEW m \in Nat, NEW n \in Nat, m <= n
    PROVE  Power(b, m) <= Power(b, n)
<1>1. n - m \in Nat /\ n = m + (n - m)
  BY SMT
<1>2. Power(b, n) = Power(b, m) * Power(b, n - m)
  BY <1>1, PowerOfSum
<1>3. Power(b, m) \in Nat \ {0} /\ Power(b, n - m) \in Nat \ {0}
  BY <1>1, PowerPositive
<1>4. \A x, y \in Nat \ {0} : x <= x * y
  OBVIOUS
<1> QED
  BY <1>2, <1>3, <1>4, Zenon

-----------------------------------------------------------------------------
(* The value of an array *)

\* The first n elements of an array are digits.
HasDigits(x, n) == \A k \in 0..(n - 1) : x[k] \in Digit

\* A digit is a number, and 0 and 1 are digits.
LEMMA DigitsAreNumbers == Digit \subseteq Nat /\ 0 \in Digit /\ 1 \in Digit
BY BignumAssumption DEF Digit

\* The function by which Value is defined exists.
LEMMA ValueLoop ==
    ASSUME NEW n \in Nat, NEW x, HasDigits(x, n)
    PROVE  \E f : /\ Value(x, n) = f[n] /\ f[0] = 0
                  /\ \A k \in 1..n :
                       f[k] = f[k - 1] + x[k - 1] * Power(Base, k - 1)
                  /\ \A k \in 0..n : f[k] \in Nat
<1> DEFINE Pass(v, k) == v + x[k - 1] * Power(Base, k - 1)
           F == [y \in Nat \X (1..n) |-> Pass(y[1], y[2])]
           Is(f) == f = [k \in 0..n |->
                           IF k = 0 THEN 0
                           ELSE f[k - 1] + x[k - 1] * Power(Base, k - 1)]
<1>1. \A v \in Nat, k \in 1..n : Pass(v, k) \in Nat
  <2>1. SUFFICES ASSUME NEW v \in Nat, NEW k \in 1..n PROVE Pass(v, k) \in Nat
    OBVIOUS
  <2>2. k - 1 \in Nat /\ k - 1 \in 0..(n - 1)
    BY SMT
  <2>3. x[k - 1] \in Nat
    BY <2>2, DigitsAreNumbers DEF HasDigits
  <2>4. Power(Base, k - 1) \in Nat
    BY <2>2, PowerFacts, BignumAssumption
  <2>5. \A u, w \in Nat : v + u * w \in Nat
    OBVIOUS
  <2> QED
    BY <2>3, <2>4, <2>5
<1> HIDE DEF Pass
<1>2. F \in [Nat \X (1..n) -> Nat] /\ \A v \in Nat, k \in 1..n :
        F[<<v, k>>] = Pass(v, k)
  BY <1>1
<1> HIDE DEF F
<1>3. PICK g \in [0..n -> Nat] : IsLoop(g, n, 0, F)
  <2>1. 0 \in Nat
    OBVIOUS
  <2> QED
    BY <1>2, <2>1, LoopExists
<1>4. /\ \A k \in 1..n : k - 1 \in 0..n /\ k \in 0..n /\ k # 0
      /\ \A k \in 0..n : k = 0 \/ k \in 1..n
      /\ 0 \in 0..n /\ n \in 0..n
  BY SMT
<1>5. Is(g)
  BY <1>2, <1>3, <1>4 DEF IsLoop, Pass
<1>6. Value(x, n) = (CHOOSE f : Is(f))[n]
  BY DEF Value
<1>7. PICK f : Is(f) /\ Value(x, n) = f[n]
  BY <1>5, <1>6
<1>8. f[0] = 0 /\ \A k \in 1..n : f[k] = Pass(f[k - 1], k)
  BY <1>4, <1>7 DEF Pass
<1>9. f[0] \in Nat /\ \A k \in 1..n : f[k - 1] \in Nat => f[k] \in Nat
  <2>1. f[0] \in Nat
    BY <1>8
  <2> QED
    BY <1>1, <1>8, <2>1, Zenon
<1>10. \A k \in 0..n : f[k] \in Nat
  BY <1>9, LoopType, Zenon
<1> QED
  BY <1>7, <1>8, <1>10 DEF Pass

\* The value of an array, digit by digit.
LEMMA ValueFacts ==
    ASSUME NEW n \in Nat, NEW x, HasDigits(x, n)
    PROVE  /\ Value(x, n) \in Nat
           /\ Value(x, 0) = 0
           /\ x[n] \in Digit =>
                Value(x, n + 1) = Value(x, n) + x[n] * Power(Base, n)
<1>1. PICK f : /\ Value(x, n) = f[n] /\ f[0] = 0
               /\ \A k \in 1..n :
                    f[k] = f[k - 1] + x[k - 1] * Power(Base, k - 1)
               /\ \A k \in 0..n : f[k] \in Nat
  BY ValueLoop
<1>2. Value(x, 0) = 0
  <2>1. 0 \in Nat /\ HasDigits(x, 0)
    BY SMT DEF HasDigits
  <2> QED
    BY <2>1, ValueLoop
<1>3. n \in 0..n
  BY SMT
<1>4. ASSUME x[n] \in Digit
      PROVE  Value(x, n + 1) = Value(x, n) + x[n] * Power(Base, n)
  <2>1. n + 1 \in Nat /\ HasDigits(x, n + 1)
    BY <1>4 DEF HasDigits
  <2>2. PICK g : /\ Value(x, n + 1) = g[n + 1] /\ g[0] = 0
                 /\ \A k \in 1..(n + 1) :
                      g[k] = g[k - 1] + x[k - 1] * Power(Base, k - 1)
                 /\ \A k \in 0..(n + 1) : g[k] \in Nat
    BY <2>1, ValueLoop
  <2>3. \A k \in 1..n : k \in 1..(n + 1)
    BY SMT
  <2>4. \A k \in 1..n : f[k - 1] = g[k - 1] => f[k] = g[k]
    BY <1>1, <2>2, <2>3
  <2>5. \A k \in 0..n : f[k] = g[k]
    <3>1. f[0] = g[0]
      BY <1>1, <2>2
    <3> QED
      BY <2>4, <3>1, LoopsAgree, Zenon
  <2>6. n + 1 \in 1..(n + 1) /\ (n + 1) - 1 = n
    BY SMT
  <2>7. g[n + 1] = g[n] + x[n] * Power(Base, n)
    BY <2>2, <2>6
  <2> QED
    BY <1>1, <1>3, <2>2, <2>5, <2>7
<1> QED
  BY <1>1, <1>2, <1>3, <1>4

\* Fewer digits of an array of digits.
LEMMA FewerDigits ==
    ASSUME NEW n \in Nat, NEW m \in Nat, m <= n, NEW x, HasDigits(x, n)
    PROVE  HasDigits(x, m) /\ Value(x, m) \in Nat
           /\ (m < n => x[m] \in Digit)
<1>1. HasDigits(x, m)
  BY SMT DEF HasDigits
<1>2. m < n => m \in 0..(n - 1)
  BY SMT
<1> QED
  BY <1>1, <1>2, ValueFacts DEF HasDigits

\* n digits are worth less than the n-th power of the base.
LEMMA ValueBound ==
    ASSUME NEW n \in Nat, NEW x, HasDigits(x, n)
    PROVE  Value(x, n) < Power(Base, n)
<1> DEFINE S == {k \in 0..n : Value(x, k) < Power(Base, k)}
<1>1. 0 \in S
  BY ValueFacts, PowerFacts, BignumAssumption
<1>2. ASSUME NEW k \in 0..(n - 1), k \in S PROVE k + 1 \in S
  <2>1. /\ k \in Nat /\ k <= n /\ k < n /\ k + 1 \in 0..n
    BY SMT
  <2>2. HasDigits(x, k) /\ x[k] \in Digit /\ Value(x, k) \in Nat
    BY <2>1, FewerDigits
  <2>3. Value(x, k + 1) = Value(x, k) + x[k] * Power(Base, k)
    BY <2>1, <2>2, ValueFacts
  <2>4. Power(Base, k) \in Nat /\ Power(Base, k + 1) = Base * Power(Base, k)
    BY <2>1, PowerFacts, BignumAssumption
  <2>5. \A u, p \in Nat, d \in Digit : u < p => u + d * p < Base * p
    <3>1. SUFFICES ASSUME NEW u \in Nat, NEW p \in Nat, NEW d \in Digit, u < p
                   PROVE  u + d * p < Base * p
      OBVIOUS
    <3>2. d + 1 <= Base /\ d \in Nat /\ Base \in Nat
      BY BignumAssumption DEF Digit
    <3>3. (d + 1) * p <= Base * p
      BY <3>2, Monotone
    <3> QED
      BY <3>1, <3>2, <3>3
  <2>6. Value(x, k + 1) < Power(Base, k + 1)
    BY <1>2, <2>2, <2>3, <2>4, <2>5
  <2> QED
    BY <2>1, <2>6
<1> HIDE DEF S
<1>3. \A k \in 0..n : k \in S
  BY <1>1, <1>2, BoundedInduction, Zenon
<1>4. n \in 0..n
  BY SMT
<1> QED
  BY <1>3, <1>4 DEF S

\* Arrays with the same digits have the same value.
SameDigits(x, y, n) == \A k \in 0..(n - 1) : x[k] = y[k]

\* The value of an array depends on its digits alone.
LEMMA SameValue ==
    ASSUME NEW n \in Nat, NEW x, NEW y, HasDigits(x, n), SameDigits(x, y, n)
    PROVE  Value(x, n) = Value(y, n) /\ HasDigits(y, n)
<1>1. HasDigits(y, n)
  BY DEF HasDigits, SameDigits
<1> DEFINE S == {k \in 0..n : Value(x, k) = Value(y, k)}
<1>2. 0 \in S
  BY <1>1, ValueFacts
<1>3. ASSUME NEW k \in 0..(n - 1), k \in S PROVE k + 1 \in S
  <2>1. /\ k \in Nat /\ k <= n /\ k < n /\ k + 1 \in 0..n
    BY SMT
  <2>2. /\ HasDigits(x, k) /\ x[k] \in Digit
        /\ HasDigits(y, k) /\ y[k] \in Digit
    BY <1>1, <2>1, FewerDigits
  <2>3. /\ Value(x, k + 1) = Value(x, k) + x[k] * Power(Base, k)
        /\ Value(y, k + 1) = Value(y, k) + y[k] * Power(Base, k)
    BY <2>1, <2>2, ValueFacts
  <2>4. x[k] = y[k]
    BY DEF SameDigits
  <2> QED
    BY <1>3, <2>1, <2>3, <2>4
<1> HIDE DEF S
<1>4. \A k \in 0..n : k \in S
  BY <1>2, <1>3, BoundedInduction, Zenon
<1>5. n \in 0..n
  BY SMT
<1> QED
  BY <1>1, <1>4, <1>5 DEF S

\* Digits that are zero add nothing.
LEMMA LeadingZeros ==
    ASSUME NEW n \in Nat, NEW m \in Nat, m <= n, NEW x, HasDigits(x, n),
           \A k \in m..(n - 1) : x[k] = 0
    PROVE  Value(x, n) = Value(x, m)
<1> DEFINE S == {k \in 0..(n - m) : Value(x, m + k) = Value(x, m)}
<1>1. 0 \in S /\ n - m \in Nat
  BY SMT
<1>2. ASSUME NEW k \in 0..((n - m) - 1), k \in S PROVE k + 1 \in S
  <2>1. /\ m + k \in Nat /\ m + k <= n /\ m + k < n /\ m + k \in m..(n - 1)
        /\ k + 1 \in 0..(n - m) /\ m + (k + 1) = (m + k) + 1
    BY SMT
  <2>2. /\ HasDigits(x, m + k) /\ x[m + k] \in Digit /\ Value(x, m + k) \in Nat
    BY <2>1, FewerDigits
  <2>3. Value(x, (m + k) + 1) = Value(x, m + k) + x[m + k] * Power(Base, m + k)
    BY <2>1, <2>2, ValueFacts
  <2>4. x[m + k] = 0 /\ Power(Base, m + k) \in Nat
    BY <2>1, PowerFacts, BignumAssumption
  <2>5. Value(x, (m + k) + 1) = Value(x, m + k)
    BY <2>2, <2>3, <2>4
  <2> QED
    BY <1>2, <2>1, <2>5
<1> HIDE DEF S
<1>3. \A k \in 0..(n - m) : k \in S
  BY <1>1, <1>2, BoundedInduction, Zenon
<1>4. n - m \in 0..(n - m) /\ m + (n - m) = n
  BY SMT
<1> QED
  BY <1>3, <1>4 DEF S

\* An array is its lower digits and, shifted, its upper ones.
LEMMA ValueSplit ==
    ASSUME NEW m \in Nat, NEW n \in Nat, NEW x, HasDigits(x, m + n)
    PROVE  /\ HasDigits(x, m) /\ HasDigits(Window(x, m, n), n)
           /\ Value(x, m + n) =
                Value(x, m) + Power(Base, m) * Value(Window(x, m, n), n)
<1> DEFINE y == Window(x, m, n)
           S == {k \in 0..n : Value(x, m + k) =
                                Value(x, m) + Power(Base, m) * Value(y, k)}
<1>1. m + n \in Nat /\ m <= m + n
  BY SMT
<1>2. HasDigits(x, m) /\ Value(x, m) \in Nat
  BY <1>1, FewerDigits
<1>3. \A k \in 0..(n - 1) : y[k] = x[m + k]
  BY DEF Window
<1>4. HasDigits(y, n)
  <2>1. \A k \in 0..(n - 1) : m + k \in 0..((m + n) - 1)
    BY SMT
  <2> QED
    BY <1>3, <2>1 DEF HasDigits
<1> HIDE DEF y
<1>5. 0 \in S
  <2>1. 0 \in 0..n /\ m + 0 = m
    BY SMT
  <2>2. Value(y, 0) = 0
    BY <1>4, ValueFacts
  <2>3. Power(Base, m) \in Nat
    BY PowerFacts, BignumAssumption
  <2> QED
    BY <1>2, <2>1, <2>2, <2>3
<1>6. ASSUME NEW k \in 0..(n - 1), k \in S PROVE k + 1 \in S
  <2>1. /\ k \in Nat /\ k <= n /\ k < n /\ k + 1 \in 0..n
        /\ m + k \in Nat /\ m + k <= m + n /\ m + k < m + n
        /\ m + (k + 1) = (m + k) + 1
    BY SMT
  <2>2. /\ HasDigits(x, m + k) /\ x[m + k] \in Digit /\ Value(x, m + k) \in Nat
    BY <1>1, <2>1, FewerDigits
  <2>3. /\ HasDigits(y, k) /\ y[k] \in Digit /\ Value(y, k) \in Nat
    BY <1>4, <2>1, FewerDigits
  <2>4. Value(x, (m + k) + 1) = Value(x, m + k) + x[m + k] * Power(Base, m + k)
    BY <2>1, <2>2, ValueFacts
  <2>5. Value(y, k + 1) = Value(y, k) + y[k] * Power(Base, k)
    BY <2>1, <2>3, ValueFacts
  <2>6. Power(Base, m + k) = Power(Base, m) * Power(Base, k)
    BY <2>1, PowerOfSum, BignumAssumption
  <2>7. Power(Base, m) \in Nat /\ Power(Base, k) \in Nat
    BY <2>1, PowerFacts, BignumAssumption
  <2>8. \A u, v, p, q, d \in Nat :
          (u + p * v) + d * (p * q) = u + p * (v + d * q)
    OBVIOUS
  <2>9. y[k] \in Nat
    BY <2>3, DigitsAreNumbers
  <2>10. y[k] = x[m + k]
           /\ Value(x, m + k) = Value(x, m) + Power(Base, m) * Value(y, k)
    BY <1>3, <1>6
  <2>11. (Value(x, m) + Power(Base, m) * Value(y, k))
           + y[k] * (Power(Base, m) * Power(Base, k))
         = Value(x, m) + Power(Base, m) * (Value(y, k) + y[k] * Power(Base, k))
    BY <1>2, <2>3, <2>7, <2>8, <2>9
  <2>12. Value(x, (m + k) + 1) = Value(x, m) + Power(Base, m) * Value(y, k + 1)
    BY <2>4, <2>5, <2>6, <2>10, <2>11, Zenon
  <2> QED
    BY <2>1, <2>12
<1> HIDE DEF S
<1>7. \A k \in 0..n : k \in S
  BY <1>5, <1>6, BoundedInduction, Zenon
<1>8. n \in 0..n
  BY SMT
<1> QED
  BY <1>2, <1>4, <1>7, <1>8 DEF S, y

-----------------------------------------------------------------------------
(* The loops over digits *)

\* What is known of the body of a loop: it hands on carries of the set K.
HandsOn(body, n, K) ==
    \A k \in 0..(n - 1) : \A u \in K : body[k][u].carry \in K

\* The carries of a loop.
CarriesOf(f, body, n, K) ==
    /\ f[0] = 0
    /\ \A k \in 0..n : f[k] \in K
    /\ \A k \in 0..(n - 1) : f[k + 1] = body[k][f[k]].carry
    /\ Ripple(body, n).digits = [k \in 0..(n - 1) |-> body[k][f[k]].digit]
    /\ Ripple(body, n).carry = f[n]

\* The function by which Ripple hands on its carries exists.
LEMMA RippleFacts ==
    ASSUME NEW n \in Nat, NEW K, 0 \in K, NEW body, HandsOn(body, n, K)
    PROVE  \E f : CarriesOf(f, body, n, K)
<1> DEFINE Pass(u, k) == body[k - 1][u].carry
           F == [y \in K \X (1..n) |-> Pass(y[1], y[2])]
           Is(f) == f = [k \in 0..n |->
                           IF k = 0 THEN 0 ELSE body[k - 1][f[k - 1]].carry]
<1>1. \A u \in K, k \in 1..n : Pass(u, k) \in K
  <2>1. \A k \in 1..n : k - 1 \in 0..(n - 1)
    BY SMT
  <2> QED
    BY <2>1 DEF HandsOn
<1> HIDE DEF Pass
<1>2. F \in [K \X (1..n) -> K] /\ \A u \in K, k \in 1..n :
        F[<<u, k>>] = Pass(u, k)
  BY <1>1
<1> HIDE DEF F
<1>3. PICK g \in [0..n -> K] : IsLoop(g, n, 0, F)
  BY <1>2, LoopExists
<1>4. /\ \A k \in 1..n : k - 1 \in 0..n /\ k \in 0..n /\ k # 0
      /\ \A k \in 0..n : k = 0 \/ k \in 1..n
      /\ 0 \in 0..n /\ n \in 0..n
  BY SMT
<1>5. Is(g)
  <2>1. g[0] = 0 /\ \A k \in 1..n : g[k] = Pass(g[k - 1], k)
    BY <1>2, <1>3, <1>4 DEF IsLoop
  <2>2. \A k \in 0..n : g[k] = IF k = 0 THEN 0 ELSE body[k - 1][g[k - 1]].carry
    BY <1>4, <2>1 DEF Pass
  <2> QED
    BY <1>3, <2>2
<1> DEFINE h == CHOOSE f : Is(f)
<1>6. Is(h)
  BY <1>5
<1>7. /\ Ripple(body, n).digits = [k \in 0..(n - 1) |-> body[k][h[k]].digit]
      /\ Ripple(body, n).carry = h[n]
  BY DEF Ripple
<1> HIDE DEF h
<1>8. h[0] = 0 /\ \A k \in 1..n : h[k] = Pass(h[k - 1], k)
  BY <1>4, <1>6 DEF Pass
<1>9. h[0] \in K /\ \A k \in 1..n : h[k - 1] \in K => h[k] \in K
  BY <1>1, <1>8, Zenon
<1>10. \A k \in 0..n : h[k] \in K
  BY <1>9, LoopType, Zenon
<1>11. \A k \in 0..(n - 1) : h[k + 1] = body[k][h[k]].carry
  <2>1. \A k \in 0..(n - 1) : k + 1 \in 1..n /\ (k + 1) - 1 = k
    BY SMT
  <2> QED
    BY <1>8, <2>1 DEF Pass
<1> QED
  BY <1>7, <1>8, <1>10, <1>11 DEF CarriesOf

\* Digit by digit, with carries f, z is p * x + m * y (or, with s = -1,
\* borrows).
Digitwise(z, f, x, y, p, m, s, n) ==
    \A k \in 0..(n - 1) :
        z[k] + s * (Base * f[k + 1]) = (p * x[k] + m * y[k]) + s * f[k]

\* What holds digit by digit adds up to what holds of the values: the carries
\* between the digits cancel.
LEMMA SumOfDigits ==
    ASSUME NEW n \in Nat, NEW z, NEW x, NEW y, NEW f,
           HasDigits(z, n), HasDigits(x, n), HasDigits(y, n),
           NEW p \in Int, NEW m \in Int, NEW s \in Int,
           HasDigits(f, n + 1),
           Digitwise(z, f, x, y, p, m, s, n)
    PROVE  Value(z, n) + s * (Power(Base, n) * f[n])
             = (p * Value(x, n) + m * Value(y, n)) + s * f[0]
<1>0. f[0] \in Int
  <2>1. 0 \in 0..((n + 1) - 1)
    BY SMT
  <2>2. f[0] \in Digit
    BY <2>1 DEF HasDigits
  <2> QED
    BY <2>2, BignumAssumption DEF Digit
<1> DEFINE S == {k \in 0..n : Value(z, k) + s * (Power(Base, k) * f[k])
                                = (p * Value(x, k) + m * Value(y, k)) + s
                                  * f[0]}
<1>1. 0 \in S
  <2>1. Value(x, 0) = 0 /\ Value(y, 0) = 0 /\ Value(z, 0) = 0
    BY ValueFacts
  <2>2. Power(Base, 0) = 1
    BY PowerFacts, BignumAssumption
  <2>3. 0 \in 0..n /\ 0 \in 0..((n + 1) - 1)
    BY SMT
  <2>4. f[0] \in Int
    BY <1>0
  <2> QED
    BY <2>1, <2>2, <2>3, <2>4
<1>2. ASSUME NEW k \in 0..(n - 1), k \in S PROVE k + 1 \in S
  <2>1. /\ k \in Nat /\ k <= n /\ k < n /\ k + 1 \in 0..n
        /\ k \in 0..((n + 1) - 1) /\ k + 1 \in 0..((n + 1) - 1)
    BY SMT
  <2>2. /\ HasDigits(x, k) /\ x[k] \in Digit /\ Value(x, k) \in Nat
        /\ HasDigits(y, k) /\ y[k] \in Digit /\ Value(y, k) \in Nat
        /\ HasDigits(z, k) /\ z[k] \in Digit /\ Value(z, k) \in Nat
    BY <2>1, FewerDigits
  <2>3. /\ Value(x, k + 1) = Value(x, k) + x[k] * Power(Base, k)
        /\ Value(y, k + 1) = Value(y, k) + y[k] * Power(Base, k)
        /\ Value(z, k + 1) = Value(z, k) + z[k] * Power(Base, k)
    BY <2>1, <2>2, ValueFacts
  <2>4. /\ Power(Base, k) \in Nat /\ Power(Base, k + 1) = Base * Power(Base, k)
        /\ Base \in Nat
    <3>1. Base \in Nat
      BY BignumAssumption
    <3> QED
      BY <2>1, <3>1, PowerFacts
  <2>5. /\ x[k] \in Nat /\ y[k] \in Nat /\ z[k] \in Nat
        /\ f[k] \in Nat /\ f[k + 1] \in Nat
    BY <2>1, <2>2, DigitsAreNumbers DEF HasDigits
  <2>6. z[k] + s * (Base * f[k + 1]) = (p * x[k] + m * y[k]) + s * f[k]
    BY DEF Digitwise
  <2>7. Value(z, k) + s * (Power(Base, k) * f[k])
          = (p * Value(x, k) + m * Value(y, k)) + s * f[0]
    BY <1>2
  <2>8. /\ Value(x, k) \in Int /\ Value(y, k) \in Int /\ Value(z, k) \in Int
        /\ Power(Base, k) \in Int /\ Base \in Int
        /\ x[k] \in Int /\ y[k] \in Int /\ z[k] \in Int
        /\ f[k] \in Int /\ f[k + 1] \in Int /\ f[0] \in Int
    BY <1>0, <2>2, <2>4, <2>5
  <2> DEFINE P == Power(Base, k)
             Z == Value(z, k)
             X == Value(x, k)
             Y == Value(y, k)
             dz == z[k]
             dx == x[k]
             dy == y[k]
             f0 == f[k]
             f1 == f[k + 1]
             e == s * f[0]
  <2>9. (Z + dz * P) + s * ((Base * P) * f1)
          = (p * (X + dx * P) + m * (Y + dy * P)) + e
    <3>1. /\ Z + s * (P * f0) = (p * X + m * Y) + e
          /\ dz + s * (Base * f1) = (p * dx + m * dy) + s * f0
          /\ Z \in Int /\ X \in Int /\ Y \in Int /\ P \in Int /\ Base \in Int
          /\ dz \in Int /\ dx \in Int /\ dy \in Int /\ f0 \in Int /\ f1 \in Int
          /\ e \in Int
      BY <2>6, <2>7, <2>8
    <3> HIDE DEF P, Z, X, Y, dz, dx, dy, f0, f1, e
    <3>2. (dz + s * (Base * f1)) * P = dz * P + s * ((Base * P) * f1)
      BY <3>1
    <3>3. ((p * dx + m * dy) + s * f0) * P
            = (p * (dx * P) + m * (dy * P)) + s * (P * f0)
      BY <3>1
    <3>4. p * (X + dx * P) + m * (Y + dy * P)
            = (p * X + m * Y) + (p * (dx * P) + m * (dy * P))
      BY <3>1
    <3> DEFINE u == s * ((Base * P) * f1)
               v == p * (dx * P) + m * (dy * P)
               w == s * (P * f0)
               q == dz * P
               r == p * X + m * Y
    <3>5. u \in Int /\ v \in Int /\ w \in Int /\ q \in Int /\ r \in Int
      BY <3>1
    <3>6. q + u = v + w /\ Z + w = r + e
      BY <3>1, <3>2, <3>3
    <3> HIDE DEF u, v, w, q, r
    <3>7. (Z + q) + u = (r + v) + e
      BY <3>1, <3>5, <3>6
    <3> QED
      BY <3>4, <3>7, Zenon DEF u, v, w, q, r
  <2>10. Value(z, k + 1) + s * (Power(Base, k + 1) * f[k + 1])
           = (p * Value(x, k + 1) + m * Value(y, k + 1)) + s * f[0]
    BY <2>3, <2>4, <2>9, Zenon DEF P, Z, X, Y, dz, dx, dy, f0, f1, e
  <2> QED
    BY <2>1, <2>10
<1> HIDE DEF S
<1>3. \A k \in 0..n : k \in S
  BY <1>1, <1>2, BoundedInduction, Zenon
<1>4. n \in 0..n
  BY SMT
<1> QED
  BY <1>3, <1>4 DEF S

\* An array of n digits has n digits.
LEMMA ArrayHasDigits ==
    ASSUME NEW n \in Nat, NEW x \in [0..(n - 1) -> Digit]
    PROVE  HasDigits(x, n)
BY DEF HasDigits

\* What a loop computes whose passes are exact: carries of the set K, and
\* digits and carries that make up p * x + m * y.
Exact(body, x, y, p, m, s, n, K) ==
    \A k \in 0..(n - 1) : \A u \in K :
        /\ body[k][u].digit \in Digit
        /\ body[k][u].carry \in K
        /\ body[k][u].digit + s * (Base * body[k][u].carry)
             = (p * x[k] + m * y[k]) + s * u

\* The result of a loop over n digits is p * x + m * y, with the last carry,
\* which is in K.
Computes(r, x, y, p, m, s, n, K) ==
    /\ r.digits \in [0..(n - 1) -> Digit]
    /\ r.carry \in K
    /\ Value(r.digits, n) + s * (Power(Base, n) * r.carry)
         = p * Value(x, n) + m * Value(y, n)

\* A loop each of whose passes is exact is exact.
LEMMA RippleExact ==
    ASSUME NEW n \in Nat, NEW x, NEW y, HasDigits(x, n), HasDigits(y, n),
           NEW K \in SUBSET Digit, 0 \in K, NEW body,
           NEW p \in Int, NEW m \in Int, NEW s \in Int,
           Exact(body, x, y, p, m, s, n, K)
    PROVE  Computes(Ripple(body, n), x, y, p, m, s, n, K)
<1>1. HandsOn(body, n, K)
  BY DEF HandsOn, Exact
<1>2. PICK f : /\ f[0] = 0
               /\ \A k \in 0..n : f[k] \in K
               /\ \A k \in 0..(n - 1) : f[k + 1] = body[k][f[k]].carry
               /\ Ripple(body, n).digits
                    = [k \in 0..(n - 1) |-> body[k][f[k]].digit]
               /\ Ripple(body, n).carry = f[n]
  <2>1. PICK f : CarriesOf(f, body, n, K)
    BY <1>1, RippleFacts
  <2> QED
    BY <2>1 DEF CarriesOf
<1>3. PICK z : z = [k \in 0..(n - 1) |-> body[k][f[k]].digit]
  OBVIOUS
<1>4. \A k \in 0..(n - 1) : f[k] \in K /\ z[k] = body[k][f[k]].digit
  <2>1. \A k \in 0..(n - 1) : k \in 0..n
    BY SMT
  <2> QED
    BY <1>2, <1>3, <2>1
<1>5. z \in [0..(n - 1) -> Digit]
  BY <1>3, <1>4 DEF Exact
<1>6. Digitwise(z, f, x, y, p, m, s, n)
  BY <1>2, <1>4 DEF Exact, Digitwise
<1>7. HasDigits(f, n + 1)
  <2>1. (n + 1) - 1 = n
    BY SMT
  <2> QED
    BY <1>2, <2>1 DEF HasDigits
<1>8. HasDigits(z, n)
  BY <1>5, ArrayHasDigits
<1>9. Value(z, n) + s * (Power(Base, n) * f[n])
        = p * Value(x, n) + m * Value(y, n)
  <2>1. Value(z, n) + s * (Power(Base, n) * f[n])
          = (p * Value(x, n) + m * Value(y, n)) + s * f[0]
    BY <1>6, <1>7, <1>8, SumOfDigits
  <2>2. Value(x, n) \in Int /\ Value(y, n) \in Int
    BY ValueFacts
  <2> QED
    BY <1>2, <2>1, <2>2
<1>10. n \in 0..n
  BY SMT
<1> QED
  BY <1>2, <1>3, <1>5, <1>9, <1>10 DEF Computes

\* bn_add: the digits and the carry are those of the sum.
THEOREM AddExact ==
    ASSUME NEW n \in Nat, NEW x, NEW y, HasDigits(x, n), HasDigits(y, n)
    PROVE  LET r == bn_add(x, y, n) IN
           /\ r.digits \in [0..(n - 1) -> Digit] /\ r.carry \in {0, 1}
           /\ Value(r.digits, n) + Power(Base, n) * r.carry
                = Value(x, n) + Value(y, n)
<1> DEFINE K == {0, 1}
           body == [k \in 0..(n - 1) |->
             [u \in Digit |-> AddDigit(x[k], y[k], u)]]
<1>1. K \in SUBSET Digit /\ 0 \in K
  BY DigitsAreNumbers
<1>2. Exact(body, x, y, 1, 1, 1, n, K)
  <2>1. SUFFICES ASSUME NEW k \in 0..(n - 1), NEW u \in K
                 PROVE  /\ body[k][u].digit \in Digit
                        /\ body[k][u].carry \in K
                        /\ body[k][u].digit + 1 * (Base * body[k][u].carry)
                             = (1 * x[k] + 1 * y[k]) + 1 * u
    BY DEF Exact
  <2>2. body[k][u] = AddDigit(x[k], y[k], u)
    BY <1>1
  <2>3. x[k] \in Digit /\ y[k] \in Digit
    BY DEF HasDigits
  <2> DEFINE r == AddDigit(x[k], y[k], u)
  <2>4. r.digit \in Digit /\ r.carry \in K
          /\ r.digit + Base * r.carry = (x[k] + y[k]) + u
    BY <2>3, AddDigitExact
  <2> HIDE DEF r
  <2>5. r.digit + 1 * (Base * r.carry) = (1 * x[k] + 1 * y[k]) + 1 * u
    <3>1. /\ r.digit \in Nat /\ r.carry \in Nat /\ x[k] \in Nat /\ y[k] \in Nat
          /\ u \in Nat /\ Base \in Nat
      BY <2>3, <2>4, DigitsAreNumbers, BignumAssumption
    <3> QED
      BY <2>4, <3>1
  <2> HIDE DEF body
  <2> QED
    BY <2>2, <2>4, <2>5 DEF r
<1>3. bn_add(x, y, n) = Ripple(body, n)
  BY DEF bn_add
<1> HIDE DEF body, K
<1> DEFINE r == Ripple(body, n)
<1>4. /\ r.digits \in [0..(n - 1) -> Digit] /\ r.carry \in K
      /\ Value(r.digits, n) + 1 * (Power(Base, n) * r.carry)
           = 1 * Value(x, n) + 1 * Value(y, n)
  <2>1. Computes(r, x, y, 1, 1, 1, n, K)
    BY <1>1, <1>2, 1 \in Int, RippleExact
  <2> QED
    BY <2>1 DEF Computes
<1> HIDE DEF r
<1>5. Value(r.digits, n) + Power(Base, n) * r.carry = Value(x, n) + Value(y, n)
  <2>1. Value(x, n) \in Nat /\ Value(y, n) \in Nat
    BY ValueFacts
  <2>2. Power(Base, n) \in Nat /\ r.carry \in Nat
    BY <1>1, <1>4, DigitsAreNumbers, PowerFacts, BignumAssumption
  <2> QED
    BY <1>4, <2>1, <2>2
<1> QED
  BY <1>3, <1>4, <1>5 DEF r, K

\* bn_sub: the digits less the borrow are the difference.
THEOREM SubExact ==
    ASSUME NEW n \in Nat, NEW x, NEW y, HasDigits(x, n), HasDigits(y, n)
    PROVE  LET r == bn_sub(x, y, n) IN
           /\ r.digits \in [0..(n - 1) -> Digit] /\ r.carry \in {0, 1}
           /\ Value(r.digits, n) - Power(Base, n) * r.carry
                = Value(x, n) - Value(y, n)
<1> DEFINE K == {0, 1}
           body == [k \in 0..(n - 1) |->
             [u \in Digit |-> SubDigit(x[k], y[k], u)]]
<1>1. K \in SUBSET Digit /\ 0 \in K
  BY DigitsAreNumbers
<1>2. Exact(body, x, y, 1, (-1), (-1), n, K)
  <2>1. SUFFICES ASSUME NEW k \in 0..(n - 1), NEW u \in K
                 PROVE  /\ body[k][u].digit \in Digit
                        /\ body[k][u].carry \in K
                        /\ body[k][u].digit + (-1) * (Base * body[k][u].carry)
                             = (1 * x[k] + (-1) * y[k]) + (-1) * u
    BY DEF Exact
  <2>2. body[k][u] = SubDigit(x[k], y[k], u)
    BY <1>1
  <2>3. x[k] \in Digit /\ y[k] \in Digit
    BY DEF HasDigits
  <2> DEFINE r == SubDigit(x[k], y[k], u)
  <2>4. r.digit \in Digit /\ r.carry \in K
          /\ r.digit - Base * r.carry = (x[k] - y[k]) - u
    BY <2>3, SubDigitExact
  <2> HIDE DEF r
  <2>5. r.digit + (-1) * (Base * r.carry) = (1 * x[k] + (-1) * y[k]) + (-1) * u
    <3>1. /\ r.digit \in Nat /\ r.carry \in Nat /\ x[k] \in Nat /\ y[k] \in Nat
          /\ u \in Nat /\ Base \in Nat
      BY <2>3, <2>4, DigitsAreNumbers, BignumAssumption
    <3> DEFINE v == Base * r.carry
    <3>2. v \in Int /\ r.digit - v = (x[k] - y[k]) - u
      BY <2>4, <3>1
    <3> HIDE DEF v
    <3>3. r.digit + (-1) * v = (1 * x[k] + (-1) * y[k]) + (-1) * u
      BY <3>1, <3>2
    <3> QED
      BY <3>3 DEF v
  <2> HIDE DEF body
  <2> QED
    BY <2>2, <2>4, <2>5 DEF r
<1>3. bn_sub(x, y, n) = Ripple(body, n)
  BY DEF bn_sub
<1> HIDE DEF body, K
<1> DEFINE r == Ripple(body, n)
<1>4. /\ r.digits \in [0..(n - 1) -> Digit] /\ r.carry \in K
      /\ Value(r.digits, n) + (-1) * (Power(Base, n) * r.carry)
           = 1 * Value(x, n) + (-1) * Value(y, n)
  <2>1. Computes(r, x, y, 1, -1, -1, n, K)
    BY <1>1, <1>2, (-1) \in Int, 1 \in Int, RippleExact
  <2> QED
    BY <2>1 DEF Computes
<1> HIDE DEF r
<1>5. Value(r.digits, n) - Power(Base, n) * r.carry = Value(x, n) - Value(y, n)
  <2>1. Value(x, n) \in Nat /\ Value(y, n) \in Nat /\ Value(r.digits, n) \in Nat
    BY <1>4, ValueFacts, ArrayHasDigits
  <2>2. Power(Base, n) \in Nat /\ r.carry \in Nat
    BY <1>1, <1>4, DigitsAreNumbers, PowerFacts, BignumAssumption
  <2> QED
    BY <1>4, <2>1, <2>2
<1> QED
  BY <1>3, <1>4, <1>5 DEF r, K

\* bn_add_digit_mul: the digits and the carry, which is a digit, are exact.
THEOREM AddDigitMulExact ==
    ASSUME NEW n \in Nat, NEW x, NEW y, HasDigits(x, n), HasDigits(y, n),
           NEW d \in Digit
    PROVE  LET r == bn_add_digit_mul(x, d, y, n) IN
           /\ r.digits \in [0..(n - 1) -> Digit] /\ r.carry \in Digit
           /\ Value(r.digits, n) + Power(Base, n) * r.carry
                = Value(x, n) + d * Value(y, n)
<1>1. CASE d = 0
  <2>1. bn_add_digit_mul(x, d, y, n) = [digits |-> Low(x, n), carry |-> 0]
    BY <1>1 DEF bn_add_digit_mul
  <2> DEFINE z == Low(x, n)
  <2>2. z \in [0..(n - 1) -> Digit] /\ SameDigits(x, z, n)
    BY DEF Low, HasDigits, SameDigits
  <2> HIDE DEF z
  <2>3. Value(z, n) = Value(x, n)
    BY <2>2, SameValue
  <2>4. Value(x, n) \in Nat /\ Value(y, n) \in Nat
    BY ValueFacts
  <2>5. Power(Base, n) \in Nat
    BY PowerFacts, BignumAssumption
  <2>6. Value(z, n) + Power(Base, n) * 0 = Value(x, n) + 0 * Value(y, n)
    BY <2>3, <2>4, <2>5
  <2> QED
    BY <1>1, <2>1, <2>2, <2>6 DEF z
<1>2. CASE d # 0
  <2> DEFINE K == Digit
             body == [k \in 0..(n - 1) |->
                          [u \in Digit |-> AddMulDigit(x[k], d, y[k], u)]]
  <2>1. K \in SUBSET Digit /\ 0 \in K
    BY DigitsAreNumbers
  <2>2. Exact(body, x, y, 1, d, 1, n, K)
    <3>1. SUFFICES ASSUME NEW k \in 0..(n - 1), NEW u \in K
                   PROVE  /\ body[k][u].digit \in Digit
                          /\ body[k][u].carry \in K
                          /\ body[k][u].digit + 1 * (Base * body[k][u].carry)
                               = (1 * x[k] + d * y[k]) + 1 * u
      BY DEF Exact
    <3>2. body[k][u] = AddMulDigit(x[k], d, y[k], u)
      BY <2>1
    <3>3. x[k] \in Digit /\ y[k] \in Digit
      BY DEF HasDigits
    <3> DEFINE r == AddMulDigit(x[k], d, y[k], u)
    <3>4. r.digit \in Digit /\ r.carry \in K
            /\ r.digit + Base * r.carry = (x[k] + d * y[k]) + u
      BY <3>3, AddMulDigitExact
    <3> HIDE DEF r
    <3>5. r.digit + 1 * (Base * r.carry) = (1 * x[k] + d * y[k]) + 1 * u
      <4>1. /\ r.digit \in Nat /\ r.carry \in Nat /\ x[k] \in Nat
            /\ y[k] \in Nat
            /\ u \in Nat /\ Base \in Nat /\ d \in Nat
        BY <3>3, <3>4, DigitsAreNumbers, BignumAssumption
      <4> QED
        BY <3>4, <4>1
    <3> HIDE DEF body
    <3> QED
      BY <3>2, <3>4, <3>5 DEF r
  <2>3. bn_add_digit_mul(x, d, y, n) = Ripple(body, n)
    BY <1>2 DEF bn_add_digit_mul
  <2>6. d \in Int
    BY DigitsAreNumbers
  <2> HIDE DEF body, K
  <2> DEFINE r == Ripple(body, n)
  <2>4. /\ r.digits \in [0..(n - 1) -> Digit] /\ r.carry \in K
        /\ Value(r.digits, n) + 1 * (Power(Base, n) * r.carry)
             = 1 * Value(x, n) + d * Value(y, n)
    <3>1. Computes(r, x, y, 1, d, 1, n, K)
      BY <2>1, <2>2, <2>6, 1 \in Int, 1 \in Int, RippleExact
    <3> QED
      BY <3>1 DEF Computes
  <2> HIDE DEF r
  <2>5. Value(r.digits, n) + Power(Base, n) * r.carry
          = Value(x, n) + d * Value(y, n)
    <3>1. Value(x, n) \in Nat /\ Value(y, n) \in Nat
            /\ Value(r.digits, n) \in Nat
      BY <2>4, ValueFacts, ArrayHasDigits
    <3>2. Power(Base, n) \in Nat /\ r.carry \in Nat
      BY <2>1, <2>4, DigitsAreNumbers, PowerFacts, BignumAssumption
    <3> QED
      BY <2>4, <3>1, <3>2, DigitsAreNumbers
  <2> QED
    BY <2>3, <2>4, <2>5 DEF r, K
<1> QED
  BY <1>1, <1>2

\* bn_sub_digit_mul: the digits less the borrow are exact, and the borrow is a
\* digit.
THEOREM SubDigitMulExact ==
    ASSUME NEW n \in Nat, NEW x, NEW y, HasDigits(x, n), HasDigits(y, n),
           NEW d \in Digit
    PROVE  LET r == bn_sub_digit_mul(x, d, y, n) IN
           /\ r.digits \in [0..(n - 1) -> Digit] /\ r.carry \in Digit
           /\ Value(r.digits, n) - Power(Base, n) * r.carry
                = Value(x, n) - d * Value(y, n)
<1>1. CASE d = 0
  <2>1. bn_sub_digit_mul(x, d, y, n) = [digits |-> Low(x, n), carry |-> 0]
    BY <1>1 DEF bn_sub_digit_mul
  <2> DEFINE z == Low(x, n)
  <2>2. z \in [0..(n - 1) -> Digit] /\ SameDigits(x, z, n)
    BY DEF Low, HasDigits, SameDigits
  <2> HIDE DEF z
  <2>3. Value(z, n) = Value(x, n)
    BY <2>2, SameValue
  <2>4. Value(x, n) \in Nat /\ Value(y, n) \in Nat
    BY ValueFacts
  <2>5. Power(Base, n) \in Nat
    BY PowerFacts, BignumAssumption
  <2>6. Value(z, n) - Power(Base, n) * 0 = Value(x, n) - 0 * Value(y, n)
    BY <2>3, <2>4, <2>5
  <2> QED
    BY <1>1, <2>1, <2>2, <2>6 DEF z
<1>2. CASE d # 0
  <2> DEFINE K == Digit
             body == [k \in 0..(n - 1) |->
                          [u \in Digit |-> SubMulDigit(x[k], d, y[k], u)]]
  <2>1. K \in SUBSET Digit /\ 0 \in K
    BY DigitsAreNumbers
  <2>2. Exact(body, x, y, 1, (-d), (-1), n, K)
    <3>1. SUFFICES ASSUME NEW k \in 0..(n - 1), NEW u \in K
                   PROVE  /\ body[k][u].digit \in Digit
                          /\ body[k][u].carry \in K
                          /\ body[k][u].digit + (-1) * (Base * body[k][u].carry)
                               = (1 * x[k] + (-d) * y[k]) + (-1) * u
      BY DEF Exact
    <3>2. body[k][u] = SubMulDigit(x[k], d, y[k], u)
      BY <2>1
    <3>3. x[k] \in Digit /\ y[k] \in Digit
      BY DEF HasDigits
    <3> DEFINE r == SubMulDigit(x[k], d, y[k], u)
    <3>4. r.digit \in Digit /\ r.carry \in K
            /\ r.digit - Base * r.carry = (x[k] - d * y[k]) - u
      BY <3>3, SubMulDigitExact
    <3> HIDE DEF r
    <3>5. r.digit + (-1) * (Base * r.carry)
            = (1 * x[k] + (-d) * y[k]) + (-1) * u
      <4>1. /\ r.digit \in Nat /\ r.carry \in Nat /\ x[k] \in Nat
            /\ y[k] \in Nat
            /\ u \in Nat /\ Base \in Nat /\ d \in Nat
        BY <3>3, <3>4, DigitsAreNumbers, BignumAssumption
      <4> QED
        BY <3>4, <4>1
    <3> HIDE DEF body
    <3> QED
      BY <3>2, <3>4, <3>5 DEF r
  <2>3. bn_sub_digit_mul(x, d, y, n) = Ripple(body, n)
    BY <1>2 DEF bn_sub_digit_mul
  <2>6. (-d) \in Int
    BY DigitsAreNumbers
  <2> HIDE DEF body, K
  <2> DEFINE r == Ripple(body, n)
  <2>4. /\ r.digits \in [0..(n - 1) -> Digit] /\ r.carry \in K
        /\ Value(r.digits, n) + (-1) * (Power(Base, n) * r.carry)
             = 1 * Value(x, n) + (-d) * Value(y, n)
    <3>1. Computes(r, x, y, 1, -d, -1, n, K)
      BY <2>1, <2>2, <2>6, (-1) \in Int, 1 \in Int, RippleExact
    <3> QED
      BY <3>1 DEF Computes
  <2> HIDE DEF r
  <2>5. Value(r.digits, n) - Power(Base, n) * r.carry
          = Value(x, n) - d * Value(y, n)
    <3>1. Value(x, n) \in Nat /\ Value(y, n) \in Nat
            /\ Value(r.digits, n) \in Nat
      BY <2>4, ValueFacts, ArrayHasDigits
    <3>2. Power(Base, n) \in Nat /\ r.carry \in Nat
      BY <2>1, <2>4, DigitsAreNumbers, PowerFacts, BignumAssumption
    <3> QED
      BY <2>4, <3>1, <3>2, DigitsAreNumbers
  <2> QED
    BY <2>3, <2>4, <2>5 DEF r, K
<1> QED
  BY <1>1, <1>2

-----------------------------------------------------------------------------
(* Comparing, counting digits, shifting *)

\* Comparing with one digit more.
LEMMA AtLeastStep ==
    ASSUME NEW n \in Nat, NEW x, NEW y, HasDigits(x, n + 1), HasDigits(y, n + 1)
    PROVE  /\ AtLeast(x, y, 0)
           /\ AtLeast(x, y, n + 1) <=>
                x[n] > y[n] \/ (x[n] = y[n] /\ AtLeast(x, y, n))
<1>1. /\ (n + 1) - 1 = n /\ n \in 0..n
      /\ \A k \in 0..n : k = n \/ k \in 0..(n - 1)
      /\ \A k \in 0..(n - 1) : k \in 0..n /\ n \in (k + 1)..n
                               /\ \A j \in (k + 1)..n :
                                    j = n \/ j \in (k + 1)..(n - 1)
      /\ \A k \in 0..(n - 1) : \A j \in (k + 1)..(n - 1) :
           j \in (k + 1)..n /\ j \in 0..n
      /\ \A j : j \notin (n + 1)..n
      /\ \A j : j \notin 0..(0 - 1)
  BY SMT
<1>2. \A k \in 0..n : x[k] \in Nat /\ y[k] \in Nat
  BY <1>1, DigitsAreNumbers DEF HasDigits
<1>3. AtLeast(x, y, 0)
  BY <1>1 DEF AtLeast
<1>4. ASSUME x[n] > y[n] PROVE AtLeast(x, y, n + 1)
  <2>1. SUFFICES ASSUME NEW k \in 0..n, x[k] < y[k]
                 PROVE  \E j \in (k + 1)..n : x[j] > y[j]
    BY <1>1 DEF AtLeast
  <2>2. k # n
    BY <1>1, <1>2, <1>4, <2>1
  <2> QED
    BY <1>1, <1>4, <2>2
<1>5. ASSUME x[n] = y[n], AtLeast(x, y, n) PROVE AtLeast(x, y, n + 1)
  <2>1. SUFFICES ASSUME NEW k \in 0..n, x[k] < y[k]
                 PROVE  \E j \in (k + 1)..n : x[j] > y[j]
    BY <1>1 DEF AtLeast
  <2>2. k # n
    BY <1>1, <1>2, <1>5, <2>1
  <2>3. k \in 0..(n - 1)
    BY <1>1, <2>2
  <2>4. \E j \in (k + 1)..(n - 1) : x[j] > y[j]
    BY <1>5, <2>1, <2>3 DEF AtLeast
  <2> QED
    BY <1>1, <2>3, <2>4
<1>6. ASSUME AtLeast(x, y, n + 1), ~(x[n] > y[n])
      PROVE  x[n] = y[n] /\ AtLeast(x, y, n)
  <2>1. \A k \in 0..n : x[k] < y[k] => \E j \in (k + 1)..n : x[j] > y[j]
    BY <1>1, <1>6 DEF AtLeast
  <2>2. ~(x[n] < y[n])
    BY <1>1, <2>1
  <2>3. x[n] = y[n]
    BY <1>1, <1>2, <1>6, <2>2
  <2>4. ASSUME NEW k \in 0..(n - 1), x[k] < y[k]
        PROVE  \E j \in (k + 1)..(n - 1) : x[j] > y[j]
    <3>1. PICK j \in (k + 1)..n : x[j] > y[j]
      BY <1>1, <2>1, <2>4
    <3> QED
      BY <1>1, <1>6, <3>1
  <2> QED
    BY <2>3, <2>4 DEF AtLeast
<1> QED
  BY <1>3, <1>4, <1>5, <1>6

\* bn_cmp compares the values.
THEOREM AtLeastComparesValues ==
    ASSUME NEW n \in Nat, NEW x, NEW y, HasDigits(x, n), HasDigits(y, n)
    PROVE  AtLeast(x, y, n) <=> Value(x, n) >= Value(y, n)
<1> DEFINE S == {k \in 0..n : AtLeast(x, y, k) <=> Value(x, k) >= Value(y, k)}
<1>1. 0 \in S
  <2>1. HasDigits(x, 0) /\ HasDigits(y, 0) /\ 0 \in 0..n
    BY SMT DEF HasDigits
  <2>2. AtLeast(x, y, 0)
    BY SMT DEF AtLeast
  <2>3. Value(x, 0) = 0 /\ Value(y, 0) = 0
    BY ValueFacts
  <2> QED
    BY <2>1, <2>2, <2>3
<1>2. ASSUME NEW k \in 0..(n - 1), k \in S PROVE k + 1 \in S
  <2>1. /\ k \in Nat /\ k <= n /\ k < n /\ k + 1 \in 0..n /\ k + 1 \in Nat
        /\ k + 1 <= n
    BY SMT
  <2>2. /\ HasDigits(x, k) /\ x[k] \in Digit /\ Value(x, k) \in Nat
        /\ HasDigits(y, k) /\ y[k] \in Digit /\ Value(y, k) \in Nat
    BY <2>1, FewerDigits
  <2>3. HasDigits(x, k + 1) /\ HasDigits(y, k + 1)
    BY <2>1, FewerDigits
  <2>4. AtLeast(x, y, k + 1)
          <=> x[k] > y[k] \/ (x[k] = y[k] /\ AtLeast(x, y, k))
    BY <2>1, <2>3, AtLeastStep
  <2>5. AtLeast(x, y, k) <=> Value(x, k) >= Value(y, k)
    BY <1>2
  <2>6. /\ Value(x, k + 1) = Value(x, k) + x[k] * Power(Base, k)
        /\ Value(y, k + 1) = Value(y, k) + y[k] * Power(Base, k)
    BY <2>1, <2>2, ValueFacts
  <2>7. Power(Base, k) \in Nat \ {0}
    BY <2>1, PowerPositive, BignumAssumption
  <2>8. Value(x, k) < Power(Base, k) /\ Value(y, k) < Power(Base, k)
    BY <2>1, <2>2, ValueBound
  <2>9. x[k] \in Nat /\ y[k] \in Nat
    BY <2>2, DigitsAreNumbers
  <2>10. x[k] > y[k] => Value(x, k + 1) > Value(y, k + 1)
    <3>1. SUFFICES ASSUME y[k] + 1 <= x[k]
                   PROVE Value(x, k + 1) > Value(y, k + 1)
      BY <2>9
    <3>2. (y[k] + 1) * Power(Base, k) <= x[k] * Power(Base, k)
      BY <2>7, <2>9, <3>1, Monotone
    <3> QED
      BY <2>2, <2>6, <2>7, <2>8, <2>9, <3>2
  <2>11. x[k] < y[k] => Value(x, k + 1) < Value(y, k + 1)
    <3>1. SUFFICES ASSUME x[k] + 1 <= y[k]
                   PROVE Value(x, k + 1) < Value(y, k + 1)
      BY <2>9
    <3>2. (x[k] + 1) * Power(Base, k) <= y[k] * Power(Base, k)
      BY <2>7, <2>9, <3>1, Monotone
    <3> QED
      BY <2>2, <2>6, <2>7, <2>8, <2>9, <3>2
  <2>12. Value(x, k + 1) \in Nat /\ Value(y, k + 1) \in Nat
    BY <2>1, <2>3, ValueFacts
  <2>13. x[k] = y[k] => (Value(x, k + 1) >= Value(y, k + 1)
                          <=> Value(x, k) >= Value(y, k))
    <3>1. SUFFICES ASSUME x[k] = y[k]
                   PROVE  Value(x, k + 1) >= Value(y, k + 1)
                          <=> Value(x, k) >= Value(y, k)
      OBVIOUS
    <3> DEFINE q == y[k] * Power(Base, k)
    <3>2. q \in Nat
      BY <2>7, <2>9
    <3>3. Value(x, k + 1) = Value(x, k) + q /\ Value(y, k + 1) = Value(y, k) + q
      BY <2>6, <3>1
    <3> HIDE DEF q
    <3> QED
      BY <2>2, <3>2, <3>3
  <2>14. AtLeast(x, y, k + 1) <=> Value(x, k + 1) >= Value(y, k + 1)
    BY <2>4, <2>5, <2>9, <2>10, <2>11, <2>12, <2>13
  <2> QED
    BY <2>1, <2>14
<1> HIDE DEF S
<1>3. \A k \in 0..n : k \in S
  BY <1>1, <1>2, BoundedInduction, Zenon
<1>4. n \in 0..n
  BY SMT
<1> QED
  BY <1>3, <1>4 DEF S

\* bn_digits: the number of digits without leading zeros.
LEMMA DigitsFacts ==
    ASSUME NEW n \in Nat, NEW x
    PROVE  /\ bn_digits(x, n) \in 0..n
           /\ \A k \in bn_digits(x, n)..(n - 1) : x[k] = 0
           /\ bn_digits(x, n) > 0 => x[bn_digits(x, n) - 1] # 0
<1> DEFINE Is(k, m) == /\ \A j \in k..(m - 1) : x[j] = 0
                       /\ k > 0 => x[k - 1] # 0
           S == {m \in 0..n : \E k \in 0..m : Is(k, m)}
<1>1. 0 \in S
  <2>1. 0 \in 0..0 /\ 0 \in 0..n /\ Is(0, 0)
    BY SMT
  <2> QED
    BY <2>1
<1>2. ASSUME NEW m \in 0..(n - 1), m \in S PROVE m + 1 \in S
  <2>1. PICK k \in 0..m : Is(k, m)
    BY <1>2
  <2>2. m + 1 \in 0..n /\ (m + 1) - 1 = m /\ m + 1 \in 0..(m + 1)
          /\ k \in 0..(m + 1)
    BY SMT
  <2>3. CASE x[m] = 0
    <3>1. \A j \in k..m : j = m \/ j \in k..(m - 1)
      BY SMT
    <3>2. Is(k, m + 1)
      BY <2>1, <2>2, <2>3, <3>1
    <3> HIDE DEF Is
    <3> QED
      BY <2>2, <3>2
  <2>4. CASE x[m] # 0
    <3>1. \A j : j \notin (m + 1)..m
      BY SMT
    <3>2. Is(m + 1, m + 1)
      BY <2>2, <2>4, <3>1
    <3> HIDE DEF Is
    <3> QED
      BY <2>2, <3>2
  <2> QED
    BY <2>3, <2>4
<1>3. bn_digits(x, n) = CHOOSE k \in 0..n : Is(k, n)
  BY DEF bn_digits
<1> HIDE DEF S
<1>4. \A m \in 0..n : m \in S
  BY <1>1, <1>2, BoundedInduction, Zenon
<1>5. n \in 0..n
  BY SMT
<1>6. \E k \in 0..n : Is(k, n)
  BY <1>4, <1>5 DEF S
<1> HIDE DEF Is
<1>7. bn_digits(x, n) \in 0..n /\ Is(bn_digits(x, n), n)
  BY <1>3, <1>6
<1> QED
  BY <1>7 DEF Is

\* bn_digit_bits: the number of bits without leading zeros.
LEMMA DigitBitsFacts ==
    ASSUME NEW x \in Digit
    PROVE  /\ bn_digit_bits(x) \in 0..DigitBits
           /\ x < Power(2, bn_digit_bits(x))
           /\ Power(2, bn_digit_bits(x)) <= 2 * x + 1
<1> DEFINE Is(k) == x < Power(2, k) /\ Power(2, k) <= 2 * x + 1
           S == {m \in 0..DigitBits : x < Power(2, m) => \E k \in 0..m : Is(k)}
<1>1. DigitBits \in Nat /\ x \in Nat /\ \A k \in 0..DigitBits : k \in Nat
  BY BignumAssumption, DigitsAreNumbers
<1>2. \A k \in Nat : Power(2, k) \in Nat /\ Power(2, k + 1) = 2 * Power(2, k)
  BY PowerFacts
<1>3. 0 \in S
  <2>1. Power(2, 0) = 1 /\ 0 \in 0..0 /\ 0 \in 0..DigitBits
    BY <1>1, PowerFacts
  <2>2. Is(0)  \/ ~(x < Power(2, 0))
    BY <1>1, <2>1
  <2> QED
    BY <2>1, <2>2
<1>4. ASSUME NEW m \in 0..(DigitBits - 1), m \in S PROVE m + 1 \in S
  <2>1. m \in Nat /\ m + 1 \in 0..DigitBits /\ m + 1 \in 0..(m + 1)
          /\ m \in 0..DigitBits
        /\ \A k \in 0..m : k \in 0..(m + 1)
    BY <1>1, SMT
  <2>2. CASE x < Power(2, m)
    BY <1>4, <2>1, <2>2
  <2>3. CASE ~(x < Power(2, m))
    <3>1. Power(2, m + 1) <= 2 * x + 1
      BY <1>1, <1>2, <2>1, <2>3
    <3> QED
      BY <2>1, <3>1
  <2> QED
    BY <2>2, <2>3
<1>5. bn_digit_bits(x) = CHOOSE k \in 0..DigitBits : Is(k)
  BY DEF bn_digit_bits
<1> HIDE DEF S
<1>6. \A m \in 0..DigitBits : m \in S
  BY <1>1, <1>3, <1>4, BoundedInduction, Zenon
<1>7. DigitBits \in 0..DigitBits
  BY <1>1, SMT
<1>8. x < Power(2, DigitBits)
  <2>1. x < Base
    BY BignumAssumption DEF Digit
  <2> QED
    BY <2>1, WordAssumption
<1>9. \E k \in 0..DigitBits : Is(k)
  BY <1>6, <1>7, <1>8 DEF S
<1> HIDE DEF Is
<1>10. bn_digit_bits(x) \in 0..DigitBits /\ Is(bn_digit_bits(x))
  BY <1>5, <1>9
<1> QED
  BY <1>10 DEF Is

\* The two parts of a word that a shift separates.
LEMMA ShiftParts ==
    ASSUME NEW s \in 0..DigitBits
    PROVE  /\ Power(2, s) \in Nat \ {0} /\ Power(2, DigitBits - s) \in Nat \ {0}
           /\ Power(2, DigitBits - s) * Power(2, s) = Base
           /\ DigitBits - s \in Nat /\ s \in Nat
<1>1. s \in Nat /\ DigitBits - s \in Nat /\ (DigitBits - s) + s = DigitBits
  BY BignumAssumption
<1>2. Power(2, DigitBits) = Power(2, DigitBits - s) * Power(2, s)
  BY <1>1, PowerOfSum
<1> QED
  BY <1>1, <1>2, PowerPositive, WordAssumption

\* Shifting a digit by less than its width: the bits that leave it and those
\* that stay.
LEMMA ShiftedDigit ==
    ASSUME NEW P \in Nat \ {0}, NEW Q \in Nat \ {0}, Q * P = Base,
           NEW x \in Digit
    PROVE  /\ x \div Q \in 0..(P - 1)
           /\ x % Q \in 0..(Q - 1)
           /\ x = Q * (x \div Q) + (x % Q)
           /\ Wrap(x * P) = (x % Q) * P
           /\ (x % Q) * P \in 0..(Base - P)
           /\ Base * (x \div Q) + (x % Q) * P = P * x
<1> DEFINE h == x \div Q
           l == x % Q
<1>1. x \in Nat /\ x < Base /\ Base \in Nat
  BY BignumAssumption DEF Digit
<1>2. x = Q * h + l /\ l \in 0..(Q - 1) /\ h \in Int
  BY <1>1
<1> HIDE DEF h, l
<1>3. h >= 0
  <2>1. SUFFICES ASSUME h < 0 PROVE FALSE
    BY <1>2
  <2>2. Q * h <= - Q
    BY <1>2, <2>1
  <2> QED
    BY <1>1, <1>2, <2>2
<1>4. h < P
  <2>1. SUFFICES ASSUME h >= P PROVE FALSE
    BY <1>2
  <2>2. P * Q <= h * Q
    BY <1>2, <2>1, Monotone
  <2> QED
    BY <1>1, <1>2, <2>2
<1>5. l * P <= (Q - 1) * P
  BY <1>2, Monotone
<1>6. l * P \in 0..(Base - P)
  BY <1>1, <1>2, <1>5
<1>7. x * P = h * Base + l * P
  BY <1>1, <1>2
<1>8. Wrap(x * P) = l * P
  <2> DEFINE v == l * P
             w == x * P
  <2>1. v \in 0..(Base - 1) /\ w \in Int /\ Base > 0 /\ w = h * Base + v
    BY <1>1, <1>6, <1>7
  <2> HIDE DEF v, w
  <2>2. Wrap(w) = v
    BY <1>1, <1>2, <2>1, SplitIsUnique DEF Wrap
  <2> QED
    BY <2>2 DEF v, w
<1> QED
  BY <1>1, <1>2, <1>3, <1>4, <1>6, <1>7, <1>8 DEF h, l

\* bn_shift_l multiplies by a power of two.
THEOREM ShiftLeftExact ==
    ASSUME NEW n \in Nat, NEW x, HasDigits(x, n), NEW s \in 0..DigitBits
    PROVE  LET r == bn_shift_l(x, s, n) IN
           /\ r.digits \in [0..(n - 1) -> Digit] /\ r.carry \in Digit
           /\ Value(r.digits, n) + Power(Base, n) * r.carry
                = Power(2, s) * Value(x, n)
<1> DEFINE P == Power(2, s)
           Q == Power(2, DigitBits - s)
           K == 0..(P - 1)
           m == 0
           body == [k \in 0..(n - 1) |-> [u \in Digit |->
                       [digit |-> Wrap(x[k] * P) + u, carry |-> x[k] \div Q]]]
<1>1. P \in Nat \ {0} /\ Q \in Nat \ {0} /\ Q * P = Base
  BY ShiftParts
<1>2. bn_shift_l(x, s, n) = Ripple(body, n)
  BY DEF bn_shift_l
<1> HIDE DEF P, Q
<1>3. K \in SUBSET Digit /\ 0 \in K
  <2>1. P <= Q * P
    BY <1>1
  <2> QED
    BY <1>1, <2>1, BignumAssumption DEF Digit
<1>4. Exact(body, x, x, P, m, 1, n, K)
  <2>1. SUFFICES ASSUME NEW k \in 0..(n - 1), NEW u \in K
                 PROVE  /\ body[k][u].digit \in Digit
                        /\ body[k][u].carry \in K
                        /\ body[k][u].digit + 1 * (Base * body[k][u].carry)
                             = (P * x[k] + m * x[k]) + 1 * u
    BY DEF Exact
  <2>2. body[k][u] = [digit |-> Wrap(x[k] * P) + u, carry |-> x[k] \div Q]
    BY <1>3
  <2>3. x[k] \in Digit
    BY DEF HasDigits
  <2>4. /\ x[k] \div Q \in 0..(P - 1)
        /\ Wrap(x[k] * P) = (x[k] % Q) * P
        /\ (x[k] % Q) * P \in 0..(Base - P)
        /\ Base * (x[k] \div Q) + (x[k] % Q) * P = P * x[k]
    BY <1>1, <2>3, ShiftedDigit
  <2> DEFINE h == x[k] \div Q
             w == Wrap(x[k] * P)
             e == x[k]
  <2>5. /\ h \in 0..(P - 1) /\ w \in 0..(Base - P) /\ Base * h + w = P * e
        /\ e \in Nat
    BY <2>3, <2>4, DigitsAreNumbers
  <2> HIDE DEF h, w, e
  <2>6. w + u \in Digit /\ (w + u) + 1 * (Base * h) = (P * e + m * e) + 1 * u
    BY <1>1, <2>5, BignumAssumption DEF Digit
  <2>7. body[k][u] = [digit |-> w + u, carry |-> h]
    BY <2>2 DEF w, h
  <2> HIDE DEF body
  <2> QED
    BY <2>5, <2>6, <2>7 DEF e
<1>5. P \in Int /\ m \in Int /\ 1 \in Int
  BY <1>1
<1> HIDE DEF body, K, m
<1> DEFINE r == Ripple(body, n)
<1>6. /\ r.digits \in [0..(n - 1) -> Digit] /\ r.carry \in K
      /\ Value(r.digits, n) + 1 * (Power(Base, n) * r.carry)
           = P * Value(x, n) + m * Value(x, n)
  <2>1. Computes(r, x, x, P, m, 1, n, K)
    BY <1>3, <1>4, <1>5, RippleExact
  <2> QED
    BY <2>1 DEF Computes
<1> HIDE DEF r
<1>7. Value(r.digits, n) + Power(Base, n) * r.carry = P * Value(x, n)
  <2>1. Value(x, n) \in Nat /\ Value(r.digits, n) \in Nat
    BY <1>6, ValueFacts, ArrayHasDigits
  <2>2. Power(Base, n) \in Nat /\ r.carry \in Nat
    BY <1>3, <1>6, DigitsAreNumbers, PowerFacts, BignumAssumption
  <2> QED
    BY <1>1, <1>6, <2>1, <2>2 DEF m
<1> QED
  BY <1>2, <1>3, <1>6, <1>7 DEF r, P

\* bn_shift_r divides by a power of two; what it drops is e.
THEOREM ShiftRightExact ==
    ASSUME NEW n \in Nat, NEW x, HasDigits(x, n), NEW s \in 0..DigitBits
    PROVE  LET r == bn_shift_r(x, s, n) IN
           /\ r \in [0..(n - 1) -> Digit]
           /\ \E e \in 0..(Power(2, s) - 1) :
                Value(x, n) = Power(2, s) * Value(r, n) + e
<1> DEFINE P == Power(2, s)
           Q == Power(2, DigitBits - s)
           r == bn_shift_r(x, s, n)
           f == [k \in 0..n |-> IF k < n THEN x[k] % P ELSE 0]
<1>1. P \in Nat \ {0} /\ Q \in Nat \ {0} /\ P * Q = Base
  BY ShiftParts
<1>2. r = [k \in 0..(n - 1) |->
             (x[k] \div P) + (IF k + 1 < n THEN Wrap(x[k + 1] * Q) ELSE 0)]
  BY DEF bn_shift_r
<1> HIDE DEF P, Q, r
<1>3. \A k \in 0..(n - 1) :
        /\ x[k] \in Digit
        /\ x[k] \div P \in 0..(Q - 1) /\ x[k] % P \in 0..(P - 1)
        /\ x[k] = P * (x[k] \div P) + (x[k] % P)
        /\ Wrap(x[k] * Q) = (x[k] % P) * Q
        /\ (x[k] % P) * Q \in 0..(Base - Q)
  <2>1. SUFFICES ASSUME NEW k \in 0..(n - 1)
                 PROVE  /\ x[k] \in Digit
                        /\ x[k] \div P \in 0..(Q - 1) /\ x[k] % P \in 0..(P - 1)
                        /\ x[k] = P * (x[k] \div P) + (x[k] % P)
                        /\ Wrap(x[k] * Q) = (x[k] % P) * Q
                        /\ (x[k] % P) * Q \in 0..(Base - Q)
    OBVIOUS
  <2>2. x[k] \in Digit
    BY DEF HasDigits
  <2> QED
    BY <1>1, <2>2, ShiftedDigit
<1>4. \A k \in 0..n : f[k] \in 0..(P - 1)
  <2>1. \A k \in 0..n : k < n => k \in 0..(n - 1)
    BY SMT
  <2>2. 0 \in 0..(P - 1)
    BY <1>1
  <2> QED
    BY <1>3, <2>1, <2>2
<1>5. \A k \in 0..(n - 1) :
        r[k] = (x[k] \div P) + Q * f[k + 1] /\ f[k] = x[k] % P
  <2>1. SUFFICES ASSUME NEW k \in 0..(n - 1)
                 PROVE  r[k] = (x[k] \div P) + Q * f[k + 1] /\ f[k] = x[k] % P
    OBVIOUS
  <2>2. k \in 0..n /\ k < n /\ k + 1 \in 0..n
    BY SMT
  <2>3. CASE k + 1 < n
    <3>1. k + 1 \in 0..(n - 1)
      BY <2>3, SMT
    <3>2. f[k + 1] = x[k + 1] % P /\ f[k + 1] \in Int
      BY <1>4, <2>2, <2>3
    <3>3. Wrap(x[k + 1] * Q) = (x[k + 1] % P) * Q
      BY <1>3, <3>1
    <3>4. r[k] = (x[k] \div P) + Wrap(x[k + 1] * Q)
      BY <1>2, <2>3
    <3> HIDE DEF f
    <3>5. f[k + 1] * Q = Q * f[k + 1]
      BY <1>1, <3>2
    <3>6. r[k] = (x[k] \div P) + Q * f[k + 1]
      BY <3>2, <3>3, <3>4, <3>5
    <3> QED
      BY <2>2, <3>6 DEF f
  <2>4. CASE ~(k + 1 < n)
    <3>1. f[k + 1] = 0 /\ f[k] = x[k] % P
      BY <2>2, <2>4
    <3>2. r[k] = (x[k] \div P) + 0 /\ Q * 0 = 0
      BY <1>1, <1>2, <2>4
    <3> QED
      BY <3>1, <3>2
  <2> QED
    BY <2>3, <2>4
<1>6. ASSUME NEW k \in 0..(n - 1)
      PROVE  /\ r[k] \in Digit
             /\ x[k] + 1 * (Base * f[k + 1]) = (P * r[k] + 0 * r[k]) + 1 * f[k]
  <2> DEFINE h == x[k] \div P
             l == x[k] % P
             e == x[k]
             g == f[k + 1]
  <2>1. k + 1 \in 0..n
    BY SMT
  <2>2. /\ h \in 0..(Q - 1) /\ l \in 0..(P - 1) /\ e = P * h + l /\ e \in Digit
        /\ g \in 0..(P - 1) /\ r[k] = h + Q * g /\ f[k] = l
    BY <1>3, <1>4, <1>5, <2>1
  <2> HIDE DEF h, l, e, g
  <2>3. h + Q * g \in Digit
    <3>1. g * Q <= (P - 1) * Q
      BY <1>1, <2>2, Monotone
    <3>2. (P - 1) * Q = Base - Q
      BY <1>1
    <3>3. g * Q = Q * g /\ Q * g \in Nat
      BY <1>1, <2>2
    <3> QED
      BY <1>1, <2>2, <3>1, <3>2, <3>3, BignumAssumption DEF Digit
  <2>4. P * (h + Q * g) = P * h + Base * g
    BY <1>1, <2>2
  <2>5. Base * g \in Int /\ P * h \in Int /\ h + Q * g \in Int
    BY <1>1, <2>2
  <2>6. e + 1 * (Base * g) = (P * (h + Q * g) + 0 * (h + Q * g)) + 1 * l
    BY <1>1, <2>2, <2>4, <2>5
  <2> QED
    BY <2>2, <2>3, <2>6 DEF e, g
<1>7. r \in [0..(n - 1) -> Digit]
  BY <1>2, <1>6
<1>8. f[n] = 0
  BY SMT
<1>9. HasDigits(f, n + 1)
  <2>1. (n + 1) - 1 = n
    BY SMT
  <2>2. P <= P * Q
    BY <1>1
  <2>3. \A k \in 0..(P - 1) : k \in Digit
    BY <1>1, <2>2, BignumAssumption DEF Digit
  <2> QED
    BY <1>4, <2>1, <2>3 DEF HasDigits
<1> HIDE DEF f
<1>10. Digitwise(x, f, r, r, P, 0, 1, n)
  BY <1>6 DEF Digitwise
<1>11. HasDigits(r, n)
  BY <1>7, ArrayHasDigits
<1>12. Value(x, n) + 1 * (Power(Base, n) * f[n])
         = (P * Value(r, n) + 0 * Value(r, n)) + 1 * f[0]
  <2>1. P \in Int /\ 0 \in Int /\ 1 \in Int
    BY <1>1
  <2> QED
    BY <1>9, <1>10, <1>11, <2>1, SumOfDigits
<1>13. f[0] \in 0..(P - 1) /\ Value(x, n) = P * Value(r, n) + f[0]
  <2>1. 0 \in 0..n
    BY SMT
  <2>2. f[0] \in 0..(P - 1)
    BY <1>4, <2>1
  <2>3. Value(x, n) \in Nat /\ Value(r, n) \in Nat /\ Power(Base, n) \in Nat
    BY <1>11, ValueFacts, PowerFacts, BignumAssumption
  <2> QED
    BY <1>1, <1>8, <1>12, <2>2, <2>3
<1> QED
  BY <1>7, <1>13 DEF r, P

-----------------------------------------------------------------------------
(* The window of bn_div *)

\* The value of the window from digit j to digit j + n.
WindowValue(x, j, n) == Value(Window(x, j, n + 1), n + 1)

\* The window is n + 1 digits of x, and its number is made of its top digit
\* and the rest.
LEMMA WindowFacts ==
    ASSUME NEW L \in Nat, NEW x \in [0..L -> Digit], NEW j \in Nat,
           NEW n \in Nat,
           j + n <= L
    PROVE  /\ HasDigits(x, L + 1)
           /\ HasDigits(Window(x, j, n + 1), n + 1)
           /\ HasDigits(Window(x, j, n), n)
           /\ x[j + n] \in Digit
           /\ WindowValue(x, j, n)
                = Value(Window(x, j, n), n) + x[j + n] * Power(Base, n)
           /\ WindowValue(x, j, n) \in Nat
<1>1. HasDigits(x, L + 1)
  <2>1. (L + 1) - 1 = L
    BY SMT
  <2> QED
    BY <2>1 DEF HasDigits
<1>2. /\ (n + 1) - 1 = n
      /\ \A k \in 0..n : j + k \in 0..L
      /\ \A k \in 0..(n - 1) : j + k \in 0..L /\ k \in 0..n
      /\ n \in 0..n /\ n + 1 \in Nat
  BY SMT
<1>3. \A k \in 0..n : Window(x, j, n + 1)[k] = x[j + k] /\ x[j + k] \in Digit
  BY <1>2 DEF Window
<1>4. \A k \in 0..(n - 1) : Window(x, j, n)[k] = x[j + k] /\ x[j + k] \in Digit
  BY <1>2 DEF Window
<1>5. HasDigits(Window(x, j, n + 1), n + 1) /\ HasDigits(Window(x, j, n), n)
  BY <1>2, <1>3, <1>4, Zenon DEF HasDigits
<1> DEFINE w == Window(x, j, n + 1)
           v == Window(x, j, n)
<1>6. Value(w, n + 1) = Value(v, n) + x[j + n] * Power(Base, n)
  <2>1. SameDigits(v, w, n)
    BY <1>2, <1>3, <1>4 DEF SameDigits
  <2>2. w[n] = x[j + n] /\ w[n] \in Digit
    BY <1>2, <1>3
  <2> HIDE DEF w, v
  <2>3. HasDigits(w, n) /\ Value(v, n) = Value(w, n)
    BY <1>5, <2>1, SameValue DEF w, v
  <2>4. Value(w, n + 1) = Value(w, n) + w[n] * Power(Base, n)
    BY <2>2, <2>3, ValueFacts
  <2> QED
    BY <2>2, <2>3, <2>4
<1>7. Value(w, n + 1) \in Nat
  <2> HIDE DEF w
  <2> QED
    BY <1>2, <1>5, ValueFacts DEF w
<1> QED
  BY <1>1, <1>2, <1>3, <1>5, <1>6, <1>7 DEF WindowValue

\* A change inside a window changes the value as the window's.
LEMMA WindowChange ==
    ASSUME NEW m \in Nat, NEW x, NEW y, HasDigits(x, m), HasDigits(y, m),
           NEW j \in Nat, NEW w \in Nat, j + w <= m,
           \A k \in 0..(m - 1) : k < j \/ k >= j + w => x[k] = y[k]
    PROVE  Value(y, m) - Value(x, m)
             = Power(Base, j)
               * (Value(Window(y, j, w), w) - Value(Window(x, j, w), w))
<1> DEFINE e == m - (j + w)
           X == Window(x, j, w + e)
           Y == Window(y, j, w + e)
<1>1. /\ e \in Nat /\ m = j + (w + e) /\ w + e \in Nat
      /\ \A k \in 0..(j - 1) : k \in 0..(m - 1) /\ k < j
      /\ \A k \in 0..(w - 1) : k \in 0..((w + e) - 1)
      /\ \A k \in 0..(e - 1) : /\ w + k \in 0..((w + e) - 1)
                               /\ j + (w + k) \in 0..(m - 1)
                               /\ j + (w + k) >= j + w
  BY SMT
<1> HIDE DEF e
<1>2. /\ HasDigits(x, j) /\ HasDigits(X, w + e)
      /\ Value(x, m) = Value(x, j) + Power(Base, j) * Value(X, w + e)
      /\ HasDigits(y, j) /\ HasDigits(Y, w + e)
      /\ Value(y, m) = Value(y, j) + Power(Base, j) * Value(Y, w + e)
  BY <1>1, ValueSplit
<1>3. Value(x, j) = Value(y, j) /\ Value(x, j) \in Nat
  <2>1. SameDigits(x, y, j)
    BY <1>1 DEF SameDigits
  <2> QED
    BY <1>2, <2>1, SameValue, ValueFacts
<1>4. \A k \in 0..((w + e) - 1) : X[k] = x[j + k] /\ Y[k] = y[j + k]
  BY DEF Window
<1>5. /\ SameDigits(X, Window(x, j, w), w)
      /\ SameDigits(Y, Window(y, j, w), w)
  <2>1. \A k \in 0..(w - 1) :
          Window(x, j, w)[k] = x[j + k] /\ Window(y, j, w)[k] = y[j + k]
    BY DEF Window
  <2> QED
    BY <1>1, <1>4, <2>1 DEF SameDigits
<1>6. SameDigits(Window(X, w, e), Window(Y, w, e), e)
  <2>1. \A k \in 0..(e - 1) :
          Window(X, w, e)[k] = X[w + k] /\ Window(Y, w, e)[k] = Y[w + k]
    BY DEF Window
  <2> QED
    BY <1>1, <1>4, <2>1 DEF SameDigits
<1> HIDE DEF X, Y
<1>7. /\ HasDigits(X, w) /\ HasDigits(Window(X, w, e), e)
      /\ Value(X, w + e)
           = Value(X, w) + Power(Base, w) * Value(Window(X, w, e), e)
      /\ HasDigits(Y, w) /\ HasDigits(Window(Y, w, e), e)
      /\ Value(Y, w + e)
           = Value(Y, w) + Power(Base, w) * Value(Window(Y, w, e), e)
  BY <1>1, <1>2, ValueSplit
<1>8. Value(Window(X, w, e), e) = Value(Window(Y, w, e), e)
      /\ Value(Window(X, w, e), e) \in Nat
  BY <1>1, <1>6, <1>7, SameValue, ValueFacts
<1>9. /\ Value(X, w) = Value(Window(x, j, w), w) /\ Value(X, w) \in Nat
      /\ Value(Y, w) = Value(Window(y, j, w), w) /\ Value(Y, w) \in Nat
  BY <1>5, <1>7, SameValue, ValueFacts
<1>10. Power(Base, j) \in Nat /\ Power(Base, w) \in Nat
  BY PowerFacts, BignumAssumption
<1> DEFINE P == Power(Base, j)
           q == Power(Base, w) * Value(Window(X, w, e), e)
           A == Value(Window(x, j, w), w)
           B == Value(Window(y, j, w), w)
           z == Value(x, j)
<1>11. /\ Value(x, m) = z + P * (A + q) /\ Value(y, m) = z + P * (B + q)
       /\ z \in Nat /\ P \in Nat /\ A \in Nat /\ B \in Nat /\ q \in Nat
  BY <1>2, <1>3, <1>7, <1>8, <1>9, <1>10
<1> HIDE DEF P, q, A, B, z
<1>12. Value(y, m) - Value(x, m) = P * (B - A)
  BY <1>11
<1> QED
  BY <1>12 DEF P, A, B

\* The digits that are known to be zero because the value is small.
LEMMA SmallValue ==
    ASSUME NEW m \in Nat, NEW x, HasDigits(x, m), NEW k \in Nat, k <= m,
           Value(x, m) < Power(Base, k)
    PROVE  Value(x, k) = Value(x, m) /\ \A l \in k..(m - 1) : x[l] = 0
<1>1. \A l \in k..(m - 1) : x[l] = 0
  <2>1. SUFFICES ASSUME NEW l \in k..(m - 1), x[l] # 0 PROVE FALSE
    OBVIOUS
  <2>2. /\ l \in Nat /\ l + 1 \in Nat /\ l + 1 <= m /\ l <= m /\ l < m /\ k <= l
        /\ m - (l + 1) \in Nat /\ m = (l + 1) + (m - (l + 1))
    BY SMT
  <2>3. HasDigits(x, l) /\ x[l] \in Digit /\ Value(x, l) \in Nat
    BY <2>2, FewerDigits
  <2>4. Value(x, l + 1) = Value(x, l) + x[l] * Power(Base, l)
    BY <2>2, <2>3, ValueFacts
  <2>5. Power(Base, l) \in Nat /\ Power(Base, k) <= Power(Base, l)
        /\ Power(Base, k) \in Nat
    BY <2>2, PowerFacts, PowerMonotone, BignumAssumption
  <2>6. x[l] \in Nat \ {0}
    BY <2>1, <2>3, DigitsAreNumbers
  <2>7. Value(x, l + 1) >= Power(Base, l)
    <3>1. 1 * Power(Base, l) <= x[l] * Power(Base, l)
      BY <2>5, <2>6, Monotone
    <3> QED
      BY <2>3, <2>4, <2>5, <2>6, <3>1
  <2>8. /\ Value(x, m) = Value(x, l + 1) + Power(Base, l + 1)
                           * Value(Window(x, l + 1, m - (l + 1)), m - (l + 1))
        /\ HasDigits(Window(x, l + 1, m - (l + 1)), m - (l + 1))
        /\ HasDigits(x, l + 1)
    BY <2>2, ValueSplit
  <2>9. /\ Value(Window(x, l + 1, m - (l + 1)), m - (l + 1)) \in Nat
        /\ Power(Base, l + 1) \in Nat /\ Value(x, l + 1) \in Nat
        /\ Value(x, m) \in Nat
    BY <2>2, <2>8, ValueFacts, PowerFacts, BignumAssumption
  <2> DEFINE v == Power(Base, l + 1)
                    * Value(Window(x, l + 1, m - (l + 1)), m - (l + 1))
  <2>10. v \in Nat /\ Value(x, m) = Value(x, l + 1) + v
    BY <2>8, <2>9
  <2> HIDE DEF v
  <2> QED
    BY <2>5, <2>7, <2>9, <2>10
<1>2. Value(x, m) = Value(x, k)
  BY <1>1, LeadingZeros
<1> QED
  BY <1>1, <1>2

\* What replaces the n digits of x from digit j on, with what it borrows from
\* the digit above them, takes away q times D.
TakesAway(r, x, j, n, q, D) ==
    /\ r.digits \in [0..(n - 1) -> Digit] /\ r.carry \in Digit
    /\ Value(r.digits, n) - Power(Base, n) * r.carry
         = Value(Window(x, j, n), n) - q * D
    /\ q * D <= WindowValue(x, j, n)

\* Two arrays that agree but for the window, which is smaller by v in the
\* second.
LessBy(y, x, j, n, L, v) ==
    /\ y \in [0..L -> Digit]
    /\ WindowValue(y, j, n) = WindowValue(x, j, n) - v
    /\ Value(y, L + 1) = Value(x, L + 1) - v * Power(Base, j)

\* No borrow is lost where the window is reduced.
LEMMA ReduceExact ==
    ASSUME NEW L \in Nat, NEW x \in [0..L -> Digit], NEW j \in Nat,
           NEW n \in Nat,
           j + n <= L, NEW r, NEW q \in Nat, NEW D \in Nat,
           TakesAway(r, x, j, n, q, D)
    PROVE  LessBy(Reduce(x, j, n, r), x, j, n, L, q * D)
<1> DEFINE y == Reduce(x, j, n, r)
           B == Power(Base, n)
           top == x[j + n]
           low == Value(Window(x, j, n), n)
           rlow == Value(r.digits, n)
           v == q * D
           up == r.carry
<1>1. /\ HasDigits(x, L + 1)
      /\ HasDigits(Window(x, j, n), n)
      /\ top \in Digit
      /\ WindowValue(x, j, n) = low + top * B
  BY WindowFacts
<1>2. HasDigits(r.digits, n) /\ rlow \in Nat /\ rlow < B /\ low \in Nat
  <2>1. HasDigits(r.digits, n)
    BY ArrayHasDigits DEF TakesAway
  <2> QED
    BY <1>1, <2>1, ValueFacts, ValueBound
<1>3. /\ rlow - B * up = low - v /\ v <= low + top * B /\ up \in Digit
      /\ v \in Nat /\ B \in Nat \ {0}
  <2>1. v \in Nat
    BY SMT
  <2> QED
    BY <1>1, <2>1, PowerPositive, BignumAssumption DEF TakesAway
<1>4. up <= top /\ top - up \in Digit
        /\ rlow + (top - up) * B = (low + top * B) - v
  <2>1. top \in Nat /\ up \in Nat /\ top < Base /\ Base \in Nat
    BY <1>1, <1>3, BignumAssumption DEF Digit
  <2> HIDE DEF B, top, low, rlow, v, up
  <2>2. up <= top
    <3>1. SUFFICES ASSUME up >= top + 1 PROVE FALSE
      BY <2>1
    <3>2. (top + 1) * B <= up * B
      BY <1>3, <2>1, <3>1, Monotone
    <3>3. (top + 1) * B = top * B + B /\ up * B = B * up
      BY <1>3, <2>1
    <3>4. top * B \in Int /\ B * up \in Int
      BY <1>3, <2>1
    <3> QED
      BY <1>2, <1>3, <3>2, <3>3, <3>4
  <2>3. (top - up) * B = top * B - B * up /\ top * B \in Int /\ B * up \in Int
    BY <1>3, <2>1
  <2> QED
    BY <1>2, <1>3, <2>1, <2>2, <2>3 DEF Digit
<1>5. /\ j + n \in 0..L
      /\ \A k \in 0..L : k - j \in DOMAIN r.digits <=> j <= k /\ k < j + n
      /\ \A k \in 0..L : j <= k /\ k < j + n => k - j \in 0..(n - 1)
      /\ \A k \in 0..(n - 1) :
           j + k \in 0..L /\ (j + k) - j = k /\ j + k # j + n
                               /\ j + k < j + n /\ j <= j + k
  <2>1. DOMAIN r.digits = 0..(n - 1)
    BY DEF TakesAway
  <2> QED
    BY <2>1, SMT
<1>6. y = [Over(x, j, r.digits) EXCEPT ![j + n] = Wrap(@ - up)]
  BY DEF Reduce
<1>7. /\ DOMAIN y = 0..L
      /\ \A k \in 0..L : k # j + n =>
           y[k] = IF j <= k /\ k < j + n THEN r.digits[k - j] ELSE x[k]
      /\ y[j + n] = Wrap(top - up)
  <2>1. Over(x, j, r.digits)
          = [k \in 0..L |-> IF k - j \in DOMAIN r.digits THEN r.digits[k - j]
                            ELSE x[k]]
    BY DEF Over
  <2>2. j + n \in 0..L /\ ~(j + n - j \in DOMAIN r.digits)
    BY <1>5
  <2>3. Over(x, j, r.digits)[j + n] = top
    BY <2>1, <2>2
  <2> HIDE DEF y, top, up
  <2>4. y[j + n] = Wrap(top - up)
    BY <1>6, <2>1, <2>2, <2>3
  <2> QED
    BY <1>5, <1>6, <2>1, <2>4
<1>8. y[j + n] = top - up /\ y[j + n] \in Digit
  <2>1. Wrap(top - up) = top - up
    <3>1. top - up \in Int
      <4> HIDE DEF top, up
      <4> QED
        BY <1>1, <1>3, DigitsAreNumbers
    <3> QED
      BY <1>4, <3>1, WrapOnce
  <2> QED
    BY <1>4, <1>7, <2>1
<1>9. y \in [0..L -> Digit]
  <2>1. \A k \in 0..L : y[k] \in Digit
    <3>1. SUFFICES ASSUME NEW k \in 0..L PROVE y[k] \in Digit
      OBVIOUS
    <3>2. CASE k = j + n
      BY <1>8, <3>2
    <3>3. CASE k # j + n
      BY <1>5, <1>7, <3>3 DEF TakesAway
    <3> QED
      BY <3>2, <3>3
  <2>2. y = [k \in 0..L |-> y[k]]
    <3> HIDE DEF top, up
    <3> QED
      BY <1>6 DEF Over
  <2> HIDE DEF y
  <2> QED
    BY <2>1, <2>2
<1>10. SameDigits(r.digits, Window(y, j, n), n)
  <2>1. \A k \in 0..(n - 1) : Window(y, j, n)[k] = y[j + k]
    BY DEF Window
  <2>2. \A k \in 0..(n - 1) : y[j + k] = r.digits[k]
    <3> HIDE DEF y, top, up
    <3> QED
      BY <1>5, <1>7
  <2> HIDE DEF y
  <2> QED
    BY <2>1, <2>2 DEF SameDigits
<1> HIDE DEF y
<1>11. WindowValue(y, j, n) = rlow + (top - up) * B
  <2>1. Value(Window(y, j, n), n) = rlow
    BY <1>2, <1>10, SameValue
  <2>2. WindowValue(y, j, n) = Value(Window(y, j, n), n) + y[j + n] * B
    BY <1>9, WindowFacts
  <2> QED
    BY <1>8, <2>1, <2>2
<1>12. WindowValue(y, j, n) = WindowValue(x, j, n) - v
  BY <1>1, <1>4, <1>11
<1>13. Value(y, L + 1) - Value(x, L + 1)
         = Power(Base, j) * (WindowValue(y, j, n) - WindowValue(x, j, n))
  <2>1. HasDigits(y, L + 1)
    BY <1>9, WindowFacts
  <2>2. /\ L + 1 \in Nat /\ n + 1 \in Nat /\ j + (n + 1) <= L + 1
        /\ (L + 1) - 1 = L
    BY SMT
  <2>3. \A k \in 0..((L + 1) - 1) : k < j \/ k >= j + (n + 1) => x[k] = y[k]
    <3>1. SUFFICES ASSUME NEW k \in 0..L, k < j \/ k >= j + (n + 1)
                   PROVE  x[k] = y[k]
      BY <2>2
    <3>2. k # j + n /\ ~(j <= k /\ k < j + n)
      BY <3>1
    <3> QED
      BY <1>7, <3>2
  <2>4. Value(y, L + 1) - Value(x, L + 1)
          = Power(Base, j) * (Value(Window(y, j, n + 1), n + 1)
                                - Value(Window(x, j, n + 1), n + 1))
    <3> DEFINE m == L + 1
               w == n + 1
    <3>1. /\ m \in Nat /\ w \in Nat /\ j + w <= m
          /\ HasDigits(x, m) /\ HasDigits(y, m)
          /\ \A k \in 0..(m - 1) : k < j \/ k >= j + w => x[k] = y[k]
      BY <1>1, <2>1, <2>2, <2>3
    <3> HIDE DEF m, w
    <3>2. Value(y, m) - Value(x, m)
            = Power(Base, j)
              * (Value(Window(y, j, w), w) - Value(Window(x, j, w), w))
      BY <3>1, WindowChange
    <3> QED
      BY <3>2 DEF m, w
  <2> QED
    BY <2>4 DEF WindowValue
<1>14. Value(y, L + 1) = Value(x, L + 1) - v * Power(Base, j)
  <2>1. /\ Value(y, L + 1) \in Nat /\ Value(x, L + 1) \in Nat
        /\ WindowValue(y, j, n) \in Nat /\ WindowValue(x, j, n) \in Nat
        /\ Power(Base, j) \in Nat
    <3>1. HasDigits(y, L + 1)
      BY <1>9, WindowFacts
    <3>2. L + 1 \in Nat
      BY SMT
    <3> QED
      BY <1>1, <1>9, <3>1, <3>2, WindowFacts, ValueFacts, PowerFacts,
        BignumAssumption
  <2> DEFINE P == Power(Base, j)
             wy == WindowValue(y, j, n)
             wx == WindowValue(x, j, n)
             vy == Value(y, L + 1)
             vx == Value(x, L + 1)
  <2>2. vy - vx = P * (wy - wx) /\ wy = wx - v
        /\ vy \in Nat /\ vx \in Nat /\ wy \in Nat /\ wx \in Nat /\ P \in Nat
    BY <1>12, <1>13, <2>1
  <2> HIDE DEF P, wy, wx, vy, vx, v
  <2>3. P * (wy - wx) = - (v * P)
    <3>1. wy - wx = - v
      BY <1>3, <2>2
    <3> QED
      BY <1>3, <2>2, <3>1
  <2> QED
    <3>1. vy = vx - v * P
      BY <1>3, <2>2, <2>3
    <3> QED
      BY <3>1 DEF P, vy, vx, v
<1> QED
  BY <1>9, <1>12, <1>14 DEF LessBy, y

-----------------------------------------------------------------------------
(* One digit of bn_div: the estimate, and one correction *)

\* A divisor whose top bit is set.
Normal(d, n) ==
    n \in Nat \ {0} /\ HasDigits(d, n) /\ 2 * d[n - 1] >= Base

\* The top digit of a normalised divisor and the digits below it.
LEMMA NormalFacts ==
    ASSUME NEW n, NEW d, Normal(d, n)
    PROVE  /\ Value(d, n) \in Nat \ {0}
           /\ n \in Nat /\ n - 1 \in Nat /\ d[n - 1] \in Digit
           /\ Power(Base, n - 1) \in Nat \ {0}
           /\ Value(d, n - 1) \in 0..(Power(Base, n - 1) - 1)
           /\ Value(d, n) = d[n - 1] * Power(Base, n - 1) + Value(d, n - 1)
           /\ Value(d, n) < Power(Base, n)
<1>1. /\ n \in Nat /\ n - 1 \in Nat /\ n - 1 <= n /\ n - 1 < n
      /\ (n - 1) + 1 = n
      /\ HasDigits(d, n) /\ 2 * d[n - 1] >= Base
  BY DEF Normal
<1>2. HasDigits(d, n - 1) /\ d[n - 1] \in Digit /\ Value(d, n - 1) \in Nat
  BY <1>1, FewerDigits
<1>3. Value(d, n) = Value(d, n - 1) + d[n - 1] * Power(Base, n - 1)
  BY <1>1, <1>2, ValueFacts
<1>4. Power(Base, n - 1) \in Nat \ {0}
  BY <1>1, PowerPositive, BignumAssumption
<1>5. Value(d, n - 1) < Power(Base, n - 1) /\ Value(d, n) < Power(Base, n)
  BY <1>1, <1>2, ValueBound
<1>6. d[n - 1] \in Nat \ {0}
  BY <1>1, <1>2, BignumAssumption DEF Digit
<1> DEFINE tp == d[n - 1]
           S == Power(Base, n - 1)
           l == Value(d, n - 1)
<1>7. tp \in Nat \ {0} /\ S \in Nat \ {0} /\ l \in Nat /\ l < S
      /\ Value(d, n) = l + tp * S
  BY <1>2, <1>3, <1>4, <1>5, <1>6
<1> HIDE DEF tp, S, l
<1>8. tp * S \in Nat \ {0} /\ l + tp * S = tp * S + l
        /\ l + tp * S \in Nat \ {0}
      /\ l \in 0..(S - 1)
  BY <1>7
<1> QED
  BY <1>1, <1>2, <1>4, <1>5, <1>7, <1>8 DEF tp, S, l

\* The condition of the loop that corrects: what is left in the window is no
\* smaller than the divisor.
LEMMA TooSmallFacts ==
    ASSUME NEW L \in Nat, NEW x \in [0..L -> Digit], NEW j \in Nat,
           NEW n \in Nat,
           j + n <= L, NEW d, HasDigits(d, n)
    PROVE  TooSmall(x, j, d, n) <=> WindowValue(x, j, n) >= Value(d, n)
<1> DEFINE B == Power(Base, n)
           top == x[j + n]
           low == Value(Window(x, j, n), n)
           D == Value(d, n)
<1>1. /\ HasDigits(Window(x, j, n), n)
      /\ top \in Digit
      /\ WindowValue(x, j, n) = low + top * B
  BY WindowFacts
<1>2. low \in Nat /\ D \in Nat /\ D < B /\ B \in Nat /\ top \in Nat
  BY <1>1, ValueFacts, ValueBound, PowerFacts, BignumAssumption,
    DigitsAreNumbers
<1>3. AtLeast(Window(x, j, n), d, n) <=> low >= D
  BY <1>1, AtLeastComparesValues
<1>4. TooSmall(x, j, d, n) <=> top # 0 \/ low >= D
  BY <1>3 DEF TooSmall
<1> HIDE DEF B, top, low, D
<1>5. top # 0 => low + top * B >= D
  <2>1. SUFFICES ASSUME top >= 1 PROVE low + top * B >= D
    BY <1>2
  <2>2. 1 * B <= top * B
    BY <1>2, <2>1, Monotone
  <2>3. top * B \in Int
    BY <1>2
  <2> QED
    BY <1>2, <2>2, <2>3
<1>6. top = 0 => low + top * B = low
  BY <1>2
<1>7. WindowValue(x, j, n) >= D <=> top # 0 \/ low >= D
  <2>1. CASE top = 0
    BY <1>1, <1>6, <2>1
  <2>2. CASE top # 0
    BY <1>1, <1>5, <2>2
  <2> QED
    BY <2>1, <2>2
<1> QED
  BY <1>4, <1>7 DEF D

\* Taking the divisor from the window once takes exactly its value: the last
\* borrow is taken from the digit above.
LEMMA OnceExact ==
    ASSUME NEW L \in Nat, NEW x \in [0..L -> Digit], NEW j \in Nat,
           NEW n \in Nat,
           j + n <= L, NEW d, HasDigits(d, n), TooSmall(x, j, d, n)
    PROVE  LessBy(SubtractOnce(x, j, d, n), x, j, n, L, Value(d, n))
<1> DEFINE r == bn_sub(Window(x, j, n), d, n)
           D == Value(d, n)
<1>1. HasDigits(Window(x, j, n), n) /\ WindowValue(x, j, n) \in Nat
  BY WindowFacts
<1>2. /\ r.digits \in [0..(n - 1) -> Digit] /\ r.carry \in {0, 1}
      /\ Value(r.digits, n) - Power(Base, n) * r.carry
           = Value(Window(x, j, n), n) - Value(d, n)
  BY <1>1, SubExact
<1>3. D \in Nat /\ 1 * D = D /\ 1 \in Nat
  <2>1. D \in Nat
    BY ValueFacts
  <2> HIDE DEF D
  <2> QED
    BY <2>1
<1>4. D <= WindowValue(x, j, n)
  <2>1. WindowValue(x, j, n) >= D
    BY TooSmallFacts
  <2> HIDE DEF D
  <2> QED
    BY <1>1, <1>3, <2>1
<1>5. SubtractOnce(x, j, d, n) = Reduce(x, j, n, r)
  BY DEF SubtractOnce
<1> HIDE DEF r, D
<1>6. TakesAway(r, x, j, n, 1, D)
  BY <1>2, <1>3, <1>4, DigitsAreNumbers DEF TakesAway, D
<1>7. LessBy(Reduce(x, j, n, r), x, j, n, L, 1 * D)
  BY <1>3, <1>6, ReduceExact
<1> QED
  BY <1>3, <1>5, <1>7 DEF D

\* The estimate of a digit is never too large and at most two too small, and
\* taking it from the window takes exactly that multiple of the divisor.
LEMMA EstimateExact ==
    ASSUME NEW L \in Nat, NEW x \in [0..L -> Digit], NEW j \in Nat,
           NEW n \in Nat,
           j + n <= L, NEW d, Normal(d, n),
           WindowValue(x, j, n) < Base * Value(d, n)
    PROVE  LET q == Estimate(x, j, d, n)
           IN  /\ q \in Digit
               /\ q * Value(d, n) <= WindowValue(x, j, n)
               /\ WindowValue(x, j, n) < (q + 3) * Value(d, n)
               /\ LessBy(SubtractEstimate(x, j, q, d, n), x, j, n, L,
                         q * Value(d, n))
<1> DEFINE q == Estimate(x, j, d, n)
           D == Value(d, n)
           R == WindowValue(x, j, n)
           S == Power(Base, n - 1)
           v == Window(x, j, n)
<1>1. /\ HasDigits(v, n) /\ x[j + n] \in Digit
      /\ R = Value(v, n) + x[j + n] * Power(Base, n) /\ R \in Nat
  BY WindowFacts
<1>2. /\ D \in Nat \ {0} /\ n - 1 \in Nat /\ d[n - 1] \in Digit
      /\ S \in Nat \ {0} /\ Value(d, n - 1) \in 0..(S - 1)
      /\ D = d[n - 1] * S + Value(d, n - 1)
  BY NormalFacts
<1>3. n \in Nat \ {0} /\ 2 * d[n - 1] >= Base /\ HasDigits(d, n)
  BY DEF Normal
<1>4. n - 1 <= n /\ n - 1 < n /\ (n - 1) + 1 = n /\ n - 1 \in 0..(n - 1)
  BY <1>3
<1>5. v[n - 1] = x[j + n - 1] /\ j + (n - 1) = j + n - 1
  <2>1. j + (n - 1) = j + n - 1
    BY <1>3
  <2> QED
    BY <1>4, <2>1 DEF Window
<1> HIDE DEF v
<1>6. /\ HasDigits(v, n - 1) /\ v[n - 1] \in Digit /\ Value(v, n - 1) \in Nat
      /\ Value(v, n - 1) < S
  <2>1. HasDigits(v, n - 1) /\ v[n - 1] \in Digit /\ Value(v, n - 1) \in Nat
    BY <1>1, <1>2, <1>4, FewerDigits
  <2> QED
    BY <1>2, <2>1, ValueBound
<1>7. Value(v, n) = Value(v, n - 1) + v[n - 1] * S
  BY <1>2, <1>4, <1>6, ValueFacts
<1>8. Power(Base, n) = Base * S
  BY <1>2, <1>4, PowerFacts, BignumAssumption
<1>9. R = (x[j + n] * Base + x[j + n - 1]) * S + Value(v, n - 1)
      /\ Value(v, n - 1) \in 0..(S - 1)
  <2> DEFINE h == x[j + n]
             w == x[j + n - 1]
             l == Value(v, n - 1)
  <2>1. h \in Nat /\ w \in Nat /\ l \in Nat /\ l < S /\ Base \in Nat
        /\ R = (l + w * S) + h * (Base * S)
    <3>1. R = (l + w * S) + h * (Base * S)
      BY <1>1, <1>5, <1>7, <1>8
    <3> QED
      BY <1>1, <1>5, <1>6, <3>1, DigitsAreNumbers, BignumAssumption
  <2> HIDE DEF h, w, l, R, S
  <2>2. l \in 0..(S - 1)
    BY <1>2, <2>1
  <2>3. h * (Base * S) = (h * Base) * S
          /\ (h * Base + w) * S = (h * Base) * S + w * S
        /\ w * S \in Int /\ (h * Base) * S \in Int
    BY <1>2, <2>1
  <2>4. R = (h * Base + w) * S + l
    BY <2>1, <2>3
  <2> QED
    BY <2>2, <2>4 DEF h, w, l
<1> HIDE DEF S, R, D
<1>10. R < Base * D
  BY DEF R, D
<1>11. q \in Digit /\ q * D <= R /\ R < (q + 3) * D
  <2>1. x[j + n - 1] \in Digit
    BY <1>5, <1>6
  <2> DEFINE lo == Value(d, n - 1)
             rlo == Value(v, n - 1)
  <2>2. lo \in 0..(S - 1) /\ rlo \in 0..(S - 1) /\ D = d[n - 1] * S + lo
        /\ R = (x[j + n] * Base + x[j + n - 1]) * S + rlo
    BY <1>2, <1>9
  <2> HIDE DEF lo, rlo
  <2>3. D \in Nat /\ R \in Nat
    BY <1>1, <1>2
  <2> QED
    BY <1>1, <1>2, <1>3, <1>10, <2>1, <2>2, <2>3, EstimateIsSound
<1> HIDE DEF q
<1> DEFINE r == bn_sub_digit_mul(v, q, d, n)
<1>12. /\ r.digits \in [0..(n - 1) -> Digit] /\ r.carry \in Digit
       /\ Value(r.digits, n) - Power(Base, n) * r.carry = Value(v, n) - q * D
  BY <1>1, <1>3, <1>11, SubDigitMulExact DEF D
<1>13. SubtractEstimate(x, j, q, d, n) = Reduce(x, j, n, r)
  BY DEF SubtractEstimate, v
<1> HIDE DEF r
<1>14. TakesAway(r, x, j, n, q, D)
  BY <1>11, <1>12 DEF TakesAway, v, R
<1>15. LessBy(Reduce(x, j, n, r), x, j, n, L, q * D)
  <2>1. q \in Nat /\ D \in Nat
    BY <1>2, <1>11, DigitsAreNumbers
  <2> QED
    BY <1>14, <2>1, ReduceExact
<1> QED
  BY <1>11, <1>13, <1>15 DEF q, D, R

\* An array whose digits from j + n + 1 on are zero is one window above digit j.
LEMMA ScaledCompare ==
    ASSUME NEW L \in Nat, NEW x \in [0..L -> Digit], NEW j \in Nat,
           NEW n \in Nat,
           j + n <= L, Value(x, L + 1) < Power(Base, j + (n + 1)), NEW e \in Nat
    PROVE  Value(x, L + 1) >= e * Power(Base, j) <=> WindowValue(x, j, n) >= e
<1> DEFINE w == n + 1
           m == j + w
           u == Power(Base, j)
           W == WindowValue(x, j, n)
           low == Value(x, j)
           X == Value(x, L + 1)
<1>1. HasDigits(x, L + 1) /\ W \in Nat
  BY WindowFacts
<1>2. /\ m \in Nat /\ w \in Nat /\ L + 1 \in Nat /\ m <= L + 1
  BY SMT
<1>3. Value(x, m) = X
  BY <1>1, <1>2, SmallValue
<1>4. HasDigits(x, m)
  BY <1>1, <1>2, FewerDigits
<1>5. HasDigits(x, j) /\ Value(x, m) = low + u * W
  BY <1>2, <1>4, ValueSplit DEF WindowValue
<1>6. low \in Nat /\ low < u /\ u \in Nat
  BY <1>5, ValueFacts, ValueBound, PowerFacts, BignumAssumption
<1> HIDE DEF u, W, low, X
<1>7. W >= e => low + u * W >= e * u
  <2>1. SUFFICES ASSUME W >= e PROVE low + u * W >= e * u
    OBVIOUS
  <2>2. e * u <= W * u
    BY <1>1, <1>6, <2>1, Monotone
  <2>3. W * u = u * W /\ u * W \in Int /\ e * u \in Int
    BY <1>1, <1>6
  <2> QED
    BY <1>6, <2>2, <2>3
<1>8. W < e => low + u * W < e * u
  <2>1. SUFFICES ASSUME W + 1 <= e PROVE low + u * W < e * u
    BY <1>1
  <2>2. (W + 1) * u <= e * u
    BY <1>1, <1>6, <2>1, Monotone
  <2>3. (W + 1) * u = u * W + u /\ u * W \in Int /\ e * u \in Int
    BY <1>1, <1>6
  <2> QED
    BY <1>6, <2>2, <2>3
<1>9. low + u * W \in Int /\ e * u \in Int
  BY <1>1, <1>6
<1>10. X = low + u * W
  BY <1>3, <1>5
<1>11. X >= e * u <=> W >= e
  BY <1>1, <1>7, <1>8, <1>9, <1>10
<1> QED
  BY <1>11 DEF X, u, W

\* The dividend is ready for its quotient digit j.
Ready(x, j, d, n, L) ==
    /\ L \in Nat /\ x \in [0..L -> Digit] /\ j \in Nat /\ j + n <= L
    /\ Normal(d, n)
    /\ Value(x, L + 1) < Value(d, n) * Power(Base, j + 1)

\* What it means for x to be ready for the digit j.
LEMMA ReadyFacts ==
    ASSUME NEW L, NEW x, NEW j, NEW n, NEW d, Ready(x, j, d, n, L)
    PROVE  /\ L \in Nat /\ x \in [0..L -> Digit] /\ j \in Nat /\ n \in Nat
           /\ j + n <= L /\ HasDigits(d, n) /\ L + 1 \in Nat
           /\ Value(d, n) \in Nat \ {0} /\ Value(x, L + 1) \in Nat
           /\ Power(Base, j) \in Nat \ {0}
           /\ Power(Base, j + 1) = Base * Power(Base, j)
           /\ Value(x, L + 1) < Power(Base, j + (n + 1))
           /\ \A e \in Nat : Value(x, L + 1) >= e * Power(Base, j)
                               <=> WindowValue(x, j, n) >= e
           /\ WindowValue(x, j, n) < Base * Value(d, n)
<1>1. /\ L \in Nat /\ x \in [0..L -> Digit] /\ j \in Nat /\ n \in Nat
      /\ j + n <= L /\ HasDigits(d, n)
      /\ Value(d, n) \in Nat \ {0} /\ Value(d, n) < Power(Base, n)
  BY NormalFacts DEF Ready, Normal
<1>2. L + 1 \in Nat /\ j + 1 \in Nat /\ j + (n + 1) = n + (j + 1)
      /\ j + (n + 1) \in Nat
  BY <1>1
<1>3. HasDigits(x, L + 1) /\ WindowValue(x, j, n) \in Nat
  BY <1>1, WindowFacts
<1>4. Value(x, L + 1) \in Nat
  BY <1>2, <1>3, ValueFacts
<1>5. /\ Power(Base, j) \in Nat \ {0}
      /\ Power(Base, j + 1) = Base * Power(Base, j)
      /\ Power(Base, j + 1) \in Nat \ {0} /\ Power(Base, n) \in Nat
      /\ Power(Base, j + (n + 1)) = Power(Base, n) * Power(Base, j + 1)
  BY <1>1, <1>2, PowerFacts, PowerPositive, PowerOfSum, BignumAssumption
<1> DEFINE X == Value(x, L + 1)
           D == Value(d, n)
           P == Power(Base, j + 1)
           B == Power(Base, n)
           u == Power(Base, j)
           W == WindowValue(x, j, n)
<1>6. X < D * P
  BY DEF Ready
<1>7. X < Power(Base, j + (n + 1))
  <2>1. X \in Nat /\ D \in Nat /\ D <= B /\ P \in Nat /\ B \in Nat
        /\ Power(Base, j + (n + 1)) = B * P
    BY <1>1, <1>4, <1>5
  <2> HIDE DEF X, D, P, B
  <2>2. D * P <= B * P
    BY <2>1, Monotone
  <2>3. D * P \in Int /\ B * P \in Int
    BY <2>1
  <2>4. X < B * P
    BY <1>6, <2>1, <2>2, <2>3
  <2> QED
    BY <2>1, <2>4
<1>8. \A e \in Nat : X >= e * u <=> W >= e
  <2>1. SUFFICES ASSUME NEW e \in Nat PROVE X >= e * u <=> W >= e
    OBVIOUS
  <2> QED
    BY <1>1, <1>7, ScaledCompare
<1>9. W < Base * D
  <2>1. X \in Nat /\ D \in Nat /\ P = Base * u /\ u \in Nat /\ W \in Nat
          /\ Base \in Nat
    BY <1>1, <1>3, <1>4, <1>5, BignumAssumption
  <2> HIDE DEF X, D, P, u, W
  <2>2. Base * D \in Nat /\ D * P = (Base * D) * u /\ D * P \in Int
    BY <2>1
  <2>3. ~(X >= (Base * D) * u)
    BY <1>6, <2>1, <2>2
  <2>4. ~(W >= Base * D)
    BY <1>8, <2>2, <2>3
  <2> QED
    BY <2>1, <2>2, <2>4
<1> QED
  BY <1>1, <1>2, <1>4, <1>5, <1>7, <1>8, <1>9

\* Estimating a quotient digit: not too large, at most two too small, and what
\* is subtracted is the digit times the divisor.
THEOREM EstimateStep ==
    ASSUME NEW L, NEW x, NEW j, NEW n, NEW d, Ready(x, j, d, n, L)
    PROVE  LET q == Estimate(x, j, d, n)
               y == SubtractEstimate(x, j, q, d, n)
               u == Power(Base, j)
           IN  /\ q \in Digit
               /\ y \in [0..L -> Digit]
               /\ q * (Value(d, n) * u) <= Value(x, L + 1)
               /\ Value(x, L + 1) < (q + 3) * (Value(d, n) * u)
               /\ Value(y, L + 1) = Value(x, L + 1) - q * (Value(d, n) * u)
<1> DEFINE q == Estimate(x, j, d, n)
           y == SubtractEstimate(x, j, q, d, n)
           u == Power(Base, j)
           X == Value(x, L + 1)
           D == Value(d, n)
           W == WindowValue(x, j, n)
<1>1. /\ L \in Nat /\ x \in [0..L -> Digit] /\ j \in Nat /\ n \in Nat
      /\ j + n <= L /\ D \in Nat /\ X \in Nat /\ u \in Nat /\ W < Base * D
      /\ \A e \in Nat : X >= e * u <=> W >= e
  BY ReadyFacts
<1>2. Normal(d, n)
  BY DEF Ready
<1>3. /\ q \in Digit /\ q * D <= W /\ W < (q + 3) * D
      /\ LessBy(y, x, j, n, L, q * D)
  BY <1>1, <1>2, EstimateExact
<1> HIDE DEF q, y, u, X, D, W
<1>4. q \in Nat /\ W \in Nat
  <2>1. W \in Nat
    BY <1>1, WindowFacts DEF W
  <2> QED
    BY <1>3, <2>1, DigitsAreNumbers
<1>5. q * D \in Nat /\ (q + 3) * D \in Nat
      /\ (q * D) * u = q * (D * u) /\ ((q + 3) * D) * u = (q + 3) * (D * u)
      /\ q * (D * u) \in Int /\ (q + 3) * (D * u) \in Int
  BY <1>1, <1>4
<1>6. X >= q * (D * u)
  <2>1. W >= q * D
    BY <1>3, <1>4, <1>5
  <2> QED
    BY <1>1, <1>5, <2>1
<1>7. X < (q + 3) * (D * u)
  <2>1. ~(W >= (q + 3) * D)
    BY <1>3, <1>4, <1>5
  <2>2. ~(X >= ((q + 3) * D) * u)
    BY <1>1, <1>5, <2>1
  <2> QED
    BY <1>1, <1>5, <2>2
<1>8. y \in [0..L -> Digit] /\ Value(y, L + 1) = X - (q * D) * u
  BY <1>3 DEF LessBy, X, u
<1>9. q * (D * u) <= X /\ Value(y, L + 1) = X - q * (D * u)
  BY <1>1, <1>5, <1>6, <1>8
<1> QED
  BY <1>3, <1>7, <1>8, <1>9 DEF q, y, u, X, D

\* Correcting a quotient digit: the loop goes on exactly while the divisor
\* still fits, and subtracts it once.
THEOREM CorrectStep ==
    ASSUME NEW L, NEW x, NEW j, NEW n, NEW d, Ready(x, j, d, n, L)
    PROVE  LET y == SubtractOnce(x, j, d, n)
               u == Power(Base, j)
           IN  /\ TooSmall(x, j, d, n) <=> Value(x, L + 1) >= Value(d, n) * u
               /\ TooSmall(x, j, d, n) =>
                    /\ y \in [0..L -> Digit]
                    /\ Value(y, L + 1) = Value(x, L + 1) - Value(d, n) * u
<1> DEFINE y == SubtractOnce(x, j, d, n)
           u == Power(Base, j)
           X == Value(x, L + 1)
           D == Value(d, n)
           W == WindowValue(x, j, n)
<1>1. /\ L \in Nat /\ x \in [0..L -> Digit] /\ j \in Nat /\ n \in Nat
      /\ j + n <= L /\ D \in Nat /\ HasDigits(d, n)
      /\ \A e \in Nat : X >= e * u <=> W >= e
  BY ReadyFacts
<1>2. TooSmall(x, j, d, n) <=> W >= D
  BY <1>1, TooSmallFacts
<1>3. TooSmall(x, j, d, n) => LessBy(y, x, j, n, L, D)
  BY <1>1, OnceExact
<1>4. X >= D * u <=> W >= D
  BY <1>1
<1> QED
  BY <1>2, <1>3, <1>4 DEF LessBy

-----------------------------------------------------------------------------
(* Normalising in bn_div, and shifting the remainder back *)

\* The powers of two that bn_div shifts by.
LEMMA ShiftFacts ==
    ASSUME NEW n, NEW d, n \in Nat \ {0}, HasDigits(d, n), d[n - 1] # 0
    PROVE  /\ Shift(d, n) \in 0..DigitBits
           /\ \E h \in Nat \ {0} :
                /\ Base = (2 * h) * Power(2, Shift(d, n))
                /\ d[n - 1] < 2 * h
                /\ h <= d[n - 1]
<1> DEFINE x == d[n - 1]
           b == bn_digit_bits(x)
           s == DigitBits - b
<1>1. x \in Digit /\ x \in Nat \ {0}
  <2>1. n - 1 \in 0..(n - 1)
    BY SMT
  <2>2. x \in Digit
    BY <2>1 DEF HasDigits
  <2> HIDE DEF x
  <2> QED
    BY <2>2, DigitsAreNumbers DEF x
<1>2. b \in 0..DigitBits /\ x < Power(2, b) /\ Power(2, b) <= 2 * x + 1
  BY <1>1, DigitBitsFacts
<1>3. s \in 0..DigitBits /\ DigitBits - s = b /\ b \in Nat
  BY <1>2, BignumAssumption
<1>4. Shift(d, n) = s
  BY DEF Shift
<1> HIDE DEF x, b, s
<1>5. Power(2, b) * Power(2, s) = Base /\ Power(2, b) \in Nat \ {0}
  BY <1>3, ShiftParts
<1>6. b # 0
  <2>1. SUFFICES ASSUME b = 0 PROVE FALSE
    OBVIOUS
  <2>2. Power(2, b) = 1
    BY <2>1, PowerFacts
  <2> QED
    BY <1>1, <1>2, <2>2
<1> DEFINE h == Power(2, b - 1)
<1>7. b - 1 \in Nat /\ (b - 1) + 1 = b
  BY <1>3, <1>6
<1>8. h \in Nat \ {0} /\ Power(2, b) = 2 * h
  BY <1>7, PowerFacts, PowerPositive
<1> HIDE DEF h
<1>9. Base = (2 * h) * Power(2, s) /\ x < 2 * h /\ h <= x
  BY <1>1, <1>2, <1>5, <1>8
<1> QED
  BY <1>3, <1>4, <1>8, <1>9 DEF x

\* Shifted so that its top bit is set, the divisor loses nothing.
THEOREM NormalisedDivisor ==
    ASSUME NEW n, NEW d, n \in Nat \ {0}, HasDigits(d, n), d[n - 1] # 0
    PROVE  LET r == bn_shift_l(d, Shift(d, n), n) IN
           /\ r.carry = 0
           /\ r.digits \in [0..(n - 1) -> Digit]
           /\ Normal(r.digits, n)
           /\ Value(r.digits, n) = Power(2, Shift(d, n)) * Value(d, n)
           /\ Power(Base, n - 1) <= Value(d, n)
<1> DEFINE s == Shift(d, n)
           P == Power(2, s)
           x == d[n - 1]
           z == bn_shift_l(d, s, n).digits
           up == bn_shift_l(d, s, n).carry
           S == Power(Base, n - 1)
           V == Value(d, n)
           l == Value(d, n - 1)
           top == z[n - 1]
           zl == Value(z, n - 1)
<1>1. s \in 0..DigitBits
  BY ShiftFacts
<1>2. PICK h \in Nat \ {0} : Base = (2 * h) * P /\ x < 2 * h /\ h <= x
  BY ShiftFacts
<1>3. /\ n \in Nat /\ n - 1 \in Nat /\ n - 1 <= n /\ n - 1 < n
      /\ (n - 1) + 1 = n
      /\ n - 1 \in 0..(n - 1)
  BY SMT
<1>4. x \in Digit /\ x \in Nat /\ HasDigits(d, n - 1) /\ l \in Nat /\ l < S
  BY <1>3, FewerDigits, ValueBound, DigitsAreNumbers
<1>5. V = l + x * S
  BY <1>3, <1>4, ValueFacts
<1>6. S \in Nat \ {0} /\ Power(Base, n) = Base * S /\ P \in Nat \ {0}
  <2>1. P \in Nat \ {0}
    BY <1>1, ShiftParts
  <2>2. Power(Base, n) = Base * S
    BY <1>3, PowerFacts, BignumAssumption
  <2> QED
    BY <1>3, <2>1, <2>2, PowerPositive, BignumAssumption
<1>7. /\ z \in [0..(n - 1) -> Digit] /\ up \in Digit
      /\ Value(z, n) + Power(Base, n) * up = P * V
  BY <1>1, <1>3, ShiftLeftExact
<1> HIDE DEF s, z, up
<1>8. HasDigits(z, n)
  BY <1>3, <1>7, ArrayHasDigits
<1>9. top \in Digit /\ top \in Nat /\ HasDigits(z, n - 1) /\ zl \in Nat
        /\ zl < S
      /\ up \in Nat
  BY <1>3, <1>7, <1>8, FewerDigits, ValueBound, DigitsAreNumbers
<1>10. Value(z, n) = zl + top * S
  BY <1>3, <1>8, <1>9, ValueFacts
<1> HIDE DEF P, x, S, V, l, top, zl
<1>11. V < (2 * h) * S /\ S <= V /\ V \in Nat
  <2>1. (x + 1) * S <= (2 * h) * S
    BY <1>2, <1>4, <1>6, Monotone
  <2>2. 1 * S <= x * S
    BY <1>2, <1>4, <1>6, Monotone
  <2>3. (x + 1) * S = x * S + S /\ x * S \in Nat /\ (2 * h) * S \in Int
    BY <1>2, <1>4, <1>6
  <2> QED
    BY <1>4, <1>5, <1>6, <2>1, <2>2, <2>3
<1>12. up = 0
  <2>1. SUFFICES ASSUME up >= 1 PROVE FALSE
    BY <1>9
  <2>2. P * V < P * ((2 * h) * S)
    <3>1. (V + 1) * P <= ((2 * h) * S) * P
      <4>1. V + 1 <= (2 * h) * S /\ (2 * h) * S \in Int /\ V + 1 \in Int
        BY <1>2, <1>6, <1>11
      <4> QED
        BY <1>6, <4>1, Monotone
    <3> QED
      BY <1>2, <1>6, <1>11, <3>1
  <2>3. P * ((2 * h) * S) = Base * S
    BY <1>2, <1>6
  <2>4. 1 * (Base * S) <= up * (Base * S)
    <3>1. Base * S \in Nat
      BY <1>6, BignumAssumption
    <3> QED
      BY <1>9, <2>1, <3>1, Monotone
  <2>5. (Base * S) * up = up * (Base * S) /\ up * (Base * S) \in Int
        /\ Base * S \in Int /\ top * S \in Nat /\ P * V \in Int
    BY <1>6, <1>9, <1>11, BignumAssumption
  <2> DEFINE G == Base * S
  <2>6. Value(z, n) + G * up = P * V
    BY <1>6, <1>7
  <2>7. P * V < G /\ G <= up * G /\ G * up = up * G /\ up * G \in Int
          /\ G \in Int
    BY <2>2, <2>3, <2>4, <2>5
  <2> HIDE DEF G
  <2>8. Value(z, n) \in Nat
    BY <1>9, <1>10, <2>5
  <2> QED
    BY <2>5, <2>6, <2>7, <2>8
<1>13. Value(z, n) = P * V
  <2>1. Power(Base, n) * up = 0 /\ Value(z, n) \in Int /\ P * V \in Int
    <3>1. Base * S \in Int
      BY <1>6, BignumAssumption
    <3> QED
      BY <1>6, <1>9, <1>10, <1>11, <1>12, <3>1
  <2> QED
    BY <1>7, <2>1
<1>14. 2 * top >= Base
  <2>1. P * x <= top
    <3>1. SUFFICES ASSUME top + 1 <= P * x PROVE FALSE
      BY <1>4, <1>6, <1>9
    <3>2. (top + 1) * S <= (P * x) * S
      <4>1. P * x \in Int
        BY <1>4, <1>6
      <4> QED
        BY <1>6, <1>9, <3>1, <4>1, Monotone
    <3>3. P * V = P * l + (P * x) * S /\ P * l \in Nat /\ (P * x) * S \in Int
          /\ (top + 1) * S = top * S + S /\ top * S \in Int
      BY <1>4, <1>5, <1>6, <1>9
    <3> QED
      BY <1>6, <1>9, <1>10, <1>13, <3>2, <3>3
  <2>2. P * h <= P * x
    <3>1. h * P <= x * P
      BY <1>2, <1>4, <1>6, Monotone
    <3> QED
      BY <1>2, <1>4, <1>6, <3>1
  <2>3. Base = 2 * (P * h) /\ P * h \in Int /\ P * x \in Int
    BY <1>2, <1>4, <1>6
  <2> QED
    BY <1>9, <2>1, <2>2, <2>3
<1>15. Normal(z, n)
  BY <1>8, <1>14 DEF Normal, top
<1> QED
  BY <1>7, <1>11, <1>12, <1>13, <1>15 DEF s, P, V, S, z, up

\* The index of the top digit of the normalised dividend.
TopOf(cd, n) == IF cd < n THEN n - 1 ELSE cd

\* The dividend gets one more digit and loses nothing.
THEOREM NormalisedDividend ==
    ASSUME NEW cd \in Nat, NEW x, HasDigits(x, cd), NEW n \in Nat \ {0},
           NEW s \in 0..DigitBits
    PROVE  /\ Normalised(x, s, cd, n) \in [0..TopOf(cd, n) -> Digit]
           /\ Value(Normalised(x, s, cd, n), TopOf(cd, n) + 1)
                = Power(2, s) * Value(x, cd)
<1> DEFINE L == TopOf(cd, n)
           z == bn_shift_l(x, s, cd).digits
           up == bn_shift_l(x, s, cd).carry
           y == Normalised(x, s, cd, n)
<1>1. /\ z \in [0..(cd - 1) -> Digit] /\ up \in Digit
      /\ Value(z, cd) + Power(Base, cd) * up = Power(2, s) * Value(x, cd)
  BY ShiftLeftExact, Zenon
<1>2. /\ L \in Nat /\ cd <= L /\ L + 1 \in Nat /\ cd + 1 <= L + 1
      /\ cd + 1 \in Nat
      /\ cd \in 0..L /\ (L + 1) - 1 = L /\ ~(cd < cd)
      /\ \A k \in 0..L : k \in Nat /\ (k < cd => k \in 0..(cd - 1))
      /\ \A k \in (cd + 1)..L : k \in 0..L /\ ~(k < cd) /\ k # cd
      /\ \A k \in 0..(cd - 1) : k \in 0..L /\ k < cd
  BY SMT DEF TopOf
<1>3. y = [k \in 0..L |-> IF k < cd THEN z[k] ELSE IF k = cd THEN up ELSE 0]
  BY DEF Normalised, TopOf
<1> HIDE DEF L, z, up, y
<1>4. y \in [0..L -> Digit]
  BY <1>1, <1>2, <1>3, DigitsAreNumbers
<1>5. HasDigits(y, L + 1)
  BY <1>2, <1>4 DEF HasDigits
<1>6. Value(y, L + 1) = Value(y, cd + 1)
  <2>1. \A k \in (cd + 1)..((L + 1) - 1) : y[k] = 0
    BY <1>2, <1>3
  <2> QED
    BY <1>2, <1>5, <2>1, LeadingZeros
<1>7. SameDigits(z, y, cd) /\ HasDigits(z, cd)
  BY <1>1, <1>2, <1>3 DEF SameDigits, HasDigits
<1>8. HasDigits(y, cd) /\ Value(z, cd) = Value(y, cd) /\ y[cd] = up
  BY <1>2, <1>3, <1>7, SameValue
<1>9. Value(y, cd + 1) = Value(z, cd) + up * Power(Base, cd)
  BY <1>1, <1>8, ValueFacts
<1>10. up * Power(Base, cd) = Power(Base, cd) * up
  <2>1. up \in Nat /\ Power(Base, cd) \in Nat
    BY <1>1, PowerFacts, DigitsAreNumbers, BignumAssumption
  <2> QED
    BY <2>1
<1> QED
  BY <1>1, <1>4, <1>6, <1>9, <1>10 DEF L, y

\* The first quotient digit is enough: the dividend is below the divisor times
\* the weight above it, and below the divisor when there is no digit.
THEOREM DivisionStarts ==
    ASSUME NEW cd \in Nat, NEW x, HasDigits(x, cd), NEW n \in Nat \ {0},
           NEW d, HasDigits(d, n), d[n - 1] # 0
    PROVE  LET X == Power(2, Shift(d, n)) * Value(x, cd)
               D == Power(2, Shift(d, n)) * Value(d, n)
           IN  /\ X \in Nat /\ D \in Nat \ {0}
               /\ cd < n => X < D
               /\ cd >= n => X < D * Power(Base, (cd - n) + 1)
<1> DEFINE P == Power(2, Shift(d, n))
           C == Power(Base, cd)
           S == Power(Base, n - 1)
           v == Value(x, cd)
           w == Value(d, n)
<1>1. P \in Nat \ {0}
  <2>1. Shift(d, n) \in 0..DigitBits
    BY ShiftFacts
  <2> QED
    BY <2>1, ShiftParts
<1>2. S <= w
  BY NormalisedDivisor
<1>3. n - 1 \in Nat /\ n \in Nat
  BY SMT
<1>4. v \in Nat /\ v < C /\ C \in Nat \ {0} /\ S \in Nat \ {0} /\ w \in Nat
  BY <1>3, ValueFacts, ValueBound, PowerPositive, BignumAssumption
<1>5. cd < n => C <= S
  <2>1. cd < n => cd <= n - 1
    BY SMT
  <2> QED
    BY <1>3, <2>1, PowerMonotone, BignumAssumption
<1>6. cd >= n => Power(Base, (cd - n) + 1) \in Nat \ {0}
                 /\ C = S * Power(Base, (cd - n) + 1)
  <2>1. SUFFICES ASSUME cd >= n
                 PROVE  Power(Base, (cd - n) + 1) \in Nat \ {0}
                        /\ C = S * Power(Base, (cd - n) + 1)
    OBVIOUS
  <2>2. (cd - n) + 1 \in Nat /\ cd = (n - 1) + ((cd - n) + 1)
    BY <2>1, SMT
  <2>3. C = S * Power(Base, (cd - n) + 1)
    BY <1>3, <2>2, PowerOfSum, BignumAssumption
  <2>4. Power(Base, (cd - n) + 1) \in Nat \ {0}
    BY <2>2, PowerPositive, BignumAssumption
  <2> QED
    BY <2>3, <2>4
<1> DEFINE u == Power(Base, (cd - n) + 1)
<1> HIDE DEF P, C, S, v, w, u
<1>7. P * v \in Nat /\ P * w \in Nat \ {0}
  BY <1>1, <1>2, <1>4
<1>8. \A y \in Nat : v < y => P * v < P * y
  <2>1. SUFFICES ASSUME NEW y \in Nat, v + 1 <= y PROVE P * v < P * y
    BY <1>4
  <2>2. (v + 1) * P <= y * P
    BY <1>1, <1>4, <2>1, Monotone
  <2> QED
    BY <1>1, <1>4, <2>2
<1>9. cd < n => P * v < P * w
  BY <1>2, <1>4, <1>5, <1>8
<1>10. cd >= n => P * v < (P * w) * u
  <2>1. SUFFICES ASSUME cd >= n PROVE P * v < (P * w) * u
    OBVIOUS
  <2>2. u \in Nat \ {0} /\ C = S * u
    BY <1>6, <2>1 DEF u
  <2>3. S * u <= w * u
    BY <1>2, <1>4, <2>2, Monotone
  <2>4. w * u \in Nat /\ S * u \in Nat
    BY <1>4, <2>2
  <2>5. v < w * u
    BY <1>4, <2>2, <2>3, <2>4
  <2>6. P * v < P * (w * u)
    BY <1>8, <2>4, <2>5
  <2> QED
    BY <1>1, <1>4, <2>2, <2>6
<1> QED
  BY <1>7, <1>9, <1>10 DEF P, v, w, u

-----------------------------------------------------------------------------
(* The loop that corrects a digit, and the whole of bn_div *)

\* What the loop that corrects a digit makes of x: less by a multiple of the
\* divisor, until the window is smaller than it.
CorrectedTo(y, x, j, d, n, L) ==
    /\ y \in [0..L -> Digit]
    /\ ~TooSmall(y, j, d, n)
    /\ \E q \in Nat : Value(y, L + 1)
                        = Value(x, L + 1) - q * (Value(d, n) * Power(Base, j))

\* One more turn of the loop, after which h goes on.
Turn(h, Arrays, j, d, n) ==
    [x \in Arrays |-> IF TooSmall(x, j, d, n)
                      THEN h[SubtractOnce(x, j, d, n)] ELSE x]

\* Every correction lowers the window, so the loop that corrects ends.
LEMMA OnceLowers ==
    ASSUME NEW L \in Nat, NEW x \in [0..L -> Digit], NEW j \in Nat, NEW n,
           NEW d, Normal(d, n), j + n <= L
    PROVE  /\ WindowValue(x, j, n) \in Nat
           /\ TooSmall(x, j, d, n) =>
                /\ SubtractOnce(x, j, d, n) \in [0..L -> Digit]
                /\ WindowValue(SubtractOnce(x, j, d, n), j, n) \in Nat
                /\ WindowValue(SubtractOnce(x, j, d, n), j, n) + 1
                     <= WindowValue(x, j, n)
                /\ Value(SubtractOnce(x, j, d, n), L + 1)
                     = Value(x, L + 1) - Value(d, n) * Power(Base, j)
           /\ WindowValue(x, j, n) = 0 => ~TooSmall(x, j, d, n)
<1>1. n \in Nat /\ HasDigits(d, n) /\ Value(d, n) \in Nat \ {0}
  BY NormalFacts DEF Normal
<1>2. WindowValue(x, j, n) \in Nat
  BY <1>1, WindowFacts
<1>3. ASSUME TooSmall(x, j, d, n)
      PROVE  /\ SubtractOnce(x, j, d, n) \in [0..L -> Digit]
             /\ WindowValue(SubtractOnce(x, j, d, n), j, n)
                  = WindowValue(x, j, n) - Value(d, n)
             /\ Value(SubtractOnce(x, j, d, n), L + 1)
                  = Value(x, L + 1) - Value(d, n) * Power(Base, j)
  <2>1. LessBy(SubtractOnce(x, j, d, n), x, j, n, L, Value(d, n))
    BY <1>1, <1>3, OnceExact
  <2> QED
    BY <2>1 DEF LessBy
<1>4. ASSUME TooSmall(x, j, d, n)
      PROVE  WindowValue(SubtractOnce(x, j, d, n), j, n) \in Nat
  BY <1>1, <1>3, <1>4, WindowFacts
<1>5. TooSmall(x, j, d, n) <=> WindowValue(x, j, n) >= Value(d, n)
  BY <1>1, TooSmallFacts
<1> QED
  BY <1>1, <1>2, <1>3, <1>4, <1>5

\* f does what the passes of the loop do.
Runs(f, j, d, n, L) ==
    f = [x \in [0..L -> Digit] |->
           IF TooSmall(x, j, d, n) THEN f[SubtractOnce(x, j, d, n)] ELSE x]

\* The loop ends: there is a function that does what its passes do.
LEMMA CorrectedExists ==
    ASSUME NEW L \in Nat, NEW j \in Nat, NEW n, NEW d, Normal(d, n), j + n <= L
    PROVE  \E f : Runs(f, j, d, n, L)
<1> DEFINE A == [0..L -> Digit]
           S == [A -> A]
           N == Power(Base, n + 1) + 1
           id == [x \in A |-> x]
           F == [y \in S \X (1..N) |-> Turn(y[1], A, j, d, n)]
           W(x) == WindowValue(x, j, n)
           More(x) == TooSmall(x, j, d, n)
           Next1(x) == SubtractOnce(x, j, d, n)
<1>1. n \in Nat /\ n + 1 \in Nat
  BY DEF Normal
<1>2. \A x \in A : /\ W(x) \in Nat
                   /\ More(x) => /\ Next1(x) \in A /\ W(Next1(x)) \in Nat
                                 /\ W(Next1(x)) + 1 <= W(x)
                   /\ W(x) = 0 => ~More(x)
  BY OnceLowers
<1>3. \A x \in A : W(x) < Power(Base, n + 1)
  <2>1. SUFFICES ASSUME NEW x \in A PROVE W(x) < Power(Base, n + 1)
    OBVIOUS
  <2>2. HasDigits(Window(x, j, n + 1), n + 1)
    BY <1>1, WindowFacts
  <2> QED
    BY <1>1, <2>2, ValueBound DEF WindowValue
<1>4. N \in Nat /\ Power(Base, n + 1) \in Nat /\ N - 1 \in Nat
        /\ N = (N - 1) + 1
      /\ N - 1 = Power(Base, n + 1)
  <2>1. Power(Base, n + 1) \in Nat
    BY <1>1, PowerFacts, BignumAssumption
  <2> QED
    BY <2>1
<1>5. \A h : Turn(h, A, j, d, n)
             = [x \in A |-> IF More(x) THEN h[Next1(x)] ELSE x]
  BY DEF Turn
<1> HIDE DEF A, N, W, More, Next1
<1>6. \A h \in S : Turn(h, A, j, d, n) \in S
  BY <1>2, <1>5
<1>7. F \in [S \X (1..N) -> S] /\ \A h \in S, k \in 1..N :
        F[<<h, k>>] = Turn(h, A, j, d, n)
  BY <1>6
<1>8. id \in S
  OBVIOUS
<1> HIDE DEF S, F
<1>9. PICK g \in [0..N -> S] : IsLoop(g, N, id, F)
  BY <1>4, <1>7, <1>8, LoopExists
<1>10. /\ g[0] = id
       /\ \A k \in 1..N : g[k] = F[<<g[k - 1], k>>]
  BY <1>9 DEF IsLoop
<1>11. \A k \in 0..(N - 1) :
          /\ k + 1 \in 1..N /\ (k + 1) - 1 = k /\ k \in 0..N /\ k + 1 \in 0..N
          /\ k \in Nat
  BY <1>4, SMT
<1>12. \A k \in 0..(N - 1) : g[k + 1] = Turn(g[k], A, j, d, n)
  BY <1>7, <1>9, <1>10, <1>11
<1> DEFINE T == {k \in 0..(N - 1) : \A x \in A : W(x) <= k
      => g[k + 1][x] = g[k][x]}
<1>13. 0 \in T
  <2>1. 0 \in 0..(N - 1)
    BY <1>4, SMT
  <2>2. ASSUME NEW x \in A, W(x) <= 0 PROVE g[0 + 1][x] = g[0][x]
    <3>1. ~More(x)
      BY <1>2, <2>2
    <3>2. Turn(g[0], A, j, d, n)[x] = x
      BY <1>5, <3>1
    <3>3. g[0][x] = x
      BY <1>10
    <3> QED
      BY <1>12, <2>1, <3>2, <3>3
  <2> QED
    BY <2>1, <2>2
<1>14. ASSUME NEW k \in 0..((N - 1) - 1), k \in T PROVE k + 1 \in T
  <2>1. k \in 0..(N - 1) /\ k + 1 \in 0..(N - 1) /\ k \in Nat
    BY <1>4, SMT
  <2>2. ASSUME NEW x \in A, W(x) <= k + 1 PROVE g[(k + 1) + 1][x] = g[k + 1][x]
    <3>1. g[(k + 1) + 1][x] = IF More(x) THEN g[k + 1][Next1(x)] ELSE x
      BY <1>5, <1>12, <2>1
    <3>2. g[k + 1][x] = IF More(x) THEN g[k][Next1(x)] ELSE x
      BY <1>5, <1>12, <2>1
    <3>3. CASE More(x)
      <4>1. Next1(x) \in A /\ W(Next1(x)) <= k
        BY <1>2, <2>1, <2>2, <3>3
      <4>2. g[k + 1][Next1(x)] = g[k][Next1(x)]
        BY <1>14, <4>1
      <4> QED
        BY <3>1, <3>2, <3>3, <4>2
    <3> QED
      BY <3>1, <3>2, <3>3
  <2> QED
    BY <2>1, <2>2
<1> HIDE DEF T
<1>15. \A k \in 0..(N - 1) : k \in T
  BY <1>4, <1>13, <1>14, BoundedInduction, Zenon
<1>16. N - 1 \in T
  BY <1>4, <1>15
<1> DEFINE M == N - 1
<1>17. \A x \in A : g[M + 1][x] = g[M][x]
  <2>1. \A x \in A : W(x) <= M
    <3>1. M = Power(Base, n + 1)
      BY <1>4
    <3> HIDE DEF M
    <3>2. SUFFICES ASSUME NEW x \in A PROVE W(x) <= M
      OBVIOUS
    <3>3. W(x) \in Nat /\ W(x) < Power(Base, n + 1)
            /\ Power(Base, n + 1) \in Nat
      BY <1>2, <1>3, <1>4
    <3> QED
      BY <3>1, <3>3
  <2> QED
    BY <1>16, <2>1 DEF T
<1>18. M \in 0..(N - 1)
  BY <1>4
<1>19. g[M + 1] = [x \in A |-> IF More(x) THEN g[M][Next1(x)] ELSE x]
  BY <1>5, <1>12, <1>18
<1> DEFINE f == g[M + 1]
<1>20. \A x \in A : More(x) => g[M][Next1(x)] = f[Next1(x)]
  BY <1>2, <1>17
<1>21. f = [x \in A |-> IF More(x) THEN f[Next1(x)] ELSE x]
  <2> DEFINE p == g[M]
             q == f
  <2>1. q = [x \in A |-> IF More(x) THEN p[Next1(x)] ELSE x]
        /\ \A x \in A : More(x) => p[Next1(x)] = q[Next1(x)]
    BY <1>19, <1>20
  <2> HIDE DEF p, q
  <2>2. q = [x \in A |-> IF More(x) THEN q[Next1(x)] ELSE x]
    BY <2>1
  <2> QED
    BY <2>2 DEF q
<1> HIDE DEF f
<1> QED
  BY <1>21 DEF A, More, Next1, Runs

\* The loop that corrects a quotient digit ends, and has then subtracted a
\* multiple of the divisor and left less than the divisor in the window.
THEOREM CorrectedFacts ==
    ASSUME NEW L \in Nat, NEW j \in Nat, NEW n, NEW d, Normal(d, n), j + n <= L,
           NEW x \in [0..L -> Digit]
    PROVE  CorrectedTo(Corrected([0..L -> Digit], j, d, n)[x], x, j, d, n, L)
<1> DEFINE A == [0..L -> Digit]
           Is(g) == g = [y \in A |->
                           IF TooSmall(y, j, d, n)
                             THEN g[SubtractOnce(y, j, d, n)]
                           ELSE y]
           f == Corrected(A, j, d, n)
           W(y) == WindowValue(y, j, n)
           Good(y) == CorrectedTo(f[y], y, j, d, n, L)
<1>1. f = CHOOSE g : Is(g)
  BY DEF Corrected
<1>2. \E g : Is(g)
  <2>1. PICK g : Runs(g, j, d, n, L)
    BY CorrectedExists
  <2> QED
    BY <2>1 DEF Runs
<1> HIDE DEF f
<1>3. Is(f)
  <2> HIDE DEF Is
  <2> QED
    BY <1>1, <1>2
<1>4. \A y \in A : f[y] = IF TooSmall(y, j, d, n)
        THEN f[SubtractOnce(y, j, d, n)]
                          ELSE y
  BY <1>3
<1>5. /\ n \in Nat /\ L + 1 \in Nat
      /\ Value(d, n) \in Nat /\ Power(Base, j) \in Nat
      /\ \A y \in A : Value(y, L + 1) \in Nat
  <2>1. n \in Nat /\ Value(d, n) \in Nat /\ L + 1 \in Nat
    BY NormalFacts
  <2>2. Power(Base, j) \in Nat
    BY PowerFacts, BignumAssumption
  <2>3. \A y \in A : Value(y, L + 1) \in Nat
    <3>1. SUFFICES ASSUME NEW y \in A PROVE Value(y, L + 1) \in Nat
      OBVIOUS
    <3>2. HasDigits(y, L + 1)
      BY <2>1, WindowFacts
    <3> QED
      BY <2>1, <3>2, ValueFacts
  <2> QED
    BY <2>1, <2>2, <2>3
<1> DEFINE g == Value(d, n) * Power(Base, j)
<1>6. g \in Nat
  BY <1>5
<1>7. ASSUME NEW y \in A, ~TooSmall(y, j, d, n) PROVE Good(y)
  <2>1. f[y] = y
    BY <1>4, <1>7
  <2>2. Value(y, L + 1) = Value(y, L + 1) - 0 * g
    <3> HIDE DEF g
    <3> QED
      BY <1>5, <1>6
  <2> QED
    BY <1>7, <2>1, <2>2 DEF CorrectedTo
<1>8. ASSUME NEW y \in A, TooSmall(y, j, d, n), Good(SubtractOnce(y, j, d, n))
      PROVE  Good(y)
  <2> DEFINE z == SubtractOnce(y, j, d, n)
  <2>1. f[y] = f[z] /\ z \in A
    BY <1>4, <1>8, OnceLowers
  <2>2. Value(z, L + 1) = Value(y, L + 1) - g
    BY <1>8, OnceLowers
  <2> HIDE DEF z
  <2>3. CorrectedTo(f[z], z, j, d, n, L)
    BY <1>8 DEF z
  <2>4. PICK q \in Nat : Value(f[z], L + 1) = Value(z, L + 1) - q * g
    BY <2>3 DEF CorrectedTo
  <2> HIDE DEF g
  <2>5. Value(f[z], L + 1) = Value(y, L + 1) - (q + 1) * g /\ q + 1 \in Nat
    <3>1. (q + 1) * g = q * g + g /\ q * g \in Int
      BY <1>6
    <3> QED
      BY <1>5, <1>6, <2>1, <2>2, <2>4, <3>1
  <2>6. f[z] \in A /\ ~TooSmall(f[z], j, d, n)
    BY <2>3 DEF CorrectedTo
  <2> QED
    BY <2>1, <2>5, <2>6 DEF CorrectedTo, g
<1> DEFINE T == {k \in Nat : \A y \in A : W(y) <= k => Good(y)}
<1>9. \A y \in A : /\ W(y) \in Nat
                   /\ TooSmall(y, j, d, n) =>
                        /\ SubtractOnce(y, j, d, n) \in A
                        /\ W(SubtractOnce(y, j, d, n)) \in Nat
                        /\ W(SubtractOnce(y, j, d, n)) + 1 <= W(y)
                   /\ W(y) = 0 => ~TooSmall(y, j, d, n)
  BY OnceLowers
<1> HIDE DEF Good, A, W
<1>10. 0 \in T
  <2>1. ASSUME NEW y \in A, W(y) <= 0 PROVE Good(y)
    <3>1. W(y) = 0
      <4>1. W(y) \in Nat
        BY <1>9, <2>1
      <4> QED
        BY <2>1, <4>1
    <3> QED
      BY <1>7, <1>9, <3>1
  <2> QED
    BY <2>1
<1>11. ASSUME NEW k \in Nat, k \in T PROVE k + 1 \in T
  <2>1. ASSUME NEW y \in A, W(y) <= k + 1 PROVE Good(y)
    <3>1. CASE TooSmall(y, j, d, n)
      <4>1. SubtractOnce(y, j, d, n) \in A /\ W(SubtractOnce(y, j, d, n)) <= k
        BY <1>9, <2>1, <3>1
      <4>2. Good(SubtractOnce(y, j, d, n))
        BY <1>11, <4>1
      <4> QED
        BY <1>8, <3>1, <4>2
    <3> QED
      BY <1>7, <3>1
  <2> QED
    BY <2>1
<1> HIDE DEF T
<1>12. \A k \in Nat : k \in T
  BY <1>10, <1>11, SetInduction
<1>13. x \in A /\ W(x) \in T
  BY <1>9, <1>12 DEF A
<1>14. Good(x)
  <2>1. W(x) \in Nat
    BY <1>9, <1>13
  <2>2. W(x) <= W(x)
    BY <2>1
  <2> QED
    BY <1>13, <2>2 DEF T
<1> QED
  BY <1>14 DEF Good, A, f

\* What the estimate makes of any array has digits.
LEMMA StepTyped ==
    ASSUME NEW L \in Nat, NEW x \in [0..L -> Digit], NEW j \in Nat, NEW n,
           NEW d, Normal(d, n), j + n <= L
    PROVE  /\ Estimate(x, j, d, n) \in Digit
           /\ SubtractEstimate(x, j, Estimate(x, j, d, n), d,
                n) \in [0..L -> Digit]
<1> DEFINE q == Estimate(x, j, d, n)
           v == Window(x, j, n)
           r == bn_sub_digit_mul(v, q, d, n)
           y == Reduce(x, j, n, r)
<1>1. n \in Nat \ {0} /\ HasDigits(d, n) /\ d[n - 1] \in Digit
  BY NormalFacts DEF Normal
<1>2. HasDigits(v, n) /\ x[j + n] \in Digit
  BY <1>1, WindowFacts
<1>3. j + n \in 0..L /\ j + n - 1 \in 0..L
  BY <1>1, SMT
<1>4. q \in Digit
  <2> DEFINE tp == d[n - 1]
             h == x[j + n]
             w == x[j + n - 1]
  <2>1. tp \in Digit /\ h \in Digit /\ w \in Digit
    BY <1>1, <1>3
  <2>2. q = IF tp = MaxDigit THEN h ELSE Wrap((h * Base + w) \div (tp + 1))
    BY DEF Estimate
  <2> HIDE DEF q, tp, h, w
  <2>3. (h * Base + w) \div (tp + 1) \in Int
    BY <2>1, BignumAssumption DEF Digit
  <2>4. Wrap((h * Base + w) \div (tp + 1)) \in Digit
    BY <2>3, WrapOnce
  <2> QED
    BY <2>1, <2>2, <2>4
<1> HIDE DEF q, v
<1>5. r.digits \in [0..(n - 1) -> Digit] /\ r.carry \in Digit
  BY <1>1, <1>2, <1>4, SubDigitMulExact
<1> HIDE DEF r
<1>6. y = [Over(x, j, r.digits) EXCEPT ![j + n] = Wrap(@ - r.carry)]
  BY DEF Reduce
<1>7. Over(x, j, r.digits) \in [0..L -> Digit]
  <2>1. \A k \in 0..L : k - j \in DOMAIN r.digits => r.digits[k - j] \in Digit
    BY <1>5
  <2> QED
    BY <2>1 DEF Over
<1> DEFINE o == Over(x, j, r.digits)
<1> HIDE DEF y
<1>8. Wrap(o[j + n] - r.carry) \in Digit
  <2>1. o[j + n] \in Nat /\ r.carry \in Nat
    BY <1>3, <1>5, <1>7, DigitsAreNumbers
  <2>2. o[j + n] - r.carry \in Int
    BY <2>1
  <2> QED
    BY <2>2, WrapOnce
<1>9. y \in [0..L -> Digit]
  BY <1>6, <1>7, <1>8
<1>10. SubtractEstimate(x, j, q, d, n) = y
  BY DEF SubtractEstimate, y, r, v
<1> QED
  BY <1>4, <1>9, <1>10 DEF q

\* r are m digits of V modulo D.
IsMod(r, m, V, D) ==
    /\ r \in [0..(m - 1) -> Digit]
    /\ Value(r, m) < D
    /\ \E q \in Nat : V = q * D + Value(r, m)

\* Padded with zero digits, an array keeps its value.
LEMMA PadFacts ==
    ASSUME NEW m \in Nat, NEW n \in Nat, n <= m, NEW x \in [0..(n - 1) -> Digit]
    PROVE  /\ Over(Zero(m), 0, x) \in [0..(m - 1) -> Digit]
           /\ Value(Over(Zero(m), 0, x), m) = Value(x, n)
<1> DEFINE y == Over(Zero(m), 0, x)
<1>1. \A k \in 0..(m - 1) : k - 0 = k
  BY SMT
<1>2. DOMAIN x = 0..(n - 1) /\ DOMAIN Zero(m) = 0..(m - 1)
      /\ \A k \in 0..(m - 1) : Zero(m)[k] = 0
  BY DEF Zero
<1>3. y = [k \in 0..(m - 1) |-> IF k \in 0..(n - 1) THEN x[k] ELSE 0]
  BY <1>1, <1>2 DEF Over
<1> HIDE DEF y
<1>4. y \in [0..(m - 1) -> Digit]
  BY <1>3, DigitsAreNumbers
<1>5. HasDigits(y, m) /\ HasDigits(x, n)
  BY <1>4, ArrayHasDigits
<1>6. SameDigits(x, y, n)
  <2>1. \A k \in 0..(n - 1) : k \in 0..(m - 1)
    BY SMT
  <2> QED
    BY <1>3, <2>1 DEF SameDigits
<1>7. Value(y, m) = Value(y, n)
  <2>1. \A k \in n..(m - 1) : k \in 0..(m - 1) /\ k \notin 0..(n - 1)
    BY SMT
  <2>2. \A k \in n..(m - 1) : y[k] = 0
    BY <1>3, <2>1
  <2> QED
    BY <1>5, <2>2, LeadingZeros
<1>8. Value(x, n) = Value(y, n)
  BY <1>5, <1>6, SameValue
<1> QED
  BY <1>4, <1>7, <1>8 DEF y

\* The remainder is shifted back without loss.
LEMMA ShiftBack ==
    ASSUME NEW L \in Nat, NEW x \in [0..L -> Digit], NEW n \in Nat, n <= L + 1,
           NEW s \in 0..DigitBits, NEW D \in Nat, NEW V \in Nat, NEW q \in Nat,
           Value(x, L + 1) < Power(2, s) * D,
           Power(2, s) * D < Power(Base, n),
           Power(2, s) * V = q * (Power(2, s) * D) + Value(x, L + 1),
           NEW m \in Nat, n <= m
    PROVE  IsMod(Over(Zero(m), 0, bn_shift_r(Low(x, n), s, n)), m, V, D)
<1> DEFINE P == Power(2, s)
           X == Value(x, L + 1)
           l == Low(x, n)
           r == bn_shift_r(l, s, n)
           R == Value(r, n)
<1>1. HasDigits(x, L + 1) /\ L + 1 \in Nat
  <2>1. HasDigits(x, L + 1)
    BY SMT DEF HasDigits
  <2> QED
    BY <2>1
<1>2. P \in Nat \ {0} /\ X \in Nat /\ Power(Base, n) \in Nat
  <2>1. P \in Nat \ {0}
    BY ShiftParts
  <2> QED
    BY <1>1, <2>1, ValueFacts, PowerFacts, BignumAssumption
<1>3. Value(x, n) = X /\ HasDigits(x, n)
  <2>1. X < Power(Base, n)
    <3> DEFINE G == P * D
    <3>1. G \in Nat /\ X < G /\ G < Power(Base, n)
      <4> HIDE DEF P
      <4>1. G \in Nat
        BY <1>2
      <4> QED
        BY <4>1 DEF P
    <3> HIDE DEF G
    <3> QED
      BY <1>2, <3>1
  <2> QED
    BY <1>1, <2>1, SmallValue, FewerDigits
<1>4. SameDigits(x, l, n)
  BY DEF SameDigits, Low
<1> HIDE DEF l
<1>5. HasDigits(l, n) /\ Value(l, n) = X
  BY <1>3, <1>4, SameValue
<1>6. r \in [0..(n - 1) -> Digit]
      /\ \E e \in 0..(P - 1) : X = P * R + e
  BY <1>5, ShiftRightExact
<1>7. HasDigits(r, n) /\ R \in Nat
  <2> HIDE DEF r
  <2>1. HasDigits(r, n)
    BY <1>6, ArrayHasDigits
  <2> QED
    BY <2>1, ValueFacts
<1>8. PICK e \in 0..(P - 1) : X = P * R + e
  BY <1>6
<1>9. P * V = q * (P * D) + X /\ X < P * D
  OBVIOUS
<1> HIDE DEF P, X, r, R
<1>10. V = q * D + R /\ R < D
  <2>1. q * (P * D) = P * (q * D) /\ q * D \in Nat /\ P * (q * D) \in Int
        /\ P * V \in Int /\ P * R \in Int
    BY <1>2, <1>7
  <2>2. P * V = (P * (q * D) + P * R) + e
    BY <1>8, <1>9, <2>1
  <2>3. P * V = (q * D + R) * P + e
    <3>1. (q * D + R) * P = P * (q * D) + P * R
      BY <1>2, <1>7, <2>1
    <3> QED
      BY <2>2, <3>1
  <2>4. P * V = V * P + 0 /\ 0 \in 0..(P - 1)
    BY <1>2
  <2> DEFINE W == P * V
             U == q * D + R
  <2>5. W = U * P + e /\ W = V * P + 0 /\ U \in Int /\ W \in Int /\ P \in Nat
          /\ P > 0
    BY <1>2, <1>7, <2>1, <2>3, <2>4
  <2> HIDE DEF W, U
  <2>6. W \div P = U
    BY <1>8, <2>5, SplitIsUnique, Zenon
  <2>7. W \div P = V
    BY <2>4, <2>5, SplitIsUnique
  <2>8. V = q * D + R
    BY <2>6, <2>7 DEF U
  <2>9. R < D
    <3>1. SUFFICES ASSUME D <= R PROVE FALSE
      BY <1>7
    <3>2. D * P <= R * P
      BY <1>2, <1>7, <3>1, Monotone
    <3>3. D * P = P * D /\ R * P = P * R /\ P * D \in Int /\ P * R \in Int
            /\ e \in Nat
      BY <1>2, <1>7, <1>8
    <3> DEFINE DP == P * D
               RP == P * R
    <3>4. DP <= RP /\ DP \in Int /\ RP \in Int
      BY <3>2, <3>3
    <3>5. X = RP + e /\ X < DP
      BY <1>8, <1>9
    <3> HIDE DEF DP, RP
    <3> QED
      BY <3>3, <3>4, <3>5
  <2> QED
    BY <2>8, <2>9
<1>11. /\ Over(Zero(m), 0, r) \in [0..(m - 1) -> Digit]
       /\ Value(Over(Zero(m), 0, r), m) = R
  BY <1>6, PadFacts DEF R
<1> QED
  BY <1>10, <1>11 DEF IsMod, r, l

\* One digit of bn_mod: estimated and corrected.
Pass(v, j, d, n, L) ==
    Corrected([0..L -> Digit], j, d, n)
        [SubtractEstimate(v, j, Estimate(v, j, d, n), d, n)]

\* f does what the loop of bn_mod does, from the top digit down.
Divides(f, x, cd, d, n, L) ==
    f = [j \in 0..(cd + 1) |->
           IF j > cd - n THEN x ELSE Pass(f[j + 1], j, d, n, L)]

\* One pass of bn_div leaves less than the divisor at j and takes a multiple
\* of the divisor away.
LEMMA PassFacts ==
    ASSUME NEW L, NEW x, NEW j, NEW n, NEW d, Ready(x, j, d, n, L)
    PROVE  LET y == Pass(x, j, d, n, L) IN
           /\ y \in [0..L -> Digit]
           /\ Value(y, L + 1) < Value(d, n) * Power(Base, j)
           /\ \E q \in Nat : Value(x, L + 1) = q * Value(d, n) + Value(y, L + 1)
<1> DEFINE q1 == Estimate(x, j, d, n)
           z == SubtractEstimate(x, j, q1, d, n)
           y == Pass(x, j, d, n, L)
           u == Power(Base, j)
           D == Value(d, n)
<1>1. /\ L \in Nat /\ x \in [0..L -> Digit] /\ j \in Nat /\ n \in Nat
      /\ j + n <= L /\ L + 1 \in Nat /\ Normal(d, n)
      /\ D \in Nat \ {0} /\ Value(x, L + 1) \in Nat /\ u \in Nat \ {0}
      /\ Value(x, L + 1) < D * Power(Base, j + 1)
  BY ReadyFacts DEF Ready
<1>2. /\ q1 \in Digit /\ z \in [0..L -> Digit]
      /\ q1 * (D * u) <= Value(x, L + 1)
      /\ Value(z, L + 1) = Value(x, L + 1) - q1 * (D * u)
  BY EstimateStep
<1>3. y = Corrected([0..L -> Digit], j, d, n)[z]
  BY DEF Pass
<1> HIDE DEF q1, z, y, D, u
<1>4. CorrectedTo(y, z, j, d, n, L)
  BY <1>1, <1>2, <1>3, CorrectedFacts
<1>5. PICK c2 \in Nat : Value(y, L + 1) = Value(z, L + 1) - c2 * (D * u)
  BY <1>4 DEF CorrectedTo, D, u
<1>6. y \in [0..L -> Digit] /\ ~TooSmall(y, j, d, n)
  BY <1>4 DEF CorrectedTo
<1>7. Value(y, L + 1) \in Nat
  <2>1. HasDigits(y, L + 1)
    BY <1>1, <1>6, WindowFacts
  <2> QED
    BY <1>1, <2>1, ValueFacts
<1> DEFINE g == D * u
           q == (q1 + c2) * u
           X == Value(x, L + 1)
           Y == Value(y, L + 1)
<1>8. q1 \in Nat /\ g \in Nat /\ q \in Nat
  <2>1. q1 \in Nat
    BY <1>2, DigitsAreNumbers
  <2> QED
    BY <1>1, <2>1
<1>9. X = (q1 + c2) * g + Y /\ Y <= X
  <2>1. X \in Nat /\ Y \in Nat /\ Y = (X - q1 * g) - c2 * g
    BY <1>1, <1>2, <1>5, <1>7
  <2> HIDE DEF X, Y, g
  <2>2. (q1 + c2) * g = q1 * g + c2 * g /\ q1 * g \in Nat /\ c2 * g \in Nat
    BY <1>8
  <2> QED
    BY <2>1, <2>2
<1>10. X = q * D + Y
  <2>1. (q1 + c2) * g = q * D
    BY <1>1, <1>8
  <2> QED
    BY <1>9, <2>1
<1>11. Ready(y, j, d, n, L)
  <2>1. Y < D * Power(Base, j + 1)
    <3> DEFINE G == D * Power(Base, j + 1)
    <3>1. X < G /\ X \in Nat /\ Y \in Nat /\ G \in Nat
      <4>1. Power(Base, j + 1) \in Nat
        BY <1>1, PowerFacts, BignumAssumption
      <4> QED
        BY <1>1, <1>7, <4>1
    <3> HIDE DEF G, X, Y
    <3>2. Y < G
      BY <1>9, <3>1
    <3> QED
      BY <3>2 DEF G
  <2> QED
    BY <1>1, <1>6, <2>1 DEF Ready, D
<1>12. Y < D * u
  <2>1. ~(Y >= D * u)
    BY <1>6, <1>11, CorrectStep DEF D, u
  <2> HIDE DEF Y, g
  <2>2. Y \in Nat /\ g \in Nat
    BY <1>7, <1>8 DEF Y
  <2> QED
    BY <2>1, <2>2 DEF g
<1> HIDE DEF q
<1> QED
  BY <1>6, <1>8, <1>10, <1>12 DEF y, D, u

\* The loop of bn_mod is one.
LEMMA DividesExists ==
    ASSUME NEW L \in Nat, NEW x \in [0..L -> Digit], NEW n, NEW d, Normal(d, n),
           NEW cd \in Nat, cd <= L
    PROVE  \E f : Divides(f, x, cd, d, n, L)
<1> DEFINE A == [0..L -> Digit]
           N == cd + 1
           V(v, k) == IF N - k > cd - n THEN x ELSE Pass(v, N - k, d, n, L)
           F == [y \in A \X (1..N) |-> V(y[1], y[2])]
<1>1. n \in Nat \ {0}
  BY DEF Normal
<1>2. \A v \in A, k \in 1..N : V(v, k) \in A
  <2>1. SUFFICES ASSUME NEW v \in A, NEW k \in 1..N, ~(N - k > cd - n)
                 PROVE  Pass(v, N - k, d, n, L) \in A
    OBVIOUS
  <2>2. N - k \in Nat /\ (N - k) + n <= L
    BY <1>1, <2>1, SMT
  <2> DEFINE j == N - k
             z == SubtractEstimate(v, j, Estimate(v, j, d, n), d, n)
  <2>3. j \in Nat /\ j + n <= L
    BY <2>2
  <2> HIDE DEF j
  <2>4. z \in A
    BY <2>3, StepTyped
  <2> HIDE DEF z
  <2>5. CorrectedTo(Corrected(A, j, d, n)[z], z, j, d, n, L)
    BY <2>3, <2>4, CorrectedFacts, Zenon
  <2>6. Pass(v, j, d, n, L) = Corrected(A, j, d, n)[z]
    BY DEF Pass, z
  <2> QED
    BY <2>5, <2>6 DEF CorrectedTo, j
<1>3. N \in Nat /\ x \in A
  OBVIOUS
<1>4. F \in [A \X (1..N) -> A] /\ \A v \in A, k \in 1..N : F[<<v, k>>] = V(v, k)
  BY <1>2
<1> HIDE DEF F, V, A
<1>5. PICK g \in [0..N -> A] : IsLoop(g, N, x, F)
  BY <1>3, <1>4, LoopExists
<1>6. g[0] = x /\ \A k \in 1..N : g[k] = F[<<g[k - 1], k>>]
  BY <1>5 DEF IsLoop
<1>7. \A k \in 1..N : k - 1 \in 0..N
  BY SMT
<1>8. \A k \in 1..N : g[k] = V(g[k - 1], k)
  BY <1>4, <1>5, <1>6, <1>7
<1> DEFINE f == [j \in 0..N |-> g[N - j]]
<1>9. \A j \in 0..N : f[j] = IF j > cd - n THEN x
        ELSE Pass(f[j + 1], j, d, n, L)
  <2>1. SUFFICES ASSUME NEW j \in 0..N
                 PROVE  f[j] = IF j > cd - n THEN x
                   ELSE Pass(f[j + 1], j, d, n, L)
    OBVIOUS
  <2>2. CASE j = N
    <3>1. N - j = 0 /\ j > cd - n
      BY <1>1, <2>2, SMT
    <3> QED
      BY <1>6, <3>1
  <2>3. CASE j # N
    <3>1. /\ N - j \in 1..N /\ N - (N - j) = j /\ (N - j) - 1 = N - (j + 1)
          /\ j + 1 \in 0..N
      BY <2>3, SMT
    <3>2. f[j] = V(f[j + 1], N - j)
      BY <1>8, <3>1
    <3> HIDE DEF f
    <3> QED
      BY <3>1, <3>2 DEF V
  <2> QED
    BY <2>2, <2>3
<1>10. f = [j \in 0..N |-> IF j > cd - n THEN x ELSE Pass(f[j + 1], j, d, n, L)]
  <2> DEFINE h == f
  <2>1. h = [j \in 0..N |-> h[j]]
    OBVIOUS
  <2>2. \A j \in 0..N : h[j] = IF j > cd - n THEN x
          ELSE Pass(h[j + 1], j, d, n, L)
    BY <1>9
  <2> HIDE DEF h
  <2>3. h = [j \in 0..N |-> IF j > cd - n THEN x
          ELSE Pass(h[j + 1], j, d, n, L)]
    BY <2>1, <2>2
  <2> QED
    BY <2>3 DEF h
<1> HIDE DEF f
<1>11. Divides(f, x, cd, d, n, L)
  BY <1>10 DEF Divides
<1> QED
  BY <1>11

\* A dividend that is reduced digit by digit ends below the divisor.
LEMMA DividesFacts ==
    ASSUME NEW L \in Nat, NEW x \in [0..L -> Digit], NEW n, NEW d, Normal(d, n),
           NEW cd \in Nat, cd <= L, NEW f, Divides(f, x, cd, d, n, L),
           cd < n => Value(x, L + 1) < Value(d, n),
           cd >= n => Value(x, L + 1) < Value(d, n) * Power(Base, (cd - n) + 1)
    PROVE  /\ f[0] \in [0..L -> Digit]
           /\ Value(f[0], L + 1) < Value(d, n)
           /\ \E q \in Nat :
                Value(x, L + 1) = q * Value(d, n) + Value(f[0], L + 1)
<1> DEFINE D == Value(d, n)
           X == Value(x, L + 1)
           A == [0..L -> Digit]
           From(y) == \E q \in Nat : X = q * D + Value(y, L + 1)
<1>1. n \in Nat \ {0} /\ D \in Nat \ {0} /\ L + 1 \in Nat
  BY NormalFacts DEF Normal
<1>2. \A y \in A : Value(y, L + 1) \in Nat
  <2>1. SUFFICES ASSUME NEW y \in A PROVE Value(y, L + 1) \in Nat
    OBVIOUS
  <2>2. HasDigits(y, L + 1)
    BY <1>1 DEF HasDigits
  <2> QED
    BY <1>1, <2>2, ValueFacts
<1>3. X \in Nat /\ From(x)
  <2>1. X \in Nat
    BY <1>2
  <2> HIDE DEF X, D
  <2>2. X = 0 * D + X
    BY <1>1, <2>1
  <2> QED
    BY <2>1, <2>2 DEF X
<1>4. \A j \in 0..(cd + 1) :
         f[j] = IF j > cd - n THEN x ELSE Pass(f[j + 1], j, d, n, L)
  BY DEF Divides
<1>5. CASE cd < n
  <2>1. 0 \in 0..(cd + 1) /\ 0 > cd - n
    BY <1>1, <1>5, SMT
  <2>2. f[0] = x
    BY <1>4, <2>1
  <2> QED
    BY <1>3, <1>5, <2>2
<1>6. CASE cd >= n
  <2> DEFINE M == (cd - n) + 1
             T == {k \in 0..M : /\ f[M - k] \in A
                                /\ Value(f[M - k], L + 1)
                                     < D * Power(Base, M - k)
                                /\ From(f[M - k])}
  <2>1. M \in Nat /\ M <= cd + 1 /\ M + n = cd + 1
    BY <1>1, <1>6, SMT
  <2>2. 0 \in T
    <3>1. M - 0 = M /\ M \in 0..(cd + 1) /\ M > cd - n /\ 0 \in 0..M
      BY <1>1, <2>1, SMT
    <3>2. f[M] = x
      BY <1>4, <3>1
    <3> QED
      BY <1>3, <1>6, <3>1, <3>2
  <2>3. ASSUME NEW k \in 0..(M - 1), k \in T PROVE k + 1 \in T
    <3> DEFINE j == M - (k + 1)
    <3>1. /\ j \in Nat /\ j + 1 = M - k /\ j \in 0..(cd + 1) /\ ~(j > cd - n)
          /\ j + n <= L /\ k + 1 \in 0..M
      BY <1>1, <2>1, SMT
    <3>2. f[j] = Pass(f[j + 1], j, d, n, L)
      BY <1>4, <3>1
    <3>3. f[j + 1] \in A /\ Value(f[j + 1], L + 1) < D * Power(Base, j + 1)
          /\ From(f[j + 1])
      BY <2>3, <3>1
    <3> HIDE DEF j, M
    <3>4. Ready(f[j + 1], j, d, n, L)
      BY <3>1, <3>3 DEF Ready
    <3> HIDE DEF From
    <3>5. /\ f[j] \in A
          /\ Value(f[j], L + 1) < D * Power(Base, j)
          /\ \E q \in Nat : Value(f[j + 1], L + 1) = q * D + Value(f[j], L + 1)
      BY <3>2, <3>4, PassFacts
    <3>6. From(f[j])
      <4>1. PICK q1 \in Nat :
              Value(f[j + 1], L + 1) = q1 * D + Value(f[j], L + 1)
        BY <3>5
      <4>2. PICK q2 \in Nat : X = q2 * D + Value(f[j + 1], L + 1)
        BY <3>3 DEF From
      <4> DEFINE v == Value(f[j], L + 1)
                 w == Value(f[j + 1], L + 1)
      <4>3. v \in Nat /\ w = q1 * D + v /\ X = q2 * D + w
        BY <1>2, <3>5, <4>1, <4>2
      <4> HIDE DEF v, w, X, D
      <4>4. (q2 + q1) * D = q2 * D + q1 * D /\ q2 * D \in Nat /\ q1 * D \in Nat
            /\ q2 + q1 \in Nat
        BY <1>1
      <4>5. X = (q2 + q1) * D + v
        BY <4>3, <4>4
      <4> QED
        BY <4>4, <4>5 DEF From, v
    <3> QED
      BY <3>1, <3>5, <3>6 DEF j
  <2> HIDE DEF T
  <2>4. \A k \in 0..M : k \in T
    <3> HIDE DEF M
    <3> QED
      BY <2>1, <2>2, <2>3, BoundedInduction
  <2>5. M \in T
    BY <2>1, <2>4
  <2>6. M - M = 0 /\ Power(Base, 0) = 1 /\ D * 1 = D
    <3>1. Power(Base, 0) = 1
      BY PowerFacts, BignumAssumption
    <3> HIDE DEF D
    <3> QED
      BY <1>1, <2>1, <3>1
  <2> HIDE DEF M, D
  <2>7. f[0] \in A /\ Value(f[0], L + 1) < D /\ From(f[0])
    BY <2>5, <2>6 DEF T
  <2> QED
    BY <2>7 DEF D
<1> QED
  BY <1>1, <1>5, <1>6

\* The significant digits carry the value.
LEMMA Significant ==
    ASSUME NEW m \in Nat, NEW d, HasDigits(d, m)
    PROVE  /\ bn_digits(d, m) \in Nat /\ bn_digits(d, m) <= m
           /\ HasDigits(d, bn_digits(d, m))
           /\ Value(d, bn_digits(d, m)) = Value(d, m)
           /\ bn_digits(d, m) = 0 <=> Value(d, m) = 0
           /\ bn_digits(d, m) # 0 =>
                bn_digits(d, m) \in Nat \ {0} /\ d[bn_digits(d, m) - 1] # 0
<1> DEFINE n == bn_digits(d, m)
<1>1. n \in 0..m /\ (\A k \in n..(m - 1) : d[k] = 0) /\ (n > 0 => d[n - 1] # 0)
  BY DigitsFacts
<1> HIDE DEF n
<1>2. n \in Nat /\ n <= m
  BY <1>1
<1>3. HasDigits(d, n) /\ Value(d, n) = Value(d, m)
  BY <1>1, <1>2, FewerDigits, LeadingZeros
<1>4. n = 0 => Value(d, m) = 0
  BY <1>3, ValueFacts
<1>5. n # 0 => n \in Nat \ {0} /\ d[n - 1] # 0
  BY <1>1, <1>2
<1>6. n # 0 => Value(d, m) # 0
  <2>1. SUFFICES ASSUME n # 0 PROVE Value(d, m) # 0
    OBVIOUS
  <2>2. Power(Base, n - 1) <= Value(d, n)
    BY <1>3, <1>5, <2>1, NormalisedDivisor
  <2>3. n - 1 \in Nat
    BY <1>2, <2>1
  <2>4. Power(Base, n - 1) \in Nat \ {0}
    BY <2>3, PowerPositive, BignumAssumption
  <2> QED
    BY <1>3, <2>2, <2>4
<1> QED
  BY <1>2, <1>3, <1>4, <1>5, <1>6 DEF n

\* bn_mod leaves the remainder of the division, for every dividend and every
\* divisor that is not zero.
THEOREM ModIsRemainder ==
    ASSUME NEW cd \in Nat, NEW x, HasDigits(x, cd), NEW m \in Nat, NEW d,
           HasDigits(d, m), Value(d, m) # 0
    PROVE  IsMod(bn_mod(x, cd, d, m), m, Value(x, cd), Value(d, m))
<1> DEFINE n == bn_digits(d, m)
           s == Shift(d, n)
           dd0 == bn_shift_l(d, s, n).digits
           c0 == Normalised(x, s, cd, n)
           L == TopOf(cd, n)
           V == Value(x, cd)
           W == Value(d, m)
<1>1. /\ n \in Nat \ {0} /\ n <= m /\ HasDigits(d, n) /\ Value(d, n) = W
      /\ d[n - 1] # 0
  BY Significant
<1> HIDE DEF n
<1>2. s \in 0..DigitBits
  BY <1>1, ShiftFacts
<1>3. Normal(dd0, n) /\ Value(dd0, n) = Power(2, s) * W
  BY <1>1, NormalisedDivisor
<1>4. c0 \in [0..L -> Digit] /\ Value(c0, L + 1) = Power(2, s) * V
  BY <1>1, <1>2, NormalisedDividend
<1>5. /\ cd < n => Power(2, s) * V < Power(2, s) * W
      /\ cd >= n => Power(2, s) * V
           < (Power(2, s) * W) * Power(Base, (cd - n) + 1)
      /\ Power(2, s) * W \in Nat
  BY <1>1, DivisionStarts
<1>6. /\ L \in Nat /\ cd <= L /\ n <= L + 1
  BY <1>1, SMT DEF TopOf
<1>7. DOMAIN c0 = 0..L
  BY <1>4
<1> DEFINE f == CHOOSE g : Divides(g, c0, cd, dd0, n, L)
<1>8. bn_mod(x, cd, d, m)
        = Over(Zero(m), 0, bn_shift_r(Low(f[0], n), s, n))
  BY <1>7 DEF bn_mod, Divides, Pass, n
<1> HIDE DEF s, dd0, c0, L
<1>9. Divides(f, c0, cd, dd0, n, L)
  <2>1. \E g : Divides(g, c0, cd, dd0, n, L)
    BY <1>3, <1>4, <1>6, DividesExists
  <2> QED
    BY <2>1
<1> HIDE DEF f
<1>10. /\ f[0] \in [0..L -> Digit]
       /\ Value(f[0], L + 1) < Value(dd0, n)
       /\ \E q \in Nat :
            Value(c0, L + 1) = q * Value(dd0, n) + Value(f[0], L + 1)
  BY <1>3, <1>4, <1>5, <1>6, <1>9, DividesFacts
<1>11. PICK q \in Nat :
          Power(2, s) * V = q * (Power(2, s) * W) + Value(f[0], L + 1)
  BY <1>3, <1>4, <1>10
<1>12. Power(2, s) * W < Power(Base, n)
  BY <1>3, NormalFacts
<1>13. V \in Nat /\ W \in Nat
  BY ValueFacts
<1>14. Value(f[0], L + 1) < Power(2, s) * W
  BY <1>3, <1>10
<1> HIDE DEF V, W
<1>15. IsMod(Over(Zero(m), 0, bn_shift_r(Low(f[0], n), s, n)), m, V, W)
  BY <1>1, <1>2, <1>6, <1>10, <1>11, <1>12, <1>13, <1>14, ShiftBack, Zenon
<1> QED
  BY <1>8, <1>15 DEF V, W

-----------------------------------------------------------------------------
(* bn_mul *)

\* What row j of bn_mul makes of the product so far.
AddRow(v, j, b, h, w) ==
    [Over(v, j, bn_add_digit_mul(Window(v, j, w), b[j], h, w).digits)
        EXCEPT ![j + w] =
            Wrap(@ + bn_add_digit_mul(Window(v, j, w), b[j], h, w).carry)]

\* Row j adds digit j of b times h.
AddsRow(v, j, b, h, w, L) ==
    Value(AddRow(v, j, b, h, w), L + 1)
      = Value(v, L + 1) + (b[j] * Value(h, w)) * Power(Base, j)

\* A row of bn_mul fits: its last carry goes to a digit that is still 0.
LEMMA RowFacts ==
    ASSUME NEW L \in Nat, NEW v \in [0..L -> Digit], NEW j \in Nat,
           NEW w \in Nat,
           j + w <= L, NEW b, b[j] \in Digit, NEW h, HasDigits(h, w)
    PROVE  /\ AddRow(v, j, b, h, w) \in [0..L -> Digit]
           /\ v[j + w] = 0 => AddsRow(v, j, b, h, w, L)
<1> DEFINE y == AddRow(v, j, b, h, w)
           r == bn_add_digit_mul(Window(v, j, w), b[j], h, w)
           B == Power(Base, w)
           C == Value(h, w)
           e == b[j]
           low == Value(Window(v, j, w), w)
           up == r.carry
           rlow == Value(r.digits, w)
           o == Over(v, j, r.digits)
<1>1. /\ HasDigits(v, L + 1) /\ HasDigits(Window(v, j, w), w)
      /\ WindowValue(v, j, w) = low + v[j + w] * B
      /\ WindowValue(v, j, w) \in Nat
  BY WindowFacts, Zenon
<1>2. /\ r.digits \in [0..(w - 1) -> Digit] /\ r.carry \in Digit
      /\ rlow + B * up = low + e * C
  BY <1>1, AddDigitMulExact
<1>3. y = [o EXCEPT ![j + w] = Wrap(@ + up)]
  BY DEF AddRow
<1> HIDE DEF r, y, e
<1>4. /\ j + w \in 0..L
      /\ \A k \in 0..L : k - j \in DOMAIN r.digits <=> j <= k /\ k < j + w
      /\ \A k \in 0..L : j <= k /\ k < j + w => k - j \in 0..(w - 1)
      /\ \A k \in 0..(w - 1) :
           j + k \in 0..L /\ (j + k) - j = k /\ j + k # j + w
                               /\ j + k < j + w /\ j <= j + k
  <2>1. DOMAIN r.digits = 0..(w - 1)
    BY <1>2
  <2> QED
    BY <2>1, SMT
<1>5. o = [k \in 0..L |-> IF j <= k /\ k < j + w THEN r.digits[k - j] ELSE v[k]]
  <2>1. o = [k \in 0..L |-> IF k - j \in DOMAIN r.digits THEN r.digits[k - j]
                            ELSE v[k]]
    BY DEF Over
  <2> HIDE DEF o
  <2> QED
    BY <1>4, <2>1
<1>6. o \in [0..L -> Digit] /\ o[j + w] = v[j + w]
  <2> HIDE DEF o
  <2> QED
    BY <1>2, <1>4, <1>5
<1> HIDE DEF o, up
<1>7. y \in [0..L -> Digit] /\ y[j + w] = Wrap(o[j + w] + up)
  <2>1. o[j + w] \in Nat /\ up \in Nat
    BY <1>2, <1>4, <1>6, DigitsAreNumbers DEF up
  <2>2. o[j + w] + up \in Int
    BY <2>1
  <2>3. Wrap(o[j + w] + up) \in Digit
    BY <2>2, WrapOnce
  <2> QED
    BY <1>3, <1>4, <1>6, <2>3
<1>8. \A k \in 0..L : k # j + w =>
        y[k] = IF j <= k /\ k < j + w THEN r.digits[k - j] ELSE v[k]
  BY <1>3, <1>5, <1>6
<1>9. ASSUME v[j + w] = 0
      PROVE  Value(y, L + 1) = Value(v, L + 1) + (e * C) * Power(Base, j)
  <2>1. up \in Digit /\ up \in Nat
    BY <1>2, DigitsAreNumbers DEF up
  <2>2. y[j + w] = up
    <3>1. 0 + up = up
      BY <2>1
    <3>2. Wrap(up) = up
      BY <2>1, WrapOnce
    <3> QED
      BY <1>6, <1>7, <1>9, <3>1, <3>2
  <2>3. SameDigits(r.digits, Window(y, j, w), w)
    <3>1. \A k \in 0..(w - 1) : Window(y, j, w)[k] = y[j + k]
      BY DEF Window
    <3>2. \A k \in 0..(w - 1) : y[j + k] = r.digits[k]
      BY <1>4, <1>8
    <3> QED
      BY <3>1, <3>2 DEF SameDigits
  <2>4. HasDigits(r.digits, w)
    BY <1>2, ArrayHasDigits, Zenon
  <2>5. Value(Window(y, j, w), w) = rlow
    BY <2>3, <2>4, SameValue
  <2>6. WindowValue(y, j, w) = rlow + up * B /\ WindowValue(y, j, w) \in Nat
        /\ HasDigits(y, L + 1)
    <3>1. WindowValue(y, j, w) = Value(Window(y, j, w), w) + y[j + w] * B
          /\ WindowValue(y, j, w) \in Nat /\ HasDigits(y, L + 1)
      BY <1>7, WindowFacts, Zenon
    <3> QED
      BY <2>2, <2>5, <3>1
  <2>7. low \in Nat /\ rlow \in Nat /\ B \in Nat /\ C \in Nat /\ e \in Nat
        /\ Power(Base, j) \in Nat
    BY <1>1, <2>4, ValueFacts, PowerFacts, BignumAssumption, DigitsAreNumbers
       DEF e
  <2>8. WindowValue(y, j, w) = WindowValue(v, j, w) + e * C
    <3>1. WindowValue(v, j, w) = low
      <4>1. 0 * B = 0
        BY <2>7
      <4> QED
        BY <1>1, <1>9, <2>7, <4>1
    <3>2. up * B = B * up
      BY <2>1, <2>7
    <3>3. rlow + B * up = low + e * C
      BY <1>2 DEF up
    <3> QED
      BY <2>6, <3>1, <3>2, <3>3
  <2>9. Value(y, L + 1) - Value(v, L + 1)
          = Power(Base, j) * (WindowValue(y, j, w) - WindowValue(v, j, w))
    <3>1. /\ L + 1 \in Nat /\ w + 1 \in Nat /\ j + (w + 1) <= L + 1
          /\ (L + 1) - 1 = L
      BY SMT
    <3>2. \A k \in 0..((L + 1) - 1) : k < j \/ k >= j + (w + 1) => v[k] = y[k]
      <4>1. SUFFICES ASSUME NEW k \in 0..L, k < j \/ k >= j + (w + 1)
                     PROVE  v[k] = y[k]
        BY <3>1
      <4>2. k # j + w /\ ~(j <= k /\ k < j + w)
        BY <4>1
      <4> QED
        BY <1>8, <4>2
    <3>3. Value(y, L + 1) - Value(v, L + 1)
            = Power(Base, j) * (Value(Window(y, j, w + 1), w + 1)
                                  - Value(Window(v, j, w + 1), w + 1))
      <4> DEFINE m == L + 1
                 x == w + 1
      <4> HIDE DEF y
      <4>1. /\ m \in Nat /\ x \in Nat /\ j + x <= m
            /\ HasDigits(v, m) /\ HasDigits(y, m)
            /\ \A k \in 0..(m - 1) : k < j \/ k >= j + x => v[k] = y[k]
        BY <1>1, <2>6, <3>1, <3>2
      <4> HIDE DEF m, x
      <4>2. Value(y, m) - Value(v, m)
              = Power(Base, j)
                * (Value(Window(y, j, x), x) - Value(Window(v, j, x), x))
        BY <4>1, WindowChange
      <4> QED
        BY <4>2 DEF m, x
    <3> QED
      BY <3>3 DEF WindowValue
  <2>10. Value(y, L + 1) \in Nat /\ Value(v, L + 1) \in Nat
    <3>1. L + 1 \in Nat
      BY SMT
    <3> QED
      BY <1>1, <2>6, <3>1, ValueFacts
  <2> DEFINE P == Power(Base, j)
             wy == WindowValue(y, j, w)
             wx == WindowValue(v, j, w)
             vy == Value(y, L + 1)
             vx == Value(v, L + 1)
             g == e * C
  <2>11. /\ vy - vx = P * (wy - wx) /\ wy = wx + g /\ g \in Nat
         /\ vy \in Nat /\ vx \in Nat /\ wy \in Nat /\ wx \in Nat /\ P \in Nat
    <3>1. g \in Nat
      BY <2>7
    <3> QED
      BY <1>1, <2>6, <2>7, <2>8, <2>9, <2>10, <3>1
  <2> HIDE DEF P, wy, wx, vy, vx, g
  <2>12. vy = vx + g * P
    <3>1. wy - wx = g /\ P * g = g * P
      BY <2>11
    <3> QED
      BY <2>11, <3>1
  <2> QED
    BY <2>12 DEF P, vy, vx, g
<1> QED
  BY <1>7, <1>9 DEF y, e, C, AddsRow

\* f holds the product after every row of bn_mul.
Rows(f, b, h, n, w, N) ==
    f = [k \in 0..N |->
           IF k = 0 THEN Zero(2 * n) ELSE AddRow(f[k - 1], k - 1, b, h, w)]

\* The products that the rows of bn_mul build up exist.
LEMMA RowsExist ==
    ASSUME NEW n \in Nat \ {0}, NEW b, HasDigits(b, n), NEW w \in Nat, w <= n,
           NEW h, HasDigits(h, w), NEW N \in Nat, N <= n
    PROVE  \E f : Rows(f, b, h, n, w, N)
<1> DEFINE L == 2 * n - 1
           A == [0..L -> Digit]
           V(v, k) == AddRow(v, k - 1, b, h, w)
           F == [y \in A \X (1..N) |-> V(y[1], y[2])]
           z == Zero(2 * n)
<1>1. L \in Nat /\ 2 * n - 1 = L
  BY SMT
<1>2. z \in A
  BY DigitsAreNumbers DEF Zero
<1>3. \A v \in A, k \in 1..N : V(v, k) \in A
  <2>1. SUFFICES ASSUME NEW v \in A, NEW k \in 1..N PROVE V(v, k) \in A
    OBVIOUS
  <2>2. k - 1 \in Nat /\ (k - 1) + w <= L /\ k - 1 \in 0..(n - 1)
    BY SMT
  <2>3. b[k - 1] \in Digit
    BY <2>2 DEF HasDigits
  <2> HIDE DEF L
  <2> QED
    BY <1>1, <2>2, <2>3, RowFacts
<1>4. F \in [A \X (1..N) -> A] /\ \A v \in A, k \in 1..N : F[<<v, k>>] = V(v, k)
  BY <1>3
<1> HIDE DEF F, A, z
<1>5. PICK g \in [0..N -> A] : IsLoop(g, N, z, F)
  BY <1>2, <1>4, LoopExists
<1>6. /\ \A k \in 1..N : k - 1 \in 0..N
      /\ \A k \in 0..N : k = 0 \/ k \in 1..N
      /\ \A k \in 1..N : k # 0
  BY SMT
<1>7. \A k \in 0..N : g[k] = IF k = 0 THEN z ELSE V(g[k - 1], k)
  BY <1>4, <1>5, <1>6 DEF IsLoop
<1>8. g = [k \in 0..N |-> IF k = 0 THEN z ELSE V(g[k - 1], k)]
  BY <1>5, <1>7
<1> QED
  BY <1>8 DEF Rows, z

\* bn_mul multiplies, for all numbers.
THEOREM MulIsProduct ==
    ASSUME NEW n \in Nat \ {0}, NEW b, HasDigits(b, n), NEW h, HasDigits(h, n)
    PROVE  /\ bn_mul(b, h, n) \in [0..(2 * n - 1) -> Digit]
           /\ Value(bn_mul(b, h, n), 2 * n) = Value(b, n) * Value(h, n)
<1> DEFINE w == bn_digits(h, n)
           N == bn_digits(b, n)
           L == 2 * n - 1
           A == [0..L -> Digit]
           C == Value(h, w)
           f == CHOOSE g : Rows(g, b, h, n, w, N)
<1>1. /\ w \in Nat /\ w <= n /\ HasDigits(h, w) /\ C = Value(h, n)
      /\ N \in Nat /\ N <= n /\ HasDigits(b, N) /\ Value(b, N) = Value(b, n)
  BY Significant
<1>2. bn_mul(b, h, n) = f[N]
  BY DEF bn_mul, Rows, AddRow, Window
<1> HIDE DEF w, N
<1>3. Rows(f, b, h, n, w, N)
  <2>1. \E g : Rows(g, b, h, n, w, N)
    BY <1>1, RowsExist
  <2> QED
    BY <2>1
<1> HIDE DEF f
<1>4. \A k \in 0..N : f[k] = IF k = 0 THEN Zero(2 * n)
                             ELSE AddRow(f[k - 1], k - 1, b, h, w)
  BY <1>3 DEF Rows
<1>5. L \in Nat /\ L + 1 = 2 * n /\ C \in Nat
  <2>1. L \in Nat /\ L + 1 = 2 * n
    BY SMT
  <2> QED
    BY <1>1, <2>1, ValueFacts
<1> DEFINE T == {k \in 0..N :
      f[k] \in A /\ Value(f[k], L + 1) = Value(b, k) * C}
<1> HIDE DEF L, C
<1>6. 0 \in T
  <2>1. 0 \in 0..N
    BY <1>1
  <2>2. f[0] = Zero(2 * n)
    BY <1>4, <2>1
  <2>3. f[0] \in A /\ \A k \in 0..L : f[0][k] = 0
    BY <2>2, DigitsAreNumbers DEF Zero, L
  <2>4. HasDigits(f[0], L + 1) /\ \A k \in 0..((L + 1) - 1) : f[0][k] = 0
    <3>1. (L + 1) - 1 = L
      BY <1>5
    <3> QED
      BY <2>3, <3>1 DEF HasDigits
  <2>5. Value(f[0], L + 1) = Value(f[0], 0)
    <3>1. L + 1 \in Nat /\ 0 <= L + 1 /\ 0 \in Nat
      BY <1>5
    <3> QED
      BY <2>4, <3>1, LeadingZeros
  <2>6. Value(f[0], 0) = 0 /\ Value(b, 0) = 0
    <3>1. L + 1 \in Nat
      BY <1>5
    <3> QED
      BY <1>1, <2>4, <3>1, ValueFacts
  <2>7. 0 * C = 0
    BY <1>5
  <2> QED
    BY <2>1, <2>3, <2>5, <2>6, <2>7
<1>7. ASSUME NEW k \in 0..(N - 1), k \in T PROVE k + 1 \in T
  <2>1. /\ k \in Nat /\ k + 1 \in 0..N /\ (k + 1) - 1 = k /\ k + 1 # 0
        /\ k <= N /\ k < N /\ k + w <= L
    BY <1>1 DEF L
  <2>2. f[k + 1] = AddRow(f[k], k, b, h, w)
    BY <1>4, <2>1
  <2>3. f[k] \in A /\ Value(f[k], L + 1) = Value(b, k) * C
    BY <1>7
  <2>4. b[k] \in Digit /\ HasDigits(b, k) /\ Value(b, k) \in Nat
    BY <1>1, <2>1, FewerDigits
  <2>5. Value(b, k + 1) = Value(b, k) + b[k] * Power(Base, k)
    BY <2>1, <2>4, ValueFacts
  <2>6. f[k][k + w] = 0
    <3> DEFINE U == Power(Base, k)
               P == Power(Base, w)
               v == Value(b, k)
    <3>1. v < U /\ U \in Nat /\ P \in Nat \ {0} /\ v \in Nat /\ C <= P
      <4>1. C < P /\ P \in Nat \ {0}
        BY <1>1, ValueBound, PowerPositive, BignumAssumption DEF C
      <4>2. v < U /\ U \in Nat
        BY <2>1, <2>4, ValueBound, PowerFacts, BignumAssumption
      <4> QED
        BY <1>5, <2>4, <4>1, <4>2
    <3>2. Power(Base, k + w) = U * P
      BY <1>1, <2>1, PowerOfSum, BignumAssumption
    <3> HIDE DEF U, P, v
    <3>3. v * C < U * P
      <4>1. C * v <= P * v
        BY <1>5, <3>1, Monotone
      <4>2. (v + 1) * P <= U * P
        BY <3>1, Monotone
      <4>3. (v + 1) * P = P * v + P /\ C * v = v * C /\ v * C \in Int
            /\ P * v \in Int /\ U * P \in Int
        BY <1>5, <3>1
      <4> QED
        BY <3>1, <4>1, <4>2, <4>3
    <3>4. HasDigits(f[k], L + 1)
      <4>1. (L + 1) - 1 = L
        BY <1>5
      <4> QED
        BY <2>3, <4>1 DEF HasDigits
    <3>5. /\ L + 1 \in Nat /\ k + w \in Nat /\ k + w <= L + 1
          /\ k + w \in (k + w)..((L + 1) - 1)
      BY <1>1, <1>5, <2>1
    <3>6. Value(f[k], L + 1) < Power(Base, k + w)
      BY <2>3, <3>2, <3>3 DEF v
    <3> QED
      BY <3>4, <3>5, <3>6, SmallValue
  <2>7. /\ f[k + 1] \in A
        /\ Value(f[k + 1], L + 1)
             = Value(f[k], L + 1) + (b[k] * C) * Power(Base, k)
    <3> DEFINE v == f[k]
    <3>1. v \in [0..L -> Digit] /\ v[k + w] = 0 /\ L \in Nat
      BY <1>5, <2>3, <2>6
    <3> HIDE DEF v
    <3>2. AddRow(v, k, b, h, w) \in [0..L -> Digit]
      BY <1>1, <2>1, <2>4, <3>1, RowFacts
    <3>3. AddsRow(v, k, b, h, w, L)
      BY <1>1, <2>1, <2>4, <3>1, RowFacts
    <3> QED
      BY <2>2, <3>1, <3>2, <3>3 DEF v, C, AddsRow
  <2>8. Value(f[k + 1], L + 1) = Value(b, k + 1) * C
    <3> DEFINE v == Value(b, k)
               e == b[k]
               U == Power(Base, k)
    <3>1. v \in Nat /\ e \in Nat /\ U \in Nat
      BY <2>1, <2>4, PowerFacts, BignumAssumption, DigitsAreNumbers
    <3>2. Value(f[k + 1], L + 1) = v * C + (e * C) * U
            /\ Value(b, k + 1) = v + e * U
      BY <2>3, <2>5, <2>7
    <3> HIDE DEF v, e, U
    <3>3. (v + e * U) * C = v * C + (e * C) * U
      BY <1>5, <3>1
    <3> QED
      BY <3>2, <3>3
  <2> QED
    BY <2>1, <2>7, <2>8
<1> HIDE DEF T
<1>8. \A k \in 0..N : k \in T
  BY <1>1, <1>6, <1>7, BoundedInduction
<1>9. N \in T
  BY <1>1, <1>8
<1>10. f[N] \in A /\ Value(f[N], L + 1) = Value(b, N) * C
  BY <1>9 DEF T
<1> QED
  BY <1>1, <1>2, <1>5, <1>10 DEF L

-----------------------------------------------------------------------------
(* Congruences, and bn_mod_exp *)

\* bn_mod_mul leaves the remainder of the product.
THEOREM ModMulIsRemainder ==
    ASSUME NEW n \in Nat \ {0}, NEW x, HasDigits(x, n), NEW y, HasDigits(y, n),
           NEW d, HasDigits(d, n), Value(d, n) # 0
    PROVE  IsMod(bn_mod_mul(x, y, d, n), n, Value(x, n) * Value(y, n),
      Value(d, n))
<1> DEFINE r == bn_mul(x, y, n)
<1>1. /\ r \in [0..(2 * n - 1) -> Digit]
      /\ Value(r, 2 * n) = Value(x, n) * Value(y, n)
  BY MulIsProduct
<1>2. bn_mod_mul(x, y, d, n) = bn_mod(r, 2 * n, d, n)
  BY DEF bn_mod_mul
<1> HIDE DEF r
<1>3. HasDigits(r, 2 * n) /\ 2 * n \in Nat /\ n \in Nat
  BY <1>1, SMT DEF HasDigits
<1>4. IsMod(bn_mod(r, 2 * n, d, n), n, Value(r, 2 * n), Value(d, n))
  BY <1>3, ModIsRemainder
<1> QED
  BY <1>1, <1>2, <1>4

\* Congruence modulo D.
Cong(x, y, D) == \E q \in Int : x = q * D + y

\* Congruence is reflexive.
LEMMA CongRefl ==
    ASSUME NEW x \in Int, NEW D \in Nat
    PROVE  Cong(x, x, D)
<1>1. x = 0 * D + x
  OBVIOUS
<1> QED
  BY <1>1 DEF Cong

\* Congruence is transitive.
LEMMA CongTrans ==
    ASSUME NEW x \in Int, NEW y \in Int, NEW z \in Int, NEW D \in Nat,
           Cong(x, y, D), Cong(y, z, D)
    PROVE  Cong(x, z, D)
<1>1. PICK p \in Int : x = p * D + y
  BY DEF Cong
<1>2. PICK q \in Int : y = q * D + z
  BY DEF Cong
<1>3. (p + q) * D = p * D + q * D /\ p * D \in Int /\ q * D \in Int
  OBVIOUS
<1>4. x = (p + q) * D + z /\ p + q \in Int
  BY <1>1, <1>2, <1>3
<1> QED
  BY <1>4 DEF Cong

\* Congruent factors have congruent products.
LEMMA CongTimes ==
    ASSUME NEW x \in Int, NEW y \in Int, NEW u \in Int, NEW v \in Int,
           NEW D \in Nat, Cong(x, y, D), Cong(u, v, D)
    PROVE  Cong(x * u, y * v, D)
<1>1. PICK p \in Int : x = p * D + y
  BY DEF Cong
<1>2. PICK q \in Int : u = q * D + v
  BY DEF Cong
<1> DEFINE e == p * D
           g == q * D
           k == p * u + y * q
<1>3. e \in Int /\ g \in Int /\ k \in Int
  OBVIOUS
<1>4. k * D = e * u + y * g
  <2>1. (p * u) * D = e * u /\ (y * q) * D = y * g
    OBVIOUS
  <2>2. p * u \in Int /\ y * q \in Int
    OBVIOUS
  <2> QED
    BY <2>1, <2>2
<1> HIDE DEF e, g, k
<1>5. x * u = e * u + y * u
  <2>1. x = e + y
    BY <1>1 DEF e
  <2> QED
    BY <1>3, <2>1
<1>6. y * u = y * g + y * v
  <2>1. u = g + v
    BY <1>2 DEF g
  <2> QED
    BY <1>3, <2>1
<1>7. x * u = k * D + y * v
  <2>1. e * u \in Int /\ y * u \in Int /\ y * g \in Int /\ y * v \in Int
    BY <1>3
  <2> QED
    BY <1>4, <1>5, <1>6, <2>1
<1> QED
  BY <1>3, <1>7 DEF Cong

\* x is an array of a power of B, modulo d.
IsPower(x, e, B, d, n) ==
    /\ x \in [0..(n - 1) -> Digit]
    /\ Cong(Power(B, e), Value(x, n), Value(d, n))

\* Multiplying two powers modulo d adds their exponents.
LEMMA TimesFacts ==
    ASSUME NEW n \in Nat \ {0}, NEW d, HasDigits(d, n), Value(d, n) # 0,
           NEW B \in Nat, NEW e \in Nat, NEW f \in Nat, NEW x, NEW y,
           IsPower(x, e, B, d, n), IsPower(y, f, B, d, n)
    PROVE  IsPower(bn_mod_mul(x, y, d, n), e + f, B, d, n)
<1> DEFINE r == bn_mod_mul(x, y, d, n)
           D == Value(d, n)
           X == Value(x, n)
           Y == Value(y, n)
           R == Value(r, n)
<1>1. HasDigits(x, n) /\ HasDigits(y, n) /\ Cong(Power(B, e), X, D)
      /\ Cong(Power(B, f), Y, D)
  BY DEF IsPower, HasDigits
<1>2. n \in Nat /\ D \in Nat /\ X \in Nat /\ Y \in Nat
  BY <1>1, ValueFacts
<1>3. Power(B, e) \in Int /\ Power(B, f) \in Int
      /\ Power(B, e + f) = Power(B, e) * Power(B, f)
  BY PowerFacts, PowerOfSum
<1>4. IsMod(r, n, X * Y, D)
  BY <1>1, ModMulIsRemainder
<1> HIDE DEF r
<1>5. r \in [0..(n - 1) -> Digit] /\ R \in Nat
  <2>1. r \in [0..(n - 1) -> Digit]
    BY <1>4 DEF IsMod
  <2>2. HasDigits(r, n)
    BY <1>2, <2>1, ArrayHasDigits
  <2> QED
    BY <1>2, <2>1, <2>2, ValueFacts
<1>6. Cong(X * Y, R, D)
  <2>1. PICK q \in Nat : X * Y = q * D + R
    BY <1>4 DEF IsMod
  <2> QED
    BY <2>1 DEF Cong
<1> HIDE DEF D, X, Y, R
<1>7. Cong(Power(B, e) * Power(B, f), X * Y, D)
  BY <1>1, <1>2, <1>3, CongTimes
<1> DEFINE u == Power(B, e) * Power(B, f)
           v == X * Y
<1>8. u \in Int /\ v \in Int /\ Cong(u, v, D) /\ Cong(v, R, D)
  BY <1>2, <1>3, <1>6, <1>7
<1> HIDE DEF u, v
<1>9. Cong(u, R, D)
  BY <1>2, <1>5, <1>8, CongTrans
<1> QED
  BY <1>3, <1>5, <1>9 DEF IsPower, u, R, D, r

\* What bn_mod_mul leaves is below d.
LEMMA TimesReduced ==
    ASSUME NEW n \in Nat \ {0}, NEW d, HasDigits(d, n), Value(d, n) # 0,
           NEW B, NEW e, NEW f, NEW x, NEW y,
           IsPower(x, e, B, d, n), IsPower(y, f, B, d, n)
    PROVE  Value(bn_mod_mul(x, y, d, n), n) < Value(d, n)
<1>1. HasDigits(x, n) /\ HasDigits(y, n)
  BY DEF IsPower, HasDigits
<1>2. IsMod(bn_mod_mul(x, y, d, n), n, Value(x, n) * Value(y, n), Value(d, n))
  BY <1>1, ModMulIsRemainder
<1> QED
  BY <1>2 DEF IsMod

\* Any digits of the right number are a power of themselves.
LEMMA FirstPower ==
    ASSUME NEW n \in Nat, NEW d, HasDigits(d, n), NEW x, HasDigits(x, n)
    PROVE  IsPower(Low(x, n), 1, Value(x, n), d, n)
<1> DEFINE y == Low(x, n)
           X == Value(x, n)
<1>1. y \in [0..(n - 1) -> Digit] /\ SameDigits(x, y, n)
  BY DEF Low, HasDigits, SameDigits
<1> HIDE DEF y
<1>2. Value(y, n) = X /\ X \in Nat /\ Value(d, n) \in Nat
  BY <1>1, SameValue, ValueFacts
<1>3. Power(X, 1) = X
  <2>1. Power(X, 0) = 1 /\ Power(X, 0 + 1) = X * Power(X, 0)
    BY <1>2, PowerFacts
  <2>2. X * 1 = X /\ 0 + 1 = 1
    BY <1>2
  <2> QED
    BY <2>1, <2>2
<1> HIDE DEF X
<1>4. Cong(X, X, Value(d, n))
  BY <1>2, CongRefl
<1> QED
  BY <1>1, <1>2, <1>3, <1>4 DEF IsPower, y, X

\* The 1 with which bn_mod_exp starts is the power 0.
LEMMA ZerothPower ==
    ASSUME NEW n \in Nat \ {0}, NEW d, HasDigits(d, n), NEW B \in Nat
    PROVE  /\ IsPower([Zero(n) EXCEPT ![0] = 1], 0, B, d, n)
           /\ Value([Zero(n) EXCEPT ![0] = 1], n) = 1
<1> DEFINE y == [Zero(n) EXCEPT ![0] = 1]
<1>1. y \in [0..(n - 1) -> Digit]
  BY DigitsAreNumbers DEF Zero
<1>2. y[0] = 1 /\ \A k \in 1..(n - 1) : y[k] = 0
  <2>1. 0 \in 0..(n - 1) /\ \A k \in 1..(n - 1) : k \in 0..(n - 1) /\ k # 0
    BY SMT
  <2> QED
    BY <2>1 DEF Zero
<1> HIDE DEF y
<1>3. n \in Nat /\ 1 \in Nat /\ 1 <= n /\ 0 + 1 = 1 /\ 0 \in Nat /\ 0 <= n
  OBVIOUS
<1>4. HasDigits(y, n) /\ HasDigits(y, 0)
  BY <1>1, <1>3, ArrayHasDigits, FewerDigits
<1>5. Value(y, n) = Value(y, 1)
  BY <1>2, <1>3, <1>4, LeadingZeros
<1>6. Value(y, 0) = 0 /\ Value(y, 1) = Value(y, 0) + y[0] * Power(Base, 0)
  BY <1>2, <1>3, <1>4, ValueFacts, DigitsAreNumbers
<1>7. Power(Base, 0) = 1 /\ Power(B, 0) = 1
  BY <1>3, PowerFacts, BignumAssumption
<1>8. Value(y, n) = 1
  BY <1>2, <1>5, <1>6, <1>7
<1>9. Cong(1, 1, Value(d, n))
  BY <1>3, ValueFacts, CongRefl
<1>10. IsPower(y, 0, B, d, n)
  BY <1>1, <1>7, <1>8, <1>9 DEF IsPower
<1> QED
  BY <1>8, <1>10 DEF y

\* The multiplication of bn_mod_exp.
TimesOf(d, n) ==
    [x \in [0..(n - 1) -> Digit] |->
        [y \in [0..(n - 1) -> Digit] |-> bn_mod_mul(x, y, d, n)]]

\* It is bn_mod_mul on arrays of n digits.
LEMMA TimesOfArrays ==
    ASSUME NEW n, NEW d, NEW x \in [0..(n - 1) -> Digit],
           NEW y \in [0..(n - 1) -> Digit]
    PROVE  TimesOf(d, n)[x][y] = bn_mod_mul(x, y, d, n)
<1> DEFINE S == [0..(n - 1) -> Digit]
<1>1. x \in S /\ y \in S
  OBVIOUS
<1> HIDE DEF S
<1>2. [u \in S |-> [w \in S |-> bn_mod_mul(u, w, d, n)]][x][y]
        = bn_mod_mul(x, y, d, n)
  BY <1>1
<1> QED
  BY <1>2 DEF TimesOf, S

\* The product of two powers is a power and below d.
LEMMA TimesOfPowers ==
    ASSUME NEW n \in Nat \ {0}, NEW d, HasDigits(d, n), Value(d, n) # 0,
           NEW B \in Nat, NEW e \in Nat, NEW f \in Nat, NEW x, NEW y,
           IsPower(x, e, B, d, n), IsPower(y, f, B, d, n)
    PROVE  /\ IsPower(TimesOf(d, n)[x][y], e + f, B, d, n)
           /\ Value(TimesOf(d, n)[x][y], n) < Value(d, n)
<1>1. TimesOf(d, n)[x][y] = bn_mod_mul(x, y, d, n)
  BY TimesOfArrays DEF IsPower
<1>2. IsPower(bn_mod_mul(x, y, d, n), e + f, B, d, n)
  BY TimesFacts
<1>3. Value(bn_mod_mul(x, y, d, n), n) < Value(d, n)
  BY TimesReduced
<1> QED
  BY <1>1, <1>2, <1>3

\* One pass of bn_mod_exp: two squarings, and a power from the table.
PowerPass(v, p, x, d, n) ==
    LET Times == TimesOf(d, n)
        square == Times[v][v]
        fourth == Times[square][square]
        power1 == Low(x, n)
        power2 == Times[power1][power1]
        power3 == Times[power2][power1]
        bpower == <<power1, power2, power3>>
    IN  IF p = 0 THEN fourth ELSE Times[fourth][bpower[p]]

\* A pass of bn_mod_exp over two bits p takes the power e to 4 * e + p.
LEMMA PowerPassFacts ==
    ASSUME NEW n \in Nat \ {0}, NEW d, HasDigits(d, n), Value(d, n) # 0,
           NEW x, HasDigits(x, n), NEW e \in Nat, NEW p \in 0..3,
           NEW v, IsPower(v, e, Value(x, n), d, n)
    PROVE  /\ IsPower(PowerPass(v, p, x, d, n), 4 * e + p, Value(x, n), d, n)
           /\ Value(PowerPass(v, p, x, d, n), n) < Value(d, n)
<1> DEFINE Times == TimesOf(d, n)
           square == Times[v][v]
           fourth == Times[square][square]
           power1 == Low(x, n)
           power2 == Times[power1][power1]
           power3 == Times[power2][power1]
           B == Value(x, n)
<1>1. n \in Nat /\ B \in Nat /\ 1 \in Nat /\ e + e \in Nat
      /\ (e + e) + (e + e) = 4 * e /\ 4 * e \in Nat /\ 1 + 1 = 2 /\ 2 + 1 = 3
      /\ 2 \in Nat /\ 3 \in Nat
  BY ValueFacts
<1>2. IsPower(power1, 1, B, d, n)
  BY FirstPower
<1> HIDE DEF B, power1
<1>3. IsPower(power2, 1 + 1, B, d, n)
  BY <1>1, <1>2, TimesOfPowers
<1>4. IsPower(square, e + e, B, d, n)
  BY <1>1, TimesOfPowers DEF B
<1> HIDE DEF power2, square
<1>5. IsPower(power3, 2 + 1, B, d, n)
  BY <1>1, <1>2, <1>3, TimesOfPowers
<1>6. IsPower(fourth, (e + e) + (e + e), B, d, n)
  BY <1>1, <1>4, TimesOfPowers
<1> DEFINE bpower == <<power1, power2, power3>>
           y == PowerPass(v, p, x, d, n)
<1>7. y = IF p = 0 THEN fourth ELSE Times[fourth][bpower[p]]
  BY DEF PowerPass, power1, power2, square
<1>10. Value(fourth, n) < Value(d, n)
  BY <1>1, <1>4, TimesOfPowers
<1> HIDE DEF power3, fourth, y
<1>8. CASE p = 0
  BY <1>1, <1>6, <1>7, <1>8, <1>10 DEF y, B
<1>9. CASE p # 0
  <2>1. p \in {1, 2, 3} /\ p \in Nat
    BY <1>9
  <2>2. IsPower(bpower[p], p, B, d, n)
    <3>1. CASE p = 1
      BY <1>2, <3>1
    <3>2. CASE p = 2
      BY <1>1, <1>3, <3>2
    <3>3. CASE p = 3
      BY <1>1, <1>5, <3>3
    <3> QED
      BY <2>1, <3>1, <3>2, <3>3
  <2> HIDE DEF bpower
  <2>3. IsPower(fourth, 4 * e, B, d, n)
    BY <1>1, <1>6
  <2>4. IsPower(Times[fourth][bpower[p]], 4 * e + p, B, d, n)
    BY <1>1, <2>1, <2>2, <2>3, TimesOfPowers
  <2>5. Value(Times[fourth][bpower[p]], n) < Value(d, n)
    BY <1>1, <2>1, <2>2, <2>3, TimesOfPowers
  <2> QED
    BY <1>7, <1>9, <2>4, <2>5 DEF y, B
<1> QED
  BY <1>8, <1>9

\* A number by a power of four, and the next pair of its bits.
LEMMA DivFacts ==
    ASSUME NEW x \in Nat, NEW m \in Nat \ {0}
    PROVE  /\ x \div m \in Nat /\ x % m \in 0..(m - 1)
           /\ x = (x \div m) * m + (x % m)
<1> DEFINE h == x \div m
           l == x % m
<1>1. x = m * h + l /\ l \in 0..(m - 1) /\ h \in Int
  OBVIOUS
<1> HIDE DEF h, l
<1>2. h >= 0
  <2>1. SUFFICES ASSUME h <= (-1) PROVE FALSE
    BY <1>1
  <2>2. m * h <= - m
    BY <1>1, <2>1
  <2> QED
    BY <1>1, <2>2
<1>3. m * h = h * m
  BY <1>1
<1> QED
  BY <1>1, <1>2, <1>3 DEF h, l

\* Reading an exponent two bits at a time.
LEMMA NextPair ==
    ASSUME NEW x \in Nat, NEW m \in Nat \ {0}
    PROVE  x \div m = 4 * (x \div (4 * m)) + ((x \div m) % 4)
           /\ (x \div m) % 4 \in 0..3
<1> DEFINE y == x \div m
           r == x % m
           h == y \div 4
           l == y % 4
           M == 4 * m
<1>1. y \in Nat /\ r \in 0..(m - 1) /\ x = y * m + r
  BY DivFacts
<1> HIDE DEF y, r
<1>2. h \in Nat /\ l \in 0..3 /\ y = h * 4 + l
  BY <1>1
<1> HIDE DEF h, l
<1>3. x = h * M + (l * m + r)
  <2>1. (h * 4 + l) * m = h * (4 * m) + l * m
    BY <1>2
  <2>2. h * (4 * m) \in Int /\ l * m \in Int
    BY <1>2
  <2> QED
    BY <1>1, <1>2, <2>1, <2>2
<1>4. l * m + r \in 0..(M - 1)
  <2>1. l * m <= 3 * m
    BY <1>2, Monotone
  <2>2. l * m \in Nat
    BY <1>2
  <2> QED
    BY <1>1, <2>1, <2>2
<1>5. M \in Nat /\ M > 0
  OBVIOUS
<1> DEFINE s == l * m + r
<1> HIDE DEF M, s
<1>6. x \div M = h
  <2>1. x = h * M + s /\ s \in 0..(M - 1)
    BY <1>3, <1>4 DEF s
  <2> QED
    BY <1>2, <1>5, <2>1, SplitIsUnique
<1>7. y = 4 * (x \div M) + l /\ l \in 0..3
  BY <1>2, <1>6
<1>8. y = 4 * (x \div (4 * m)) + l
  BY <1>7, Zenon DEF M
<1>9. y = 4 * (x \div (4 * m)) + (y % 4) /\ y % 4 \in 0..3
  BY <1>7, <1>8, Zenon DEF l
<1> QED
  BY <1>9, Zenon DEF y

\* A power of a power.
LEMMA PowerOfPower ==
    ASSUME NEW b \in Nat, NEW m \in Nat, NEW n \in Nat
    PROVE  Power(Power(b, m), n) = Power(b, m * n)
<1> DEFINE P == Power(b, m)
           S == {k \in Nat : Power(P, k) = Power(b, m * k)}
<1>1. P \in Nat
  BY PowerFacts
<1> HIDE DEF P
<1>2. 0 \in S
  <2>1. Power(P, 0) = 1 /\ Power(b, 0) = 1 /\ m * 0 = 0
    BY <1>1, PowerFacts
  <2> QED
    BY <2>1
<1>3. ASSUME NEW k \in Nat, k \in S PROVE k + 1 \in S
  <2>1. m * (k + 1) = m + m * k /\ m * k \in Nat
    OBVIOUS
  <2>2. Power(b, m + m * k) = P * Power(b, m * k)
    BY <2>1, PowerOfSum DEF P
  <2>3. Power(P, k + 1) = P * Power(P, k)
    BY <1>1, PowerFacts
  <2> QED
    BY <1>3, <2>1, <2>2, <2>3
<1> HIDE DEF S
<1>4. \A k \in Nat : k \in S
  BY <1>2, <1>3, SetInduction
<1>5. n \in S
  BY <1>4
<1> QED
  BY <1>5 DEF S, P

\* Pair k of the bits of a digit array.
PairAt(x, k) ==
    (x[k \div (DigitBits \div 2)] \div Power(4, k % (DigitBits \div 2))) % 4

\* The pairs of the digits are those of the number.
LEMMA PairOfNumber ==
    ASSUME NEW n \in Nat, NEW x, HasDigits(x, n),
           NEW k \in 0..(n * (DigitBits \div 2) - 1)
    PROVE  /\ PairAt(x, k) \in 0..3
           /\ PairAt(x, k) = (Value(x, n) \div Power(4, k)) % 4
<1> DEFINE per == DigitBits \div 2
           j == k \div per
           r == k % per
<1>1. per \in Nat \ {0} /\ DigitBits = 2 * per
  BY BignumAssumption, WordAssumption
<1> HIDE DEF per
<1>2. k \in Nat /\ k < n * per
  BY <1>1 DEF per
<1>3. j \in Nat /\ r \in 0..(per - 1) /\ k = j * per + r
  BY <1>1, <1>2, DivFacts
<1> HIDE DEF j, r
<1>4. j < n
  <2>1. SUFFICES ASSUME n <= j PROVE FALSE
    BY <1>3
  <2>2. n * per <= j * per
    BY <1>1, <1>3, <2>1, Monotone
  <2>3. n * per \in Int /\ j * per \in Int
    BY <1>1, <1>3
  <2> QED
    BY <1>2, <1>3, <2>2, <2>3
<1> DEFINE w == n - (j + 1)
           e == x[j]
           low == Value(x, j)
           high == Value(Window(x, j + 1, w), w)
           U == Power(Base, j)
           Q == Power(4, r)
           R == Power(4, per - r)
           X == Value(x, n)
<1>5. /\ w \in Nat /\ n = (j + 1) + w /\ j + 1 \in Nat /\ j <= n
      /\ j \in 0..(n - 1)
  BY <1>3, <1>4
<1>6. HasDigits(x, j + 1) /\ HasDigits(Window(x, j + 1, w), w)
      /\ X = Value(x, j + 1) + Power(Base, j + 1) * high
  <2>1. HasDigits(x, (j + 1) + w)
    BY <1>5
  <2> HIDE DEF w
  <2> QED
    BY <1>5, <2>1, ValueSplit
<1>7. HasDigits(x, j) /\ e \in Digit /\ low \in Nat /\ low < U
      /\ Value(x, j + 1) = low + e * U
  <2>1. HasDigits(x, j) /\ low \in Nat
    BY <1>3, <1>5, FewerDigits
  <2>2. e \in Digit
    BY <1>5 DEF HasDigits
  <2> QED
    BY <1>3, <2>1, <2>2, ValueFacts, ValueBound
<1>8. U \in Nat \ {0} /\ high \in Nat /\ e \in Nat
        /\ Power(Base, j + 1) = Base * U
  <2>1. high \in Nat
    <3> HIDE DEF w
    <3> QED
      BY <1>5, <1>6, ValueFacts
  <2>2. U \in Nat \ {0}
    BY <1>3, PowerPositive, BignumAssumption
  <2> QED
    BY <1>3, <1>7, <2>1, <2>2, PowerFacts, DigitsAreNumbers, BignumAssumption
<1>9. Base = Power(4, per)
  <2>1. Power(2, 2) = 4
    <3>1. Power(2, 0) = 1 /\ Power(2, 0 + 1) = 2 * Power(2, 0)
          /\ Power(2, 1 + 1) = 2 * Power(2, 1)
      BY PowerFacts
    <3> QED
      BY <3>1
  <2>2. Power(Power(2, 2), per) = Power(2, 2 * per)
    BY <1>1, PowerOfPower
  <2> QED
    BY <1>1, <2>1, <2>2, WordAssumption
<1>10. Q \in Nat \ {0} /\ R \in Nat \ {0} /\ Q * R = Base
       /\ \E g \in Nat : R = 4 * g
  <2>1. r \in Nat /\ per - r \in Nat /\ r + (per - r) = per
        /\ (per - r) - 1 \in Nat /\ ((per - r) - 1) + 1 = per - r
    BY <1>1, <1>3
  <2>2. Q \in Nat \ {0} /\ R \in Nat \ {0}
    BY <2>1, PowerPositive
  <2>3. Q * R = Base
    BY <1>9, <2>1, PowerOfSum
  <2>4. Power(4, (per - r) - 1) \in Nat
        /\ Power(4, ((per - r) - 1) + 1) = 4 * Power(4, (per - r) - 1)
    BY <2>1, PowerFacts
  <2>5. R = 4 * Power(4, (per - r) - 1)
    BY <2>1, <2>4
  <2> QED
    BY <2>2, <2>3, <2>4, <2>5
<1>11. PICK g \in Nat : R = 4 * g
  BY <1>10
<1>12. Power(4, k) = U * Q
  <2>1. U = Power(4, per * j)
    BY <1>1, <1>3, <1>9, PowerOfPower
  <2>2. per * j \in Nat /\ r \in Nat /\ k = per * j + r
    BY <1>1, <1>3
  <2> QED
    BY <2>1, <2>2, PowerOfSum
<1> DEFINE v == e \div Q
           s == e % Q
<1>13. v \in Nat /\ s \in 0..(Q - 1) /\ e = v * Q + s
  BY <1>8, <1>10, DivFacts
<1>14. PairAt(x, k) = v % 4
  BY DEF PairAt, per, j, r
<1>15. X = (low + e * U) + (Base * U) * high
  BY <1>6, <1>7, <1>8
<1> HIDE DEF e, low, high, U, Q, R, X, w, v, s
<1> DEFINE M == U * Q
           h == v + R * high
           l == s * U + low
<1>16. X = h * M + l
  <2>1. (v * Q + s) * U = v * M + s * U
    BY <1>8, <1>10, <1>13
  <2>2. (Base * U) * high = (R * high) * M
    BY <1>8, <1>10
  <2>3. (v + R * high) * M = v * M + (R * high) * M
    BY <1>8, <1>10, <1>13
  <2>4. v * M \in Int /\ s * U \in Int /\ (R * high) * M \in Int
    BY <1>8, <1>10, <1>13
  <2> QED
    BY <1>7, <1>13, <1>15, <2>1, <2>2, <2>3, <2>4
<1>17. l \in 0..(M - 1) /\ M \in Nat /\ M > 0 /\ h \in Int
  <2>1. s * U <= (Q - 1) * U
    BY <1>8, <1>10, <1>13, Monotone
  <2>2. (Q - 1) * U = M - U /\ M \in Nat \ {0} /\ s * U \in Nat /\ h \in Int
    BY <1>8, <1>10, <1>13
  <2> QED
    BY <1>7, <1>8, <2>1, <2>2
<1> HIDE DEF l, M
<1>18. X \div M = h
  <2>1. X \in Int
    BY <1>16, <1>17
  <2> HIDE DEF h
  <2> QED
    BY <1>16, <1>17, <2>1, SplitIsUnique
<1>19. h % 4 = v % 4
  <2>1. h = v + 4 * (g * high)
    BY <1>8, <1>11, <1>13
  <2> DEFINE G == g * high
             v4 == v \div 4
             r4 == v % 4
  <2>2. G \in Nat
    BY <1>8, <1>11
  <2>3. v4 \in Nat /\ r4 \in 0..3 /\ v = v4 * 4 + r4
    BY <1>13
  <2> HIDE DEF h, G, v4, r4
  <2>4. h = (v4 + G) * 4 + r4 /\ v4 + G \in Int /\ r4 \in 0..(4 - 1)
    BY <2>1, <2>2, <2>3 DEF G
  <2>5. h % 4 = r4
    <3>1. h \in Int /\ 4 \in Nat /\ 4 > 0
      BY <1>17
    <3> QED
      BY <2>4, <3>1, SplitIsUnique
  <2> QED
    BY <2>5 DEF r4
<1>20. v % 4 \in 0..3
  BY <1>13
<1> QED
  BY <1>12, <1>14, <1>18, <1>19, <1>20 DEF M, X

\* The exponents that bn_mod_exp has dealt with after every pair.
Exponents(E, p, N, X) ==
    /\ p \in [1..N -> 0..3]
    /\ E \in [0..N -> Nat]
    /\ E[0] = 0 /\ E[N] = X
    /\ \A k \in 1..N : E[k] = 4 * E[k - 1] + p[k]

\* The pairs of an exponent make up the exponent.
LEMMA PairsFacts ==
    ASSUME NEW n \in Nat, NEW x, HasDigits(x, n)
    PROVE  \E N \in Nat : \E E : Exponents(E, Pairs(x, n), N, Value(x, n))
<1> DEFINE per == DigitBits \div 2
           M == n * per
           X == Value(x, n)
           Is(k) == /\ \A j \in k..(M - 1) : PairAt(x, j) = 0
                    /\ k > 0 => PairAt(x, k - 1) # 0
           top == CHOOSE k \in 0..M : Is(k)
           p == Pairs(x, n)
<1>1. per \in Nat \ {0} /\ DigitBits = 2 * per
  BY BignumAssumption, WordAssumption
<1>2. p = [j \in 1..top |-> PairAt(x, top - j)]
  BY DEF Pairs, PairAt
<1>3. \A k \in 0..(M - 1) : /\ PairAt(x, k) \in 0..3
                            /\ PairAt(x, k) = (X \div Power(4, k)) % 4
  BY PairOfNumber
<1> HIDE DEF per, p
<1>4. M \in Nat
  BY <1>1
<1>5. X \in Nat /\ X < Power(4, M)
  <2>1. Base = Power(4, per)
    <3>1. Power(2, 2) = 4
      <4>1. Power(2, 0) = 1 /\ Power(2, 0 + 1) = 2 * Power(2, 0)
            /\ Power(2, 1 + 1) = 2 * Power(2, 1)
        BY PowerFacts
      <4> QED
        BY <4>1
    <3>2. Power(Power(2, 2), per) = Power(2, 2 * per)
      BY <1>1, PowerOfPower
    <3> QED
      BY <1>1, <3>1, <3>2, WordAssumption
  <2>2. Power(Base, n) = Power(4, per * n) /\ per * n = M
    <3>1. per * n = n * per
      BY <1>1
    <3>2. Power(Power(4, per), n) = Power(4, per * n)
      BY <1>1, PowerOfPower
    <3> QED
      BY <2>1, <3>1, <3>2
  <2>3. X \in Nat /\ X < Power(Base, n)
    BY ValueFacts, ValueBound
  <2> HIDE DEF M, X
  <2> QED
    BY <2>2, <2>3
<1>6. top \in 0..M /\ Is(top)
  <2> DEFINE q == [k \in 0..(M - 1) |-> PairAt(x, k)]
             m == bn_digits(q, M)
  <2>1. m \in 0..M /\ (\A k \in m..(M - 1) : q[k] = 0)
          /\ (m > 0 => q[m - 1] # 0)
    BY <1>4, DigitsFacts
  <2> HIDE DEF m
  <2>2. \A k \in m..(M - 1) : k \in 0..(M - 1)
    BY <1>4, <2>1
  <2>3. m > 0 => m - 1 \in 0..(M - 1)
    BY <1>4, <2>1
  <2>4. Is(m)
    BY <2>1, <2>2, <2>3
  <2> HIDE DEF Is
  <2> QED
    BY <2>1, <2>4
<1> HIDE DEF top, M, X
<1>7. top \in Nat /\ top <= M /\ \A j \in top..(M - 1) : PairAt(x, j) = 0
  BY <1>4, <1>6
<1>8. \A k \in Nat :
        Power(4, k) \in Nat \ {0} /\ Power(4, k + 1) = 4 * Power(4, k)
  <2>1. \A k \in Nat : Power(4, k) \in Nat \ {0}
    BY PowerPositive
  <2>2. \A k \in Nat : Power(4, k + 1) = 4 * Power(4, k)
    BY PowerFacts
  <2> QED
    BY <2>1, <2>2
<1>9. ASSUME NEW k \in 0..(M - 1)
      PROVE  /\ X \div Power(4, k) = 4 * (X \div Power(4, k + 1)) + PairAt(x, k)
             /\ X \div Power(4, k) \in Nat /\ X \div Power(4, k + 1) \in Nat
  <2>1. k \in Nat /\ k + 1 \in Nat
    BY <1>4
  <2>2. Power(4, k) \in Nat \ {0} /\ Power(4, k + 1) = 4 * Power(4, k)
        /\ Power(4, k + 1) \in Nat \ {0}
    BY <1>8, <2>1
  <2>3. X \div Power(4, k)
          = 4 * (X \div (4 * Power(4, k))) + ((X \div Power(4, k)) % 4)
    BY <1>5, <2>2, NextPair
  <2>4. X \div Power(4, k) \in Nat /\ X \div Power(4, k + 1) \in Nat
    BY <1>5, <2>2, DivFacts
  <2>5. PairAt(x, k) = (X \div Power(4, k)) % 4
    BY <1>3
  <2> QED
    BY <2>2, <2>3, <2>4, <2>5, Zenon
<1> DEFINE T == {k \in 0..(M - top) : X \div Power(4, M - k) = 0}
<1>10. 0 \in T
  <2>1. M - 0 = M /\ 0 \in 0..(M - top)
    BY <1>4, <1>7
  <2>2. X = 0 * Power(4, M) + X /\ X \in 0..(Power(4, M) - 1)
        /\ Power(4, M) \in Nat /\ Power(4, M) > 0
    BY <1>4, <1>5, <1>8
  <2>3. X \div Power(4, M) = 0
    <3> DEFINE P == Power(4, M)
    <3>1. X = 0 * P + X /\ X \in 0..(P - 1) /\ P \in Nat /\ P > 0 /\ X \in Int
            /\ 0 \in Int
      BY <1>5, <2>2
    <3> HIDE DEF P
    <3>2. X \div P = 0
      BY <3>1, SplitIsUnique
    <3> QED
      BY <3>2 DEF P
  <2> QED
    BY <2>1, <2>3
<1>11. ASSUME NEW k \in 0..((M - top) - 1), k \in T PROVE k + 1 \in T
  <2> DEFINE j == M - (k + 1)
  <2>1. /\ j \in 0..(M - 1) /\ j \in top..(M - 1) /\ j + 1 = M - k
        /\ k + 1 \in 0..(M - top)
    BY <1>4, <1>7
  <2> HIDE DEF j
  <2>2. X \div Power(4, j + 1) = 0
    BY <1>11, <2>1
  <2>3. X \div Power(4, j) = 4 * (X \div Power(4, j + 1)) + PairAt(x, j)
    BY <1>9, <2>1
  <2>4. X \div Power(4, j) = 0
    <3>1. PairAt(x, j) = 0
      BY <1>7, <2>1
    <3> QED
      BY <2>2, <2>3, <3>1
  <2> QED
    BY <2>1, <2>4 DEF j
<1> HIDE DEF T
<1>12. \A k \in 0..(M - top) : k \in T
  <2>1. M - top \in Nat
    BY <1>4, <1>7
  <2> QED
    BY <1>10, <1>11, <2>1, BoundedInduction
<1>13. X \div Power(4, top) = 0
  <2>1. M - top \in 0..(M - top) /\ M - (M - top) = top
    BY <1>4, <1>7
  <2> QED
    BY <1>12, <2>1 DEF T
<1> DEFINE E == [j \in 0..top |-> X \div Power(4, top - j)]
<1>14. E \in [0..top -> Nat]
  <2>1. \A j \in 0..top : X \div Power(4, top - j) \in Nat
    <3>1. SUFFICES ASSUME NEW j \in 0..top
                   PROVE X \div Power(4, top - j) \in Nat
      OBVIOUS
    <3>2. top - j \in Nat
      BY <1>7
    <3>3. Power(4, top - j) \in Nat \ {0}
      BY <1>8, <3>2
    <3> QED
      BY <1>5, <3>3, DivFacts
  <2> QED
    BY <2>1
<1>15. E[0] = 0 /\ E[top] = X
  <2>1. /\ 0 \in 0..top /\ top \in 0..top /\ top - 0 = top /\ top - top = 0
    BY <1>7
  <2>2. X \div Power(4, 0) = X
    <3>1. Power(4, 0) = 1
      BY PowerFacts
    <3> QED
      BY <1>5, <3>1
  <2> QED
    BY <1>13, <2>1, <2>2
<1>16. p \in [1..top -> 0..3]
  <2>1. \A j \in 1..top : top - j \in 0..(M - 1)
    BY <1>4, <1>7
  <2> QED
    BY <1>2, <1>3, <2>1
<1>17. \A k \in 1..top : E[k] = 4 * E[k - 1] + p[k]
  <2>1. SUFFICES ASSUME NEW k \in 1..top PROVE E[k] = 4 * E[k - 1] + p[k]
    OBVIOUS
  <2> DEFINE j == top - k
  <2>2. j \in 0..(M - 1) /\ j + 1 = top - (k - 1) /\ k \in 0..top
          /\ k - 1 \in 0..top
    BY <1>4, <1>7
  <2>3. E[k] = X \div Power(4, j) /\ E[k - 1] = X \div Power(4, j + 1)
        /\ p[k] = PairAt(x, j)
    BY <1>2, <2>2
  <2> HIDE DEF j, E
  <2>4. X \div Power(4, j) = 4 * (X \div Power(4, j + 1)) + PairAt(x, j)
    BY <1>9, <2>2
  <2> QED
    BY <2>3, <2>4
<1> HIDE DEF E
<1>18. Exponents(E, p, top, X)
  BY <1>14, <1>15, <1>16, <1>17 DEF Exponents
<1> QED
  BY <1>7, <1>18 DEF p, X

\* f holds the power after every pass of bn_mod_exp.
Powers(f, x, p, N, d, n) ==
    f = [j \in 0..N |-> IF j = 0 THEN [Zero(n) EXCEPT ![0] = 1]
                        ELSE PowerPass(f[j - 1], p[j], x, d, n)]

\* The length of a sequence given as a function.
LEMMA LengthOf ==
    ASSUME NEW N \in Nat, NEW S, NEW p \in [1..N -> S]
    PROVE  Len(p) = N
<1>1. p \in Seq(S)
  BY SeqDef
<1>2. Len(p) \in Nat /\ DOMAIN p = 1..Len(p)
  BY <1>1, LenProperties
<1>3. DOMAIN p = 1..N
  OBVIOUS
<1> DEFINE l == Len(p)
<1>4. l \in Nat /\ 1..N = 1..l
  BY <1>2, <1>3
<1> HIDE DEF l
<1>5. l = N
  <2>1. \A k \in Nat : k \in 1..N <=> k \in 1..l
    BY <1>4
  <2>2. N \in 1..N => N <= l
    BY <1>4, <2>1
  <2>3. l \in 1..l => l <= N
    BY <1>4, <2>1
  <2> QED
    BY <1>4, <2>2, <2>3
<1> QED
  BY <1>5 DEF l

\* bn_mod_exp raises to a power modulo d, for all numbers; a power that is not
\* the zeroth is below d, as bn_mod leaves it.
THEOREM ModExpIsPower ==
    ASSUME NEW n \in Nat \ {0}, NEW d, HasDigits(d, n), Value(d, n) # 0,
           NEW x, HasDigits(x, n), NEW m \in Nat, NEW y, HasDigits(y, m)
    PROVE  /\ IsPower(bn_mod_exp(x, y, m, d, n), Value(y, m), Value(x, n), d, n)
           /\ Value(d, n) > 1 =>
                Value(bn_mod_exp(x, y, m, d, n), n) < Value(d, n)
<1> DEFINE p == Pairs(y, m)
           B == Value(x, n)
           one == [Zero(n) EXCEPT ![0] = 1]
           A == {v \in [0..(n - 1) -> Digit] : HasDigits(v, n)}
<1>1. PICK N \in Nat : \E E : Exponents(E, p, N, Value(y, m))
  BY PairsFacts
<1>2. PICK E : Exponents(E, p, N, Value(y, m))
  BY <1>1
<1> HIDE DEF p
<1>3. /\ p \in [1..N -> 0..3] /\ E \in [0..N -> Nat]
      /\ E[0] = 0 /\ E[N] = Value(y, m)
      /\ \A k \in 1..N : E[k] = 4 * E[k - 1] + p[k]
  BY <1>2 DEF Exponents
<1>4. Len(p) = N
  BY <1>3, LengthOf
<1> DEFINE f == CHOOSE g : Powers(g, x, p, N, d, n)
<1>5. bn_mod_exp(x, y, m, d, n) = f[N]
  BY <1>4 DEF bn_mod_exp, Powers, PowerPass, TimesOf, p
<1>6. B \in Nat /\ n \in Nat
  BY ValueFacts
<1>7. IsPower(one, 0, B, d, n) /\ Value(one, n) = 1
  BY <1>6, ZerothPower
<1> HIDE DEF B, one
<1>8. \E g : Powers(g, x, p, N, d, n)
  <2> DEFINE S == [0..(n - 1) -> Digit]
             V(v, k) == PowerPass(v, p[k], x, d, n)
             F == [z \in S \X (1..N) |-> V(z[1], z[2])]
  <2>1. \A v \in S, k \in 1..N : V(v, k) \in S
    <3>1. SUFFICES ASSUME NEW v \in S, NEW k \in 1..N PROVE V(v, k) \in S
      OBVIOUS
    <3> DEFINE q == p[k]
    <3>2. q \in 0..3
      BY <1>3
    <3> HIDE DEF q
    <3>3. HasDigits(v, n)
      BY <1>6, ArrayHasDigits
    <3>4. PowerPass(v, q, x, d, n) \in S
      <4> DEFINE Times == TimesOf(d, n)
      <4>1. \A u, w \in S : Times[u][w] \in S
        <5>1. SUFFICES ASSUME NEW u \in S, NEW w \in S
                       PROVE  Times[u][w] \in S
          OBVIOUS
        <5>2. HasDigits(u, n) /\ HasDigits(w, n)
          BY <1>6, ArrayHasDigits
        <5>3. IsMod(bn_mod_mul(u, w, d, n), n, Value(u, n) * Value(w, n),
                Value(d, n))
          BY <5>2, ModMulIsRemainder
        <5>4. Times[u][w] = bn_mod_mul(u, w, d, n)
          BY TimesOfArrays
        <5> QED
          BY <5>3, <5>4 DEF IsMod
      <4> DEFINE power1 == Low(x, n)
                 power2 == Times[power1][power1]
                 power3 == Times[power2][power1]
                 sq == Times[v][v]
                 fourth == Times[sq][sq]
                 bpower == <<power1, power2, power3>>
      <4>3. PowerPass(v, q, x, d, n)
              = IF q = 0 THEN fourth ELSE Times[fourth][bpower[q]]
        BY DEF PowerPass
      <4>4. power1 \in S
        BY DEF Low, HasDigits
      <4> HIDE DEF S, power1, Times
      <4>5. power2 \in S /\ sq \in S
        BY <4>1, <4>4
      <4> HIDE DEF power2, sq
      <4>6. power3 \in S /\ fourth \in S
        BY <4>1, <4>4, <4>5
      <4> HIDE DEF power3, fourth
      <4>7. q # 0 => bpower[q] \in S
        <5>1. q # 0 => q \in {1, 2, 3}
          BY <3>2
        <5> QED
          BY <4>4, <4>5, <4>6, <5>1
      <4> HIDE DEF bpower
      <4> QED
        BY <4>1, <4>3, <4>6, <4>7
    <3> QED
      BY <3>4 DEF q
  <2>2. one \in S
    BY <1>7 DEF IsPower
  <2>3. F \in [S \X (1..N) -> S] /\ \A v \in S, k \in 1..N :
          F[<<v, k>>] = V(v, k)
    BY <2>1
  <2> HIDE DEF F, S
  <2>4. PICK g \in [0..N -> S] : IsLoop(g, N, one, F)
    BY <2>2, <2>3, LoopExists
  <2>5. /\ \A k \in 1..N : k - 1 \in 0..N
        /\ \A k \in 0..N : k = 0 \/ k \in 1..N
        /\ \A k \in 1..N : k # 0
    BY SMT
  <2>6. \A k \in 0..N : g[k] = IF k = 0 THEN one ELSE V(g[k - 1], k)
    BY <2>3, <2>4, <2>5 DEF IsLoop
  <2>7. g = [k \in 0..N |-> IF k = 0 THEN one ELSE V(g[k - 1], k)]
    BY <2>4, <2>6
  <2> QED
    BY <2>7 DEF Powers, one
<1> HIDE DEF f
<1>9. Powers(f, x, p, N, d, n)
  BY <1>8 DEF f
<1>10. \A k \in 0..N : f[k] = IF k = 0 THEN one
         ELSE PowerPass(f[k - 1], p[k], x, d, n)
  BY <1>9, Zenon DEF Powers, one
<1> DEFINE Reduced(v) == Value(d, n) > 1 => Value(v, n) < Value(d, n)
           T == {k \in 0..N : IsPower(f[k], E[k], B, d, n) /\ Reduced(f[k])}
<1>11. 0 \in T
  <2>1. Value(d, n) \in Nat
    BY <1>6, ValueFacts
  <2>2. Reduced(one)
    BY <1>7, <2>1
  <2> HIDE DEF Reduced
  <2> QED
    BY <1>3, <1>7, <1>10, <2>2
<1>12. ASSUME NEW k \in 0..(N - 1), k \in T PROVE k + 1 \in T
  <2>1. k + 1 \in 1..N /\ k + 1 \in 0..N /\ (k + 1) - 1 = k /\ k + 1 # 0
          /\ k \in 0..N
    BY SMT
  <2> DEFINE v == f[k]
             q == p[k + 1]
             e == E[k]
  <2>2. q \in 0..3 /\ e \in Nat /\ IsPower(v, e, B, d, n)
        /\ f[k + 1] = PowerPass(v, q, x, d, n) /\ E[k + 1] = 4 * e + q
    BY <1>3, <1>10, <1>12, <2>1, Zenon
  <2> HIDE DEF v, q, e
  <2>3. IsPower(PowerPass(v, q, x, d, n), 4 * e + q, B, d, n)
        /\ Reduced(PowerPass(v, q, x, d, n))
    BY <2>2, PowerPassFacts, Zenon DEF B
  <2> HIDE DEF Reduced
  <2> QED
    BY <2>1, <2>2, <2>3
<1> HIDE DEF T
<1>13. \A k \in 0..N : k \in T
  BY <1>11, <1>12, BoundedInduction
<1>14. N \in T
  BY <1>13
<1> QED
  BY <1>3, <1>5, <1>14 DEF T, B

-----------------------------------------------------------------------------
(* bn_digits, bn_assign_zero and the bytes of a block *)

\* The bytes of a block.
Byte == 0..(Power(2, ByteBits) - 1)

\* A digit is a whole number of bytes.
LEMMA BytesOfDigit ==
    /\ BytesPerDigit \in Nat \ {0}
    /\ ByteBits * BytesPerDigit = DigitBits
    /\ Power(2, ByteBits) \in Nat \ {0} /\ 0 \in Byte
<1>1. BytesPerDigit \in Nat
        /\ DigitBits = BytesPerDigit * ByteBits + (DigitBits % ByteBits)
  <2> DEFINE Q == DigitBits \div ByteBits
             R == DigitBits % ByteBits
  <2>1. DigitBits \in Nat /\ ByteBits \in Nat \ {0}
    BY BignumAssumption
  <2>2. Q \in Nat /\ R \in Nat /\ DigitBits = Q * ByteBits + R
    BY <2>1, DivFacts
  <2> QED
    BY <2>2, Zenon DEF BytesPerDigit
<1>2. DigitBits = BytesPerDigit * ByteBits
  <2> DEFINE R == DigitBits % ByteBits
             M == BytesPerDigit * ByteBits
  <2>1. R = 0
    BY WordAssumption
  <2>2. M \in Int
    BY <1>1, BignumAssumption
  <2>3. DigitBits = M + R
    BY <1>1, Zenon
  <2> HIDE DEF R, M
  <2>4. DigitBits = M
    BY <2>1, <2>2, <2>3
  <2> QED
    BY <2>4 DEF M
<1>3. BytesPerDigit # 0 /\ ByteBits * BytesPerDigit = BytesPerDigit * ByteBits
  <2>1. SUFFICES ASSUME BytesPerDigit = 0 PROVE FALSE
    BY <1>1, BignumAssumption
  <2>2. 0 * ByteBits = 0
    BY BignumAssumption
  <2> QED
    BY <1>2, <2>1, <2>2, BignumAssumption
<1>4. Power(2, ByteBits) \in Nat \ {0}
  BY BignumAssumption, PowerPositive
<1>5. 0 \in Byte
  <2> DEFINE P == Power(2, ByteBits)
  <2>1. P \in Nat \ {0}
    BY <1>4
  <2> HIDE DEF P
  <2>2. 0 \in 0..(P - 1)
    BY <2>1
  <2> QED
    BY <2>2 DEF Byte, P
<1> QED
  BY <1>1, <1>2, <1>3, <1>4, <1>5

\* The k-th byte of a number, the least significant first.
ByteOf(bytes, k) == IF k < Len(bytes) THEN bytes[Len(bytes) - k] ELSE 0

\* f[u] are the digits of bn_decode from their u lowest bytes.
DecodeSums(f, bytes, n) ==
    /\ bn_decode(bytes, n) = f[BytesPerDigit]
    /\ \A u \in 0..BytesPerDigit :
         f[u] \in [0..(n - 1) -> 0..(Power(2, ByteBits * u) - 1)]
    /\ \A j \in 0..(n - 1) : f[0][j] = 0
    /\ \A u \in 1..BytesPerDigit, j \in 0..(n - 1) :
         f[u][j] = f[u - 1][j] + ByteOf(bytes, j * BytesPerDigit + u - 1)
                                   * Power(2, ByteBits * (u - 1))

\* The array that bn_decode fills byte by byte exists.
LEMMA DecodeLoop ==
    ASSUME NEW s \in Nat, NEW bytes \in [1..s -> Byte], NEW n \in Nat
    PROVE  \E f : DecodeSums(f, bytes, n)
<1> DEFINE U == BytesPerDigit
           P == Power(2, ByteBits)
           ByteAt(k) == IF k < Len(bytes) THEN bytes[Len(bytes) - k] ELSE 0
           Add(v, u) == [j \in 0..(n - 1) |->
                           v[j] + ByteAt(j * BytesPerDigit + u - 1)
                                    * Power(2, ByteBits * (u - 1))]
           Is(f) == f = [u \in 0..U |-> IF u = 0 THEN Zero(n)
                                        ELSE Add(f[u - 1], u)]
           S == [0..(n - 1) -> Nat]
           F == [y \in S \X (1..U) |-> Add(y[1], y[2])]
           z == Zero(n)
<1>1. bn_decode(bytes, n) = (CHOOSE f : Is(f))[U]
  BY DEF bn_decode
<1>2. U \in Nat \ {0} /\ ByteBits * U = DigitBits /\ P \in Nat \ {0}
  BY BytesOfDigit
<1>3. \A k \in Nat : ByteAt(k) \in Byte
  <2>1. SUFFICES ASSUME NEW k \in Nat PROVE ByteAt(k) \in Byte
    OBVIOUS
  <2>2. Len(bytes) = s
    BY LengthOf
  <2>3. k < s => s - k \in 1..s
    BY SMT
  <2> QED
    BY <2>2, <2>3, BytesOfDigit
<1>4. Byte = 0..(P - 1)
  BY DEF Byte
<1>0. \A k : ByteAt(k) = ByteOf(bytes, k)
  BY DEF ByteOf
<1> HIDE DEF ByteAt, P
<1>5. \A u \in 1..U : ByteBits * (u - 1) \in Nat /\ u - 1 \in Nat
                      /\ ByteBits * u = ByteBits + ByteBits * (u - 1)
                      /\ ByteBits * u \in Nat
  BY <1>2, BignumAssumption
<1>6. \A u \in 1..U : Power(2, ByteBits * (u - 1)) \in Nat \ {0}
  <2>1. \A e \in Nat : Power(2, e) \in Nat \ {0}
    BY PowerPositive
  <2> QED
    BY <1>5, <2>1
<1>7. \A j \in 0..(n - 1), u \in 1..U :
         /\ j * BytesPerDigit + u - 1 \in Nat
         /\ ByteAt(j * BytesPerDigit + u - 1) \in Byte
  <2>1. SUFFICES ASSUME NEW j \in 0..(n - 1), NEW u \in 1..U
                 PROVE  j * BytesPerDigit + u - 1 \in Nat
    BY <1>3
  <2>2. j * BytesPerDigit \in Nat
    BY <1>2
  <2> QED
    BY <1>2, <2>2
<1>8. \A v \in S, u \in 1..U : Add(v, u) \in S
  <2>1. SUFFICES ASSUME NEW v \in S, NEW u \in 1..U PROVE Add(v, u) \in S
    OBVIOUS
  <2>2. ASSUME NEW j \in 0..(n - 1)
        PROVE  v[j] + ByteAt(j * BytesPerDigit + u - 1)
                        * Power(2, ByteBits * (u - 1)) \in Nat
    <3> DEFINE e == ByteAt(j * BytesPerDigit + u - 1)
               Q == Power(2, ByteBits * (u - 1))
    <3>1. e \in Byte
      BY <1>7
    <3>2. Q \in Nat /\ v[j] \in Nat
      BY <1>6
    <3> HIDE DEF e, Q
    <3>3. e \in Nat
      BY <1>2, <1>4, <3>1
    <3>4. v[j] + e * Q \in Nat
      BY <3>2, <3>3
    <3> QED
      BY <3>4 DEF e, Q
  <2> QED
    BY <2>2
<1>9. z \in S
  BY DEF Zero
<1>10. F \in [S \X (1..U) -> S] /\ \A v \in S, u \in 1..U :
         F[<<v, u>>] = Add(v, u)
  BY <1>8, Zenon
<1> HIDE DEF F, S, z
<1>11. \E f : Is(f)
  <2>1. PICK g \in [0..U -> S] : IsLoop(g, U, z, F)
    BY <1>2, <1>9, <1>10, LoopExists
  <2>2. /\ \A k \in 1..U : k - 1 \in 0..U
        /\ \A k \in 0..U : k = 0 \/ k \in 1..U
        /\ \A k \in 1..U : k # 0
    BY <1>2, SMT
  <2> HIDE DEF Add
  <2>3. \A k \in 0..U : g[k] = IF k = 0 THEN z ELSE Add(g[k - 1], k)
    BY <1>10, <2>1, <2>2 DEF IsLoop
  <2>4. g = [k \in 0..U |-> IF k = 0 THEN z ELSE Add(g[k - 1], k)]
    BY <2>1, <2>3
  <2> QED
    BY <2>4 DEF z
<1> DEFINE f == CHOOSE g : Is(g)
<1>12. Is(f)
  <2> HIDE DEF Is
  <2> QED
    BY <1>11
<1> HIDE DEF f
<1> DEFINE T == {u \in 0..U :
      f[u] \in [0..(n - 1) -> 0..(Power(2, ByteBits * u) - 1)]}
<1>13. \A u \in 0..U : f[u] = IF u = 0 THEN Zero(n) ELSE Add(f[u - 1], u)
  BY <1>12
<1>14. 0 \in T
  <2>1. ByteBits * 0 = 0 /\ 0 \in 0..U
    BY <1>2, BignumAssumption
  <2>2. Power(2, 0) = 1
    BY PowerFacts
  <2>3. f[0] = Zero(n)
    BY <1>13, <2>1
  <2>4. 0 \in 0..(1 - 1)
    OBVIOUS
  <2>5. f[0] \in [0..(n - 1) -> 0..(1 - 1)]
    BY <2>3, <2>4 DEF Zero
  <2> QED
    BY <2>1, <2>2, <2>5
<1>15. ASSUME NEW k \in 0..(U - 1), k \in T PROVE k + 1 \in T
  <2> DEFINE u == k + 1
             Q == Power(2, ByteBits * k)
  <2>1. u \in 1..U /\ u \in 0..U /\ u - 1 = k /\ u # 0
    BY <1>2
  <2>2. f[u] = Add(f[k], u)
    BY <1>13, <2>1
  <2>3. f[k] \in [0..(n - 1) -> 0..(Q - 1)]
    BY <1>15
  <2>4. Power(2, ByteBits * u) = P * Q /\ Q \in Nat \ {0}
    <3>1. ByteBits * u = ByteBits + ByteBits * (u - 1)
            /\ ByteBits * (u - 1) \in Nat
      BY <1>5, <2>1
    <3>2. Power(2, ByteBits + ByteBits * (u - 1))
            = Power(2, ByteBits) * Power(2, ByteBits * (u - 1))
      BY <3>1, PowerOfSum, BignumAssumption
    <3> QED
      BY <1>6, <2>1, <3>1, <3>2 DEF P
  <2> HIDE DEF u
  <2>5. ASSUME NEW j \in 0..(n - 1)
        PROVE  f[k][j] + ByteAt(j * BytesPerDigit + u - 1)
                           * Power(2, ByteBits * (u - 1)) \in 0..(P * Q - 1)
    <3> DEFINE e == ByteAt(j * BytesPerDigit + u - 1)
               h == f[k][j]
    <3>1. e \in 0..(P - 1) /\ h \in 0..(Q - 1)
          /\ Power(2, ByteBits * (u - 1)) = Q
      BY <1>4, <1>7, <2>1, <2>3
    <3> HIDE DEF e, h, Q
    <3>2. e * Q <= (P - 1) * Q
      BY <1>2, <2>4, <3>1, Monotone
    <3>3. (P - 1) * Q = P * Q - Q /\ P * Q \in Nat /\ e * Q \in Nat
      BY <1>2, <2>4, <3>1
    <3>4. h + e * Q \in 0..(P * Q - 1)
      BY <2>4, <3>1, <3>2, <3>3
    <3> QED
      BY <3>1, <3>4 DEF e, h
  <2>6. f[u] \in [0..(n - 1) -> 0..(P * Q - 1)]
    <3> HIDE DEF Q
    <3> QED
      BY <2>2, <2>5
  <2>7. f[u] \in [0..(n - 1) -> 0..(Power(2, ByteBits * u) - 1)]
    BY <2>4, <2>6
  <2> QED
    BY <2>1, <2>7 DEF u
<1> HIDE DEF T
<1>16. \A u \in 0..U : u \in T
  BY <1>2, <1>14, <1>15, BoundedInduction
<1>17. \A u \in 0..U : f[u] \in [0..(n - 1) -> 0..(Power(2, ByteBits * u) - 1)]
  BY <1>16 DEF T
<1>18. \A j \in 0..(n - 1) : f[0][j] = 0
  <2>1. 0 \in 0..U
    BY <1>2
  <2>2. f[0] = Zero(n)
    BY <1>13, <2>1
  <2> QED
    BY <2>2 DEF Zero
<1>19. \A u \in 1..U, j \in 0..(n - 1) :
          f[u][j] = f[u - 1][j] + ByteAt(j * BytesPerDigit + u - 1)
                                    * Power(2, ByteBits * (u - 1))
  <2>1. SUFFICES ASSUME NEW u \in 1..U, NEW j \in 0..(n - 1)
                 PROVE  f[u][j]
                   = f[u - 1][j] + ByteAt(j * BytesPerDigit + u - 1)
                                                  * Power(2, ByteBits * (u - 1))
    OBVIOUS
  <2>2. u \in 0..U /\ u # 0
    BY <1>2
  <2>3. f[u] = Add(f[u - 1], u)
    BY <1>13, <2>2
  <2> QED
    BY <2>3
<1>20. bn_decode(bytes, n) = f[U]
  BY <1>1 DEF f
<1> QED
  BY <1>0, <1>17, <1>18, <1>19, <1>20, Zenon DEF DecodeSums

\* bn_decode makes digits of any bytes.
LEMMA DecodeTyped ==
    ASSUME NEW s \in Nat, NEW bytes \in [1..s -> Byte], NEW n \in Nat
    PROVE  bn_decode(bytes, n) \in [0..(n - 1) -> Digit]
<1> DEFINE U == BytesPerDigit
<1>1. PICK f : DecodeSums(f, bytes, n)
  BY DecodeLoop
<1>2. U \in Nat \ {0} /\ ByteBits * U = DigitBits
  BY BytesOfDigit
<1>3. U \in 0..U
  BY <1>2
<1>4. f[U] \in [0..(n - 1) -> 0..(Power(2, ByteBits * U) - 1)]
  BY <1>1, <1>3 DEF DecodeSums
<1>5. bn_decode(bytes, n) = f[U]
  BY <1>1 DEF DecodeSums
<1>6. Power(2, ByteBits * U) = Base
  BY <1>2, WordAssumption
<1> HIDE DEF U
<1> QED
  BY <1>4, <1>5, <1>6 DEF Digit

\* bn_encode makes bytes of any digits.
LEMMA EncodeTyped ==
    ASSUME NEW s \in Nat, NEW n \in Nat, NEW x, HasDigits(x, n)
    PROVE  bn_encode(s, x, n) \in [1..s -> Byte]
<1> DEFINE U == BytesPerDigit
           P == Power(2, ByteBits)
           V(j) == IF (s - j) \div U < n
                   THEN (x[(s - j) \div U]
                           \div Power(2, ByteBits * ((s - j) % U))) % P
                   ELSE 0
<1>1. U \in Nat \ {0} /\ P \in Nat \ {0} /\ 0 \in Byte
  BY BytesOfDigit
<1>2. bn_encode(s, x, n) = [j \in 1..s |-> V(j)]
  BY DEF bn_encode
<1>3. Byte = 0..(P - 1)
  BY DEF Byte
<1> HIDE DEF U, P
<1>4. \A j \in 1..s : V(j) \in Byte
  <2>1. SUFFICES ASSUME NEW j \in 1..s, (s - j) \div U < n PROVE V(j) \in Byte
    BY <1>1
  <2> DEFINE k == s - j
  <2>2. k \in Nat
    OBVIOUS
  <2> HIDE DEF k
  <2>3. k \div U \in Nat /\ k % U \in 0..(U - 1)
    BY <1>1, <2>2, DivFacts
  <2>4. x[k \div U] \in Nat
    <3>1. k \div U \in 0..(n - 1)
      BY <2>1, <2>3 DEF k
    <3> QED
      BY <3>1, DigitsAreNumbers DEF HasDigits
  <2>5. ByteBits * (k % U) \in Nat
    BY <1>1, <2>3, BignumAssumption
  <2>6. Power(2, ByteBits * (k % U)) \in Nat \ {0}
    BY <2>5, PowerPositive
  <2> DEFINE y == x[k \div U]
             M == Power(2, ByteBits * (k % U))
  <2>7. y \div M \in Nat
    BY <2>4, <2>6, DivFacts, Zenon
  <2> HIDE DEF y, M
  <2>8. (y \div M) % P \in 0..(P - 1)
    BY <1>1, <2>7
  <2> QED
    BY <1>3, <2>1, <2>8 DEF y, M, k
<1> QED
  BY <1>2, <1>4

-----------------------------------------------------------------------------
(* What RsaBlock does with its arrays in one step *)

\* What a key is: its primes have the digits bn_digits finds, at most as many
\* as the modulus.
LEMMA KeyFacts ==
    ASSUME NEW k \in Keys
    PROVE  /\ k.ndigits \in Nat \ {0} /\ k.pdigits \in Nat \ {0}
           /\ k.size \in Nat \ {0} /\ k.ndigits <= 2 * k.pdigits
           /\ k.pdigits <= k.ndigits
           /\ \A name \in {"p", "q", "dp", "dq", "q_inv"} :
                k[name] \in [0..(k.pdigits - 1) -> Digit]
           /\ \A name \in {"n", "e"} : k[name] \in [0..(k.ndigits - 1) -> Digit]
           /\ Value(k.p, k.pdigits) \in Nat \ {0}
           /\ Value(k.q, k.pdigits) \in Nat \ {0}
           /\ Value(k.n, k.ndigits) \in Nat \ {0}
           /\ Value(k.p, k.pdigits) * Value(k.q, k.pdigits)
                = Value(k.n, k.ndigits)
           /\ Inputs(k) \subseteq Nat
<1>1. /\ k.ndigits \in Nat \ {0} /\ k.pdigits \in Nat \ {0}
      /\ k.size \in Nat \ {0} /\ k.ndigits <= 2 * k.pdigits
      /\ Inputs(k) \subseteq Nat
  BY KeyAssumption
<1>2. /\ \A name \in {"p", "q", "dp", "dq", "q_inv"} :
           k[name] \in [0..(k.pdigits - 1) -> Digit]
      /\ \A name \in {"n", "e"} : k[name] \in [0..(k.ndigits - 1) -> Digit]
  BY KeyAssumption
<1>3. /\ bn_digits(k.p, k.pdigits) = k.pdigits
      /\ bn_digits(k.n, k.ndigits) = k.ndigits
      /\ Value(k.p, k.pdigits) * Value(k.q, k.pdigits) = Value(k.n, k.ndigits)
  BY KeyAssumption, KeyPairAssumption
<1>4. /\ k.p \in [0..(k.pdigits - 1) -> Digit]
      /\ k.q \in [0..(k.pdigits - 1) -> Digit]
      /\ k.n \in [0..(k.ndigits - 1) -> Digit]
  BY <1>2
<1>5. /\ HasDigits(k.p, k.pdigits) /\ HasDigits(k.q, k.pdigits)
      /\ HasDigits(k.n, k.ndigits)
  BY <1>4 DEF HasDigits
<1> DEFINE P == Value(k.p, k.pdigits)
           Q == Value(k.q, k.pdigits)
           N == Value(k.n, k.ndigits)
           m == k.pdigits
           l == k.ndigits
<1>6. P \in Nat /\ Q \in Nat /\ N \in Nat
  BY <1>1, <1>5, ValueFacts
<1>7. N # 0
  <2>1. l # 0 /\ l \in Nat
    BY <1>1
  <2>2. bn_digits(k.n, l) = 0 <=> N = 0
    BY <1>5, <2>1, Significant
  <2> QED
    BY <1>3, <2>1, <2>2
<1>8. P # 0 /\ Q # 0 /\ P <= N
  <2>1. P * Q = N
    BY <1>3
  <2> HIDE DEF P, Q, N
  <2>2. P = 0 => P * Q = 0
    BY <1>6
  <2>3. Q = 0 => P * Q = 0
    BY <1>6
  <2>4. P # 0 /\ Q # 0
    BY <1>7, <2>1, <2>2, <2>3
  <2>5. P * 1 <= P * Q
    BY <1>6, <2>4
  <2> QED
    BY <1>6, <2>1, <2>4, <2>5
<1>9. Power(Base, m - 1) <= P
  <2>1. m \in Nat /\ m # 0
    BY <1>1
  <2>2. /\ HasDigits(k.p, m) /\ m \in Nat \ {0} /\ k.p[m - 1] # 0
    BY <1>3, <1>5, <2>1, Significant
  <2>3. LET r == bn_shift_l(k.p, Shift(k.p, m), m)
          IN Power(Base, m - 1) <= Value(k.p, m)
    BY <2>2, NormalisedDivisor
  <2> QED
    BY <2>3
<1>10. N < Power(Base, l)
  BY <1>1, <1>5, ValueBound
<1>11. m <= l
  <2>1. SUFFICES ASSUME m > l PROVE FALSE
    BY <1>1
  <2>2. l \in Nat /\ m - 1 \in Nat /\ l <= m - 1
    BY <1>1, <2>1
  <2>3. Power(Base, l) <= Power(Base, m - 1)
    BY <2>2, BignumAssumption, PowerMonotone
  <2>4. Power(Base, l) \in Nat /\ Power(Base, m - 1) \in Nat
    BY <2>2, BignumAssumption, PowerFacts
  <2> HIDE DEF P, N, m, l
  <2> QED
    BY <1>6, <1>8, <1>9, <1>10, <2>3, <2>4
<1> QED
  BY <1>1, <1>2, <1>3, <1>6, <1>7, <1>8, <1>11, Zenon

\* The same of one of the primes, as the divisor of bn_div.
LEMMA PrimeFacts ==
    ASSUME NEW k \in Keys, NEW d \in {"p", "q"}
    PROVE  LET n == bn_digits(k[d], k.pdigits) IN
           /\ n \in Nat \ {0} /\ n <= k.pdigits
           /\ HasDigits(k[d], n) /\ HasDigits(k[d], k.pdigits)
           /\ k[d][n - 1] # 0
           /\ Value(k[d], n) = Value(k[d], k.pdigits)
           /\ Value(k[d], k.pdigits) \in Nat \ {0}
           /\ Shift(k[d], n) \in 0..DigitBits
<1> DEFINE m == k.pdigits
           n == bn_digits(k[d], k.pdigits)
<1>1. m \in Nat /\ k[d] \in [0..(m - 1) -> Digit]
  BY KeyFacts
<1>2. HasDigits(k[d], m)
  BY <1>1 DEF HasDigits
<1>3. Value(k[d], m) \in Nat \ {0}
  BY KeyFacts
<1>4. /\ n \in Nat /\ n <= m /\ HasDigits(k[d], n)
      /\ Value(k[d], n) = Value(k[d], m)
      /\ n # 0 => n \in Nat \ {0} /\ k[d][n - 1] # 0
      /\ n = 0 <=> Value(k[d], m) = 0
  BY <1>1, <1>2, Significant
<1>5. n \in Nat \ {0} /\ k[d][n - 1] # 0
  BY <1>3, <1>4
<1>6. Shift(k[d], n) \in 0..DigitBits
  BY <1>4, <1>5, ShiftFacts
<1> QED
  BY <1>1, <1>2, <1>3, <1>4, <1>5, <1>6

\* A number of digits is read off an array's domain.
LEMMA NumberFacts ==
    ASSUME NEW n \in Nat, NEW x \in [0..(n - 1) -> Digit]
    PROVE  Number(x) = Value(x, n)
<1>1. Cardinality(0..(n - 1)) = IF 0 > n - 1 THEN 0 ELSE (n - 1) - 0 + 1
  BY FS_Interval
<1>2. Cardinality(0..(n - 1)) = n
  BY <1>1
<1> QED
  BY <1>2 DEF Number

\* An array without digits stands for 0.
LEMMA NumberOfNothing ==
    Number(<< >>) = 0
<1>1. DOMAIN << >> = {}
  OBVIOUS
<1>2. Cardinality({}) = 0
  BY FS_EmptySet
<1>3. Value(<< >>, 0) = 0
  <2>1. HasDigits(<< >>, 0)
    BY DEF HasDigits
  <2> QED
    BY <2>1, ValueFacts
<1> QED
  BY <1>1, <1>2, <1>3 DEF Number

\* What TypeOK asks of an array.
LEMMA ArrayFacts ==
    ASSUME key \in Keys, NEW n \in Nat, n <= 2 * key.ndigits + 2,
           NEW x \in [0..(n - 1) -> Digit]
    PROVE  Array(x)
<1>1. CASE n = 0
  <2>1. 0..(n - 1) = {}
    BY <1>1
  <2>2. x = << >>
    BY <2>1
  <2> QED
    BY <2>2 DEF Array
<1>2. CASE n # 0
  <2>1. n \in 1..(2 * key.ndigits + 2)
    BY <1>2, KeyFacts
  <2> QED
    BY <2>1 DEF Array
<1> QED
  BY <1>1, <1>2

\* Writing a digit over a zero adds it with its weight.
LEMMA SetDigit ==
    ASSUME NEW m \in Nat, NEW x \in [0..(m - 1) -> Digit], NEW j \in 0..(m - 1),
           NEW e \in Digit, x[j] = 0,
           NEW y \in [0..(m - 1) -> Digit], y[j] = e,
           \A k \in 0..(m - 1) : k # j => y[k] = x[k]
    PROVE  Value(y, m) = Value(x, m) + e * Power(Base, j)
<1>1. /\ y \in [0..(m - 1) -> Digit] /\ y[j] = e
      /\ \A k \in 0..(m - 1) : k # j => y[k] = x[k]
  OBVIOUS
<1>2. HasDigits(x, m) /\ HasDigits(y, m)
  BY <1>1, ArrayHasDigits
<1>3. /\ j \in Nat /\ 1 \in Nat /\ j + 1 <= m
      /\ \A k \in 0..(m - 1) : k < j \/ k >= j + 1 => x[k] = y[k]
  BY <1>1
<1>4. Value(y, m) - Value(x, m)
        = Power(Base, j)
          * (Value(Window(y, j, 1), 1) - Value(Window(x, j, 1), 1))
  BY <1>2, <1>3, WindowChange
<1>5. ASSUME NEW z, z[j] \in Digit
      PROVE  Value(Window(z, j, 1), 1) = z[j]
  <2> DEFINE w == Window(z, j, 1)
  <2>1. w = [k \in 0..0 |-> z[j + k]]
    BY DEF Window
  <2>2. w[0] = z[j]
    BY <1>3, <2>1
  <2> HIDE DEF w
  <2>3. HasDigits(w, 0) /\ w[0] \in Digit
    BY <1>5, <2>2 DEF HasDigits
  <2>4. /\ Value(w, 0) = 0
        /\ w[0] \in Digit
             => Value(w, 0 + 1) = Value(w, 0) + w[0] * Power(Base, 0)
    BY <2>3, ValueFacts
  <2>5. Power(Base, 0) = 1
    BY BignumAssumption, PowerFacts
  <2>6. w[0] \in Nat
    BY <2>3, DigitsAreNumbers
  <2>7. Value(w, 1) = w[0]
    BY <2>3, <2>4, <2>5, <2>6
  <2> QED
    BY <2>2, <2>7 DEF w
<1>6. Value(Window(y, j, 1), 1) = e
  BY <1>1, <1>5
<1>7. Value(Window(x, j, 1), 1) = 0
  BY <1>5, DigitsAreNumbers
<1>8. Value(y, m) \in Nat /\ Value(x, m) \in Nat /\ Power(Base, j) \in Nat
        /\ e \in Nat
  BY <1>2, <1>3, ValueFacts, PowerFacts, BignumAssumption, DigitsAreNumbers
<1> DEFINE u == Power(Base, j)
           v == Value(y, m)
           w == Value(x, m)
<1>9. v - w = u * (e - 0)
  BY <1>4, <1>6, <1>7
<1> HIDE DEF u, v, w
<1>10. u * (e - 0) = e * u /\ e * u \in Nat
  BY <1>8 DEF u
<1>11. v = w + e * u
  BY <1>8, <1>9, <1>10 DEF v, w
<1> QED
  BY <1>11 DEF u, v, w

\* The block that is divided.
LEMMA BlockFacts ==
    ASSUME key \in Keys, in \in Bytes
    PROVE  /\ HasDigits(c, key.ndigits) /\ HasDigits(c, cdigits)
           /\ c \in [0..(key.ndigits - 1) -> Digit]
           /\ cdigits \in Nat /\ cdigits <= key.ndigits
           /\ Value(c, cdigits) = Value(c, key.ndigits)
<1>1. key.ndigits \in Nat /\ key.size \in Nat
  BY KeyFacts
<1>2. in \in [1..key.size -> Byte]
  BY DEF Bytes, Byte
<1>3. c \in [0..(key.ndigits - 1) -> Digit]
  BY <1>1, <1>2, DecodeTyped DEF c
<1>4. HasDigits(c, key.ndigits)
  BY <1>1, <1>3, ArrayHasDigits
<1> QED
  BY <1>1, <1>3, <1>4, Significant DEF cdigits

\* Where the division of the dividend x by d stands: j is the index of the
\* quotient digit that comes next, or of the one with the value e under way.
Remains(x, j, d, n, L) ==
    IF j >= 0 THEN Ready(x, j, d, n, L) ELSE Value(x, L + 1) < Value(d, n)

\* Within the digit j of a quotient: e has been found of it, and with what x
\* holds of the divisor it stays below the next digit.
UnderWay(x, j, d, n, L, e) ==
    /\ j >= 0 /\ Ready(x, j, d, n, L) /\ e \in Digit
    /\ Value(x, L + 1) + e * (Value(d, n) * Power(Base, j))
         < Value(d, n) * Power(Base, j + 1)

\* bn_div normalises.
LEMMA StartFacts ==
    ASSUME key \in Keys, in \in Bytes, NEW d \in {"p", "q"}
    PROVE  LET n == DigitsOf(d)
               y == bn_shift_l(key[d], ShiftOf(d), n).digits
               x == Normalised(c, ShiftOf(d), cdigits, n)
               L == TopOf(cdigits, n)
           IN  /\ n \in Nat \ {0} /\ n <= key.pdigits
               /\ L \in Nat /\ cdigits <= L /\ n <= L + 1 /\ L <= key.ndigits
               /\ x \in [0..L -> Digit] /\ y \in [0..(n - 1) -> Digit]
               /\ Normal(y, n)
               /\ Remains(x, cdigits - n, y, n, L)
               /\ Value(x, L + 1)
                    = Value(c, key.ndigits) * Power(2, ShiftOf(d))
<1> DEFINE n == DigitsOf(d)
           s == ShiftOf(d)
           y == bn_shift_l(key[d], s, n).digits
           x == Normalised(c, s, cdigits, n)
           L == TopOf(cdigits, n)
           j == cdigits - n
<1>1. /\ n \in Nat \ {0} /\ n <= key.pdigits /\ HasDigits(key[d], n)
      /\ key[d][n - 1] # 0
      /\ s \in 0..DigitBits /\ s = Shift(key[d], n)
  BY PrimeFacts DEF DigitsOf, ShiftOf
<1>2. /\ cdigits \in Nat /\ cdigits <= key.ndigits /\ HasDigits(c, cdigits)
      /\ Value(c, cdigits) = Value(c, key.ndigits) /\ HasDigits(c, key.ndigits)
  BY BlockFacts
<1>3. key.ndigits \in Nat /\ key.pdigits <= key.ndigits /\ key.pdigits \in Nat
  BY KeyFacts
<1>4. Normal(y, n) /\ y \in [0..(n - 1) -> Digit]
      /\ Value(y, n) = Power(2, s) * Value(key[d], n)
  BY <1>1, NormalisedDivisor
<1>5. x \in [0..L -> Digit] /\ Value(x, L + 1) = Power(2, s) * Value(c, cdigits)
  BY <1>1, <1>2, NormalisedDividend
<1>6. /\ cdigits < n
           => Power(2, s) * Value(c, cdigits) < Power(2, s) * Value(key[d], n)
      /\ cdigits >= n => Power(2, s) * Value(c, cdigits)
                           < (Power(2, s) * Value(key[d], n))
                             * Power(Base, j + 1)
  BY <1>1, <1>2, DivisionStarts
<1>7. L \in Nat /\ cdigits <= L /\ n <= L + 1 /\ L <= key.ndigits
  BY <1>1, <1>2, <1>3 DEF TopOf
<1>8. Power(2, s) \in Nat /\ Value(c, cdigits) \in Nat
  BY <1>1, <1>2, ValueFacts, PowerFacts
<1>9. Value(x, L + 1) = Value(c, key.ndigits) * Power(2, s)
  <2> DEFINE P == Power(2, s)
             V == Value(c, cdigits)
  <2>1. P \in Nat /\ V \in Nat
    BY <1>8
  <2> HIDE DEF P, V
  <2>2. P * V = V * P
    BY <2>1
  <2> QED
    BY <1>2, <1>5, <2>2 DEF P, V
<1>10. Remains(x, j, y, n, L)
  <2> HIDE DEF x, y, L, s, n
  <2>1. CASE j >= 0
    <3>1. cdigits >= n /\ j \in Nat
      BY <1>1, <1>2, <2>1
    <3>2. Value(x, L + 1) < Value(y, n) * Power(Base, j + 1)
      BY <1>4, <1>5, <1>6, <3>1
    <3>3. j + n <= L
      BY <1>1, <1>2, <1>7
    <3>4. Ready(x, j, y, n, L)
      BY <1>4, <1>5, <1>7, <3>1, <3>2, <3>3 DEF Ready
    <3> QED
      BY <2>1, <3>4 DEF Remains
  <2>2. CASE ~(j >= 0)
    <3>1. cdigits < n
      BY <1>1, <1>2, <2>2
    <3> QED
      BY <1>4, <1>5, <1>6, <2>2, <3>1 DEF Remains
  <2> QED
    BY <2>1, <2>2
<1> QED
  BY <1>1, <1>4, <1>5, <1>7, <1>9, <1>10

\* bn_div makes and corrects an estimate.
LEMMA EstimateFacts ==
    ASSUME NEW L, NEW x, NEW j, NEW n, NEW d, Ready(x, j, d, n, L)
    PROVE  LET q == Estimate(x, j, d, n)
               y == SubtractEstimate(x, j, q, d, n)
           IN  UnderWay(y, j, d, n, L, q)
<1> DEFINE q == Estimate(x, j, d, n)
           y == SubtractEstimate(x, j, q, d, n)
           u == Power(Base, j)
           V == Value(x, L + 1)
           W == Value(y, L + 1)
           E == Value(d, n) * u
           B == Value(d, n) * Power(Base, j + 1)
<1>1. /\ q \in Digit /\ y \in [0..L -> Digit]
      /\ W = V - q * E
  BY EstimateStep
<1>2. /\ L \in Nat /\ j \in Nat /\ j + n <= L /\ Normal(d, n) /\ V < B
  BY DEF Ready
<1>3. /\ Value(d, n) \in Nat /\ u \in Nat /\ Power(Base, j + 1) \in Nat
      /\ V \in Nat /\ L + 1 \in Nat
  BY <1>2, ReadyFacts, PowerFacts, BignumAssumption
<1>4. E \in Nat /\ B \in Nat
  <2> DEFINE D == Value(d, n)
             w == Power(Base, j + 1)
  <2>1. D \in Nat /\ w \in Nat /\ u \in Nat
    BY <1>3
  <2> HIDE DEF D, w, u
  <2>2. D * u \in Nat /\ D * w \in Nat
    BY <2>1
  <2> QED
    BY <2>2 DEF D, w
<1>5. q \in Nat /\ W \in Nat
  <2>1. HasDigits(y, L + 1)
    BY <1>1, <1>2 DEF HasDigits
  <2> QED
    BY <1>1, <1>3, <2>1, ValueFacts, DigitsAreNumbers
<1>6. W <= V /\ W + q * E = V
  <2> HIDE DEF q, W, V, E
  <2>1. q * E \in Nat
    BY <1>4, <1>5
  <2> QED
    BY <1>1, <1>3, <1>5, <2>1
<1>7. W < B /\ W + q * E < B
  <2> HIDE DEF q, W, V, E, B
  <2> QED
    BY <1>2, <1>3, <1>4, <1>5, <1>6
<1>8. Ready(y, j, d, n, L)
  BY <1>1, <1>2, <1>7 DEF Ready
<1> QED
  BY <1>1, <1>2, <1>7, <1>8 DEF UnderWay

\* A correction keeps the digit under way, does not overflow it and takes the
\* divisor at j away once.
LEMMA CorrectFacts ==
    ASSUME NEW L, NEW x, NEW j, NEW n, NEW d, NEW e, UnderWay(x, j, d, n, L, e),
           TooSmall(x, j, d, n)
    PROVE  /\ Wrap(e + 1) = e + 1
           /\ UnderWay(SubtractOnce(x, j, d, n), j, d, n, L, Wrap(e + 1))
           /\ Value(x, L + 1) >= Value(d, n) * Power(Base, j)
           /\ Value(SubtractOnce(x, j, d, n), L + 1)
                = Value(x, L + 1) - Value(d, n) * Power(Base, j)
<1> DEFINE y == SubtractOnce(x, j, d, n)
           u == Power(Base, j)
           V == Value(x, L + 1)
           W == Value(y, L + 1)
           E == Value(d, n) * u
           B == Value(d, n) * Power(Base, j + 1)
<1>1. /\ j >= 0 /\ Ready(x, j, d, n, L) /\ e \in Digit
      /\ V + e * E < B
  BY DEF UnderWay
<1>2. y \in [0..L -> Digit] /\ W = V - E /\ V >= E
  BY <1>1, CorrectStep
<1>3. /\ L \in Nat /\ j \in Nat /\ j + n <= L /\ Normal(d, n) /\ V < B
  BY <1>1 DEF Ready
<1>4. /\ Value(d, n) \in Nat \ {0} /\ u \in Nat \ {0}
      /\ Power(Base, j + 1) = Base * u
      /\ V \in Nat /\ L + 1 \in Nat
  BY <1>1, ReadyFacts
<1>5. E \in Nat \ {0} /\ B = Base * E /\ Base \in Nat
  <2> DEFINE D == Value(d, n)
  <2>1. D \in Nat \ {0} /\ u \in Nat \ {0} /\ Base \in Nat
    BY <1>4, BignumAssumption
  <2>2. B = D * (Base * u)
    BY <1>4
  <2> HIDE DEF D, u
  <2>3. D * u \in Nat /\ D * (Base * u) = Base * (D * u)
    BY <2>1
  <2>4. D * u # 0
    BY <2>1
  <2> QED
    BY <2>1, <2>2, <2>3, <2>4 DEF D
<1>6. e \in Nat /\ W \in Nat
  <2>1. HasDigits(y, L + 1)
    BY <1>2, <1>3 DEF HasDigits
  <2> QED
    BY <1>1, <1>4, <2>1, ValueFacts, DigitsAreNumbers
<1>7. W < B /\ W + (e + 1) * E < B /\ e + 1 < Base
  <2> HIDE DEF W, V, E, B
  <2>1. (e + 1) * E = e * E + E /\ e * E \in Nat
    BY <1>5, <1>6
  <2>2. W < B /\ W + (e + 1) * E < B
    BY <1>1, <1>2, <1>3, <1>4, <1>5, <1>6, <2>1
  <2>3. (e + 1) * E < Base * E
    BY <1>5, <1>6, <2>1, <2>2
  <2>4. e + 1 >= Base => (e + 1) * E >= Base * E
    BY <1>5, <1>6
  <2>5. (e + 1) * E \in Nat /\ Base * E \in Nat
    BY <1>5, <1>6
  <2>6. e + 1 < Base
    BY <1>5, <1>6, <2>3, <2>4, <2>5
  <2> QED
    BY <2>2, <2>6
<1>8. e + 1 \in Digit
  BY <1>5, <1>6, <1>7 DEF Digit
<1>9. Wrap(e + 1) = e + 1
  BY <1>6, <1>8, WrapOnce
<1>10. Ready(y, j, d, n, L)
  BY <1>2, <1>3, <1>7 DEF Ready
<1>11. UnderWay(y, j, d, n, L, e + 1)
  BY <1>1, <1>7, <1>8, <1>10 DEF UnderWay
<1> QED
  BY <1>2, <1>9, <1>11

\* When no correction is due, what remains is less than the divisor at j.
LEMMA SettleFacts ==
    ASSUME NEW L, NEW x, NEW j, NEW n, NEW d, NEW e, UnderWay(x, j, d, n, L, e),
           ~TooSmall(x, j, d, n)
    PROVE  /\ Value(x, L + 1) < Value(d, n) * Power(Base, j)
           /\ Remains(x, j - 1, d, n, L)
<1>1. Ready(x, j, d, n, L)
  BY DEF UnderWay
<1>2. /\ L \in Nat /\ x \in [0..L -> Digit] /\ j \in Nat /\ j + n <= L
      /\ Normal(d, n)
  BY <1>1 DEF Ready
<1>3. /\ Value(d, n) \in Nat /\ Power(Base, j) \in Nat
      /\ Value(x, L + 1) \in Nat
      /\ n \in Nat
  BY <1>1, ReadyFacts
<1>4. ~(Value(x, L + 1) >= Value(d, n) * Power(Base, j))
  BY <1>1, CorrectStep
<1>5. Value(x, L + 1) < Value(d, n) * Power(Base, j)
  <2> DEFINE D == Value(d, n)
             u == Power(Base, j)
  <2>1. D \in Nat /\ u \in Nat
    BY <1>3
  <2> HIDE DEF D, u
  <2>2. D * u \in Nat
    BY <2>1
  <2> QED
    BY <1>3, <1>4, <2>2 DEF D, u
<1>6. CASE j = 0
  <2>1. Power(Base, 0) = 1
    BY BignumAssumption, PowerFacts
  <2>2. Value(x, L + 1) < Value(d, n)
    BY <1>3, <1>5, <1>6, <2>1
  <2> QED
    BY <1>5, <1>6, <2>2 DEF Remains
<1>7. CASE j # 0
  <2>1. j - 1 \in Nat /\ (j - 1) + 1 = j /\ (j - 1) + n <= L
    BY <1>2, <1>3, <1>7
  <2>2. Ready(x, j - 1, d, n, L)
    BY <1>2, <1>5, <2>1 DEF Ready
  <2> QED
    BY <1>5, <2>1, <2>2 DEF Remains
<1> QED
  BY <1>6, <1>7

-----------------------------------------------------------------------------
(* The types of RsaBlock *)

\* The index of the top digit of the normalised dividend.
Top == TopOf(cdigits, ddigits)

\* Both divisions are over.
Late == {"exponentiate", "subtract", "combine", "public", "refused", "done"}

\* The variables that are no arrays of digits.
Plain ==
    /\ key \in Keys
    /\ in \in Bytes
    /\ pc \in {"compare", "divide", "estimate", "correct", "rejected"} \cup Late
    /\ prime \in {"none", "p", "q"}
    /\ ai \in Digit /\ corrections \in Nat
    /\ {out, back} \subseteq {<< >>} \cup Bytes

\* When which prime is divided by.
Phases ==
    /\ pc \in {"compare", "rejected"} => prime = "none"
    /\ pc \in {"estimate", "correct"} => prime # "none"
    /\ pc = "divide" => prime # "q"
    /\ pc \in Late => prime = "q"

\* Before the first division.
Untouched ==
    prime = "none"
      => cc = << >> /\ dd = << >> /\ a = << >> /\ i \in Int /\ i < 0

\* The arrays of bn_div.
Divisions ==
    prime # "none" =>
        /\ cc \in [0..Top -> Digit]
        /\ dd \in [0..(ddigits - 1) -> Digit] /\ Normal(dd, ddigits)
        /\ a \in [0..(cdigits - 1) -> Digit]
        /\ i \in Int /\ i <= cdigits - ddigits
        /\ \A k \in 0..(cdigits - 1) : k <= i => a[k] = 0
        /\ IF pc = "correct" THEN UnderWay(cc, i, dd, ddigits, Top, ai)
           ELSE Remains(cc, i, dd, ddigits, Top)
        /\ pc \notin {"estimate", "correct"} => i < 0

\* Arrays as long as a prime, and as long as the modulus.
Half == [0..(key.pdigits - 1) -> Digit]
Whole == [0..(key.ndigits - 1) -> Digit]

\* The arrays of private_block_operation.
Results ==
    /\ residue \in [p : {<< >>} \cup Half, q : {<< >>} \cup Half]
    /\ prime = "q" \/ (prime = "p" /\ pc = "divide") => residue.p \in Half
    /\ pc \in Late => residue.q \in Half
    /\ t \in {<< >>} \cup Half \cup Whole
    /\ pc = "combine" => t \in Half
    /\ pc = "public" => out \in Bytes

\* The inductive invariant of TypeOK: what each array holds in each phase, and
\* that the division under way stays within its digits.
RsaInv == Plain /\ Phases /\ Untouched /\ Divisions /\ Results

\* The invariant holds of a block handed in.
LEMMA RsaStarts == Init => RsaInv
<1>1. SUFFICES ASSUME Init PROVE RsaInv
  OBVIOUS
<1>2. in \in Bytes
  <2>1. key \in Keys
    BY <1>1 DEF Init
  <2> DEFINE n == key.ndigits
             s == key.size
             D(x) == [k \in 0..(n - 1) |-> (x \div Power(Base, k)) % Base]
  <2>2. n \in Nat /\ s \in Nat /\ Inputs(key) \subseteq Nat
    BY <2>1, KeyFacts
  <2>3. PICK x \in Inputs(key) : in = bn_encode(s, D(x), n)
    BY <1>1 DEF Init
  <2>4. x \in Nat
    BY <2>2
  <2> HIDE DEF n, s
  <2>5. ASSUME NEW k \in 0..(n - 1)
        PROVE (x \div Power(Base, k)) % Base \in Digit
    <3>1. Power(Base, k) \in Nat \ {0}
      BY BignumAssumption, PowerPositive
    <3> DEFINE h == x \div Power(Base, k)
    <3>2. h \in Nat
      BY <2>4, <3>1, DivFacts
    <3> HIDE DEF h
    <3>3. h % Base \in 0..(Base - 1)
      BY <3>2, BignumAssumption
    <3> QED
      BY <3>3 DEF Digit, h
  <2>6. HasDigits(D(x), n)
    BY <2>5 DEF HasDigits
  <2> HIDE DEF D
  <2>7. in \in [1..s -> Byte]
    BY <2>2, <2>3, <2>6, EncodeTyped
  <2> QED
    BY <2>7 DEF s, Bytes, Byte
<1>3. Plain
  BY <1>1, <1>2, DigitsAreNumbers DEF Plain, Init
<1>4. Phases
  BY <1>1 DEF Phases, Init, Late
<1>5. Untouched
  BY <1>1 DEF Untouched, Init
<1>6. Divisions
  BY <1>1 DEF Divisions, Init
<1>7. Results
  BY <1>1 DEF Results, Init, Late
<1> QED
  BY <1>3, <1>4, <1>5, <1>6, <1>7 DEF RsaInv

\* A step that leaves the key and the block alone leaves what is derived from
\* them alone.
LEMMA SameBlock ==
    ASSUME key' = key, in' = in
    PROVE  /\ c' = c /\ cdigits' = cdigits /\ Bytes' = Bytes
           /\ Half' = Half /\ Whole' = Whole
           /\ prime' = prime => ddigits' = ddigits /\ Top' = Top
           /\ \A d : DigitsOf(d)' = DigitsOf(d) /\ ShiftOf(d)' = ShiftOf(d)
BY DEF c, cdigits, Bytes, Half, Whole, ddigits, DigitsOf, ShiftOf, Top

\* A step outside bn_div leaves its arrays alone.
LEMMA SameDivision ==
    ASSUME RsaInv, key' = key, in' = in, UNCHANGED division,
           pc \notin {"estimate", "correct"}, pc' \notin {"estimate", "correct"}
    PROVE  Untouched' /\ Divisions'
<1>1. /\ prime' = prime /\ cc' = cc /\ dd' = dd /\ i' = i /\ ai' = ai /\ a' = a
      /\ corrections' = corrections
  BY DEF division
<1>2. cdigits' = cdigits /\ ddigits' = ddigits /\ Top' = Top
  BY <1>1, SameBlock
<1>3. Untouched'
  BY <1>1 DEF RsaInv, Untouched
<1>4. Divisions'
  BY <1>1, <1>2 DEF RsaInv, Divisions
<1> QED
  BY <1>3, <1>4

\* Compare keeps the types.
LEMMA CompareKeeps ==
    ASSUME RsaInv, Compare PROVE RsaInv'
<1>1. /\ pc = "compare" /\ pc' \in {"rejected", "divide"}
      /\ key' = key /\ in' = in /\ UNCHANGED division
      /\ residue' = residue /\ t' = t /\ out' = out /\ back' = back
  BY DEF Compare
<1>2. prime' = prime /\ ai' = ai /\ corrections' = corrections
  BY <1>1 DEF division
<1>3. Plain'
  BY <1>1, <1>2, SameBlock DEF RsaInv, Plain
<1>4. Phases'
  BY <1>1, <1>2 DEF RsaInv, Phases, Late
<1>5. Untouched' /\ Divisions'
  BY <1>1, SameDivision
<1>6. Results'
  BY <1>1, <1>2, SameBlock DEF RsaInv, Results, Phases, Late
<1> QED
  BY <1>3, <1>4, <1>5, <1>6 DEF RsaInv

\* StartDivision keeps the types.
LEMMA StartKeeps ==
    ASSUME RsaInv, StartDivision PROVE RsaInv'
<1> DEFINE d == IF prime = "none" THEN "p" ELSE "q"
           n == DigitsOf(d)
           L == TopOf(cdigits, n)
<1>1. /\ pc = "divide" /\ pc' = "estimate"
      /\ key' = key /\ in' = in
      /\ prime' = d
      /\ dd' = bn_shift_l(key[d], ShiftOf(d), n).digits
      /\ cc' = Normalised(c, ShiftOf(d), cdigits, n)
      /\ i' = cdigits - n /\ a' = Zero(cdigits)
      /\ ai' = 0 /\ corrections' = 0
      /\ residue' = residue /\ t' = t /\ out' = out /\ back' = back
  BY DEF StartDivision
<1>2. d \in {"p", "q"} /\ key \in Keys /\ in \in Bytes
        /\ prime \in {"none", "p"}
      /\ (d = "q" => prime = "p")
  BY <1>1 DEF RsaInv, Plain, Phases
<1>3. cdigits' = cdigits /\ ddigits' = n /\ Top' = L
  BY <1>1, SameBlock DEF ddigits, Top
<1>4. cdigits \in Nat
  BY <1>2, BlockFacts
<1> HIDE DEF d, L
<1>5. /\ n \in Nat \ {0} /\ L \in Nat
      /\ cc' \in [0..L -> Digit] /\ dd' \in [0..(n - 1) -> Digit]
      /\ Normal(dd', n) /\ Remains(cc', i', dd', n, L)
  BY <1>1, <1>2, StartFacts DEF L
<1>6. Plain'
  BY <1>1, <1>2, SameBlock, DigitsAreNumbers DEF RsaInv, Plain
<1>7. Phases'
  BY <1>1, <1>2 DEF Phases, Late
<1>8. Untouched'
  BY <1>1, <1>2 DEF Untouched
<1>9. Divisions'
  <2> HIDE DEF n
  <2>1. a' \in [0..(cdigits - 1) -> Digit] /\ \A k \in 0..(cdigits - 1) :
          a'[k] = 0
    BY <1>1, <1>4, DigitsAreNumbers DEF Zero
  <2>2. i' \in Int /\ i' <= cdigits - n
    BY <1>1, <1>4, <1>5
  <2> QED
    BY <1>1, <1>3, <1>5, <2>1, <2>2 DEF Divisions
<1>10. Results'
  BY <1>1, <1>2, SameBlock DEF RsaInv, Results, Late
<1> QED
  BY <1>6, <1>7, <1>8, <1>9, <1>10 DEF RsaInv

\* EstimateDigit keeps the types.
LEMMA EstimateKeeps ==
    ASSUME RsaInv, EstimateDigit PROVE RsaInv'
<1> DEFINE n == ddigits
           L == Top
<1>1. /\ pc = "estimate" /\ pc' = "correct" /\ i >= 0
      /\ ai' = Estimate(cc, i, dd, n)
      /\ cc' = SubtractEstimate(cc, i, ai', dd, n)
      /\ corrections' = 0
      /\ key' = key /\ in' = in /\ prime' = prime /\ dd' = dd /\ i' = i
           /\ a' = a
      /\ residue' = residue /\ t' = t /\ out' = out /\ back' = back
  BY DEF EstimateDigit
<1>2. prime # "none" /\ Remains(cc, i, dd, n, L)
  BY <1>1 DEF RsaInv, Phases, Divisions
<1>3. Ready(cc, i, dd, n, L)
  BY <1>1, <1>2 DEF Remains
<1>4. UnderWay(cc', i, dd, n, L, ai')
  BY <1>1, <1>3, EstimateFacts
<1>5. cc' \in [0..L -> Digit] /\ ai' \in Digit
  BY <1>4 DEF UnderWay, Ready
<1>6. Plain'
  BY <1>1, <1>5, SameBlock DEF RsaInv, Plain
<1>7. Phases'
  BY <1>1, <1>2 DEF Phases, Late
<1>8. Untouched'
  BY <1>1, <1>2 DEF Untouched
<1>9. Divisions'
  <2>1. cdigits' = cdigits /\ ddigits' = n /\ Top' = L
    BY <1>1, SameBlock
  <2> HIDE DEF n, L
  <2> QED
    BY <1>1, <1>2, <1>4, <1>5, <2>1 DEF RsaInv, Divisions, n, L
<1>10. Results'
  BY <1>1, SameBlock DEF RsaInv, Results, Late
<1> QED
  BY <1>6, <1>7, <1>8, <1>9, <1>10 DEF RsaInv

\* CorrectDigit keeps the types.
LEMMA CorrectKeeps ==
    ASSUME RsaInv, CorrectDigit PROVE RsaInv'
<1> DEFINE n == ddigits
           L == Top
<1>1. /\ pc = "correct" /\ pc' = pc /\ TooSmall(cc, i, dd, n)
      /\ ai' = Wrap(ai + 1)
      /\ cc' = SubtractOnce(cc, i, dd, n)
      /\ corrections' = corrections + 1
      /\ key' = key /\ in' = in /\ prime' = prime /\ dd' = dd /\ i' = i
           /\ a' = a
      /\ residue' = residue /\ t' = t /\ out' = out /\ back' = back
  BY DEF CorrectDigit
<1>2. prime # "none" /\ UnderWay(cc, i, dd, n, L, ai)
  BY <1>1 DEF RsaInv, Phases, Divisions
<1>3. UnderWay(cc', i, dd, n, L, ai')
  BY <1>1, <1>2, CorrectFacts
<1>4. cc' \in [0..L -> Digit] /\ ai' \in Digit
  BY <1>3 DEF UnderWay, Ready
<1>5. Plain'
  BY <1>1, <1>4, SameBlock DEF RsaInv, Plain
<1>6. Phases'
  BY <1>1, <1>2 DEF Phases, Late
<1>7. Untouched'
  BY <1>1, <1>2 DEF Untouched
<1>8. Divisions'
  <2>1. cdigits' = cdigits /\ ddigits' = n /\ Top' = L
    BY <1>1, SameBlock
  <2> HIDE DEF n, L
  <2> QED
    BY <1>1, <1>2, <1>3, <1>4, <2>1 DEF RsaInv, Divisions, n, L
<1>9. Results'
  BY <1>1, SameBlock DEF RsaInv, Results, Late
<1> QED
  BY <1>5, <1>6, <1>7, <1>8, <1>9 DEF RsaInv

\* SettleDigit keeps the types.
LEMMA SettleKeeps ==
    ASSUME RsaInv, SettleDigit PROVE RsaInv'
<1> DEFINE n == ddigits
           L == Top
<1>1. /\ pc = "correct" /\ pc' = "estimate" /\ ~TooSmall(cc, i, dd, n)
      /\ a' = [a EXCEPT ![i] = ai] /\ i' = i - 1
      /\ key' = key /\ in' = in /\ prime' = prime /\ cc' = cc /\ dd' = dd
      /\ ai' = ai /\ corrections' = corrections
      /\ residue' = residue /\ t' = t /\ out' = out /\ back' = back
  BY DEF SettleDigit
<1>2. prime # "none" /\ UnderWay(cc, i, dd, n, L, ai)
  BY <1>1 DEF RsaInv, Phases, Divisions
<1>3. Remains(cc, i - 1, dd, n, L)
  BY <1>1, <1>2, SettleFacts
<1>4. /\ cc \in [0..L -> Digit]
      /\ dd \in [0..(n - 1) -> Digit] /\ Normal(dd, n)
      /\ a \in [0..(cdigits - 1) -> Digit]
      /\ i \in Int /\ i <= cdigits - n
      /\ \A k \in 0..(cdigits - 1) : k <= i => a[k] = 0
  BY <1>2 DEF RsaInv, Divisions
<1>5. ai \in Digit /\ i >= 0 /\ n \in Nat \ {0}
  BY <1>2, <1>4 DEF UnderWay, Normal
<1>6. cdigits \in Nat
  BY BlockFacts DEF RsaInv, Plain
<1>7. /\ a' \in [0..(cdigits - 1) -> Digit]
      /\ \A k \in 0..(cdigits - 1) : k # i => a'[k] = a[k]
  BY <1>1, <1>4, <1>5
<1>8. i' \in Int /\ i' <= cdigits - n
      /\ \A k \in 0..(cdigits - 1) : k <= i' => k <= i /\ k # i
  <2> HIDE DEF n
  <2> QED
    BY <1>1, <1>4, <1>5, <1>6
<1>9. Plain'
  BY <1>1, SameBlock DEF RsaInv, Plain
<1>10. Phases'
  BY <1>1, <1>2 DEF Phases, Late
<1>11. Untouched'
  BY <1>1, <1>2 DEF Untouched
<1>12. Divisions'
  <2>1. cdigits' = cdigits /\ ddigits' = n /\ Top' = L
    BY <1>1, SameBlock
  <2>2. \A k \in 0..(cdigits - 1) : k <= i' => a'[k] = 0
    BY <1>4, <1>7, <1>8
  <2> HIDE DEF n, L
  <2> QED
    BY <1>1, <1>2, <1>3, <1>4, <1>7, <1>8, <2>1, <2>2 DEF Divisions
<1>13. Results'
  BY <1>1, SameBlock DEF RsaInv, Results, Late
<1> QED
  BY <1>9, <1>10, <1>11, <1>12, <1>13 DEF RsaInv

\* FinishDivision keeps the types.
LEMMA FinishKeeps ==
    ASSUME RsaInv, FinishDivision PROVE RsaInv'
<1> DEFINE n == ddigits
           L == Top
           R == Over(Zero(key.pdigits), 0,
             bn_shift_r(Low(cc, n), ShiftOf(prime), n))
<1>1. /\ pc = "estimate" /\ i < 0
      /\ pc' = IF prime = "p" THEN "divide" ELSE "exponentiate"
      /\ residue' = [residue EXCEPT ![prime] = R]
      /\ key' = key /\ in' = in /\ prime' = prime /\ cc' = cc /\ dd' = dd
      /\ i' = i /\ ai' = ai /\ a' = a /\ corrections' = corrections
      /\ t' = t /\ out' = out /\ back' = back
  BY DEF FinishDivision, division
<1>2. prime \in {"p", "q"} /\ key \in Keys /\ in \in Bytes
  BY <1>1 DEF RsaInv, Phases, Plain
<1>3. cc \in [0..L -> Digit] /\ Remains(cc, i, dd, n, L)
  BY <1>1, <1>2 DEF RsaInv, Divisions
<1>4. /\ n \in Nat \ {0} /\ n <= key.pdigits /\ L \in Nat /\ n <= L + 1
      /\ ShiftOf(prime) \in 0..DigitBits
  BY <1>2, StartFacts, PrimeFacts DEF ddigits, Top, DigitsOf, ShiftOf
<1>5. R \in Half
  <2> DEFINE x == Low(cc, n)
             y == bn_shift_r(x, ShiftOf(prime), n)
  <2>1. HasDigits(x, n)
    BY <1>3, <1>4 DEF HasDigits, Low
  <2>2. y \in [0..(n - 1) -> Digit]
    BY <1>4, <2>1, ShiftRightExact
  <2> HIDE DEF y
  <2>3. key.pdigits \in Nat
    BY <1>2, KeyFacts
  <2> QED
    BY <1>4, <2>2, <2>3, PadFacts DEF Half, y
<1>6. Plain'
  BY <1>1, <1>2, SameBlock DEF RsaInv, Plain, Late
<1>7. Phases'
  BY <1>1, <1>2 DEF Phases, Late
<1>8. Untouched'
  BY <1>1, <1>2 DEF Untouched
<1>9. Divisions'
  <2>1. cdigits' = cdigits /\ ddigits' = n /\ Top' = L
    BY <1>1, SameBlock
  <2>2. pc' # "correct"
    BY <1>1
  <2> HIDE DEF n, L
  <2> QED
    BY <1>1, <1>2, <1>3, <2>1, <2>2 DEF RsaInv, Divisions, n, L
<1>10. Results'
  <2> HIDE DEF R
  <2>1. Half' = Half /\ Whole' = Whole /\ Bytes' = Bytes
    BY <1>1, SameBlock
  <2>2. /\ residue \in [p : {<< >>} \cup Half, q : {<< >>} \cup Half]
        /\ prime = "q" => residue.p \in Half
        /\ t \in {<< >>} \cup Half \cup Whole
    BY DEF RsaInv, Results
  <2>3. /\ residue' \in [p : {<< >>} \cup Half, q : {<< >>} \cup Half]
        /\ prime = "p" => residue'.p = R
        /\ prime = "q" => residue'.q = R /\ residue'.p = residue.p
    BY <1>1, <1>2, <1>5, <2>2
  <2>4. pc' \in Late => prime = "q"
    BY <1>1, <1>2 DEF Late
  <2>5. pc' # "combine" /\ pc' # "public"
    BY <1>1
  <2> QED
    BY <1>1, <1>2, <1>5, <2>1, <2>2, <2>3, <2>4, <2>5 DEF Results
<1> QED
  BY <1>6, <1>7, <1>8, <1>9, <1>10 DEF RsaInv

\* Exponentiate keeps the types.
LEMMA ExponentiateKeeps ==
    ASSUME RsaInv, Exponentiate PROVE RsaInv'
<1> DEFINE m == key.pdigits
           X == bn_mod_exp(residue.p, key.dp, m, key.p, m)
           Y == bn_mod_exp(residue.q, key.dq, m, key.q, m)
<1>1. /\ pc = "exponentiate" /\ pc' = "subtract"
      /\ residue' = [p |-> X, q |-> Y]
      /\ key' = key /\ in' = in /\ UNCHANGED division
      /\ t' = t /\ out' = out /\ back' = back
  BY DEF Exponentiate
<1>2. prime' = prime /\ ai' = ai /\ corrections' = corrections
  BY <1>1 DEF division
<1>3. prime = "q" /\ key \in Keys /\ residue.p \in Half /\ residue.q \in Half
  BY <1>1 DEF RsaInv, Plain, Phases, Results, Late
<1>4. /\ m \in Nat \ {0}
      /\ Value(key.p, m) # 0 /\ Value(key.q, m) # 0
      /\ key.p \in Half /\ key.q \in Half /\ key.dp \in Half /\ key.dq \in Half
  <2>1. /\ key["p"] \in Half /\ key["q"] \in Half
        /\ key["dp"] \in Half /\ key["dq"] \in Half
    BY <1>3, KeyFacts DEF Half
  <2> QED
    BY <1>3, <2>1, KeyFacts
<1>5. \A x \in Half : HasDigits(x, m)
  BY DEF Half, HasDigits
<1>6. X \in Half /\ Y \in Half
  <2>1. IsPower(X, Value(key.dp, m), Value(residue.p, m), key.p, m)
    BY <1>3, <1>4, <1>5, ModExpIsPower
  <2>2. IsPower(Y, Value(key.dq, m), Value(residue.q, m), key.q, m)
    BY <1>3, <1>4, <1>5, ModExpIsPower
  <2> QED
    BY <2>1, <2>2 DEF IsPower, Half
<1>7. Plain'
  BY <1>1, <1>2, SameBlock DEF RsaInv, Plain, Late
<1>8. Phases'
  BY <1>1, <1>2, <1>3 DEF Phases, Late
<1>9. Untouched' /\ Divisions'
  BY <1>1, SameDivision
<1>10. Results'
  <2> HIDE DEF X, Y
  <2> QED
    BY <1>1, <1>2, <1>3, <1>6, SameBlock DEF RsaInv, Results, Late
<1> QED
  BY <1>7, <1>8, <1>9, <1>10 DEF RsaInv

\* Subtract keeps the types.
LEMMA SubtractKeeps ==
    ASSUME RsaInv, Subtract PROVE RsaInv'
<1> DEFINE m == key.pdigits
           X == bn_sub(residue.p, residue.q, m).digits
           Y == bn_sub(residue.q, residue.p, m).digits
           Z == bn_sub(key.p, Y, m).digits
<1>1. /\ pc = "subtract" /\ pc' = "combine"
      /\ t' = IF AtLeast(residue.p, residue.q, m) THEN X ELSE Z
      /\ key' = key /\ in' = in /\ UNCHANGED division
      /\ residue' = residue /\ out' = out /\ back' = back
  BY DEF Subtract
<1>2. prime' = prime /\ ai' = ai /\ corrections' = corrections
  BY <1>1 DEF division
<1>3. prime = "q" /\ key \in Keys /\ residue.p \in Half /\ residue.q \in Half
  BY <1>1 DEF RsaInv, Plain, Phases, Results, Late
<1>4. m \in Nat /\ key.p \in Half
  <2>1. key["p"] \in Half
    BY <1>3, KeyFacts DEF Half
  <2> QED
    BY <1>3, <2>1, KeyFacts
<1>5. \A x \in Half : HasDigits(x, m)
  BY DEF Half, HasDigits
<1>6. \A x \in Half, y \in Half : bn_sub(x, y, m).digits \in Half
  <2>1. SUFFICES ASSUME NEW x \in Half, NEW y \in Half
                 PROVE  bn_sub(x, y, m).digits \in Half
    OBVIOUS
  <2> QED
    BY <1>4, <1>5, SubExact DEF Half
<1>7. t' \in Half
  <2>1. X \in Half /\ Y \in Half
    BY <1>3, <1>6
  <2>2. Z \in Half
    BY <1>4, <1>6, <2>1
  <2> QED
    BY <1>1, <2>1, <2>2
<1>8. Plain'
  BY <1>1, <1>2, SameBlock DEF RsaInv, Plain, Late
<1>9. Phases'
  BY <1>1, <1>2, <1>3 DEF Phases, Late
<1>10. Untouched' /\ Divisions'
  BY <1>1, SameDivision
<1>11. Results'
  BY <1>1, <1>2, <1>3, <1>7, SameBlock DEF RsaInv, Results, Late
<1> QED
  BY <1>8, <1>9, <1>10, <1>11 DEF RsaInv

\* Combine keeps the types.
LEMMA CombineKeeps ==
    ASSUME RsaInv, Combine PROVE RsaInv'
<1> DEFINE m == key.pdigits
           l == key.ndigits
           h == bn_mod_mul(t, key.q_inv, key.p, m)
           x == bn_mul(h, key.q, m)
           y == Over(Zero(2 * m), 0, residue.q)
           R == bn_add(x, y, l).digits
<1>1. /\ pc = "combine" /\ pc' = "public"
      /\ t' = R /\ out' = bn_encode(key.size, t', l)
      /\ key' = key /\ in' = in /\ UNCHANGED division
      /\ residue' = residue /\ back' = back
  BY DEF Combine
<1>2. prime' = prime /\ ai' = ai /\ corrections' = corrections
  BY <1>1 DEF division
<1>3. prime = "q" /\ key \in Keys /\ residue.q \in Half /\ t \in Half
  BY <1>1 DEF RsaInv, Plain, Phases, Results, Late
<1>4. /\ m \in Nat \ {0} /\ l \in Nat \ {0} /\ l <= 2 * m /\ key.size \in Nat
      /\ Value(key.p, m) # 0
      /\ key.p \in Half /\ key.q \in Half /\ key.q_inv \in Half
  <2>1. /\ key["p"] \in Half /\ key["q"] \in Half /\ key["q_inv"] \in Half
    BY <1>3, KeyFacts DEF Half
  <2> QED
    BY <1>3, <2>1, KeyFacts
<1>5. \A z \in Half : HasDigits(z, m)
  BY DEF Half, HasDigits
<1>6. h \in Half
  <2>1. IsMod(h, m, Value(t, m) * Value(key.q_inv, m), Value(key.p, m))
    BY <1>3, <1>4, <1>5, ModMulIsRemainder
  <2> QED
    BY <2>1 DEF IsMod, Half
<1> HIDE DEF h
<1>7. x \in [0..(2 * m - 1) -> Digit]
  BY <1>4, <1>5, <1>6, MulIsProduct
<1>8. y \in [0..(2 * m - 1) -> Digit]
  <2>1. 2 * m \in Nat /\ m \in Nat /\ m <= 2 * m
    BY <1>4
  <2>2. residue.q \in [0..(m - 1) -> Digit]
    BY <1>3 DEF Half
  <2> QED
    BY <2>1, <2>2, PadFacts
<1> HIDE DEF x, y
<1>9. HasDigits(x, l) /\ HasDigits(y, l)
  BY <1>4, <1>7, <1>8 DEF HasDigits
<1>10. R \in Whole
  BY <1>4, <1>9, AddExact DEF Whole
<1> HIDE DEF R
<1>11. out' \in Bytes
  <2>1. HasDigits(R, l)
    BY <1>10 DEF HasDigits, Whole
  <2>2. bn_encode(key.size, R, l) \in [1..key.size -> Byte]
    BY <1>4, <2>1, EncodeTyped
  <2> QED
    BY <1>1, <2>2 DEF Bytes, Byte
<1>12. Plain'
  BY <1>1, <1>2, <1>11, SameBlock DEF RsaInv, Plain, Late
<1>13. Phases'
  BY <1>1, <1>2, <1>3 DEF Phases, Late
<1>14. Untouched' /\ Divisions'
  BY <1>1, SameDivision
<1>15. Results'
  BY <1>1, <1>2, <1>3, <1>10, <1>11, SameBlock DEF RsaInv, Results, Late
<1> QED
  BY <1>12, <1>13, <1>14, <1>15 DEF RsaInv

\* Public keeps the types.
LEMMA PublicKeeps ==
    ASSUME RsaInv, Public PROVE RsaInv'
<1> DEFINE l == key.ndigits
           m == bn_decode(out, l)
           R == bn_mod_exp(m, key.e, l, key.n, l)
<1>1. /\ pc = "public" /\ pc' \in {"refused", "done"}
      /\ back' = back \/ back' = bn_encode(key.size, R, l)
      /\ key' = key /\ in' = in /\ UNCHANGED division
      /\ residue' = residue /\ t' = t /\ out' = out
  BY DEF Public
<1>2. prime' = prime /\ ai' = ai /\ corrections' = corrections
  BY <1>1 DEF division
<1>3. prime = "q" /\ key \in Keys /\ out \in Bytes
  BY <1>1 DEF RsaInv, Plain, Phases, Results, Late
<1>4. /\ l \in Nat \ {0} /\ key.size \in Nat
      /\ Value(key.n, l) # 0
      /\ key.n \in Whole /\ key.e \in Whole
  <2>1. /\ key["n"] \in Whole /\ key["e"] \in Whole
    BY <1>3, KeyFacts DEF Whole
  <2> QED
    BY <1>3, <2>1, KeyFacts
<1>5. \A z \in Whole : HasDigits(z, l)
  BY DEF Whole, HasDigits
<1>6. m \in Whole
  <2>1. out \in [1..key.size -> Byte]
    BY <1>3 DEF Bytes, Byte
  <2> QED
    BY <1>4, <2>1, DecodeTyped, Zenon DEF Whole
<1> HIDE DEF m
<1>7. HasDigits(R, l)
  <2>1. IsPower(R, Value(key.e, l), Value(m, l), key.n, l)
    BY <1>4, <1>5, <1>6, ModExpIsPower
  <2> QED
    BY <2>1 DEF IsPower, HasDigits
<1> HIDE DEF R
<1>8. bn_encode(key.size, R, l) \in Bytes
  <2>1. bn_encode(key.size, R, l) \in [1..key.size -> Byte]
    BY <1>4, <1>7, EncodeTyped
  <2> QED
    BY <2>1 DEF Bytes, Byte
<1>9. Plain'
  BY <1>1, <1>2, <1>8, SameBlock DEF RsaInv, Plain, Late
<1>10. Phases'
  BY <1>1, <1>2, <1>3 DEF Phases, Late
<1>11. Untouched' /\ Divisions'
  BY <1>1, SameDivision
<1>12. Results'
  BY <1>1, <1>2, <1>3, SameBlock DEF RsaInv, Results, Late
<1> QED
  BY <1>9, <1>10, <1>11, <1>12 DEF RsaInv

\* The invariant depends on the variables alone.
LEMMA RsaStutters ==
    ASSUME RsaInv, UNCHANGED vars PROVE RsaInv'
<1>1. /\ key' = key /\ in' = in /\ pc' = pc /\ prime' = prime /\ cc' = cc
      /\ dd' = dd /\ i' = i /\ ai' = ai /\ a' = a /\ corrections' = corrections
      /\ residue' = residue /\ t' = t /\ out' = out /\ back' = back
  BY DEF vars
<1>2. Plain' /\ Phases' /\ Untouched' /\ Divisions' /\ Results'
  BY <1>1, SameBlock DEF RsaInv, Plain, Phases, Untouched, Divisions, Results
<1> QED
  BY <1>2 DEF RsaInv

\* Every step keeps the invariant.
LEMMA RsaInvKept ==
    ASSUME RsaInv, [Next]_vars PROVE RsaInv'
<1>1. CASE Compare
  BY <1>1, CompareKeeps
<1>2. CASE StartDivision
  BY <1>2, StartKeeps
<1>3. CASE EstimateDigit
  BY <1>3, EstimateKeeps
<1>4. CASE CorrectDigit
  BY <1>4, CorrectKeeps
<1>5. CASE SettleDigit
  BY <1>5, SettleKeeps
<1>6. CASE FinishDivision
  BY <1>6, FinishKeeps
<1>7. CASE Exponentiate
  BY <1>7, ExponentiateKeeps
<1>8. CASE Subtract
  BY <1>8, SubtractKeeps
<1>9. CASE Combine
  BY <1>9, CombineKeeps
<1>10. CASE Public
  BY <1>10, PublicKeeps
<1>11. CASE Terminated \/ UNCHANGED vars
  BY <1>11, RsaStutters DEF Terminated
<1> QED
  BY <1>1, <1>2, <1>3, <1>4, <1>5, <1>6, <1>7, <1>8, <1>9, <1>10, <1>11 DEF Next

\* The invariant gives every variable its type.
LEMMA RsaInvTyped ==
    ASSUME RsaInv PROVE TypeOK
<1>1. key \in Keys /\ in \in Bytes
  BY DEF RsaInv, Plain
<1>2. /\ key.ndigits \in Nat /\ key.pdigits \in Nat
      /\ key.pdigits <= 2 * key.ndigits + 2
           /\ key.ndigits <= 2 * key.ndigits + 2
      /\ key.pdigits <= key.ndigits
  BY <1>1, KeyFacts
<1>3. Array(<< >>)
  BY DEF Array
<1>4. \A x \in Half : Array(x)
  BY <1>1, <1>2, ArrayFacts DEF Half
<1>5. \A x \in Whole : Array(x)
  BY <1>1, <1>2, ArrayFacts DEF Whole
<1>6. Array(t) /\ Array(residue.p) /\ Array(residue.q)
  BY <1>3, <1>4, <1>5 DEF RsaInv, Results
<1>7. Array(cc) /\ Array(dd) /\ Array(a) /\ i \in Int
  <2>1. CASE prime = "none"
    BY <1>3, <2>1 DEF RsaInv, Untouched
  <2>2. CASE prime # "none"
    <3>1. prime \in {"p", "q"}
      BY <2>2 DEF RsaInv, Plain
    <3>2. /\ ddigits \in Nat /\ ddigits <= key.pdigits
          /\ Top \in Nat /\ Top <= key.ndigits
      BY <1>1, <3>1, StartFacts DEF ddigits, Top
    <3>3. /\ cc \in [0..Top -> Digit] /\ dd \in [0..(ddigits - 1) -> Digit]
          /\ a \in [0..(cdigits - 1) -> Digit] /\ i \in Int
      BY <2>2 DEF RsaInv, Divisions
    <3>4. cdigits \in Nat /\ cdigits <= key.ndigits
      BY <1>1, BlockFacts
    <3>5. Array(cc)
      <4>1. Top + 1 \in Nat /\ (Top + 1) - 1 = Top
              /\ Top + 1 <= 2 * key.ndigits + 2
        BY <1>2, <3>2
      <4> QED
        BY <1>1, <3>3, <4>1, ArrayFacts
    <3>6. Array(dd)
      <4>1. ddigits <= 2 * key.ndigits + 2
        BY <1>2, <3>2
      <4> QED
        BY <1>1, <3>2, <3>3, <4>1, ArrayFacts
    <3>7. Array(a)
      <4>1. cdigits <= 2 * key.ndigits + 2
        BY <1>2, <3>4
      <4> QED
        BY <1>1, <3>3, <3>4, <4>1, ArrayFacts
    <3> QED
      BY <3>3, <3>5, <3>6, <3>7
  <2> QED
    BY <2>1, <2>2
<1> QED
  BY <1>1, <1>6, <1>7 DEF RsaInv, Plain, Late, TypeOK

\* Every variable of the block operations keeps its type: no index leaves its
\* array and every digit that is read was written, for every key, every block
\* and every word width.
THEOREM RsaTyped == Spec => []TypeOK
<1>1. RsaInv /\ [Next]_vars => RsaInv'
  BY RsaInvKept
<1>2. RsaInv => TypeOK
  BY RsaInvTyped
<1> QED
  BY RsaStarts, <1>1, <1>2, PTL DEF Spec

-----------------------------------------------------------------------------
(* The division of RsaBlock is long division *)

\* What the variables of LongDivision stand for.
Dividend ==
    IF prime = "none" THEN 0
    ELSE Value(c, key.ndigits) * Power(2, ShiftOf(prime))

\* The quotient digit that is found and not yet stored.
Pending == IF pc = "correct" THEN ai * Weight ELSE 0

\* The phase of the division.
Phase == IF pc = "estimate" THEN "digit"
         ELSE IF pc = "correct" THEN "correct" ELSE "idle"

\* The number of an array whose top digit has the index L.
LEMMA TopNumber ==
    ASSUME NEW L \in Nat, NEW x \in [0..L -> Digit]
    PROVE  Number(x) = Value(x, L + 1) /\ Value(x, L + 1) \in Nat
<1>1. L + 1 \in Nat /\ (L + 1) - 1 = L
  OBVIOUS
<1>2. x \in [0..((L + 1) - 1) -> Digit]
  BY <1>1
<1>3. Number(x) = Value(x, L + 1)
  BY <1>1, <1>2, NumberFacts
<1>4. HasDigits(x, L + 1)
  BY <1>1 DEF HasDigits
<1> QED
  BY <1>1, <1>3, <1>4, ValueFacts

\* The number of an array of n digits.
LEMMA SizedNumber ==
    ASSUME NEW n \in Nat, NEW x \in [0..(n - 1) -> Digit]
    PROVE  Number(x) = Value(x, n) /\ Value(x, n) \in Nat
<1>1. HasDigits(x, n)
  BY DEF HasDigits
<1> QED
  BY <1>1, NumberFacts, ValueFacts

\* The numbers of digits of a division.
LEMMA SizesOf ==
    ASSUME RsaInv, prime # "none"
    PROVE  Top \in Nat /\ ddigits \in Nat \ {0} /\ cdigits \in Nat
<1>1. prime \in {"p", "q"} /\ key \in Keys /\ in \in Bytes
  BY DEF RsaInv, Plain
<1> QED
  BY <1>1, StartFacts, BlockFacts DEF Top, ddigits

\* A block handed in has no division under way.
LEMMA InitRefines ==
    ASSUME Init PROVE Abstract!Init
<1>1. /\ prime = "none" /\ cc = << >> /\ dd = << >> /\ a = << >> /\ i < 0
      /\ pc = "compare" /\ corrections = 0
  BY DEF Init
<1>2. Number(dd) = 0 /\ Number(a) = 0 /\ Number(cc) = 0
  BY <1>1, NumberOfNothing
<1>3. Weight = 1
  BY <1>1 DEF Weight
<1> QED
  BY <1>1, <1>2, <1>3 DEF Abstract!Init

\* bn_div normalises: a division starts.
LEMMA StartRefines ==
    ASSUME RsaInv, StartDivision PROVE Abstract!Start
<1> DEFINE d == IF prime = "none" THEN "p" ELSE "q"
           n == DigitsOf(d)
           L == TopOf(cdigits, n)
           V == Value(c, key.ndigits)
           P == Power(2, ShiftOf(d))
<1>1. /\ pc = "divide" /\ pc' = "estimate"
      /\ key' = key /\ in' = in
      /\ prime' = d
      /\ dd' = bn_shift_l(key[d], ShiftOf(d), n).digits
      /\ cc' = Normalised(c, ShiftOf(d), cdigits, n)
      /\ i' = cdigits - n /\ a' = Zero(cdigits)
      /\ corrections' = 0
  BY DEF StartDivision
<1>2. d \in {"p", "q"} /\ d # "none" /\ key \in Keys /\ in \in Bytes
  BY DEF RsaInv, Plain
<1>3. c' = c /\ cdigits' = cdigits
  BY <1>1, SameBlock
<1>4. cdigits \in Nat /\ HasDigits(c, key.ndigits) /\ key.ndigits \in Nat
  BY <1>2, BlockFacts, KeyFacts
<1> HIDE DEF d
<1>5. /\ n \in Nat \ {0} /\ L \in Nat
      /\ cc' \in [0..L -> Digit] /\ dd' \in [0..(n - 1) -> Digit]
      /\ Normal(dd', n) /\ Remains(cc', i', dd', n, L)
      /\ Value(cc', L + 1) = V * P
  BY <1>1, <1>2, StartFacts
<1>7. V * P \in Nat
  <2>1. ShiftOf(d) \in Nat
    BY <1>2, PrimeFacts DEF ShiftOf, DigitsOf
  <2>2. V \in Nat /\ P \in Nat
    BY <1>4, <2>1, ValueFacts, PowerFacts
  <2> HIDE DEF V, P
  <2> QED
    BY <2>2
<1>8. ShiftOf(prime)' = ShiftOf(d)
  BY <1>1, <1>3 DEF ShiftOf, DigitsOf
<1>9. Dividend' = V * P
  BY <1>1, <1>2, <1>3, <1>8 DEF Dividend
<1> HIDE DEF n, L
<1>10. a' \in [0..(cdigits - 1) -> Digit] /\ \A k \in 0..(cdigits - 1) :
         a'[k] = 0
  BY <1>1, <1>4, DigitsAreNumbers DEF Zero
<1>11. Number(cc') = V * P /\ Number(dd') = Value(dd', n)
       /\ Number(a') = Value(a', cdigits)
  BY <1>4, <1>5, <1>10, TopNumber, SizedNumber
<1>12. Number(a') = 0
  <2>1. HasDigits(a', cdigits) /\ 0 \in Nat /\ 0 <= cdigits
    BY <1>4, <1>10 DEF HasDigits
  <2>2. Value(a', cdigits) = Value(a', 0)
    BY <1>4, <1>10, <2>1, LeadingZeros
  <2>3. Value(a', 0) = 0
    BY <1>4, <2>1, ValueFacts
  <2> QED
    BY <1>11, <2>2, <2>3
<1>13. Value(dd', n) \in Nat \ {0}
  BY <1>5, NormalFacts
<1>14. Weight' \in Nat \ {0} /\ V * P < Value(dd', n) * Weight'
  <2>1. CASE i' >= 0
    <3>1. Ready(cc', i', dd', n, L)
      BY <1>5, <2>1 DEF Remains
    <3>2. Weight' = Power(Base, i' + 1)
      <4>1. i' \in Int
        BY <1>1, <1>4, <1>5
      <4> QED
        BY <1>1, <2>1, <4>1 DEF Weight
    <3>3. i' + 1 \in Nat
      <4>1. i' \in Nat
        BY <3>1, Zenon DEF Ready
      <4>2. \A x \in Nat : x + 1 \in Nat
        OBVIOUS
      <4> QED
        BY <4>1, <4>2, Zenon
    <3>4. Power(Base, i' + 1) \in Nat \ {0}
      BY <3>3, BignumAssumption, PowerPositive
    <3>5. Value(cc', L + 1) < Value(dd', n) * Power(Base, i' + 1)
      BY <3>1 DEF Ready
    <3> QED
      BY <1>5, <3>2, <3>4, <3>5
  <2>2. CASE ~(i' >= 0)
    <3>1. i' < 0
      BY <1>1, <1>4, <1>5, <2>2
    <3>2. Weight' = 1
      BY <3>1 DEF Weight
    <3>3. Value(cc', L + 1) < Value(dd', n)
      BY <1>5, <2>2 DEF Remains
    <3> QED
      BY <1>5, <1>13, <3>2, <3>3
  <2> QED
    BY <2>1, <2>2
<1> HIDE DEF V, P
<1>15. /\ Dividend' \in Nat /\ Number(dd') \in Nat \ {0}
       /\ Weight' \in Nat \ {0}
       /\ Dividend' < Number(dd') * Weight'
       /\ Number(a') + Pending' = 0 /\ Number(cc') = Dividend'
       /\ corrections' = 0 /\ Phase = "idle" /\ Phase' = "digit"
  BY <1>1, <1>7, <1>9, <1>11, <1>12, <1>13, <1>14 DEF Pending, Phase
<1> QED
  BY <1>15 DEF Abstract!Start, Dividend, Pending, Phase

\* Steps of bn_div leave the dividend alone.
LEMMA SameDividend ==
    ASSUME key' = key, in' = in, prime' = prime PROVE Dividend' = Dividend
<1>1. c' = c
  BY SameBlock
<1>2. ShiftOf(prime)' = ShiftOf(prime)
  BY DEF ShiftOf, DigitsOf
<1> QED
  BY <1>1, <1>2 DEF Dividend

\* The estimate on arrays is the estimate on numbers.
LEMMA EstimateRefines ==
    ASSUME RsaInv, EstimateDigit PROVE Abstract!EstimateDigit
<1> DEFINE n == ddigits
           L == Top
           u == Power(Base, i)
           D == Value(dd, n)
           V == Value(cc, L + 1)
           W == Value(cc', L + 1)
<1>1. /\ pc = "estimate" /\ pc' = "correct" /\ i >= 0
      /\ ai' = Estimate(cc, i, dd, n)
      /\ cc' = SubtractEstimate(cc, i, ai', dd, n)
      /\ corrections' = 0
      /\ key' = key /\ in' = in /\ prime' = prime /\ dd' = dd /\ i' = i
           /\ a' = a
  BY DEF EstimateDigit
<1>2. /\ prime # "none" /\ Remains(cc, i, dd, n, L)
      /\ cc \in [0..L -> Digit] /\ dd \in [0..(n - 1) -> Digit]
      /\ a \in [0..(cdigits - 1) -> Digit]
  BY <1>1 DEF RsaInv, Phases, Divisions
<1>3. Ready(cc, i, dd, n, L)
  BY <1>1, <1>2 DEF Remains
<1>4. /\ L \in Nat /\ n \in Nat /\ i \in Nat /\ cdigits \in Nat
      /\ u \in Nat \ {0} /\ Power(Base, i + 1) = Base * u
  BY <1>2, <1>3, SizesOf, ReadyFacts
<1>5. /\ ai' \in Digit /\ cc' \in [0..L -> Digit]
      /\ ai' * (D * u) <= V /\ V < (ai' + 3) * (D * u)
      /\ W = V - ai' * (D * u)
  BY <1>1, <1>3, EstimateStep
<1>6. /\ Number(cc) = V /\ Number(cc') = W /\ Number(dd) = D
      /\ Number(a) \in Nat
  BY <1>2, <1>4, <1>5, TopNumber, SizedNumber
<1>7. Weight = Power(Base, i + 1) /\ Weight' = u
  BY <1>1, <1>4 DEF Weight
<1>8. u * Base = Weight
  <2> HIDE DEF u
  <2> QED
    BY <1>4, <1>7, BignumAssumption
<1>9. Dividend' = Dividend
  BY <1>1, SameDividend
<1>10. Pending = 0 /\ Pending' = ai' * u /\ Phase = "digit"
         /\ Phase' = "correct"
  BY <1>1, <1>7 DEF Pending, Phase
<1> DEFINE w == u
<1> HIDE DEF u, D, V, W
<1>11. /\ Weight' \in Nat \ {0} /\ Weight' * Base = Weight
       /\ ai' \in 0..(Base - 1)
       /\ ai' * (Number(dd) * Weight') <= Number(cc)
       /\ Number(cc) < (ai' + 3) * (Number(dd) * Weight')
       /\ Number(a') + Pending' = (Number(a) + Pending) + ai' * Weight'
       /\ Number(cc') = Number(cc) - ai' * (Number(dd) * Weight')
       /\ Number(dd') = Number(dd)
  <2>1. Number(a) + Pending = Number(a)
    BY <1>6, <1>10
  <2> QED
    BY <1>1, <1>4, <1>5, <1>6, <1>7, <1>8, <1>10, <2>1 DEF Digit
<1> QED
  BY <1>1, <1>9, <1>10, <1>11, Zenon
    DEF Abstract!EstimateDigit, Dividend, Pending, Phase

\* The correction on arrays is the correction on numbers.
LEMMA CorrectRefines ==
    ASSUME RsaInv, CorrectDigit PROVE Abstract!CorrectDigit
<1> DEFINE n == ddigits
           L == Top
           u == Power(Base, i)
           D == Value(dd, n)
           V == Value(cc, L + 1)
           W == Value(cc', L + 1)
<1>1. /\ pc = "correct" /\ pc' = "correct" /\ TooSmall(cc, i, dd, n)
      /\ ai' = Wrap(ai + 1)
      /\ cc' = SubtractOnce(cc, i, dd, n)
      /\ corrections' = corrections + 1
      /\ key' = key /\ in' = in /\ prime' = prime /\ dd' = dd /\ i' = i
           /\ a' = a
  BY DEF CorrectDigit
<1>2. /\ prime # "none" /\ UnderWay(cc, i, dd, n, L, ai)
      /\ cc \in [0..L -> Digit] /\ dd \in [0..(n - 1) -> Digit]
      /\ a \in [0..(cdigits - 1) -> Digit]
  BY <1>1 DEF RsaInv, Phases, Divisions
<1>3. Ready(cc, i, dd, n, L) /\ ai \in Nat
  BY <1>2, DigitsAreNumbers DEF UnderWay
<1>4. /\ L \in Nat /\ n \in Nat /\ i \in Nat /\ cdigits \in Nat
      /\ u \in Nat
  BY <1>2, <1>3, SizesOf, ReadyFacts
<1>5. /\ ai' = ai + 1 /\ V >= D * u /\ W = V - D * u
      /\ UnderWay(cc', i, dd, n, L, ai')
  BY <1>1, <1>2, CorrectFacts
<1>6. cc' \in [0..L -> Digit]
  BY <1>5 DEF UnderWay, Ready
<1>7. /\ Number(cc) = V /\ Number(cc') = W /\ Number(dd) = D
      /\ Number(a) \in Nat
  BY <1>2, <1>4, <1>6, TopNumber, SizedNumber
<1>8. Weight = u /\ Weight' = u
  BY <1>1, <1>4 DEF Weight
<1>9. Dividend' = Dividend
  BY <1>1, SameDividend
<1>10. Pending = ai * u /\ Pending' = (ai + 1) * u
       /\ Phase = "correct" /\ Phase' = "correct"
  BY <1>1, <1>5, <1>8 DEF Pending, Phase
<1>11. Number(a') + Pending' = (Number(a) + Pending) + Weight
  <2> DEFINE v == Number(a)
  <2> HIDE DEF u, v
  <2>1. (ai + 1) * u = ai * u + u /\ ai * u \in Nat /\ v \in Nat
    BY <1>3, <1>4, <1>7 DEF v
  <2>2. v + (ai + 1) * u = (v + ai * u) + u
    BY <1>4, <2>1
  <2> QED
    BY <1>1, <1>8, <1>10, <2>2 DEF v
<1> HIDE DEF u, D, V, W
<1>12. /\ Number(cc) >= Number(dd) * Weight
       /\ Number(cc') = Number(cc) - Number(dd) * Weight
       /\ Number(dd') = Number(dd) /\ Weight' = Weight
       /\ Phase' = Phase
  BY <1>1, <1>5, <1>7, <1>8, <1>10
<1> QED
  BY <1>1, <1>9, <1>10, <1>11, <1>12, Zenon
    DEF Abstract!CorrectDigit, Dividend, Pending, Phase

\* Storing a digit on arrays settles the digit on numbers.
LEMMA SettleRefines ==
    ASSUME RsaInv, SettleDigit PROVE Abstract!SettleDigit
<1> DEFINE n == ddigits
           L == Top
           u == Power(Base, i)
           D == Value(dd, n)
           V == Value(cc, L + 1)
<1>1. /\ pc = "correct" /\ pc' = "estimate" /\ ~TooSmall(cc, i, dd, n)
      /\ a' = [a EXCEPT ![i] = ai] /\ i' = i - 1
      /\ key' = key /\ in' = in /\ prime' = prime /\ cc' = cc /\ dd' = dd
      /\ corrections' = corrections
  BY DEF SettleDigit
<1>2. /\ prime # "none" /\ UnderWay(cc, i, dd, n, L, ai)
      /\ cc \in [0..L -> Digit] /\ dd \in [0..(n - 1) -> Digit]
      /\ a \in [0..(cdigits - 1) -> Digit] /\ i <= cdigits - n
      /\ \A k \in 0..(cdigits - 1) : k <= i => a[k] = 0
  BY <1>1 DEF RsaInv, Phases, Divisions
<1>3. Ready(cc, i, dd, n, L) /\ ai \in Digit /\ ai \in Nat
  BY <1>2, DigitsAreNumbers DEF UnderWay
<1>4. /\ L \in Nat /\ n \in Nat \ {0} /\ i \in Nat /\ cdigits \in Nat
      /\ u \in Nat
  BY <1>2, <1>3, SizesOf, ReadyFacts
<1>5. V < D * u
  BY <1>1, <1>2, SettleFacts
<1>6. i \in 0..(cdigits - 1) /\ a[i] = 0
  <2>1. i \in 0..(cdigits - 1)
    <3> HIDE DEF n
    <3> QED
      BY <1>2, <1>4
  <2> QED
    BY <1>2, <1>4, <2>1
<1>7. /\ a' \in [0..(cdigits - 1) -> Digit]
      /\ Value(a', cdigits) = Value(a, cdigits) + ai * u
  <2>1. /\ a' \in [0..(cdigits - 1) -> Digit] /\ a'[i] = ai
        /\ \A k \in 0..(cdigits - 1) : k # i => a'[k] = a[k]
    BY <1>1, <1>2, <1>3, <1>6
  <2>2. a \in [0..(cdigits - 1) -> Digit]
    BY <1>2
  <2> HIDE DEF u
  <2>3. Value(a', cdigits) = Value(a, cdigits) + ai * Power(Base, i)
    <3> DEFINE y == a'
               m == cdigits
    <3>1. /\ m \in Nat /\ a \in [0..(m - 1) -> Digit] /\ i \in 0..(m - 1)
          /\ ai \in Digit /\ a[i] = 0
          /\ y \in [0..(m - 1) -> Digit] /\ y[i] = ai
          /\ \A k \in 0..(m - 1) : k # i => y[k] = a[k]
      BY <1>3, <1>4, <1>6, <2>1, <2>2, Zenon
    <3> HIDE DEF y, m
    <3>2. Value(y, m) = Value(a, m) + ai * Power(Base, i)
      BY <3>1, SetDigit
    <3> QED
      BY <3>2 DEF y, m
  <2> QED
    BY <2>1, <2>3 DEF u
<1>8. /\ Number(cc) = V /\ Number(dd) = D
      /\ Number(a) = Value(a, cdigits) /\ Number(a') = Value(a', cdigits)
      /\ Number(a) \in Nat /\ Number(a') \in Nat
  BY <1>2, <1>4, <1>7, TopNumber, SizedNumber
<1>9. Weight = u /\ Weight' = u
  <2>1. Weight = u
    BY <1>1, <1>4 DEF Weight
  <2>2. CASE i = 0
    <3>1. Power(Base, 0) = 1
      BY BignumAssumption, PowerFacts
    <3>2. i' < 0
      BY <1>1, <2>2
    <3> QED
      BY <2>1, <2>2, <3>1, <3>2 DEF Weight
  <2>3. CASE i # 0
    <3>1. i' + 1 = i /\ ~(i' < 0)
      BY <1>1, <1>4, <2>3
    <3> QED
      BY <1>1, <2>1, <3>1 DEF Weight
  <2> QED
    BY <2>1, <2>2, <2>3
<1>10. Dividend' = Dividend
  BY <1>1, SameDividend
<1>11. Pending = ai * u /\ Pending' = 0
       /\ Phase = "correct" /\ Phase' = "digit"
  BY <1>1, <1>9 DEF Pending, Phase
<1>12. Number(a') + Pending' = Number(a) + Pending
  <2>1. Number(a') = Number(a) + ai * u
    BY <1>7, <1>8
  <2>2. Number(a') + 0 = Number(a')
    BY <1>8
  <2> QED
    BY <1>11, <2>1, <2>2
<1> HIDE DEF u, D, V
<1>13. /\ Number(cc) < Number(dd) * Weight
       /\ Number(cc') = Number(cc) /\ Number(dd') = Number(dd)
       /\ Weight' = Weight
  BY <1>1, <1>5, <1>8, <1>9
<1> QED
  BY <1>1, <1>10, <1>11, <1>12, <1>13, Zenon
    DEF Abstract!SettleDigit, Dividend, Pending, Phase

\* bn_div ends as the division on numbers does.
LEMMA FinishRefines ==
    ASSUME RsaInv, FinishDivision PROVE Abstract!Finish
<1>1. /\ pc = "estimate" /\ i < 0 /\ pc' \in {"divide", "exponentiate"}
      /\ key' = key /\ in' = in /\ prime' = prime /\ cc' = cc /\ dd' = dd
      /\ i' = i /\ a' = a /\ corrections' = corrections
  BY DEF FinishDivision, division
<1>2. Weight = 1 /\ Weight' = 1
  BY <1>1 DEF Weight
<1>3. Dividend' = Dividend
  BY <1>1, SameDividend
<1>4. Pending = 0 /\ Pending' = 0 /\ Phase = "digit" /\ Phase' = "idle"
  BY <1>1 DEF Pending, Phase
<1>5. /\ Number(a') + Pending' = Number(a) + Pending
      /\ Number(cc') = Number(cc) /\ Number(dd') = Number(dd)
      /\ Weight' = Weight
  BY <1>1, <1>2, <1>4
<1> QED
  BY <1>1, <1>2, <1>3, <1>4, <1>5, Zenon
    DEF Abstract!Finish, Dividend, Pending, Phase

\* The other steps leave bn_div's arrays alone.
LEMMA OthersStutter ==
    ASSUME RsaInv, key' = key, in' = in, UNCHANGED division,
           pc \notin {"estimate", "correct"}, pc' \notin {"estimate", "correct"}
    PROVE  UNCHANGED Abstract!vars
<1>1. /\ prime' = prime /\ cc' = cc /\ dd' = dd /\ i' = i /\ a' = a
      /\ corrections' = corrections
  BY DEF division
<1>2. i < 0
  <2>1. CASE prime = "none"
    BY <2>1 DEF RsaInv, Untouched
  <2>2. CASE prime # "none"
    BY <2>2 DEF RsaInv, Divisions
  <2> QED
    BY <2>1, <2>2
<1>3. Weight = 1 /\ Weight' = 1
  BY <1>1, <1>2 DEF Weight
<1>4. Dividend' = Dividend
  BY <1>1, SameDividend
<1>5. Pending = 0 /\ Pending' = 0 /\ Phase = "idle" /\ Phase' = "idle"
  BY DEF Pending, Phase
<1>6. /\ Number(a') + Pending' = Number(a) + Pending
      /\ Number(cc') = Number(cc) /\ Number(dd') = Number(dd)
      /\ Weight' = Weight /\ Phase' = Phase
  BY <1>1, <1>3, <1>5
<1> QED
  BY <1>1, <1>4, <1>6, Zenon DEF Abstract!vars, Dividend, Pending, Phase

\* What stands still in RsaBlock stands still in LongDivision.
LEMMA StutterRefines ==
    ASSUME UNCHANGED vars PROVE UNCHANGED Abstract!vars
<1>1. /\ key' = key /\ in' = in /\ prime' = prime /\ cc' = cc /\ dd' = dd
      /\ i' = i /\ a' = a /\ ai' = ai /\ corrections' = corrections /\ pc' = pc
  BY DEF vars
<1>2. Dividend' = Dividend
  BY <1>1, SameDividend
<1>3. Weight' = Weight
  BY <1>1 DEF Weight
<1>4. Pending' = Pending /\ Phase' = Phase
  BY <1>1, <1>3 DEF Pending, Phase
<1>5. /\ Number(a') + Pending' = Number(a) + Pending
      /\ Number(cc') = Number(cc) /\ Number(dd') = Number(dd)
  BY <1>1, <1>4
<1> QED
  BY <1>1, <1>2, <1>3, <1>4, <1>5, Zenon
     DEF Abstract!vars, Dividend, Pending, Phase

\* Every step of RsaBlock is one of LongDivision, or leaves it alone.
LEMMA StepRefines ==
    ASSUME RsaInv, [Next]_vars PROVE [Abstract!Next]_(Abstract!vars)
<1>1. CASE StartDivision
  BY <1>1, StartRefines DEF Abstract!Next
<1>2. CASE EstimateDigit
  BY <1>2, EstimateRefines DEF Abstract!Next
<1>3. CASE CorrectDigit
  BY <1>3, CorrectRefines DEF Abstract!Next
<1>4. CASE SettleDigit
  BY <1>4, SettleRefines DEF Abstract!Next
<1>5. CASE FinishDivision
  BY <1>5, FinishRefines DEF Abstract!Next
<1>6. CASE Compare \/ Exponentiate \/ Subtract \/ Combine \/ Public
  <2>1. /\ key' = key /\ in' = in /\ UNCHANGED division
        /\ pc \notin {"estimate", "correct"}
             /\ pc' \notin {"estimate", "correct"}
    BY <1>6 DEF Compare, Exponentiate, Subtract, Combine, Public
  <2> QED
    BY <2>1, OthersStutter
<1>7. CASE Terminated \/ UNCHANGED vars
  <2>1. UNCHANGED vars
    BY <1>7 DEF Terminated
  <2> QED
    BY <2>1, StutterRefines
<1> QED
  BY <1>1, <1>2, <1>3, <1>4, <1>5, <1>6, <1>7 DEF Next

\* Every step of bn_div on arrays is a step of long division on numbers: no
\* estimate is too large, no borrow or carry is lost, no digit overflows.
THEOREM RsaDivides == Spec => ImplementsLongDivision
<1>1. RsaInv /\ [Next]_vars => RsaInv'
  BY RsaInvKept
<1>2. RsaInv /\ [Next]_vars => [Abstract!Next]_(Abstract!vars)
  BY StepRefines
<1>3. Init => Abstract!Init
  BY InitRefines
<1> QED
  BY RsaStarts, <1>1, <1>2, <1>3, PTL
     DEF Spec, ImplementsLongDivision, Abstract!Spec

-----------------------------------------------------------------------------
(* Fermat's little theorem, by the binomial theorem *)

\* Congruent numbers have congruent sums.
LEMMA CongPlus ==
    ASSUME NEW x \in Int, NEW y \in Int, NEW u \in Int, NEW v \in Int,
           NEW D \in Nat, Cong(x, y, D), Cong(u, v, D)
    PROVE  Cong(x + u, y + v, D)
<1>1. PICK f \in Int : x = f * D + y
  BY DEF Cong
<1>2. PICK g \in Int : u = g * D + v
  BY DEF Cong
<1>3. (f + g) * D = f * D + g * D /\ f * D \in Int /\ g * D \in Int
  OBVIOUS
<1>4. x + u = (f + g) * D + (y + v) /\ f + g \in Int
  BY <1>1, <1>2, <1>3
<1> QED
  BY <1>4 DEF Cong

\* Congruence is symmetric.
LEMMA CongSym ==
    ASSUME NEW x \in Int, NEW y \in Int, NEW D \in Nat, Cong(x, y, D)
    PROVE  Cong(y, x, D)
<1>1. PICK f \in Int : x = f * D + y
  BY DEF Cong
<1> DEFINE g == 0 - f
<1>2. g \in Int /\ g * D = 0 - f * D /\ f * D \in Int
  OBVIOUS
<1>3. y = g * D + x
  BY <1>1, <1>2
<1> HIDE DEF g
<1> QED
  BY <1>2, <1>3 DEF Cong

\* The multiples of a number.
LEMMA CongMultiple ==
    ASSUME NEW x \in Int, NEW D \in Nat
    PROVE  Cong(x * D, 0, D)
<1>1. x * D = x * D + 0
  OBVIOUS
<1> QED
  BY <1>1 DEF Cong

\* The coefficients of the first powers of a binomial.
Pascal(f, N) ==
    /\ f \in [0..N -> [Nat -> Nat]]
    /\ \A k \in Nat : f[0][k] = IF k = 0 THEN 1 ELSE 0
    /\ \A n \in 1..N : /\ f[n][0] = f[n - 1][0]
                       /\ \A k \in Nat :
                            f[n][k + 1] = f[n - 1][k + 1] + f[n - 1][k]

\* Pascal's triangle exists.
LEMMA PascalExists ==
    ASSUME NEW N \in Nat PROVE \E f : Pascal(f, N)
<1> DEFINE S == [Nat -> Nat]
           First == [k \in Nat |-> IF k = 0 THEN 1 ELSE 0]
           Row(g) == [k \in Nat |-> IF k = 0 THEN g[0] ELSE g[k] + g[k - 1]]
           F == [y \in S \X (1..N) |-> Row(y[1])]
<1>1. First \in S
  OBVIOUS
<1>2. \A g \in S : /\ Row(g) \in S /\ Row(g)[0] = g[0]
                   /\ \A k \in Nat : Row(g)[k + 1] = g[k + 1] + g[k]
  <2>1. SUFFICES ASSUME NEW g \in S
                 PROVE  /\ Row(g) \in S /\ Row(g)[0] = g[0]
                        /\ \A k \in Nat : Row(g)[k + 1] = g[k + 1] + g[k]
    OBVIOUS
  <2>2. \A k \in Nat : k # 0 => k - 1 \in Nat
    OBVIOUS
  <2>3. Row(g) \in S
    <3>1. ASSUME NEW k \in Nat
          PROVE  (IF k = 0 THEN g[0] ELSE g[k] + g[k - 1]) \in Nat
      BY <2>2
    <3> QED
      BY <3>1
  <2>4. ASSUME NEW k \in Nat PROVE Row(g)[k + 1] = g[k + 1] + g[k]
    <3>1. k + 1 \in Nat /\ k + 1 # 0 /\ (k + 1) - 1 = k
      OBVIOUS
    <3> QED
      BY <3>1
  <2> QED
    BY <2>3, <2>4
<1> HIDE DEF Row, First
<1>3. F \in [S \X (1..N) -> S] /\ \A g \in S, n \in 1..N : F[<<g, n>>] = Row(g)
  BY <1>2
<1> HIDE DEF F, S
<1>4. PICK f \in [0..N -> S] : IsLoop(f, N, First, F)
  BY <1>1, <1>3, LoopExists
<1>5. \A n \in 1..N : n - 1 \in 0..N
  BY SMT
<1>6. f[0] = First /\ \A n \in 1..N : f[n] = Row(f[n - 1]) /\ f[n - 1] \in S
  BY <1>3, <1>4, <1>5 DEF IsLoop
<1>7. \A n \in 1..N : /\ f[n][0] = f[n - 1][0]
                      /\ \A k \in Nat :
                           f[n][k + 1] = f[n - 1][k + 1] + f[n - 1][k]
  BY <1>2, <1>6
<1>8. \A k \in Nat : f[0][k] = IF k = 0 THEN 1 ELSE 0
  BY <1>6 DEF First
<1>9. f \in [0..N -> [Nat -> Nat]]
  BY <1>4 DEF S
<1> QED
  BY <1>7, <1>8, <1>9 DEF Pascal

\* A row of Pascal's triangle holds numbers.
LEMMA PascalRow ==
    ASSUME NEW N \in Nat, NEW f, Pascal(f, N), NEW n \in 0..N
    PROVE  f[n] \in [Nat -> Nat] /\ \A k \in Nat : f[n][k] \in Nat
BY DEF Pascal

\* Both ends of a row are ones, and zeros follow.
LEMMA PascalEdges ==
    ASSUME NEW N \in Nat, NEW f, Pascal(f, N)
    PROVE  \A n \in 0..N : /\ f[n][0] = 1 /\ f[n][n] = 1
                           /\ \A k \in Nat : k > n => f[n][k] = 0
<1> DEFINE Good(n) == /\ f[n][0] = 1 /\ f[n][n] = 1
                      /\ \A k \in Nat : k > n => f[n][k] = 0
           S == {n \in 0..N : Good(n)}
<1>1. 0 \in S
  <2>1. \A k \in Nat : f[0][k] = IF k = 0 THEN 1 ELSE 0
    BY DEF Pascal
  <2>2. \A k \in Nat : k > 0 => k # 0
    OBVIOUS
  <2>3. 0 \in 0..N
    OBVIOUS
  <2> QED
    BY <2>1, <2>2, <2>3
<1>2. ASSUME NEW n \in 0..(N - 1), n \in S PROVE n + 1 \in S
  <2>1. n + 1 \in 1..N /\ (n + 1) - 1 = n /\ n \in Nat /\ n + 1 \in 0..N
    BY SMT
  <2>2. Good(n)
    BY <1>2
  <2>3. /\ f[n + 1][0] = f[n][0]
        /\ \A k \in Nat : f[n + 1][k + 1] = f[n][k + 1] + f[n][k]
    BY <2>1 DEF Pascal
  <2>4. f[n + 1][n + 1] = 1
    <3>1. f[n][n + 1] = 0
      BY <2>1, <2>2
    <3> QED
      BY <2>1, <2>2, <2>3, <3>1
  <2>5. ASSUME NEW k \in Nat, k > n + 1 PROVE f[n + 1][k] = 0
    <3> DEFINE j == k - 1
    <3>1. j \in Nat /\ j + 1 = k /\ j > n /\ k > n
      BY <2>1, <2>5
    <3> HIDE DEF j
    <3>2. f[n][j] = 0 /\ f[n][k] = 0
      BY <2>2, <3>1
    <3>3. f[n + 1][j + 1] = f[n][j + 1] + f[n][j]
      BY <2>3, <3>1
    <3> QED
      BY <3>1, <3>2, <3>3
  <2>6. Good(n + 1)
    BY <2>2, <2>3, <2>4, <2>5
  <2> HIDE DEF Good
  <2> QED
    BY <2>1, <2>6
<1> HIDE DEF S
<1>3. \A n \in 0..N : n \in S
  BY <1>1, <1>2, BoundedInduction
<1> QED
  BY <1>3 DEF S

\* The coefficients of a row by those of the row before.
LEMMA PascalAbsorbs ==
    ASSUME NEW N \in Nat, NEW f, Pascal(f, N)
    PROVE  \A n \in 0..(N - 1) : \A k \in Nat :
             (k + 1) * f[n + 1][k + 1] = (n + 1) * f[n][k]
<1> DEFINE Good(n) == \A k \in Nat :
      (k + 1) * f[n + 1][k + 1] = (n + 1) * f[n][k]
           S == {n \in 0..(N - 1) : Good(n)}
<1>1. SUFFICES ASSUME N # 0 PROVE \A n \in 0..(N - 1) : Good(n)
  OBVIOUS
<1>2. \A n \in 0..(N - 1) :
         /\ n \in 0..N /\ n + 1 \in 1..N /\ n + 1 \in 0..N /\ (n + 1) - 1 = n
         /\ f[n + 1][0] = f[n][0] /\ f[n][0] = 1
         /\ \A k \in Nat : /\ f[n + 1][k + 1] = f[n][k + 1] + f[n][k]
                           /\ f[n][k] \in Nat /\ f[n + 1][k] \in Nat
  <2>1. SUFFICES ASSUME NEW n \in 0..(N - 1)
                 PROVE  /\ n \in 0..N /\ n + 1 \in 1..N /\ n + 1 \in 0..N
                        /\ (n + 1) - 1 = n
                        /\ f[n + 1][0] = f[n][0] /\ f[n][0] = 1
                        /\ \A k \in Nat : /\ f[n + 1][k + 1] = f[n][k + 1] + f[n][k]
                                          /\ f[n][k] \in Nat
                                               /\ f[n + 1][k] \in Nat
    OBVIOUS
  <2>2. n \in 0..N /\ n + 1 \in 1..N /\ n + 1 \in 0..N /\ (n + 1) - 1 = n
    BY SMT
  <2>3. f[n][0] = 1
    BY <2>2, PascalEdges
  <2>4. /\ f[n + 1][0] = f[n][0]
        /\ \A k \in Nat : f[n + 1][k + 1] = f[n][k + 1] + f[n][k]
    BY <2>2 DEF Pascal
  <2>5. \A k \in Nat : f[n][k] \in Nat /\ f[n + 1][k] \in Nat
    BY <2>2, PascalRow
  <2> QED
    BY <2>2, <2>3, <2>4, <2>5
<1>3. 0 \in S
  <2>1. 0 \in 0..(N - 1) /\ 0 + 1 = 1
    BY <1>1
  <2>2. \A k \in Nat : f[0][k] = IF k = 0 THEN 1 ELSE 0
    BY DEF Pascal
  <2>3. ASSUME NEW k \in Nat PROVE (k + 1) * f[0 + 1][k + 1] = (0 + 1) * f[0][k]
    <3>1. f[0 + 1][k + 1] = f[0][k + 1] + f[0][k] /\ f[0][k] \in Nat
      BY <1>2, <2>1
    <3>2. k + 1 # 0 /\ k + 1 \in Nat
      OBVIOUS
    <3>3. f[0][k + 1] = 0
      BY <2>2, <3>2
    <3>4. CASE k = 0
      <4>1. f[0][k] = 1
        BY <2>2, <3>4
      <4> QED
        BY <3>1, <3>3, <3>4, <4>1
    <3>5. CASE k # 0
      <4>1. f[0][k] = 0
        BY <2>2, <3>5
      <4>2. (k + 1) * 0 = 0
        OBVIOUS
      <4> QED
        BY <3>1, <3>3, <4>1, <4>2
    <3> QED
      BY <3>4, <3>5
  <2> QED
    BY <2>1, <2>3
<1>4. ASSUME NEW n \in 0..((N - 1) - 1), n \in S PROVE n + 1 \in S
  <2> DEFINE m == n + 1
  <2>1. n \in 0..(N - 1) /\ m \in 0..(N - 1) /\ n \in Nat /\ m = n + 1
          /\ m \in Nat
    BY SMT
  <2>2. Good(n)
    BY <1>4
  <2> HIDE DEF m
  <2>3. ASSUME NEW k \in Nat PROVE (k + 1) * f[m + 1][k + 1] = (m + 1) * f[m][k]
    <3>1. /\ f[m + 1][k + 1] = f[m][k + 1] + f[m][k]
          /\ f[m][k + 1] \in Nat /\ f[m][k] \in Nat /\ f[n][k] \in Nat
      <4>1. k + 1 \in Nat
        OBVIOUS
      <4> QED
        BY <1>2, <2>1, <4>1
    <3>2. (k + 1) * f[m][k + 1] = m * f[n][k]
      BY <2>1, <2>2
    <3>3. CASE k = 0
      <4>1. f[m][0] = 1 /\ f[n][0] = 1
        BY <1>2, <2>1
      <4> QED
        BY <2>1, <3>1, <3>2, <3>3, <4>1
    <3>4. CASE k # 0
      <4> DEFINE j == k - 1
      <4>1. j \in Nat /\ j + 1 = k
        BY <3>4
      <4> HIDE DEF j
      <4>2. f[m][j + 1] = f[n][j + 1] + f[n][j] /\ f[n][j] \in Nat
        BY <1>2, <2>1, <4>1
      <4>3. (j + 1) * f[m][j + 1] = m * f[n][j]
        BY <2>1, <2>2, <4>1
      <4> DEFINE A == f[m][k + 1]
                 B == f[m][k]
                 C == f[n][k]
                 E == f[n][j]
      <4>4. /\ A \in Nat /\ B \in Nat /\ C \in Nat /\ E \in Nat
            /\ B = C + E /\ (k + 1) * A = m * C /\ k * B = m * E
            /\ f[m + 1][k + 1] = A + B
        BY <3>1, <3>2, <4>1, <4>2, <4>3
      <4> HIDE DEF A, B, C, E
      <4>5. (k + 1) * (A + B) = (k + 1) * A + (k * B + B)
        BY <4>4
      <4>6. m * C + m * E = m * B
        BY <2>1, <4>4
      <4>7. (m + 1) * B = m * B + B /\ m * B \in Nat /\ m * C \in Nat
              /\ m * E \in Nat
        BY <2>1, <4>4
      <4>8. (k + 1) * (A + B) = (m + 1) * B
        BY <4>4, <4>5, <4>6, <4>7
      <4> QED
        BY <4>4, <4>8 DEF B
    <3> QED
      BY <3>3, <3>4
  <2> QED
    BY <2>1, <2>3 DEF m
<1> HIDE DEF S
<1>5. N - 1 \in Nat
  BY <1>1
<1>6. \A n \in 0..(N - 1) : n \in S
  BY <1>3, <1>4, <1>5, BoundedInduction
<1> QED
  BY <1>6 DEF S

\* The value at x of the polynomial with the first n coefficients of h.
Poly(h, x, n) ==
    LET s[k \in 0..n] ==
            IF k = 0 THEN 0 ELSE s[k - 1] + h[k - 1] * Power(x, k - 1)
    IN  s[n]

\* The sums f by which the polynomial of n coefficients h is evaluated at x.
PolySums(f, h, x, n) ==
    /\ Poly(h, x, n) = f[n] /\ f[0] = 0
    /\ \A k \in 1..n : f[k] = f[k - 1] + h[k - 1] * Power(x, k - 1)
    /\ \A k \in 0..n : f[k] \in Nat

\* The sums of a polynomial exist.
LEMMA PolyLoop ==
    ASSUME NEW n \in Nat, NEW h \in [Nat -> Nat], NEW x \in Nat
    PROVE  \E f : PolySums(f, h, x, n)
<1> DEFINE Add(v, k) == v + h[k - 1] * Power(x, k - 1)
           F == [y \in Nat \X (1..n) |-> Add(y[1], y[2])]
           Is(f) == f = [k \in 0..n |->
                           IF k = 0 THEN 0
                           ELSE f[k - 1] + h[k - 1] * Power(x, k - 1)]
<1>1. \A v \in Nat, k \in 1..n : Add(v, k) \in Nat
  <2>1. SUFFICES ASSUME NEW v \in Nat, NEW k \in 1..n PROVE Add(v, k) \in Nat
    OBVIOUS
  <2>2. k - 1 \in Nat
    BY SMT
  <2>3. h[k - 1] \in Nat
    BY <2>2
  <2>4. Power(x, k - 1) \in Nat
    BY <2>2, PowerFacts
  <2>5. \A u, w \in Nat : v + u * w \in Nat
    OBVIOUS
  <2> QED
    BY <2>3, <2>4, <2>5
<1> HIDE DEF Add
<1>2. F \in [Nat \X (1..n) -> Nat] /\ \A v \in Nat, k \in 1..n :
        F[<<v, k>>] = Add(v, k)
  BY <1>1
<1> HIDE DEF F
<1>3. PICK g \in [0..n -> Nat] : IsLoop(g, n, 0, F)
  <2>1. 0 \in Nat
    OBVIOUS
  <2> QED
    BY <1>2, <2>1, LoopExists
<1>4. /\ \A k \in 1..n : k - 1 \in 0..n /\ k \in 0..n /\ k # 0
      /\ \A k \in 0..n : k = 0 \/ k \in 1..n
      /\ 0 \in 0..n /\ n \in 0..n
  BY SMT, Zenon
<1>5. Is(g)
  <2>1. g[0] = 0 /\ \A k \in 1..n : g[k] = Add(g[k - 1], k)
    BY <1>2, <1>3, <1>4 DEF IsLoop
  <2>2. \A k \in 0..n : g[k] = IF k = 0 THEN 0 ELSE Add(g[k - 1], k)
    BY <1>4, <2>1
  <2>3. g = [k \in 0..n |-> IF k = 0 THEN 0 ELSE Add(g[k - 1], k)]
    BY <1>3, <2>2
  <2> QED
    BY <2>3 DEF Add
<1>6. Poly(h, x, n) = (CHOOSE f : Is(f))[n]
  BY DEF Poly
<1>7. PICK f : Is(f) /\ Poly(h, x, n) = f[n]
  BY <1>5, <1>6
<1>8. f[0] = 0 /\ \A k \in 1..n : f[k] = Add(f[k - 1], k)
  BY <1>4, <1>7 DEF Add
<1>9. f[0] \in Nat /\ \A k \in 1..n : f[k - 1] \in Nat => f[k] \in Nat
  <2>1. f[0] \in Nat
    BY <1>8
  <2> QED
    BY <1>1, <1>8, <2>1, Zenon
<1>10. \A k \in 0..n : f[k] \in Nat
  BY <1>9, LoopType, Zenon
<1> QED
  BY <1>7, <1>8, <1>10 DEF Add, PolySums

\* The value of a polynomial, coefficient by coefficient.
LEMMA PolyFacts ==
    ASSUME NEW n \in Nat, NEW h \in [Nat -> Nat], NEW x \in Nat
    PROVE  /\ Poly(h, x, n) \in Nat /\ Poly(h, x, 0) = 0
           /\ Poly(h, x, n + 1) = Poly(h, x, n) + h[n] * Power(x, n)
<1>1. PICK f : PolySums(f, h, x, n)
  BY PolyLoop
<1>2. PICK g : PolySums(g, h, x, n + 1)
  <2>1. n + 1 \in Nat
    OBVIOUS
  <2> QED
    BY <2>1, PolyLoop
<1>3. Poly(h, x, 0) = 0
  <2>1. 0 \in Nat
    OBVIOUS
  <2>2. PICK e : PolySums(e, h, x, 0)
    BY <2>1, PolyLoop
  <2> QED
    BY <2>2 DEF PolySums
<1>4. \A k \in 1..n : k \in 1..(n + 1)
  BY SMT
<1>5. f[0] = g[0] /\ \A k \in 1..n : f[k - 1] = g[k - 1] => f[k] = g[k]
  BY <1>1, <1>2, <1>4 DEF PolySums
<1>6. \A k \in 0..n : f[k] = g[k]
  BY <1>5, LoopsAgree
<1>7. n \in 0..n /\ n + 1 \in 1..(n + 1) /\ (n + 1) - 1 = n
  BY SMT
<1>8. g[n + 1] = g[n] + h[n] * Power(x, n)
  BY <1>2, <1>7 DEF PolySums
<1>9. Poly(h, x, n) = f[n] /\ f[n] \in Nat /\ Poly(h, x, n + 1) = g[n + 1]
  BY <1>1, <1>2, <1>7 DEF PolySums
<1> QED
  BY <1>3, <1>6, <1>7, <1>8, <1>9

\* A row of Pascal's triangle as a polynomial is the row before times x + 1.
LEMMA NextRow ==
    ASSUME NEW N \in Nat, NEW f, Pascal(f, N), NEW n \in 0..(N - 1),
           NEW x \in Nat,
           NEW K \in Nat
    PROVE  \A k \in 0..K : Poly(f[n + 1], x, k + 1)
                             = Poly(f[n], x, k + 1) + x * Poly(f[n], x, k)
<1> DEFINE g == f[n]
           h == f[n + 1]
           Good(k) == Poly(h, x, k + 1) = Poly(g, x, k + 1) + x * Poly(g, x, k)
           S == {k \in 0..K : Good(k)}
<1>1. n \in 0..N /\ n + 1 \in 1..N /\ n + 1 \in 0..N /\ (n + 1) - 1 = n
  BY SMT
<1>2. g \in [Nat -> Nat] /\ h \in [Nat -> Nat]
  BY <1>1, PascalRow
<1>3. h[0] = g[0] /\ \A k \in Nat : h[k + 1] = g[k + 1] + g[k]
  BY <1>1 DEF Pascal
<1> HIDE DEF g, h
<1>4. 0 \in S
  <2>0. 0 \in Nat /\ 0 + 1 \in Nat
    OBVIOUS
  <2>1. /\ Poly(h, x, 0 + 1) = Poly(h, x, 0) + h[0] * Power(x, 0)
        /\ Poly(h, x, 0) = 0
    BY <1>2, <2>0, PolyFacts
  <2>2. /\ Poly(g, x, 0 + 1) = Poly(g, x, 0) + g[0] * Power(x, 0)
        /\ Poly(g, x, 0) = 0 /\ Poly(g, x, 0 + 1) \in Nat
    BY <1>2, <2>0, PolyFacts
  <2>3. x * 0 = 0 /\ 0 \in 0..K
    OBVIOUS
  <2>4. Poly(g, x, 0 + 1) + 0 = Poly(g, x, 0 + 1)
    BY <2>2
  <2>5. Good(0)
    BY <1>3, <2>1, <2>2, <2>3, <2>4
  <2> HIDE DEF Good
  <2> QED
    BY <2>3, <2>5
<1>5. ASSUME NEW k \in 0..(K - 1), k \in S PROVE k + 1 \in S
  <2>1. k \in Nat /\ k + 1 \in Nat /\ k + 1 \in 0..K
    BY SMT
  <2>2. Good(k)
    BY <1>5
  <2>3. /\ Poly(h, x, (k + 1) + 1)
             = Poly(h, x, k + 1) + h[k + 1] * Power(x, k + 1)
        /\ Poly(h, x, k + 1) \in Nat
    BY <1>2, <2>1, PolyFacts
  <2>4. /\ Poly(g, x, (k + 1) + 1)
             = Poly(g, x, k + 1) + g[k + 1] * Power(x, k + 1)
        /\ Poly(g, x, k + 1) \in Nat
    BY <1>2, <2>1, PolyFacts
  <2>5. Poly(g, x, k + 1) = Poly(g, x, k) + g[k] * Power(x, k)
        /\ Poly(g, x, k) \in Nat
    BY <1>2, <2>1, PolyFacts
  <2>6. Power(x, k + 1) = x * Power(x, k) /\ Power(x, k) \in Nat
    BY <2>1, PowerFacts
  <2>7. h[k + 1] = g[k + 1] + g[k] /\ g[k + 1] \in Nat /\ g[k] \in Nat
    BY <1>2, <1>3, <2>1
  <2> DEFINE P == Power(x, k)
             A == g[k + 1]
             B == g[k]
             G == Poly(g, x, k)
             G1 == Poly(g, x, k + 1)
             G2 == Poly(g, x, (k + 1) + 1)
             H1 == Poly(h, x, k + 1)
             H2 == Poly(h, x, (k + 1) + 1)
  <2>8. /\ P \in Nat /\ A \in Nat /\ B \in Nat /\ G \in Nat /\ G1 \in Nat
        /\ H1 = G1 + x * G
        /\ H2 = H1 + (A + B) * (x * P)
        /\ G2 = G1 + A * (x * P)
        /\ G1 = G + B * P
    BY <2>2, <2>3, <2>4, <2>5, <2>6, <2>7
  <2> HIDE DEF P, A, B, G, G1, G2, H1, H2
  <2>9. (A + B) * (x * P) = A * (x * P) + x * (B * P)
    BY <2>8
  <2>10. x * G1 = x * G + x * (B * P)
    BY <2>8
  <2>11. /\ A * (x * P) \in Nat /\ x * (B * P) \in Nat /\ x * G \in Nat
         /\ x * G1 \in Nat
    BY <2>8
  <2>12. H2 = G2 + x * G1
    BY <2>8, <2>9, <2>10, <2>11
  <2>13. Good(k + 1)
    BY <2>12 DEF H2, G2, G1
  <2> HIDE DEF Good
  <2> QED
    BY <2>1, <2>13
<1> HIDE DEF S
<1>6. \A k \in 0..K : k \in S
  BY <1>4, <1>5, BoundedInduction
<1> QED
  BY <1>6 DEF S, g, h

\* The binomial theorem.
LEMMA Binomial ==
    ASSUME NEW N \in Nat, NEW f, Pascal(f, N), NEW x \in Nat
    PROVE  \A n \in 0..N : Poly(f[n], x, n + 1) = Power(x + 1, n)
<1> DEFINE Good(n) == Poly(f[n], x, n + 1) = Power(x + 1, n)
           S == {n \in 0..N : Good(n)}
<1>1. 0 \in S
  <2>1. 0 \in 0..N /\ 0 \in Nat /\ x + 1 \in Nat
    OBVIOUS
  <2>2. f[0] \in [Nat -> Nat]
    BY <2>1, PascalRow
  <2>3. f[0][0] = 1
    BY <2>1, PascalEdges
  <2>4. /\ Poly(f[0], x, 0 + 1) = Poly(f[0], x, 0) + f[0][0] * Power(x, 0)
        /\ Poly(f[0], x, 0) = 0
    BY <2>1, <2>2, PolyFacts
  <2>5. Power(x, 0) = 1
    BY <2>1, PowerFacts
  <2>6. Power(x + 1, 0) = 1
    BY <2>1, PowerFacts
  <2>7. Good(0)
    BY <2>3, <2>4, <2>5, <2>6
  <2> HIDE DEF Good
  <2> QED
    BY <2>1, <2>7
<1>2. ASSUME NEW n \in 0..(N - 1), n \in S PROVE n + 1 \in S
  <2>1. n \in Nat /\ n \in 0..N /\ n + 1 \in Nat /\ n + 1 \in 0..N
          /\ x + 1 \in Nat
        /\ n + 1 \in 0..(n + 1)
    BY SMT
  <2>2. Good(n)
    BY <1>2
  <2>3. Poly(f[n + 1], x, (n + 1) + 1)
          = Poly(f[n], x, (n + 1) + 1) + x * Poly(f[n], x, n + 1)
    BY <2>1, NextRow
  <2>4. f[n] \in [Nat -> Nat]
    BY <2>1, PascalRow
  <2>5. f[n][n + 1] = 0
    <3>1. n + 1 > n
      BY <2>1
    <3> QED
      BY <2>1, <3>1, PascalEdges
  <2>6. Poly(f[n], x, (n + 1) + 1)
          = Poly(f[n], x, n + 1) + f[n][n + 1] * Power(x, n + 1)
        /\ Poly(f[n], x, n + 1) \in Nat
    BY <2>1, <2>4, PolyFacts
  <2>7. Power(x, n + 1) \in Nat
    BY <2>1, PowerFacts
  <2>8. 0 * Power(x, n + 1) = 0
    BY <2>7
  <2>9. Power(x + 1, n + 1) = (x + 1) * Power(x + 1, n)
          /\ Power(x + 1, n) \in Nat
    BY <2>1, PowerFacts
  <2> DEFINE P == Power(x + 1, n)
  <2>10. Poly(f[n + 1], x, (n + 1) + 1) = P + x * P
    BY <2>2, <2>3, <2>5, <2>6, <2>8
  <2>11. Power(x + 1, n + 1) = (x + 1) * P /\ P \in Nat
    BY <2>9
  <2> HIDE DEF P
  <2>12. P + x * P = (x + 1) * P
    BY <2>11
  <2>13. Good(n + 1)
    BY <2>10, <2>11, <2>12
  <2> HIDE DEF Good
  <2> QED
    BY <2>1, <2>13
<1> HIDE DEF S
<1>3. \A n \in 0..N : n \in S
  BY <1>1, <1>2, BoundedInduction
<1> QED
  BY <1>3 DEF S

\* A set of numbers has a least one.
LEMMA LeastExists ==
    ASSUME NEW S, S \subseteq Nat, NEW z \in S
    PROVE  \E x \in S : \A y \in S : x <= y
<1>1. SUFFICES ASSUME \A x \in S : \E y \in S : y < x PROVE FALSE
  <2>1. \A x, y \in Nat : x <= y \/ y < x
    OBVIOUS
  <2> QED
    BY <2>1
<1> DEFINE T == {n \in Nat : \A x \in S : x >= n}
<1>2. 0 \in T
  <2>1. \A x \in Nat : x >= 0
    OBVIOUS
  <2> QED
    BY <2>1
<1>3. ASSUME NEW n \in Nat, n \in T PROVE n + 1 \in T
  <2>1. SUFFICES ASSUME NEW x \in S PROVE x >= n + 1
    OBVIOUS
  <2>2. PICK y \in S : y < x
    BY <1>1
  <2>3. y >= n /\ y \in Nat /\ x \in Nat
    BY <1>3
  <2> QED
    BY <2>2, <2>3
<1> HIDE DEF T
<1>4. \A n \in Nat : n \in T
  BY <1>2, <1>3, SetInduction
<1>5. z \in Nat /\ z + 1 \in T
  <2>1. z \in Nat /\ z + 1 \in Nat
    OBVIOUS
  <2> QED
    BY <1>4, <2>1
<1>6. z >= z + 1
  BY <1>5 DEF T
<1> QED
  BY <1>5, <1>6

\* A prime that divides a product with a number below it divides the other.
LEMMA Euclid ==
    ASSUME NEW P \in Nat, IsPrime(P), NEW z \in Nat, NEW k \in 1..(P - 1),
           Cong(k * z, 0, P)
    PROVE  Cong(z, 0, P)
<1> DEFINE S == {s \in 1..(P - 1) : Cong(s * z, 0, P)}
<1>1. k \in S /\ S \subseteq Nat
  OBVIOUS
<1>2. PICK m \in S : \A y \in S : m <= y
  <2> HIDE DEF S
  <2> QED
    BY <1>1, LeastExists
<1>3. m \in 1..(P - 1) /\ Cong(m * z, 0, P)
  BY <1>2
<1>4. CASE m = 1
  <2>1. 1 * z = z
    OBVIOUS
  <2> QED
    BY <1>3, <1>4, <2>1
<1>5. CASE m # 1
  <2>1. m \in 2..(P - 1) /\ m \in Nat \ {0}
    BY <1>3, <1>5
  <2>2. P % m # 0
    BY <2>1 DEF IsPrime
  <2> DEFINE q == P \div m
             r == P % m
  <2>3. q \in Nat /\ r \in 0..(m - 1) /\ P = q * m + r /\ r # 0
    BY <2>1, <2>2, DivFacts
  <2> HIDE DEF q, r
  <2>4. PICK w \in Int : m * z = w * P + 0
    BY <1>3 DEF Cong
  <2>5. r * z = (z - q * w) * P + 0
    <3>1. P * z = q * (m * z) + r * z
      <4>1. (q * m + r) * z = q * (m * z) + r * z
        BY <2>1, <2>3
      <4> QED
        BY <2>3, <4>1
    <3>2. m * z = w * P
      <4>1. w * P \in Int
        BY <2>4
      <4> QED
        BY <2>4, <4>1
    <3>3. P * z = q * (w * P) + r * z
      BY <3>1, <3>2
    <3>4. (z - q * w) * P = P * z - q * (w * P)
      BY <2>3
    <3>5. P * z \in Int /\ q * (w * P) \in Int /\ r * z \in Int
      BY <2>3
    <3> QED
      BY <3>3, <3>4, <3>5
  <2>6. z - q * w \in Int
    BY <2>3
  <2>7. Cong(r * z, 0, P)
    BY <2>5, <2>6 DEF Cong
  <2>8. r \in 1..(P - 1) /\ r < m /\ r \in Nat
    BY <1>3, <2>3
  <2>9. r \in S
    BY <2>7, <2>8
  <2>10. m <= r
    BY <1>2, <2>9
  <2> QED
    BY <2>1, <2>8, <2>10
<1> QED
  BY <1>4, <1>5

\* Modulo a prime the power of a sum is the sum of the powers.
LEMMA PowerOfNext ==
    ASSUME NEW P \in Nat, IsPrime(P), NEW x \in Nat
    PROVE  Cong(Power(x + 1, P), Power(x, P) + 1, P)
<1>1. PICK f : Pascal(f, P)
  BY PascalExists
<1>2. P > 1 /\ P \in 0..P /\ P - 1 \in 0..(P - 1) /\ (P - 1) + 1 = P
        /\ P - 1 \in Nat
  BY DEF IsPrime
<1> DEFINE g == f[P]
<1>3. g \in [Nat -> Nat] /\ g[0] = 1 /\ g[P] = 1
  BY <1>1, <1>2, PascalRow, PascalEdges
<1>4. ASSUME NEW k \in 1..(P - 1) PROVE Cong(g[k], 0, P)
  <2> DEFINE j == k - 1
  <2>1. j \in Nat /\ j + 1 = k /\ k \in Nat
    BY <1>2
  <2> HIDE DEF j
  <2>2. (j + 1) * f[(P - 1) + 1][j + 1] = ((P - 1) + 1) * f[P - 1][j]
    BY <1>1, <1>2, <2>1, PascalAbsorbs
  <2>3. f[P - 1][j] \in Nat
    <3>1. P - 1 \in 0..P
      BY <1>2
    <3> QED
      BY <1>1, <2>1, <3>1, PascalRow
  <2>4. k * g[k] = P * f[P - 1][j]
    BY <1>2, <2>1, <2>2
  <2> DEFINE y == f[P - 1][j]
  <2>5. y \in Nat /\ k * g[k] = P * y
    BY <2>3, <2>4
  <2> HIDE DEF y
  <2>6. P * y = y * P
    BY <2>5
  <2>7. Cong(y * P, 0, P)
    BY <2>5, CongMultiple
  <2>8. Cong(k * g[k], 0, P)
    BY <2>5, <2>6, <2>7
  <2>9. g[k] \in Nat
    BY <1>3, <2>1
  <2> HIDE DEF g
  <2> QED
    BY <2>8, <2>9, Euclid
<1> HIDE DEF g
<1> DEFINE S == {k \in 0..(P - 1) : Cong(Poly(g, x, k + 1), 1, P)}
<1>5. 0 \in S
  <2>1. 0 \in Nat /\ 0 + 1 = 1 /\ 0 \in 0..(P - 1)
    BY <1>2
  <2>2. Poly(g, x, 0 + 1) = Poly(g, x, 0) + g[0] * Power(x, 0)
          /\ Poly(g, x, 0) = 0
    BY <1>3, <2>1, PolyFacts
  <2>3. Power(x, 0) = 1
    BY <2>1, PowerFacts
  <2>4. Poly(g, x, 0 + 1) = 1
    BY <1>3, <2>2, <2>3
  <2>5. Cong(1, 1, P)
    BY CongRefl
  <2> QED
    BY <2>1, <2>4, <2>5
<1>6. ASSUME NEW k \in 0..((P - 1) - 1), k \in S PROVE k + 1 \in S
  <2>1. k \in Nat /\ k + 1 \in Nat /\ k + 1 \in 0..(P - 1)
          /\ k + 1 \in 1..(P - 1)
    BY <1>2
  <2>2. /\ Poly(g, x, (k + 1) + 1)
             = Poly(g, x, k + 1) + g[k + 1] * Power(x, k + 1)
        /\ Poly(g, x, k + 1) \in Nat
    BY <1>3, <2>1, PolyFacts
  <2>3. Power(x, k + 1) \in Nat /\ g[k + 1] \in Nat
    BY <1>3, <2>1, PowerFacts
  <2> DEFINE A == Poly(g, x, k + 1)
             B == g[k + 1]
             E == Power(x, k + 1)
  <2>4. Cong(B, 0, P)
    BY <1>4, <2>1
  <2>5. Cong(A, 1, P)
    BY <1>6
  <2>6. A \in Int /\ B \in Int /\ E \in Int /\ B * E \in Int
    BY <2>2, <2>3
  <2> HIDE DEF A, B, E
  <2>7. Cong(E, E, P)
    BY <2>6, CongRefl
  <2>8. Cong(B * E, 0 * E, P)
    BY <2>4, <2>6, <2>7, CongTimes
  <2>9. 0 * E = 0
    BY <2>6
  <2>10. Cong(B * E, 0, P)
    BY <2>8, <2>9
  <2>11. Cong(A + B * E, 1 + 0, P)
    BY <2>5, <2>6, <2>10, CongPlus
  <2>12. Cong(Poly(g, x, (k + 1) + 1), 1, P)
    BY <2>2, <2>11 DEF A, B, E
  <2> QED
    BY <2>1, <2>12
<1> HIDE DEF S
<1>7. \A k \in 0..(P - 1) : k \in S
  BY <1>2, <1>5, <1>6, BoundedInduction
<1>8. Cong(Poly(g, x, P), 1, P)
  <2>1. P - 1 \in S
    BY <1>2, <1>7
  <2> QED
    BY <1>2, <2>1 DEF S
<1>9. /\ Poly(g, x, P + 1) = Poly(g, x, P) + g[P] * Power(x, P)
      /\ Poly(g, x, P) \in Nat /\ Power(x, P) \in Nat
  BY <1>3, PolyFacts, PowerFacts
<1>10. Poly(g, x, P + 1) = Power(x + 1, P)
  BY <1>1, <1>2, Binomial DEF g
<1> DEFINE A == Poly(g, x, P)
           E == Power(x, P)
<1>11. A \in Int /\ E \in Int /\ Cong(A, 1, P) /\ Power(x + 1, P) = A + 1 * E
  BY <1>3, <1>8, <1>9, <1>10
<1> HIDE DEF A, E
<1>12. Cong(E, E, P)
  BY <1>11, CongRefl
<1>13. Cong(A + E, 1 + E, P)
  BY <1>11, <1>12, CongPlus
<1>14. A + 1 * E = A + E /\ 1 + E = E + 1
  BY <1>11
<1>15. Cong(Power(x + 1, P), E + 1, P)
  BY <1>11, <1>13, <1>14
<1> QED
  BY <1>15 DEF E

\* Fermat's little theorem.
THEOREM Fermat ==
    ASSUME NEW P \in Nat, IsPrime(P)
    PROVE  \A x \in Nat : Cong(Power(x, P), x, P)
<1> DEFINE S == {x \in Nat : Cong(Power(x, P), x, P)}
<1>1. 0 \in S
  <2>1. P - 1 \in Nat /\ (P - 1) + 1 = P /\ 0 \in Nat
    BY DEF IsPrime
  <2>2. Power(0, (P - 1) + 1) = 0 * Power(0, P - 1) /\ Power(0, P - 1) \in Nat
    BY <2>1, PowerFacts
  <2> DEFINE A == Power(0, P - 1)
  <2>3. Power(0, P) = 0 * A /\ A \in Nat
    BY <2>1, <2>2
  <2> HIDE DEF A
  <2>4. Power(0, P) = 0
    BY <2>3
  <2>5. Cong(0, 0, P)
    BY CongRefl
  <2> QED
    BY <2>1, <2>4, <2>5
<1>2. ASSUME NEW x \in Nat, x \in S PROVE x + 1 \in S
  <2>1. Cong(Power(x, P), x, P)
    BY <1>2
  <2>2. Cong(Power(x + 1, P), Power(x, P) + 1, P)
    BY PowerOfNext
  <2>3. x + 1 \in Nat
    OBVIOUS
  <2>4. Power(x + 1, P) \in Nat
    BY <2>3, PowerFacts
  <2>5. Power(x, P) \in Nat
    BY PowerFacts
  <2> DEFINE A == Power(x, P)
             B == Power(x + 1, P)
  <2>6. A \in Int /\ B \in Int /\ Cong(A, x, P) /\ Cong(B, A + 1, P)
    BY <2>1, <2>2, <2>4, <2>5
  <2> HIDE DEF A, B
  <2>7. Cong(1, 1, P)
    BY CongRefl
  <2>8. Cong(A + 1, x + 1, P)
    BY <2>6, <2>7, CongPlus
  <2>9. A + 1 \in Int /\ x + 1 \in Int
    BY <2>6
  <2>10. Cong(B, x + 1, P)
    BY <2>6, <2>8, <2>9, CongTrans
  <2> QED
    BY <2>3, <2>10 DEF B
<1> HIDE DEF S
<1>3. \A x \in Nat : x \in S
  BY <1>1, <1>2, SetInduction
<1> QED
  BY <1>3 DEF S

\* Exponents that are 1 modulo P - 1 leave a number alone.
LEMMA ExponentsCancel ==
    ASSUME NEW P \in Nat, IsPrime(P), NEW u \in Nat, u % (P - 1) = 1,
           NEW x \in Nat
    PROVE  Cong(Power(x, u), x, P)
<1> DEFINE m == P - 1
<1>1. m \in Nat \ {0} /\ m + 1 = P
  BY DEF IsPrime
<1>2. u % m = 1
  OBVIOUS
<1> HIDE DEF m
<1>3. u \div m \in Nat /\ u = (u \div m) * m + (u % m)
  BY <1>1, DivFacts
<1> DEFINE w == u \div m
<1>4. w \in Nat /\ u = w * m + 1
  BY <1>2, <1>3
<1> HIDE DEF w
<1> DEFINE S == {j \in Nat : Cong(Power(x, j * m + 1), x, P)}
<1>5. 0 \in S
  <2>1. 0 * m + 1 = 1 /\ 0 + 1 = 1 /\ 0 \in Nat
    BY <1>1
  <2>2. Power(x, 0 + 1) = x * Power(x, 0) /\ Power(x, 0) = 1
    BY <2>1, PowerFacts
  <2>3. Power(x, 0 * m + 1) = x
    BY <2>1, <2>2
  <2>4. Cong(x, x, P)
    BY CongRefl
  <2> QED
    BY <2>1, <2>3, <2>4
<1>6. ASSUME NEW j \in Nat, j \in S PROVE j + 1 \in S
  <2> DEFINE e == j * m + 1
  <2>1. e \in Nat /\ (j + 1) * m + 1 = e + m
    BY <1>1
  <2>2. Cong(Power(x, e), x, P)
    BY <1>6
  <2> HIDE DEF e
  <2>3. Power(x, e + m) = Power(x, e) * Power(x, m)
    BY <1>1, <2>1, PowerOfSum
  <2>4. Power(x, e) \in Nat /\ Power(x, m) \in Nat
    BY <1>1, <2>1, PowerFacts
  <2>5. Power(x, m + 1) = x * Power(x, m)
    BY <1>1, PowerFacts
  <2>6. Cong(Power(x, P), x, P)
    BY Fermat
  <2> DEFINE A == Power(x, e)
             B == Power(x, m)
  <2>7. A \in Int /\ B \in Int /\ Cong(A, x, P) /\ Cong(x * B, x, P)
        /\ Power(x, e + m) = A * B
    BY <1>1, <2>2, <2>3, <2>4, <2>5, <2>6
  <2> HIDE DEF A, B
  <2>8. Cong(B, B, P)
    BY <2>7, CongRefl
  <2>9. Cong(A * B, x * B, P)
    BY <2>7, <2>8, CongTimes
  <2>10. A * B \in Int /\ x * B \in Int
    BY <2>7
  <2>11. Cong(A * B, x, P)
    BY <2>7, <2>9, <2>10, CongTrans
  <2>12. Cong(Power(x, (j + 1) * m + 1), x, P)
    BY <2>1, <2>7, <2>11
  <2>13. j + 1 \in Nat
    OBVIOUS
  <2> QED
    BY <2>12, <2>13
<1> HIDE DEF S
<1>7. \A j \in Nat : j \in S
  BY <1>5, <1>6, SetInduction
<1>8. w \in S
  BY <1>4, <1>7
<1> QED
  BY <1>4, <1>8 DEF S

-----------------------------------------------------------------------------
(* bn_decode and bn_encode *)

\* A byte of a digit.
ByteOfDigit(x, u) == (x \div Power(2, ByteBits * u)) % Power(2, ByteBits)

\* A multiple of the divisor changes the quotient and not the remainder.
LEMMA DivOfSum ==
    ASSUME NEW x \in Nat, NEW m \in Nat \ {0}, NEW y \in Nat
    PROVE  (x + m * y) \div m = (x \div m) + y /\ (x + m * y) % m = x % m
<1> DEFINE q == x \div m
           r == x % m
           z == x + m * y
<1>1. q \in Nat /\ r \in 0..(m - 1) /\ x = q * m + r
  BY DivFacts
<1> HIDE DEF q, r
<1>2. (q + y) * m = q * m + m * y /\ m * y \in Nat /\ q * m \in Nat
  BY <1>1
<1>3. z = (q + y) * m + r /\ z \in Int /\ q + y \in Int /\ m \in Nat /\ m > 0
  BY <1>1, <1>2
<1> HIDE DEF z
<1>4. z \div m = q + y /\ z % m = r
  BY <1>1, <1>3, SplitIsUnique
<1> QED
  BY <1>4 DEF z, q, r

\* A remainder by a product, from the remainders by its factors.
LEMMA ModSplit ==
    ASSUME NEW x \in Nat, NEW m \in Nat \ {0}, NEW l \in Nat \ {0}
    PROVE  x % (l * m) = (x % m) + ((x \div m) % l) * m
<1> DEFINE q == x \div m
           r == x % m
<1>1. q \in Nat /\ r \in 0..(m - 1) /\ x = q * m + r
  BY DivFacts
<1> HIDE DEF q, r
<1> DEFINE h == q \div l
           w == q % l
<1>2. h \in Nat /\ w \in 0..(l - 1) /\ q = h * l + w
  BY <1>1, DivFacts
<1> HIDE DEF h, w
<1> DEFINE M == l * m
           R == r + w * m
<1>3. M \in Nat /\ M > 0
  <2>1. l * m \in Nat /\ l * m # 0
    OBVIOUS
  <2> QED
    BY <2>1
<1>4. R \in 0..(M - 1)
  <2>1. w * m <= (l - 1) * m
    BY <1>2, Monotone
  <2>2. (l - 1) * m = l * m - m /\ w * m \in Nat /\ l * m \in Nat
    BY <1>2
  <2> QED
    BY <1>1, <2>1, <2>2
<1>5. x = h * M + R
  <2>1. (h * l + w) * m = h * (l * m) + w * m
    BY <1>2
  <2>2. h * (l * m) \in Nat /\ w * m \in Nat
    BY <1>2
  <2>3. q * m = h * (l * m) + w * m
    BY <1>2, <2>1
  <2> QED
    BY <1>1, <2>2, <2>3
<1> HIDE DEF M, R
<1>6. x % M = R
  <2>1. x \in Int /\ h \in Int
    BY <1>2
  <2> QED
    BY <1>3, <1>4, <1>5, <2>1, SplitIsUnique
<1> QED
  BY <1>6 DEF M, R, r, w, q

\* The bytes of a block, and zeros above it.
LEMMA ByteOfTyped ==
    ASSUME NEW s \in Nat, NEW bytes \in [1..s -> Byte], NEW k \in Nat
    PROVE  /\ ByteOf(bytes, k) \in Byte
           /\ k < s => ByteOf(bytes, k) = bytes[s - k]
           /\ k >= s => ByteOf(bytes, k) = 0
<1>1. Len(bytes) = s
  BY LengthOf
<1>2. ByteOf(bytes, k) = IF k < s THEN bytes[s - k] ELSE 0
  BY <1>1 DEF ByteOf
<1>3. k < s => s - k \in 1..s
  BY SMT
<1>4. k < s => bytes[s - k] \in Byte
  BY <1>3
<1>5. k >= s => ~(k < s)
  OBVIOUS
<1>6. 0 \in Byte
  BY BytesOfDigit
<1> QED
  BY <1>2, <1>4, <1>5, <1>6, Zenon

\* The digits that bn_decode makes have the bytes it was given.
LEMMA DecodeBytes ==
    ASSUME NEW s \in Nat, NEW bytes \in [1..s -> Byte], NEW n \in Nat,
           NEW j \in 0..(n - 1), NEW v \in 0..(BytesPerDigit - 1)
    PROVE  ByteOfDigit(bn_decode(bytes, n)[j], v)
             = ByteOf(bytes, j * BytesPerDigit + v)
<1> DEFINE U == BytesPerDigit
           P == Power(2, ByteBits)
           B(k) == ByteOf(bytes, j * U + k)
           W(u) == Power(2, ByteBits * u)
<1>1. U \in Nat \ {0} /\ P \in Nat \ {0} /\ Byte = 0..(P - 1)
  BY BytesOfDigit DEF Byte
<1>2. PICK f : DecodeSums(f, bytes, n)
  BY DecodeLoop
<1>3. \A k \in Nat : /\ B(k) \in Nat /\ B(k) < P
                     /\ W(k) \in Nat \ {0} /\ ByteBits * k \in Nat
  <2>1. SUFFICES ASSUME NEW k \in Nat
                 PROVE  /\ B(k) \in Nat /\ B(k) < P
                        /\ W(k) \in Nat \ {0} /\ ByteBits * k \in Nat
    OBVIOUS
  <2>2. j * U + k \in Nat
    <3>1. j * U \in Nat
      BY <1>1
    <3> QED
      BY <3>1
  <2>3. B(k) \in Byte
    BY <2>2, ByteOfTyped
  <2>4. ByteBits * k \in Nat
    BY BignumAssumption
  <2>5. W(k) \in Nat \ {0}
    <3> DEFINE e == ByteBits * k
    <3>1. e \in Nat /\ 2 \in Nat \ {0}
      BY <2>4
    <3> HIDE DEF e
    <3>2. Power(2, e) \in Nat \ {0}
      BY <3>1, PowerPositive, Zenon
    <3> QED
      BY <3>2 DEF e
  <2> HIDE DEF B, P, W
  <2> QED
    BY <1>1, <2>3, <2>4, <2>5
<1>4. \A u \in 1..U : f[u][j] = f[u - 1][j] + B(u - 1) * W(u - 1)
  <2>1. \A u \in 1..U :
          f[u][j] = f[u - 1][j] + ByteOf(bytes, j * U + u - 1) * W(u - 1)
    BY <1>2 DEF DecodeSums
  <2>2. \A u \in 1..U : j * U + u - 1 = j * U + (u - 1)
    OBVIOUS
  <2> QED
    BY <2>1, <2>2
<1>5. \A u \in 0..U : f[u][j] \in 0..(W(u) - 1)
  <2>1. \A u \in 0..U : f[u] \in [0..(n - 1) -> 0..(W(u) - 1)]
    BY <1>2 DEF DecodeSums
  <2> HIDE DEF W, U
  <2> QED
    BY <2>1
<1>6. \A x, y \in Nat : W(x + y) = W(x) * W(y)
  <2>1. SUFFICES ASSUME NEW x \in Nat, NEW y \in Nat
                 PROVE W(x + y) = W(x) * W(y)
    OBVIOUS
  <2>2. ByteBits * (x + y) = ByteBits * x + ByteBits * y
        /\ ByteBits * x \in Nat /\ ByteBits * y \in Nat
    BY BignumAssumption
  <2> QED
    BY <2>2, PowerOfSum
<1>7. W(1) = P
  <2>1. ByteBits * 1 = ByteBits
    BY BignumAssumption
  <2> QED
    BY <2>1
<1> HIDE DEF B, W, P, U
<1> DEFINE Good(u) == \A k \in 0..(u - 1) : (f[u][j] \div W(k)) % P = B(k)
           S == {u \in 0..U : Good(u)}
<1>8. 0 \in S
  <2>1. 0 \in 0..U /\ 0..(0 - 1) = {}
    BY <1>1
  <2> QED
    BY <2>1
<1>9. ASSUME NEW u \in 0..(U - 1), u \in S PROVE u + 1 \in S
  <2>1. u \in Nat /\ u + 1 \in 1..U /\ u + 1 \in 0..U /\ (u + 1) - 1 = u
          /\ u \in 0..U
    BY <1>1
  <2> DEFINE h == f[u][j]
             e == B(u)
             Q == W(u)
             g == f[u + 1][j]
  <2>2. h \in Nat /\ h < Q /\ Q \in Nat \ {0} /\ e \in Nat /\ e < P
          /\ g = h + e * Q
    <3>1. g = h + e * Q
      BY <1>4, <2>1
    <3>2. Q \in Nat \ {0} /\ e \in Nat /\ e < P
      BY <1>3, <2>1
    <3>3. h \in 0..(Q - 1)
      BY <1>5, <2>1
    <3> HIDE DEF h, Q, e, g
    <3>4. h \in Nat /\ h < Q
      BY <3>2, <3>3
    <3> QED
      BY <3>1, <3>2, <3>4
  <2>3. \A k \in 0..(u - 1) : (h \div W(k)) % P = B(k)
    BY <1>9
  <2> HIDE DEF h, e, Q, g
  <2>4. (g \div Q) % P = e
    <3>1. g = e * Q + h /\ g \in Int /\ Q > 0 /\ Q \in Nat /\ h \in 0..(Q - 1)
            /\ e \in Int
      <4>1. e * Q \in Nat
        BY <2>2
      <4> QED
        BY <2>2, <4>1
    <3>2. g \div Q = e
      BY <3>1, SplitIsUnique
    <3>3. e = 0 * P + e /\ e \in 0..(P - 1) /\ P \in Nat /\ P > 0 /\ 0 \in Int
      BY <1>1, <2>2
    <3>4. e % P = e
      BY <3>1, <3>3, SplitIsUnique
    <3> QED
      BY <3>2, <3>4
  <2>5. ASSUME NEW k \in 0..(u - 1) PROVE (g \div W(k)) % P = B(k)
    <3> DEFINE l == u - k - 1
               l2 == (u - k) - 1
    <3>1. k \in Nat /\ l2 \in Nat /\ u = k + (1 + l2) /\ 1 \in Nat
            /\ 1 + l2 \in Nat
      BY <2>1
    <3> HIDE DEF l2
    <3>2. Q = W(k) * (P * W(l2))
      <4>1. W(k + (1 + l2)) = W(k) * W(1 + l2)
        BY <1>6, <3>1
      <4>2. W(1 + l2) = W(1) * W(l2)
        BY <1>6, <3>1
      <4> QED
        BY <1>7, <3>1, <4>1, <4>2 DEF Q
    <3> DEFINE M == W(k)
               K == W(l2)
    <3>3. M \in Nat \ {0} /\ K \in Nat \ {0}
      BY <1>3, <3>1
    <3>4. Q = M * (P * K)
      BY <3>2
    <3> HIDE DEF M, K
    <3> DEFINE y == P * (e * K)
    <3>5. g = h + M * y /\ y \in Nat
      <4>1. e * (M * (P * K)) = M * (P * (e * K))
        BY <1>1, <2>2, <3>3
      <4>2. P * (e * K) \in Nat
        <5>1. e * K \in Nat
          BY <2>2, <3>3
        <5> QED
          BY <1>1, <5>1
      <4> QED
        BY <2>2, <3>4, <4>1, <4>2
    <3> HIDE DEF y
    <3>6. (h + M * y) \div M = (h \div M) + y
      BY <2>2, <3>3, <3>5, DivOfSum
    <3> DEFINE w == h \div M
               z == e * K
    <3>7. w \in Nat
      <4>1. h \in Nat /\ M \in Nat \ {0}
        BY <2>2, <3>3
      <4> QED
        BY <4>1, DivFacts
    <3>12. z \in Nat
      BY <2>2, <3>3
    <3>8. y = P * z
      BY DEF y
    <3>13. g \div M = w + y
      BY <3>5, <3>6, Zenon DEF w
    <3> HIDE DEF w, z
    <3>9. (w + P * z) % P = w % P
      BY <1>1, <3>7, <3>12, DivOfSum
    <3>10. (g \div M) % P = w % P
      BY <3>8, <3>9, <3>13, Zenon
    <3>11. w % P = B(k)
      BY <2>3 DEF w, M
    <3> QED
      BY <3>10, <3>11 DEF M
  <2>6. \A k \in 0..((u + 1) - 1) : k = u \/ k \in 0..(u - 1)
    BY <2>1
  <2>7. \A k \in 0..((u + 1) - 1) : (g \div W(k)) % P = B(k)
    BY <2>4, <2>5, <2>6 DEF Q, e
  <2>8. Good(u + 1)
    BY <2>7 DEF g
  <2> HIDE DEF Good
  <2> QED
    BY <2>1, <2>8
<1> HIDE DEF S
<1>10. \A u \in 0..U : u \in S
  BY <1>1, <1>8, <1>9, BoundedInduction
<1>11. U \in 0..U
  BY <1>1
<1>12. \A k \in 0..(U - 1) : (f[U][j] \div W(k)) % P = B(k)
  BY <1>10, <1>11 DEF S
<1>13. bn_decode(bytes, n) = f[U]
  BY <1>2 DEF DecodeSums, U
<1>14. v \in 0..(U - 1)
  BY DEF U
<1> QED
  BY <1>12, <1>13, <1>14 DEF ByteOfDigit, W, P, B, U

\* The bytes that bn_encode makes.
LEMMA EncodeByte ==
    ASSUME NEW s \in Nat, NEW n \in Nat, NEW x, HasDigits(x, n),
           NEW j \in 1..s, NEW u \in Nat, NEW v \in 0..(BytesPerDigit - 1),
           s - j = u * BytesPerDigit + v
    PROVE  bn_encode(s, x, n)[j] = IF u < n THEN ByteOfDigit(x[u], v) ELSE 0
<1> DEFINE U == BytesPerDigit
           k == s - j
<1>1. U \in Nat \ {0}
  BY BytesOfDigit
<1>2. k \in Int /\ k = u * U + v /\ v \in 0..(U - 1) /\ U \in Nat /\ U > 0
        /\ u \in Int
  BY <1>1
<1>3. k \div U = u /\ k % U = v
  <2> HIDE DEF U, k
  <2> QED
    BY <1>2, SplitIsUnique
<1>4. bn_encode(s, x, n)[j]
        = IF k \div U < n
          THEN (x[k \div U] \div Power(2, ByteBits * (k % U))) 
                 % Power(2, ByteBits)
          ELSE 0
  BY DEF bn_encode
<1> HIDE DEF U, k
<1> QED
  BY <1>3, <1>4, Zenon DEF ByteOfDigit

\* A digit is known by its bytes.
LEMMA DigitByBytes ==
    ASSUME NEW x \in Digit, NEW y \in Digit,
           \A v \in 0..(BytesPerDigit - 1) :
             ByteOfDigit(x, v) = ByteOfDigit(y, v)
    PROVE  x = y
<1> DEFINE U == BytesPerDigit
           P == Power(2, ByteBits)
           W(u) == Power(2, ByteBits * u)
           S == {u \in 0..U : x % W(u) = y % W(u)}
<1>1. U \in Nat \ {0} /\ P \in Nat \ {0} /\ ByteBits * U = DigitBits
  BY BytesOfDigit
<1>2. \A u \in Nat : ByteBits * u \in Nat /\ W(u) \in Nat \ {0}
  <2>1. SUFFICES ASSUME NEW u \in Nat
                 PROVE  ByteBits * u \in Nat /\ W(u) \in Nat \ {0}
    OBVIOUS
  <2> DEFINE e == ByteBits * u
  <2>2. e \in Nat /\ 2 \in Nat \ {0}
    BY BignumAssumption
  <2> HIDE DEF e
  <2>3. Power(2, e) \in Nat \ {0}
    BY <2>2, PowerPositive
  <2> QED
    BY <2>2, <2>3 DEF e
<1>3. \A u \in Nat : W(u + 1) = P * W(u)
  <2>1. SUFFICES ASSUME NEW u \in Nat PROVE W(u + 1) = P * W(u)
    OBVIOUS
  <2>2. ByteBits * (u + 1) = ByteBits + ByteBits * u /\ ByteBits \in Nat
        /\ ByteBits * u \in Nat
    BY BignumAssumption
  <2> QED
    BY <2>2, PowerOfSum
<1>4. x \in Nat /\ y \in Nat
  BY DigitsAreNumbers
<1>5. W(U) = Base
  BY <1>1, WordAssumption
<1>6. W(0) = 1
  <2>1. ByteBits * 0 = 0
    BY BignumAssumption
  <2>2. Power(2, 0) = 1
    BY PowerFacts
  <2> QED
    BY <2>1, <2>2
<1>7. \A v \in 0..(U - 1) : (x \div W(v)) % P = (y \div W(v)) % P
  BY DEF ByteOfDigit
<1> HIDE DEF U, P, W
<1>8. 0 \in S
  <2>1. \A z \in Nat : z % 1 = 0
    <3>1. SUFFICES ASSUME NEW z \in Nat PROVE z % 1 = 0
      OBVIOUS
    <3>2. z = z * 1 + 0 /\ 0 \in 0..(1 - 1) /\ z \in Int /\ 1 \in Nat /\ 1 > 0
      OBVIOUS
    <3> QED
      BY <3>2, SplitIsUnique
  <2> QED
    BY <1>1, <1>4, <1>6, <2>1
<1>9. ASSUME NEW u \in 0..(U - 1), u \in S PROVE u + 1 \in S
  <2>1. u \in Nat /\ u + 1 \in 0..U
    BY <1>1
  <2> DEFINE m == W(u)
  <2>2. m \in Nat \ {0} /\ P \in Nat \ {0} /\ W(u + 1) = P * m
    BY <1>1, <1>2, <1>3, <2>1
  <2>3. x % m = y % m /\ (x \div m) % P = (y \div m) % P
    BY <1>7, <1>9
  <2> HIDE DEF m
  <2>4. x % (P * m) = (x % m) + ((x \div m) % P) * m
    BY <1>4, <2>2, ModSplit
  <2>5. y % (P * m) = (y % m) + ((y \div m) % P) * m
    BY <1>4, <2>2, ModSplit
  <2>6. x % (P * m) = y % (P * m)
    BY <2>3, <2>4, <2>5, Zenon
  <2>7. x % W(u + 1) = y % W(u + 1)
    BY <2>2, <2>6, Zenon
  <2> QED
    BY <2>1, <2>7
<1> HIDE DEF S
<1>10. U \in S
  <2>1. \A u \in 0..U : u \in S
    BY <1>1, <1>8, <1>9, BoundedInduction
  <2> QED
    BY <1>1, <2>1
<1>11. x % Base = y % Base
  BY <1>5, <1>10 DEF S
<1>12. \A z \in Digit : z % Base = z
  <2>1. SUFFICES ASSUME NEW z \in Digit PROVE z % Base = z
    OBVIOUS
  <2>2. z = 0 * Base + z /\ z \in 0..(Base - 1) /\ z \in Int /\ Base \in Nat
          /\ Base > 0
    BY BignumAssumption DEF Digit
  <2> QED
    BY <2>2, SplitIsUnique
<1> QED
  BY <1>11, <1>12, Zenon

\* Encoding again what was decoded from an encoded number changes nothing.
LEMMA EncodeDecode ==
    ASSUME NEW s \in Nat, NEW n \in Nat, NEW x, HasDigits(x, n)
    PROVE  LET bytes == bn_encode(s, x, n)
           IN  bn_encode(s, bn_decode(bytes, n), n) = bytes
<1> DEFINE U == BytesPerDigit
           bytes == bn_encode(s, x, n)
           z == bn_decode(bytes, n)
<1>1. bytes \in [1..s -> Byte]
  BY EncodeTyped
<1>2. z \in [0..(n - 1) -> Digit]
  <2> HIDE DEF bytes
  <2> QED
    BY <1>1, DecodeTyped
<1>3. HasDigits(z, n)
  <2> HIDE DEF z
  <2> QED
    BY <1>2, ArrayHasDigits
<1>4. bn_encode(s, z, n) \in [1..s -> Byte]
  <2> HIDE DEF z
  <2> QED
    BY <1>3, EncodeTyped
<1>5. U \in Nat \ {0}
  BY BytesOfDigit
<1>6. ASSUME NEW j \in 1..s PROVE bn_encode(s, z, n)[j] = bytes[j]
  <2> DEFINE k == s - j
             u == k \div U
             v == k % U
  <2>1. k \in Nat /\ k < s /\ j = s - k
    OBVIOUS
  <2> HIDE DEF k, U
  <2>2. u \in Nat /\ v \in 0..(U - 1) /\ k = u * U + v
    BY <1>5, <2>1, DivFacts
  <2> HIDE DEF u, v
  <2>3. s - j = u * U + v
    BY <2>2 DEF k
  <2>4. bytes[j] = IF u < n THEN ByteOfDigit(x[u], v) ELSE 0
    BY <2>2, <2>3, EncodeByte DEF U
  <2> HIDE DEF bytes, z
  <2>5. bn_encode(s, z, n)[j] = IF u < n THEN ByteOfDigit(z[u], v) ELSE 0
    BY <1>3, <2>2, <2>3, EncodeByte DEF U
  <2>6. CASE u < n
    <3>1. u \in 0..(n - 1)
      BY <2>2, <2>6
    <3>2. ByteOfDigit(z[u], v) = ByteOf(bytes, u * BytesPerDigit + v)
      BY <1>1, <2>2, <3>1, DecodeBytes DEF z, U
    <3>3. ByteOf(bytes, k) = bytes[s - k]
      BY <1>1, <2>1, ByteOfTyped
    <3> QED
      BY <2>1, <2>2, <2>5, <2>6, <3>2, <3>3, Zenon DEF U
  <2>7. CASE ~(u < n)
    BY <2>4, <2>5, <2>7
  <2> QED
    BY <2>6, <2>7
<1>7. bn_encode(s, z, n) = bytes
  <2> HIDE DEF z, bytes
  <2> DEFINE y == bn_encode(s, z, n)
  <2>1. y \in [1..s -> Byte] /\ \A j \in 1..s : y[j] = bytes[j]
    BY <1>4, <1>6
  <2> HIDE DEF y
  <2>2. y = bytes
    BY <1>1, <2>1
  <2> QED
    BY <2>2 DEF y
<1> QED
  BY <1>7

\* A digit with its weight is part of the value.
LEMMA DigitAtMostValue ==
    ASSUME NEW n \in Nat, NEW x, HasDigits(x, n), NEW j \in 0..(n - 1)
    PROVE  x[j] * Power(Base, j) <= Value(x, n)
<1> DEFINE m == j + 1
           l == n - (j + 1)
           w == Window(x, m, l)
<1>1. j \in Nat /\ m \in Nat /\ l \in Nat /\ m + l = n /\ j <= n /\ j < n
  BY SMT
<1> HIDE DEF m, l
<1>2. HasDigits(x, j) /\ Value(x, j) \in Nat /\ x[j] \in Digit
  BY <1>1, FewerDigits
<1>3. Value(x, j + 1) = Value(x, j) + x[j] * Power(Base, j)
  BY <1>1, <1>2, ValueFacts
<1>4. HasDigits(x, m + l)
  BY <1>1
<1>5. /\ HasDigits(w, l)
      /\ Value(x, m + l) = Value(x, m) + Power(Base, m) * Value(w, l)
  BY <1>1, <1>4, ValueSplit
<1> HIDE DEF w
<1>6. Value(w, l) \in Nat /\ Power(Base, m) \in Nat /\ Power(Base, j) \in Nat
      /\ x[j] \in Nat
  BY <1>1, <1>2, <1>5, ValueFacts, PowerFacts, BignumAssumption,
    DigitsAreNumbers
<1>7. Power(Base, m) * Value(w, l) \in Nat /\ x[j] * Power(Base, j) \in Nat
  BY <1>6
<1>8. Value(x, n)
        = (Value(x, j) + x[j] * Power(Base, j)) + Power(Base, m) * Value(w, l)
  BY <1>1, <1>3, <1>5 DEF m
<1> QED
  BY <1>2, <1>7, <1>8

\* The weight of a digit, in bytes.
LEMMA WeightInBytes ==
    ASSUME NEW j \in Nat
    PROVE  Power(Base, j) = Power(2, ByteBits * (j * BytesPerDigit))
<1>1. Power(Power(2, DigitBits), j) = Power(2, DigitBits * j)
  BY BignumAssumption, PowerOfPower
<1>2. DigitBits * j = ByteBits * (j * BytesPerDigit)
  <2> DEFINE U == BytesPerDigit
  <2>1. U \in Nat /\ ByteBits \in Nat /\ ByteBits * U = DigitBits
    BY BytesOfDigit, BignumAssumption
  <2> HIDE DEF U
  <2>2. (ByteBits * U) * j = ByteBits * (j * U)
    BY <2>1
  <2> QED
    BY <2>1, <2>2 DEF U
<1> QED
  BY <1>1, <1>2, WordAssumption

\* A number that fits in a block has no bytes above it.
LEMMA NoByteAbove ==
    ASSUME NEW s \in Nat, NEW n \in Nat, NEW x, HasDigits(x, n),
           Value(x, n) < Power(2, ByteBits * s),
           NEW j \in 0..(n - 1), NEW v \in 0..(BytesPerDigit - 1),
           j * BytesPerDigit + v >= s
    PROVE  ByteOfDigit(x[j], v) = 0
<1> DEFINE U == BytesPerDigit
           P == Power(2, ByteBits)
           e == x[j]
           E == ByteBits * (j * U)
           F == ByteBits * v
           G == ByteBits * s
           W == Power(2, E)
           M == Power(2, F)
           Y == Power(2, G)
           V == Value(x, n)
<1>1. U \in Nat \ {0} /\ P \in Nat \ {0} /\ j \in Nat /\ v \in Nat
        /\ ByteBits \in Nat
  BY BytesOfDigit, BignumAssumption
<1>2. E \in Nat /\ F \in Nat /\ G \in Nat /\ G <= E + F
  <2>1. j * U \in Nat /\ s <= j * U + v
    BY <1>1
  <2> DEFINE k == j * U
  <2>2. k \in Nat /\ s <= k + v
    BY <2>1
  <2> HIDE DEF k
  <2>3. s * ByteBits <= (k + v) * ByteBits
    BY <1>1, <2>2, Monotone
  <2>4. (k + v) * ByteBits = ByteBits * k + ByteBits * v
          /\ s * ByteBits = ByteBits * s
        /\ ByteBits * k \in Nat /\ ByteBits * v \in Nat /\ ByteBits * s \in Nat
    BY <1>1, <2>2
  <2> QED
    BY <2>3, <2>4 DEF k
<1>3. e \in Nat
  <2>1. e \in Digit
    BY DEF HasDigits
  <2> QED
    BY <2>1, DigitsAreNumbers
<1>4. V \in Nat /\ V < Y
  BY ValueFacts
<1>5. e * W <= V
  BY <1>1, DigitAtMostValue, WeightInBytes
<1> HIDE DEF E, F, G, V, e
<1>6. W \in Nat \ {0} /\ M \in Nat \ {0} /\ Y \in Nat \ {0}
  <2>1. 2 \in Nat \ {0}
    OBVIOUS
  <2> QED
    BY <1>2, <2>1, PowerPositive
<1>7. Y <= W * M
  <2>1. 2 \in Nat \ {0} /\ E + F \in Nat
    BY <1>2
  <2>2. Power(2, G) <= Power(2, E + F)
    BY <1>2, <2>1, PowerMonotone
  <2>3. Power(2, E + F) = Power(2, E) * Power(2, F)
    BY <1>2, PowerOfSum
  <2> QED
    BY <2>2, <2>3
<1> HIDE DEF W, M, Y, P, U
<1>8. e < M
  <2>1. SUFFICES ASSUME M <= e PROVE FALSE
    BY <1>3, <1>6
  <2>2. M * W <= e * W
    BY <1>3, <1>6, <2>1, Monotone
  <2>3. M * W = W * M /\ e * W \in Nat /\ W * M \in Nat
    BY <1>3, <1>6
  <2> QED
    BY <1>4, <1>5, <1>6, <1>7, <2>2, <2>3
<1>9. e \div M = 0
  <2>1. e = 0 * M + e /\ e \in 0..(M - 1) /\ M \in Nat /\ M > 0 /\ 0 \in Int
          /\ e \in Int
    BY <1>3, <1>6, <1>8
  <2> QED
    BY <2>1, SplitIsUnique
<1>10. 0 % P = 0
  <2>1. 0 = 0 * P + 0 /\ 0 \in 0..(P - 1) /\ P \in Nat /\ P > 0 /\ 0 \in Int
    BY <1>1
  <2> QED
    BY <2>1, SplitIsUnique
<1>11. (e \div M) % P = 0
  BY <1>9, <1>10, Zenon
<1> QED
  BY <1>11 DEF ByteOfDigit, e, M, F, P

\* Decoding what was encoded gives the digits back, if the number fits.
LEMMA DecodeEncode ==
    ASSUME NEW s \in Nat, NEW n \in Nat, NEW x \in [0..(n - 1) -> Digit],
           Value(x, n) < Power(2, ByteBits * s)
    PROVE  bn_decode(bn_encode(s, x, n), n) = x
<1> DEFINE U == BytesPerDigit
           bytes == bn_encode(s, x, n)
           z == bn_decode(bytes, n)
<1>1. HasDigits(x, n)
  BY ArrayHasDigits
<1>2. bytes \in [1..s -> Byte]
  BY <1>1, EncodeTyped
<1>3. z \in [0..(n - 1) -> Digit]
  <2> HIDE DEF bytes
  <2> QED
    BY <1>2, DecodeTyped
<1>4. U \in Nat \ {0}
  BY BytesOfDigit
<1>5. ASSUME NEW j \in 0..(n - 1), NEW v \in 0..(U - 1)
      PROVE  ByteOfDigit(z[j], v) = ByteOfDigit(x[j], v)
  <2> DEFINE k == j * U + v
  <2>1. j \in Nat /\ v \in Nat /\ j < n
    BY <1>4
  <2>2. k \in Nat
    <3>1. j * U \in Nat
      BY <1>4, <2>1
    <3> QED
      BY <2>1, <3>1
  <2>3. ByteOfDigit(z[j], v) = ByteOf(bytes, k)
    <3> HIDE DEF bytes
    <3> QED
      BY <1>2, DecodeBytes
  <2>4. CASE k < s
    <3> DEFINE l == s - k
    <3>1. l \in 1..s
      BY <2>2, <2>4
    <3>2. s - l = j * BytesPerDigit + v
      <4> HIDE DEF k
      <4>1. s - l = k
        BY <2>2
      <4> QED
        BY <4>1 DEF k
    <3> HIDE DEF l
    <3>3. bn_encode(s, x, n)[l] = IF j < n THEN ByteOfDigit(x[j], v) ELSE 0
      BY <1>1, <2>1, <3>1, <3>2, EncodeByte
    <3>4. ByteOf(bytes, k) = bytes[s - k]
      <4> HIDE DEF bytes, k
      <4> QED
        BY <1>2, <2>2, <2>4, ByteOfTyped
    <3> QED
      BY <2>1, <2>3, <3>3, <3>4 DEF l
  <2>5. CASE ~(k < s)
    <3>1. k >= s
      BY <2>2, <2>5
    <3>2. ByteOf(bytes, k) = 0
      <4> HIDE DEF bytes, k
      <4> QED
        BY <1>2, <2>2, <3>1, ByteOfTyped
    <3>3. ByteOfDigit(x[j], v) = 0
      BY <1>1, <3>1, NoByteAbove
    <3> QED
      BY <2>3, <3>2, <3>3
  <2> QED
    BY <2>4, <2>5
<1>6. ASSUME NEW j \in 0..(n - 1) PROVE z[j] = x[j]
  <2> HIDE DEF z
  <2>1. z[j] \in Digit /\ x[j] \in Digit
    BY <1>3
  <2> QED
    BY <1>5, <2>1, DigitByBytes
<1> HIDE DEF z
<1>7. z = x
  BY <1>3, <1>6
<1> QED
  BY <1>7 DEF z

\* Two arrays of the same length with the same value are the same.
LEMMA SameArray ==
    ASSUME NEW n \in Nat, NEW x \in [0..(n - 1) -> Digit],
           NEW y \in [0..(n - 1) -> Digit], Value(x, n) = Value(y, n)
    PROVE  x = y
<1>1. HasDigits(x, n) /\ HasDigits(y, n)
  BY ArrayHasDigits
<1>2. Value(x, n) \in Nat /\ Value(y, n) \in Nat
  BY <1>1, ValueFacts
<1>3. AtLeast(x, y, n) /\ AtLeast(y, x, n)
  BY <1>1, <1>2, AtLeastComparesValues
<1>4. \A j \in 0..(n - 1) : x[j] \in Nat /\ y[j] \in Nat
  BY DigitsAreNumbers
<1> DEFINE S == {k \in 0..n : \A j \in 0..(n - 1) : j >= n - k => x[j] = y[j]}
<1>5. 0 \in S
  BY SMT
<1>6. ASSUME NEW k \in 0..(n - 1), k \in S PROVE k + 1 \in S
  <2> DEFINE j == n - (k + 1)
  <2>1. j \in 0..(n - 1) /\ j \in Int
    OBVIOUS
  <2>2. \A l \in (j + 1)..(n - 1) : x[l] = y[l]
    BY <1>6
  <2>3. \A l \in (j + 1)..(n - 1) : ~(x[l] > y[l]) /\ ~(y[l] > x[l])
    <3>1. \A l \in (j + 1)..(n - 1) : l \in 0..(n - 1)
      BY <2>1
    <3> QED
      BY <1>4, <2>2, <3>1
  <2>4. ~(x[j] < y[j]) /\ ~(y[j] < x[j])
    BY <1>3, <2>1, <2>3 DEF AtLeast
  <2>5. x[j] = y[j]
    BY <1>4, <2>1, <2>4
  <2>6. \A l \in 0..(n - 1) : l >= n - (k + 1) => l = j \/ l >= n - k
    OBVIOUS
  <2>7. \A l \in 0..(n - 1) : l >= n - k => x[l] = y[l]
    BY <1>6
  <2> HIDE DEF j
  <2>8. \A l \in 0..(n - 1) : l >= n - (k + 1) => x[l] = y[l]
    BY <2>5, <2>6, <2>7
  <2>9. k + 1 \in 0..n
    OBVIOUS
  <2> QED
    BY <2>8, <2>9
<1> HIDE DEF S
<1>7. \A k \in 0..n : k \in S
  BY <1>5, <1>6, BoundedInduction
<1>8. \A j \in 0..(n - 1) : x[j] = y[j]
  BY <1>7 DEF S
<1> QED
  BY <1>8

-----------------------------------------------------------------------------
(* The arithmetic of the private and of the public operation *)

\* Congruent numbers have congruent powers.
LEMMA CongPower ==
    ASSUME NEW x \in Nat, NEW y \in Nat, NEW D \in Nat, Cong(x, y, D),
           NEW e \in Nat
    PROVE  Cong(Power(x, e), Power(y, e), D)
<1> DEFINE S == {k \in Nat : Cong(Power(x, k), Power(y, k), D)}
<1>1. 0 \in S
  <2>1. Power(x, 0) = 1 /\ Power(y, 0) = 1
    BY PowerFacts
  <2>2. Cong(1, 1, D)
    BY CongRefl
  <2> QED
    BY <2>1, <2>2
<1>2. ASSUME NEW k \in Nat, k \in S PROVE k + 1 \in S
  <2> DEFINE u == Power(x, k)
             v == Power(y, k)
  <2>1. u \in Nat /\ Power(x, k + 1) = x * u
    BY PowerFacts
  <2>2. v \in Nat /\ Power(y, k + 1) = y * v
    BY PowerFacts
  <2>3. Cong(u, v, D)
    BY <1>2
  <2> HIDE DEF u, v
  <2>4. u \in Int /\ v \in Int /\ x \in Int /\ y \in Int
    BY <2>1, <2>2
  <2>5. Cong(x * u, y * v, D)
    BY <2>3, <2>4, CongTimes
  <2> QED
    BY <2>1, <2>2, <2>5
<1> HIDE DEF S
<1>3. \A k \in Nat : k \in S
  BY <1>1, <1>2, SetInduction
<1> QED
  BY <1>3 DEF S

\* A congruence by a product is one by each factor.
LEMMA CongFactors ==
    ASSUME NEW x \in Int, NEW y \in Int, NEW P \in Nat, NEW Q \in Nat,
           Cong(x, y, P * Q)
    PROVE  Cong(x, y, P) /\ Cong(x, y, Q)
<1>1. PICK k \in Int : x = k * (P * Q) + y
  BY DEF Cong
<1>2. k * (P * Q) = (k * Q) * P /\ k * (P * Q) = (k * P) * Q
      /\ k * Q \in Int /\ k * P \in Int
  OBVIOUS
<1>3. x = (k * Q) * P + y /\ x = (k * P) * Q + y
  BY <1>1, <1>2
<1> QED
  BY <1>2, <1>3 DEF Cong

\* A multiple of Q is no multiple of P below P * Q but 0, when Q has an inverse.
LEMMA NoCommonMultiple ==
    ASSUME NEW P \in Nat \ {0}, NEW Q \in Nat \ {0}, NEW K \in Nat,
           (Q * K) % P = 1, NEW d \in Nat, d < P * Q,
           Cong(d, 0, P), Cong(d, 0, Q)
    PROVE  d = 0
<1>1. PICK g \in Int : d = g * P
  <2>1. PICK g \in Int : d = g * P + 0
    BY DEF Cong
  <2>2. g * P + 0 = g * P
    OBVIOUS
  <2> QED
    BY <2>1, <2>2
<1>2. PICK k \in Int : d = k * Q
  <2>1. PICK k \in Int : d = k * Q + 0
    BY DEF Cong
  <2>2. k * Q + 0 = k * Q
    OBVIOUS
  <2> QED
    BY <2>1, <2>2
<1> DEFINE X == Q * K
           w == X \div P
<1>3. X \in Nat /\ X % P = 1
  OBVIOUS
<1> HIDE DEF X
<1>4. w \in Nat /\ X = w * P + 1
  BY <1>3, DivFacts
<1> HIDE DEF w
<1>5. k = (g * K - k * w) * P
  <2>1. (k * Q) * K = k * X
    BY DEF X
  <2>2. k * X = k * (w * P + 1)
    BY <1>4
  <2>3. k * (w * P + 1) = (k * w) * P + k
    BY <1>4
  <2>4. (g * P) * K = (g * K) * P
    OBVIOUS
  <2>5. (g * K) * P = (k * w) * P + k
    BY <1>1, <1>2, <2>1, <2>2, <2>3, <2>4
  <2> DEFINE u == g * K
             v == k * w
  <2>6. u \in Int /\ v \in Int
    BY <1>4
  <2>7. u * P = v * P + k
    BY <2>5
  <2> HIDE DEF u, v
  <2>8. (u - v) * P = u * P - v * P /\ u * P \in Int /\ v * P \in Int
    BY <2>6
  <2>9. k = (u - v) * P
    BY <2>7, <2>8
  <2> QED
    BY <2>9 DEF u, v
<1>6. k >= 0 /\ k < P
  <2>1. k >= 0
    <3>1. SUFFICES ASSUME k + 1 <= 0 PROVE FALSE
      OBVIOUS
    <3>2. (k + 1) * Q <= 0 * Q
      BY <3>1, Monotone
    <3>3. (k + 1) * Q = k * Q + Q /\ 0 * Q = 0 /\ k * Q \in Int
      OBVIOUS
    <3> QED
      BY <1>2, <3>2, <3>3
  <2>2. k < P
    <3>1. SUFFICES ASSUME P <= k PROVE FALSE
      OBVIOUS
    <3>2. P * Q <= k * Q
      BY <3>1, Monotone
    <3> QED
      BY <1>2, <3>2
  <2> QED
    BY <2>1, <2>2
<1>7. k = 0
  <2> DEFINE v == g * K - k * w
  <2>1. v \in Int /\ k = v * P
    BY <1>4, <1>5
  <2> HIDE DEF v
  <2>2. k \in Int /\ k = v * P + 0 /\ 0 \in 0..(P - 1) /\ P > 0 /\ P \in Nat
    BY <2>1
  <2>3. k % P = 0
    BY <2>1, <2>2, SplitIsUnique
  <2>4. k = 0 * P + k /\ k \in 0..(P - 1) /\ 0 \in Int
    BY <1>6
  <2>5. k % P = k
    BY <2>2, <2>4, SplitIsUnique
  <2> QED
    BY <2>3, <2>5
<1>8. 0 * Q = 0
  OBVIOUS
<1> QED
  BY <1>2, <1>7, <1>8

\* A number below P * Q is known by its remainders.
LEMMA KnownByRemainders ==
    ASSUME NEW P \in Nat \ {0}, NEW Q \in Nat \ {0}, NEW K \in Nat,
           (Q * K) % P = 1, NEW x \in Nat, NEW y \in Nat, x < P * Q, y < P * Q,
           Cong(x, y, P), Cong(x, y, Q)
    PROVE  x = y
<1>1. ASSUME NEW u \in Nat, NEW v \in Nat, u < P * Q, v <= u,
             Cong(u, v, P), Cong(u, v, Q)
      PROVE  u = v
  <2> DEFINE d == u - v
  <2>1. ASSUME NEW D \in Nat, Cong(u, v, D) PROVE Cong(d, 0, D)
    <3>1. PICK k \in Int : u = k * D + v
      BY <2>1 DEF Cong
    <3>2. k * D \in Int
      OBVIOUS
    <3>3. d = k * D + 0
      BY <3>1, <3>2
    <3> QED
      BY <3>3 DEF Cong
  <2>2. Cong(d, 0, P) /\ Cong(d, 0, Q)
    BY <1>1, <2>1
  <2>3. d \in Nat /\ d < P * Q
    <3>1. P * Q \in Nat
      OBVIOUS
    <3> QED
      BY <1>1, <3>1
  <2> HIDE DEF d
  <2>4. d = 0
    BY <2>2, <2>3, NoCommonMultiple
  <2> QED
    BY <2>4 DEF d
<1>2. CASE y <= x
  BY <1>1, <1>2
<1>3. CASE x <= y
  <2>1. Cong(y, x, P) /\ Cong(y, x, Q)
    BY CongSym
  <2> QED
    BY <1>1, <1>3, <2>1
<1> QED
  BY <1>2, <1>3

\* What the private operation makes of the two residues.
LEMMA Recombined ==
    ASSUME NEW P \in Nat \ {0}, NEW Q \in Nat \ {0}, NEW K \in Nat,
           (Q * K) % P = 1, NEW x \in Nat, NEW y \in Nat,
           NEW T \in Nat, Cong(T, x - y, P), NEW H \in Nat, Cong(T * K, H, P)
    PROVE  Cong(H * Q + y, x, P) /\ Cong(H * Q + y, y, Q)
<1> DEFINE X == Q * K
           w == X \div P
<1>1. X \in Nat /\ X % P = 1
  OBVIOUS
<1> HIDE DEF X
<1>2. w \in Nat /\ X = w * P + 1
  BY <1>1, DivFacts
<1> HIDE DEF w
<1>3. Cong(X, 1, P)
  BY <1>2 DEF Cong
<1> DEFINE TK == T * K
           HQ == H * Q
           TX == T * X
           z == x - y
<1>4. TK \in Int /\ HQ \in Int /\ TX \in Int /\ z \in Int /\ TK * Q = TX
  <2>1. (T * K) * Q = T * (Q * K)
    OBVIOUS
  <2> QED
    BY <1>1, <2>1 DEF X
<1>5. Cong(HQ, TX, P)
  <2>1. Cong(H, TK, P)
    BY CongSym, <1>4
  <2>2. Cong(Q, Q, P)
    BY CongRefl
  <2>3. Cong(H * Q, TK * Q, P)
    <3> HIDE DEF TK, TX
    <3> QED
      BY <1>4, <2>1, <2>2, CongTimes
  <2> QED
    BY <1>4, <2>3
<1>6. Cong(TX, z, P)
  <2>1. Cong(T * X, z * 1, P)
    <3> HIDE DEF z
    <3> QED
      BY <1>1, <1>3, <1>4, CongTimes DEF z
  <2>2. z * 1 = z
    OBVIOUS
  <2> QED
    BY <2>1, <2>2
<1>7. Cong(HQ + y, x, P)
  <2>1. Cong(T * X, z, P)
    BY <1>6
  <2>2. Cong(HQ, z, P)
    <3> HIDE DEF HQ, TX, z
    <3> QED
      BY <1>4, <1>5, <1>6, CongTrans
  <2>3. Cong(y, y, P)
    BY CongRefl
  <2>4. Cong(HQ + y, z + y, P)
    <3> HIDE DEF HQ, z
    <3> QED
      BY <1>4, <2>2, <2>3, CongPlus
  <2>5. z + y = x
    OBVIOUS
  <2> QED
    BY <2>4, <2>5
<1>8. Cong(HQ + y, y, Q)
  BY DEF Cong
<1> QED
  BY <1>7, <1>8

\* Raised to the public exponent, what the private operation makes of C is C.
LEMMA RoundTrip ==
    ASSUME NEW P \in Nat, IsPrime(P), NEW Q \in Nat, IsPrime(Q), NEW K \in Nat,
           (Q * K) % P = 1, NEW E \in Nat,
           NEW F \in Nat, (F * E) % (P - 1) = 1,
           NEW G \in Nat, (G * E) % (Q - 1) = 1,
           NEW C \in Nat, C < P * Q, NEW M \in Nat,
           Cong(M, Power(C, F), P), Cong(M, Power(C, G), Q),
           NEW R \in Nat, R < P * Q, Cong(Power(M, E), R, P * Q)
    PROVE  R = C
<1>1. P \in Nat \ {0} /\ Q \in Nat \ {0}
  BY DEF IsPrime
<1>2. ASSUME NEW D \in Nat, IsPrime(D), NEW U \in Nat, (U * E) % (D - 1) = 1,
             Cong(M, Power(C, U), D), Cong(Power(M, E), R, D)
      PROVE  Cong(R, C, D)
  <2> DEFINE A == Power(C, U)
             u == U * E
             B == Power(M, E)
             Z == Power(A, E)
  <2>1. A \in Nat /\ B \in Nat /\ u \in Nat
    <3>1. u \in Nat
      BY <1>2
    <3>2. A \in Nat
      BY <1>2, PowerFacts
    <3>3. B \in Nat
      BY PowerFacts
    <3> QED
      BY <3>1, <3>2, <3>3
  <2>2. Z \in Nat /\ Cong(B, Z, D)
    <3> HIDE DEF A
    <3> QED
      BY <1>2, <2>1, PowerFacts, CongPower DEF A
  <2>3. Z = Power(C, u)
    BY PowerOfPower
  <2>4. Cong(Power(C, u), C, D)
    <3>1. u % (D - 1) = 1
      BY <1>2
    <3> HIDE DEF u
    <3> QED
      BY <1>2, <2>1, <3>1, ExponentsCancel
  <2> HIDE DEF Z, B
  <2>5. Cong(Z, C, D)
    BY <2>3, <2>4
  <2>6. Cong(B, C, D)
    BY <2>1, <2>2, <2>5, CongTrans
  <2>7. Cong(R, B, D)
    BY <1>2, <2>1, CongSym DEF B
  <2> QED
    BY <2>1, <2>6, <2>7, CongTrans
<1>3. Power(M, E) \in Int
  BY PowerFacts
<1>4. Cong(Power(M, E), R, P) /\ Cong(Power(M, E), R, Q)
  BY <1>3, CongFactors
<1>5. Cong(R, C, P)
  BY <1>2, <1>4
<1>6. Cong(R, C, Q)
  BY <1>2, <1>4
<1> QED
  BY <1>1, <1>5, <1>6, KnownByRemainders

-----------------------------------------------------------------------------
(* The public operation undoes the private one *)

\* The numbers of the key.
Prime1 == Value(key.p, key.pdigits)
Prime2 == Value(key.q, key.pdigits)
Modulus == Value(key.n, key.ndigits)
Exponent1 == Value(key.dp, key.pdigits)
Exponent2 == Value(key.dq, key.pdigits)
Coefficient == Value(key.q_inv, key.pdigits)
PublicExponent == Value(key.e, key.ndigits)

\* The number of the block, and mp and mq.
Message == Value(c, key.ndigits)
Residue1 == Value(residue.p, key.pdigits)
Residue2 == Value(residue.q, key.pdigits)

\* The case PublicUndoesPrivate leaves open: the difference wraps.
Wraps == Residue2 > Residue1 + Prime1

\* V is what is left of X after taking away some multiple of D.
Leaves(X, D, V) == \E k \in Nat : X = k * D + V

\* The block is the encoding of its number.
Encoded == in = bn_encode(key.size, c, key.ndigits)

\* Whether the number of the block is below the modulus.
Below ==
    /\ pc = "rejected" => Message >= Modulus
    /\ pc \notin {"compare", "rejected"} => Message < Modulus

\* bn_div takes multiples of the normalised prime from the shifted block.
Dividing ==
    prime # "none" =>
        /\ Value(dd, ddigits)
             = Power(2, ShiftOf(prime)) * Value(key[prime], key.pdigits)
        /\ Leaves(Power(2, ShiftOf(prime)) * Message, Value(dd, ddigits),
                  Value(cc, Top + 1))

\* cp and cq.
Remainders ==
    /\ \/ prime = "p" /\ pc = "divide"
       \/ prime = "q" /\ pc \in {"estimate", "correct", "exponentiate"}
       => IsMod(residue.p, key.pdigits, Message, Prime1)
    /\ pc = "exponentiate" => IsMod(residue.q, key.pdigits, Message, Prime2)

\* Both powers are computed.
Raised == {"subtract", "combine", "public", "refused", "done"}

\* mp and mq.
Residues ==
    pc \in Raised =>
        /\ Residue1 < Prime1
             /\ Cong(Residue1, Power(Message, Exponent1), Prime1)
        /\ Residue2 < Prime2
             /\ Cong(Residue2, Power(Message, Exponent2), Prime2)

\* t = mp - mq mod p, unless it wraps.
Difference ==
    pc = "combine" /\ ~Wraps =>
        Cong(Value(t, key.pdigits), Residue1 - Residue2, Prime1)

\* The result is below the modulus, and leaves mp and mq.
Produced ==
    pc = "public" =>
        /\ t \in Whole /\ out = bn_encode(key.size, t, key.ndigits)
        /\ Value(t, key.ndigits) < Modulus
        /\ ~Wraps => /\ Cong(Value(t, key.ndigits), Residue1, Prime1)
                     /\ Cong(Value(t, key.ndigits), Residue2, Prime2)

\* The public operation accepts the result and undoes the private one.
Undone == pc # "refused" /\ (pc = "done" => back = in \/ Wraps)

\* The inductive invariant of PublicUndoesPrivate.
UndoInv ==
    /\ Encoded /\ Below /\ Dividing /\ Remainders /\ Residues /\ Difference
    /\ Produced /\ Undone

\* A key is a key pair.
LEMMA KeyNumbers ==
    ASSUME key \in Keys
    PROVE  /\ Prime1 \in Nat \ {0} /\ Prime2 \in Nat \ {0} /\ Modulus \in Nat
           /\ Exponent1 \in Nat /\ Exponent2 \in Nat /\ Coefficient \in Nat
           /\ PublicExponent \in Nat
           /\ IsPrime(Prime1) /\ IsPrime(Prime2)
           /\ Prime1 * Prime2 = Modulus /\ Modulus > 1
           /\ Modulus <= Power(2, ByteBits * key.size)
           /\ (Exponent1 * PublicExponent) % (Prime1 - 1) = 1
           /\ (Exponent2 * PublicExponent) % (Prime2 - 1) = 1
           /\ (Prime2 * Coefficient) % Prime1 = 1
<1> DEFINE m == key.pdigits
           l == key.ndigits
<1>1. m \in Nat /\ l \in Nat
  BY KeyFacts
<1>2. \A name \in {"p", "q", "dp", "dq", "q_inv"} : Value(key[name], m) \in Nat
  <2>1. \A name \in {"p", "q", "dp", "dq", "q_inv"} :
          key[name] \in [0..(m - 1) -> Digit]
    BY KeyFacts
  <2>2. \A x \in [0..(m - 1) -> Digit] : Value(x, m) \in Nat
    BY <1>1, ArrayHasDigits, ValueFacts
  <2> QED
    BY <2>1, <2>2
<1>3. \A name \in {"n", "e"} : Value(key[name], l) \in Nat
  <2>1. \A name \in {"n", "e"} : key[name] \in [0..(l - 1) -> Digit]
    BY KeyFacts
  <2>2. \A x \in [0..(l - 1) -> Digit] : Value(x, l) \in Nat
    BY <1>1, ArrayHasDigits, ValueFacts
  <2> QED
    BY <2>1, <2>2
<1>4. /\ Prime1 \in Nat /\ Prime2 \in Nat /\ Exponent1 \in Nat
      /\ Exponent2 \in Nat /\ Coefficient \in Nat
  <2>1. /\ Value(key["p"], m) \in Nat /\ Value(key["q"], m) \in Nat
        /\ Value(key["dp"], m) \in Nat /\ Value(key["dq"], m) \in Nat
        /\ Value(key["q_inv"], m) \in Nat
    BY <1>2
  <2> QED
    BY <2>1 DEF Prime1, Prime2, Exponent1, Exponent2, Coefficient
<1>5. Modulus \in Nat /\ PublicExponent \in Nat
  <2>1. Value(key["n"], l) \in Nat /\ Value(key["e"], l) \in Nat
    BY <1>3
  <2> QED
    BY <2>1 DEF Modulus, PublicExponent
<1>6. /\ IsPrime(Prime1) /\ IsPrime(Prime2) /\ Prime1 * Prime2 = Modulus
      /\ Modulus <= Power(2, ByteBits * key.size)
  BY KeyPairAssumption DEF Prime1, Prime2, Modulus
<1>7. /\ (Exponent1 * PublicExponent) % (Prime1 - 1) = 1
      /\ (Exponent2 * PublicExponent) % (Prime2 - 1) = 1
      /\ (Prime2 * Coefficient) % Prime1 = 1
  BY KeyPairAssumption, Zenon
  DEF Prime1, Prime2, Exponent1, Exponent2, Coefficient, PublicExponent
<1>8. Prime1 > 1 /\ Prime2 > 1
  BY <1>6 DEF IsPrime
<1>9. Modulus > 1
  <2> DEFINE x == Prime1
             y == Prime2
  <2>1. x \in Nat /\ y \in Nat /\ x > 1 /\ y > 1 /\ x * y = Modulus
    BY <1>4, <1>6, <1>8
  <2> HIDE DEF x, y
  <2>2. 2 * y <= x * y
    BY <2>1, Monotone
  <2> QED
    BY <1>5, <2>1, <2>2
<1>10. Prime1 \in Nat \ {0} /\ Prime2 \in Nat \ {0}
  BY <1>4, <1>8
<1> QED
  BY <1>4, <1>5, <1>6, <1>7, <1>9, <1>10

\* A step that leaves the key, the block and the residues alone leaves their
\* numbers alone.
LEMMA SameNumbers ==
    ASSUME key' = key, in' = in
    PROVE  /\ Prime1' = Prime1 /\ Prime2' = Prime2 /\ Modulus' = Modulus
           /\ Exponent1' = Exponent1 /\ Exponent2' = Exponent2
           /\ Message' = Message /\ (Encoded => Encoded')
           /\ residue' = residue =>
                Residue1' = Residue1 /\ Residue2' = Residue2
                  /\ (Wraps' <=> Wraps)
<1>1. c' = c
  BY SameBlock
<1>2. Prime1' = Prime1 /\ Prime2' = Prime2 /\ Modulus' = Modulus
      /\ Exponent1' = Exponent1 /\ Exponent2' = Exponent2
  BY DEF Prime1, Prime2, Modulus, Exponent1, Exponent2
<1>3. Message' = Message /\ (Encoded => Encoded')
  BY <1>1 DEF Message, Encoded
<1>4. residue' = residue => Residue1' = Residue1 /\ Residue2' = Residue2
  BY DEF Residue1, Residue2
<1>5. residue' = residue => (Wraps' <=> Wraps)
  BY <1>2, <1>4 DEF Wraps
<1> QED
  BY <1>2, <1>3, <1>4, <1>5

\* What bn_div takes away in a step is a multiple of the divisor.
LEMMA LeavesLess ==
    ASSUME NEW X \in Nat, NEW D \in Nat, NEW V \in Nat, Leaves(X, D, V),
           NEW e \in Nat, NEW u \in Nat, NEW W \in Int, W = V - e * (D * u)
    PROVE  Leaves(X, D, W)
<1>1. PICK k \in Nat : X = k * D + V
  BY DEF Leaves
<1> DEFINE g == e * u
<1>2. g \in Nat /\ e * (D * u) = g * D
  OBVIOUS
<1> HIDE DEF g
<1>3. (k + g) * D = k * D + g * D /\ k * D \in Nat /\ g * D \in Nat
  BY <1>2
<1>4. X = (k + g) * D + W
  BY <1>1, <1>2, <1>3
<1>5. k + g \in Nat
  BY <1>2
<1> QED
  BY <1>4, <1>5 DEF Leaves

\* The invariant holds of a block handed in.
LEMMA UndoStarts ==
    ASSUME Init PROVE UndoInv
<1>1. key \in Keys /\ pc = "compare" /\ prime = "none"
  BY DEF Init
<1> DEFINE n == key.ndigits
           s == key.size
           D(x) == [k \in 0..(n - 1) |-> (x \div Power(Base, k)) % Base]
<1>2. n \in Nat /\ s \in Nat /\ Inputs(key) \subseteq Nat
  BY <1>1, KeyFacts
<1>3. Encoded
  <2>1. PICK x \in Inputs(key) : in = bn_encode(s, D(x), n)
    BY DEF Init
  <2>2. x \in Nat
    BY <1>2
  <2> HIDE DEF n, s
  <2>3. ASSUME NEW k \in 0..(n - 1)
        PROVE (x \div Power(Base, k)) % Base \in Digit
    <3>1. Power(Base, k) \in Nat \ {0}
      BY BignumAssumption, PowerPositive
    <3> DEFINE h == x \div Power(Base, k)
    <3>2. h \in Nat
      BY <2>2, <3>1, DivFacts
    <3> HIDE DEF h
    <3>3. h % Base \in 0..(Base - 1)
      BY <3>2, BignumAssumption
    <3> QED
      BY <3>3 DEF Digit, h
  <2>4. HasDigits(D(x), n)
    BY <2>3 DEF HasDigits
  <2> HIDE DEF D
  <2>5. bn_encode(s, bn_decode(in, n), n) = in
    BY <1>2, <2>1, <2>4, EncodeDecode
  <2> QED
    BY <2>5 DEF Encoded, c, n, s
<1>4. Below /\ Dividing /\ Undone
  BY <1>1 DEF Below, Dividing, Undone
<1>5. Remainders /\ Residues /\ Difference /\ Produced
  BY <1>1 DEF Remainders, Residues, Raised, Difference, Produced
<1> QED
  BY <1>3, <1>4, <1>5 DEF UndoInv

\* Compare keeps the invariant.
LEMMA CompareUndo ==
    ASSUME RsaInv, UndoInv, Compare PROVE UndoInv'
<1>1. /\ pc = "compare"
      /\ pc' = IF AtLeast(c, key.n, key.ndigits) THEN "rejected" ELSE "divide"
      /\ key' = key /\ in' = in /\ UNCHANGED division
  BY DEF Compare
<1>2. key \in Keys /\ in \in Bytes /\ prime = "none" /\ prime' = prime
  BY <1>1 DEF RsaInv, Plain, Phases, division
<1>3. Encoded'
  BY <1>1, SameNumbers DEF UndoInv
<1>4. Below'
  <2>1. key["n"] \in [0..(key.ndigits - 1) -> Digit] /\ key.ndigits \in Nat
    BY <1>2, KeyFacts
  <2>2. HasDigits(key.n, key.ndigits)
    BY <2>1 DEF HasDigits
  <2>3. AtLeast(c, key.n, key.ndigits) <=> Message >= Modulus
    BY <1>2, <2>1, <2>2, BlockFacts, AtLeastComparesValues DEF Message, Modulus
  <2>4. Message \in Nat /\ Modulus \in Nat
    BY <1>2, <2>1, BlockFacts, KeyNumbers, ValueFacts DEF Message
  <2>5. Message' = Message /\ Modulus' = Modulus
    BY <1>1, SameNumbers
  <2> QED
    BY <1>1, <2>3, <2>4, <2>5 DEF Below
<1>5. Dividing' /\ Remainders' /\ Residues' /\ Difference' /\ Produced'
        /\ Undone'
  BY <1>1, <1>2
     DEF Dividing, Remainders, Residues, Raised, Difference, Produced, Undone
<1> QED
  BY <1>3, <1>4, <1>5 DEF UndoInv

\* StartDivision keeps the invariant.
LEMMA StartUndo ==
    ASSUME RsaInv, UndoInv, StartDivision PROVE UndoInv'
<1> DEFINE d == IF prime = "none" THEN "p" ELSE "q"
           n == DigitsOf(d)
           L == TopOf(cdigits, n)
           s == ShiftOf(d)
<1>1. /\ pc = "divide" /\ pc' = "estimate"
      /\ key' = key /\ in' = in
      /\ prime' = d
      /\ dd' = bn_shift_l(key[d], s, n).digits
      /\ cc' = Normalised(c, s, cdigits, n)
      /\ residue' = residue
  BY DEF StartDivision
<1>2. d \in {"p", "q"} /\ key \in Keys /\ in \in Bytes
        /\ prime \in {"none", "p"}
      /\ (d = "q" => prime = "p")
  BY <1>1 DEF RsaInv, Plain, Phases
<1>3. cdigits' = cdigits /\ ddigits' = n /\ Top' = L
  BY <1>1, SameBlock DEF ddigits, Top
<1>11. ShiftOf(prime)' = s
  BY <1>1 DEF ShiftOf, DigitsOf
<1>4. Encoded' /\ Message' = Message /\ Modulus' = Modulus /\ Prime1' = Prime1
  BY <1>1, SameNumbers DEF UndoInv
<1> HIDE DEF d, L
<1>5. Below'
  BY <1>1, <1>4 DEF UndoInv, Below
<1>6. Value(dd', n) = Power(2, s) * Value(key[d], key.pdigits)
  <2> DEFINE x == key[d]
             m == key.pdigits
  <2>1. /\ n \in Nat \ {0} /\ HasDigits(x, n) /\ x[n - 1] # 0
        /\ Value(x, n) = Value(x, m)
    BY <1>2, PrimeFacts DEF DigitsOf
  <2>2. s = Shift(x, n)
    BY DEF ShiftOf
  <2> HIDE DEF x, n, s
  <2>3. Value(bn_shift_l(x, Shift(x, n), n).digits, n)
          = Power(2, Shift(x, n)) * Value(x, n)
    BY <2>1, NormalisedDivisor
  <2>4. dd' = bn_shift_l(x, s, n).digits
    BY <1>1 DEF x, s, n
  <2> QED
    BY <2>1, <2>2, <2>3, <2>4, Zenon DEF x
<1>7. Leaves(Power(2, s) * Message, Value(dd', n), Value(cc', L + 1))
  <2> DEFINE V == Value(cc', L + 1)
             D == Value(dd', n)
             W == Power(2, s)
  <2>1. V = Message * W
    BY <1>1, <1>2, StartFacts DEF L, Message
  <2>2. Message \in Nat
    BY <1>2, KeyFacts, BlockFacts, ValueFacts DEF Message
  <2>3. W \in Nat
    BY <1>2, PrimeFacts, ShiftParts DEF ShiftOf, DigitsOf
  <2>4. D \in Nat
    <3>1. Value(key[d], key.pdigits) \in Nat
      BY <1>2, PrimeFacts
    <3> QED
      BY <1>6, <2>3, <3>1
  <2> HIDE DEF V, D, W
  <2>5. W * Message = 0 * D + V
    <3>1. W * Message = Message * W /\ 0 * D = 0 /\ Message * W \in Nat
      BY <2>2, <2>3, <2>4
    <3> QED
      BY <2>1, <3>1
  <2>6. Leaves(W * Message, D, V)
    BY <2>5 DEF Leaves
  <2> QED
    BY <2>6 DEF V, D, W
<1>8. Dividing'
  <2>1. Value(dd, ddigits)'
          = Power(2, ShiftOf(prime)') * Value(key[prime], key.pdigits)'
    BY <1>1, <1>3, <1>6, <1>11
  <2>2. Leaves(Power(2, ShiftOf(prime)') * Message', Value(dd, ddigits)',
               Value(cc, Top + 1)')
    BY <1>3, <1>4, <1>7, <1>11
  <2> QED
    BY <2>1, <2>2 DEF Dividing
<1>9. Remainders'
  BY <1>1, <1>2, <1>4 DEF UndoInv, Remainders
<1>10. Residues' /\ Difference' /\ Produced' /\ Undone'
  BY <1>1 DEF Residues, Raised, Difference, Produced, Undone
<1> QED
  BY <1>4, <1>5, <1>8, <1>9, <1>10 DEF UndoInv

\* The numbers of a division under way.
LEMMA DividingFacts ==
    ASSUME RsaInv, prime # "none"
    PROVE  /\ Value(dd, ddigits) \in Nat
           /\ Top \in Nat /\ cc \in [0..Top -> Digit]
                /\ Value(cc, Top + 1) \in Nat
           /\ Power(2, ShiftOf(prime)) * Message \in Nat
           /\ Message \in Nat
<1>1. key \in Keys /\ in \in Bytes /\ prime \in {"p", "q"}
  BY DEF RsaInv, Plain
<1>2. Top \in Nat /\ ddigits \in Nat
  BY <1>1, StartFacts DEF ddigits, Top
<1>3. cc \in [0..Top -> Digit] /\ dd \in [0..(ddigits - 1) -> Digit]
  BY DEF RsaInv, Divisions
<1>4. Value(dd, ddigits) \in Nat
  BY <1>2, <1>3, ArrayHasDigits, ValueFacts
<1>5. Value(cc, Top + 1) \in Nat
  BY <1>2, <1>3, TopNumber
<1>6. Message \in Nat
  BY <1>1, KeyFacts, BlockFacts, ValueFacts DEF Message
<1>7. Power(2, ShiftOf(prime)) \in Nat
  BY <1>1, PrimeFacts, ShiftParts DEF ShiftOf, DigitsOf
<1>8. Power(2, ShiftOf(prime)) * Message \in Nat
  <2> DEFINE W == Power(2, ShiftOf(prime))
  <2> HIDE DEF W
  <2>1. W \in Nat
    BY <1>7 DEF W
  <2>2. W * Message \in Nat
    BY <1>6, <2>1
  <2> QED
    BY <2>2 DEF W
<1> QED
  BY <1>2, <1>3, <1>4, <1>5, <1>6, <1>8

\* A step of bn_div that takes a multiple of the divisor away.
LEMMA DividingKept ==
    ASSUME RsaInv, UndoInv, prime # "none", key' = key, in' = in,
           prime' = prime, dd' = dd, NEW e \in Nat, NEW u \in Nat,
           Value(cc', Top + 1) \in Int,
           Value(cc', Top + 1)
             = Value(cc, Top + 1) - e * (Value(dd, ddigits) * u)
    PROVE  Dividing'
<1>1. ddigits' = ddigits /\ Top' = Top /\ ShiftOf(prime)' = ShiftOf(prime)
  BY SameBlock
<1>2. Message' = Message
  BY SameNumbers
<1> DEFINE X == Power(2, ShiftOf(prime)) * Message
           D == Value(dd, ddigits)
           V == Value(cc, Top + 1)
           W == Value(cc', Top + 1)
<1>3. X \in Nat /\ D \in Nat /\ V \in Nat
  BY DividingFacts
<1>4. Leaves(X, D, V)
        /\ D = Power(2, ShiftOf(prime)) * Value(key[prime], key.pdigits)
  BY DEF UndoInv, Dividing
<1>5. W \in Int /\ W = V - e * (D * u)
  OBVIOUS
<1> HIDE DEF X, D, V, W
<1>6. Leaves(X, D, W)
  BY <1>3, <1>4, <1>5, LeavesLess
<1> QED
  BY <1>1, <1>2, <1>4, <1>6 DEF Dividing, X, D, W

\* EstimateDigit keeps the invariant.
LEMMA EstimateUndo ==
    ASSUME RsaInv, UndoInv, EstimateDigit PROVE UndoInv'
<1> DEFINE n == ddigits
           L == Top
           u == Power(Base, i)
<1>1. /\ pc = "estimate" /\ pc' = "correct" /\ i >= 0
      /\ ai' = Estimate(cc, i, dd, n)
      /\ cc' = SubtractEstimate(cc, i, ai', dd, n)
      /\ key' = key /\ in' = in /\ prime' = prime /\ dd' = dd
      /\ residue' = residue
  BY DEF EstimateDigit
<1>2. prime # "none" /\ Remains(cc, i, dd, n, L)
  BY <1>1 DEF RsaInv, Phases, Divisions
<1>3. Ready(cc, i, dd, n, L)
  BY <1>1, <1>2 DEF Remains
<1>4. /\ ai' \in Digit /\ cc' \in [0..L -> Digit]
      /\ Value(cc', L + 1) = Value(cc, L + 1) - ai' * (Value(dd, n) * u)
  BY <1>1, <1>3, EstimateStep
<1>5. ai' \in Nat /\ u \in Nat
  BY <1>3, <1>4, ReadyFacts, DigitsAreNumbers
<1>6. Value(cc', L + 1) \in Int
  <2>1. L \in Nat
    BY <1>3, ReadyFacts
  <2> HIDE DEF L
  <2>2. Value(cc', L + 1) \in Nat
    BY <1>4, <2>1, TopNumber
  <2> QED
    BY <2>2
<1> HIDE DEF u, n, L
<1>7. Dividing'
  BY <1>1, <1>2, <1>4, <1>5, <1>6, DividingKept DEF n, L
<1>8. Encoded' /\ Message' = Message /\ Modulus' = Modulus /\ Prime1' = Prime1
  BY <1>1, SameNumbers DEF UndoInv
<1>9. Below'
  BY <1>1, <1>8 DEF UndoInv, Below
<1>10. Remainders'
  BY <1>1, <1>8 DEF UndoInv, Remainders
<1>11. Residues' /\ Difference' /\ Produced' /\ Undone'
  BY <1>1 DEF Residues, Raised, Difference, Produced, Undone
<1> QED
  BY <1>7, <1>8, <1>9, <1>10, <1>11 DEF UndoInv

\* CorrectDigit keeps the invariant.
LEMMA CorrectUndo ==
    ASSUME RsaInv, UndoInv, CorrectDigit PROVE UndoInv'
<1> DEFINE n == ddigits
           L == Top
           u == Power(Base, i)
<1>1. /\ pc = "correct" /\ pc' = pc /\ TooSmall(cc, i, dd, n)
      /\ cc' = SubtractOnce(cc, i, dd, n)
      /\ key' = key /\ in' = in /\ prime' = prime /\ dd' = dd
      /\ residue' = residue
  BY DEF CorrectDigit
<1>2. prime # "none" /\ UnderWay(cc, i, dd, n, L, ai)
  BY <1>1 DEF RsaInv, Phases, Divisions
<1>3. Ready(cc, i, dd, n, L)
  BY <1>2 DEF UnderWay
<1>4. /\ cc' \in [0..L -> Digit]
      /\ Value(cc', L + 1) = Value(cc, L + 1) - Value(dd, n) * u
  BY <1>1, <1>3, CorrectStep
<1>5. u \in Nat /\ Value(dd, n) \in Nat
  BY <1>3, ReadyFacts
<1>6. Value(cc', L + 1) \in Int
  <2>1. L \in Nat
    BY <1>3, ReadyFacts
  <2> HIDE DEF L
  <2>2. Value(cc', L + 1) \in Nat
    BY <1>4, <2>1, TopNumber
  <2> QED
    BY <2>2
<1>7. 1 * (Value(dd, n) * u) = Value(dd, n) * u /\ 1 \in Nat
  <2> DEFINE D == Value(dd, n)
  <2>1. D \in Nat
    BY <1>5
  <2> HIDE DEF D, u
  <2>2. D * u \in Nat
    BY <1>5, <2>1
  <2>3. 1 * (D * u) = D * u
    BY <2>2
  <2> QED
    BY <2>3 DEF D
<1>8. Value(cc', L + 1) = Value(cc, L + 1) - 1 * (Value(dd, n) * u)
  BY <1>4, <1>7
<1> HIDE DEF u, n, L
<1>9. Dividing'
  BY <1>1, <1>2, <1>5, <1>6, <1>7, <1>8, DividingKept DEF n, L
<1>10. Encoded' /\ Message' = Message /\ Modulus' = Modulus /\ Prime1' = Prime1
  BY <1>1, SameNumbers DEF UndoInv
<1>11. Below'
  BY <1>1, <1>10 DEF UndoInv, Below
<1>12. Remainders'
  BY <1>1, <1>10 DEF UndoInv, Remainders
<1>13. Residues' /\ Difference' /\ Produced' /\ Undone'
  BY <1>1 DEF Residues, Raised, Difference, Produced, Undone
<1> QED
  BY <1>9, <1>10, <1>11, <1>12, <1>13 DEF UndoInv

\* A step that touches none of the arrays of the division.
LEMMA DividingSame ==
    ASSUME UndoInv, key' = key, in' = in, prime' = prime, dd' = dd, cc' = cc
    PROVE  Dividing'
<1>1. ddigits' = ddigits /\ Top' = Top /\ Message' = Message
  BY SameBlock, SameNumbers
<1>2. ShiftOf(prime)' = ShiftOf(prime)
  BY DEF ShiftOf, DigitsOf
<1> QED
  BY <1>1, <1>2 DEF UndoInv, Dividing

\* SettleDigit keeps the invariant.
LEMMA SettleUndo ==
    ASSUME RsaInv, UndoInv, SettleDigit PROVE UndoInv'
<1>1. /\ pc = "correct" /\ pc' = "estimate"
      /\ key' = key /\ in' = in /\ prime' = prime /\ cc' = cc /\ dd' = dd
      /\ residue' = residue
  BY DEF SettleDigit
<1>2. Encoded' /\ Message' = Message /\ Modulus' = Modulus /\ Prime1' = Prime1
  BY <1>1, SameNumbers DEF UndoInv
<1>3. Dividing'
  BY <1>1, DividingSame
<1>4. Below'
  BY <1>1, <1>2 DEF UndoInv, Below
<1>5. prime = "q" => IsMod(residue.p, key.pdigits, Message, Prime1)
  BY <1>1 DEF UndoInv, Remainders
<1>6. Remainders'
  BY <1>1, <1>2, <1>5 DEF Remainders
<1>7. Residues' /\ Difference' /\ Produced' /\ Undone'
  BY <1>1 DEF Residues, Raised, Difference, Produced, Undone
<1> QED
  BY <1>2, <1>3, <1>4, <1>6, <1>7 DEF UndoInv

\* What FinishDivision writes is the remainder by the prime.
LEMMA FinishedDivision ==
    ASSUME RsaInv, UndoInv, FinishDivision
    PROVE  IsMod(residue'[prime], key.pdigits, Message,
                 Value(key[prime], key.pdigits))
<1> DEFINE n == ddigits
           L == Top
           s == ShiftOf(prime)
           m == key.pdigits
           D == Value(key[prime], m)
           W == Power(2, s)
           V == Value(cc, L + 1)
           R == Over(Zero(m), 0, bn_shift_r(Low(cc, n), s, n))
<1>1. pc = "estimate" /\ i < 0 /\ residue' = [residue EXCEPT ![prime] = R]
  BY DEF FinishDivision
<1>2. prime \in {"p", "q"} /\ key \in Keys /\ in \in Bytes
      /\ residue \in [p : {<< >>} \cup Half, q : {<< >>} \cup Half]
  BY <1>1 DEF RsaInv, Phases, Plain, Results
<1>3. residue'[prime] = R
  <2> HIDE DEF R
  <2> QED
    BY <1>1, <1>2
<1>4. Remains(cc, i, dd, n, L) /\ dd \in [0..(n - 1) -> Digit]
  BY <1>1, <1>2 DEF RsaInv, Divisions
<1>5. /\ n \in Nat \ {0} /\ n <= m /\ L \in Nat /\ n <= L + 1
      /\ s \in 0..DigitBits /\ m \in Nat
  BY <1>2, StartFacts, PrimeFacts, KeyFacts, Zenon DEF ddigits, Top, DigitsOf, ShiftOf
<1>6. cc \in [0..L -> Digit] /\ V \in Nat /\ Message \in Nat
  BY <1>2, DividingFacts
<1>7. D \in Nat /\ W \in Nat
  BY <1>2, <1>5, PrimeFacts, ShiftParts, Zenon
<1>8. V < W * D /\ W * D < Power(Base, n)
  <2>1. Value(dd, n) = W * D
    BY <1>2 DEF UndoInv, Dividing
  <2>2. V < Value(dd, n)
    <3>1. i \in Int
      BY <1>2 DEF RsaInv, Divisions
    <3>2. ~(i >= 0)
      BY <1>1, <3>1
    <3> QED
      BY <1>4, <3>2, Zenon DEF Remains
  <2>3. Value(dd, n) < Power(Base, n)
    BY <1>4, <1>5, ArrayHasDigits, ValueBound
  <2> QED
    BY <2>1, <2>2, <2>3
<1>9. PICK k \in Nat : W * Message = k * (W * D) + V
  BY <1>2, Zenon DEF UndoInv, Dividing, Leaves
<1> HIDE DEF n, L, s, m, D, R
<1>10. IsMod(Over(Zero(m), 0, bn_shift_r(Low(cc, n), s, n)), m, Message, D)
  BY <1>5, <1>6, <1>7, <1>8, <1>9, ShiftBack DEF V, W
<1> QED
  BY <1>3, <1>10 DEF R, D, m

\* FinishDivision keeps the invariant.
LEMMA FinishUndo ==
    ASSUME RsaInv, UndoInv, FinishDivision PROVE UndoInv'
<1> DEFINE R == Over(Zero(key.pdigits), 0,
                     bn_shift_r(Low(cc, ddigits), ShiftOf(prime), ddigits))
<1>1. /\ pc = "estimate" /\ i < 0
      /\ pc' = IF prime = "p" THEN "divide" ELSE "exponentiate"
      /\ residue' = [residue EXCEPT ![prime] = R]
      /\ key' = key /\ in' = in /\ prime' = prime /\ cc' = cc /\ dd' = dd
  BY DEF FinishDivision, division
<1> HIDE DEF R
<1>2. /\ prime \in {"p", "q"}
      /\ residue \in [p : {<< >>} \cup Half, q : {<< >>} \cup Half]
  BY <1>1 DEF RsaInv, Phases, Plain, Results
<1>3. IsMod(residue'[prime], key.pdigits, Message,
        Value(key[prime], key.pdigits))
  BY FinishedDivision
<1>4. /\ Encoded' /\ Message' = Message /\ Modulus' = Modulus
      /\ Prime1' = Prime1
      /\ Prime2' = Prime2
  BY <1>1, SameNumbers DEF UndoInv
<1>5. Below'
  BY <1>1, <1>4 DEF UndoInv, Below
<1>6. Dividing'
  BY <1>1, DividingSame
<1>7. Remainders'
  <2>1. CASE prime = "p"
    <3>1. IsMod(residue'.p, key.pdigits, Message, Prime1)
      BY <1>3, <2>1 DEF Prime1
    <3> QED
      BY <1>1, <1>4, <2>1, <3>1 DEF Remainders
  <2>2. CASE prime = "q"
    <3>1. IsMod(residue'.q, key.pdigits, Message, Prime2)
      BY <1>3, <2>2 DEF Prime2
    <3>2. residue'.p = residue.p
      BY <1>1, <1>2, <2>2
    <3>3. IsMod(residue.p, key.pdigits, Message, Prime1)
      BY <1>1, <2>2 DEF UndoInv, Remainders
    <3> QED
      BY <1>1, <1>4, <2>2, <3>1, <3>2, <3>3 DEF Remainders
  <2> QED
    BY <1>2, <2>1, <2>2
<1>8. Residues' /\ Difference' /\ Produced' /\ Undone'
  BY <1>1 DEF Residues, Raised, Difference, Produced, Undone
<1> QED
  BY <1>4, <1>5, <1>6, <1>7, <1>8 DEF UndoInv

\* bn_mod_exp on a remainder gives the remainder of the power.
LEMMA RaisedRemainder ==
    ASSUME NEW m \in Nat \ {0}, NEW d, HasDigits(d, m), Value(d, m) > 1,
           NEW y, HasDigits(y, m), NEW M \in Nat,
           NEW x, IsMod(x, m, M, Value(d, m))
    PROVE  LET r == bn_mod_exp(x, y, m, d, m) IN
           /\ r \in [0..(m - 1) -> Digit]
           /\ Value(r, m) < Value(d, m)
           /\ Cong(Value(r, m), Power(M, Value(y, m)), Value(d, m))
<1> DEFINE r == bn_mod_exp(x, y, m, d, m)
           D == Value(d, m)
           e == Value(y, m)
           X == Value(x, m)
<1>1. x \in [0..(m - 1) -> Digit] /\ HasDigits(x, m)
  BY ArrayHasDigits DEF IsMod
<1>2. D \in Nat /\ D # 0 /\ e \in Nat /\ X \in Nat
  <2>1. D \in Nat
    BY ValueFacts
  <2>2. e \in Nat
    BY ValueFacts
  <2>3. X \in Nat
    BY <1>1, ValueFacts
  <2> HIDE DEF e, X
  <2> QED
    BY <2>1, <2>2, <2>3
<1>3. IsPower(r, e, X, d, m) /\ Value(r, m) < D
  BY <1>1, <1>2, ModExpIsPower
<1>4. r \in [0..(m - 1) -> Digit] /\ Cong(Power(X, e), Value(r, m), D)
  BY <1>3 DEF IsPower
<1>5. Value(r, m) \in Nat
  <2> HIDE DEF r
  <2> QED
    BY <1>4, ArrayHasDigits, ValueFacts
<1>6. Cong(M, X, D)
  <2>1. PICK q \in Nat : M = q * D + X
    BY DEF IsMod
  <2> QED
    BY <2>1 DEF Cong
<1> DEFINE V == Value(r, m)
<1> HIDE DEF D, e, X, V
<1>7. Cong(Power(M, e), Power(X, e), D)
  BY <1>2, <1>6, CongPower
<1>8. Power(M, e) \in Int /\ Power(X, e) \in Int /\ V \in Int
  <2>1. Power(M, e) \in Nat
    BY <1>2, PowerFacts
  <2>2. Power(X, e) \in Nat
    BY <1>2, PowerFacts
  <2> QED
    BY <1>5, <2>1, <2>2 DEF V
<1>9. Cong(Power(X, e), V, D)
  BY <1>4 DEF V
<1>10. Cong(Power(M, e), V, D)
  BY <1>2, <1>7, <1>8, <1>9, CongTrans
<1>11. Cong(V, Power(M, e), D)
  BY <1>2, <1>8, <1>10, CongSym
<1> QED
  BY <1>3, <1>4, <1>11 DEF V, D, e

\* Exponentiate keeps the invariant.
LEMMA ExponentiateUndo ==
    ASSUME RsaInv, UndoInv, Exponentiate PROVE UndoInv'
<1> DEFINE m == key.pdigits
           X == bn_mod_exp(residue.p, key.dp, m, key.p, m)
           Y == bn_mod_exp(residue.q, key.dq, m, key.q, m)
<1>1. /\ pc = "exponentiate" /\ pc' = "subtract"
      /\ residue' = [p |-> X, q |-> Y]
      /\ key' = key /\ in' = in /\ UNCHANGED division
  BY DEF Exponentiate
<1>2. prime' = prime /\ dd' = dd /\ cc' = cc
  BY <1>1 DEF division
<1>3. prime = "q" /\ key \in Keys /\ in \in Bytes
  BY <1>1 DEF RsaInv, Plain, Phases, Late
<1>4. /\ IsMod(residue.p, m, Message, Prime1)
      /\ IsMod(residue.q, m, Message, Prime2)
  BY <1>1, <1>3 DEF UndoInv, Remainders
<1>5. /\ m \in Nat \ {0}
      /\ key.p \in Half /\ key.q \in Half /\ key.dp \in Half /\ key.dq \in Half
  <2>1. /\ key["p"] \in Half /\ key["q"] \in Half
        /\ key["dp"] \in Half /\ key["dq"] \in Half
    BY <1>3, KeyFacts DEF Half
  <2> QED
    BY <1>3, <2>1, KeyFacts
<1>6. \A x \in Half : HasDigits(x, m)
  BY DEF Half, HasDigits
<1>7. Message \in Nat
  BY <1>3, DividingFacts
<1>8. Prime1 > 1 /\ Prime2 > 1
  BY <1>3, KeyNumbers DEF IsPrime
<1>9. Value(X, m) < Prime1
        /\ Cong(Value(X, m), Power(Message, Exponent1), Prime1)
  BY <1>4, <1>5, <1>6, <1>7, <1>8, RaisedRemainder DEF Prime1, Exponent1
<1>10. Value(Y, m) < Prime2
         /\ Cong(Value(Y, m), Power(Message, Exponent2), Prime2)
  BY <1>4, <1>5, <1>6, <1>7, <1>8, RaisedRemainder DEF Prime2, Exponent2
<1> HIDE DEF X, Y
<1>11. /\ Encoded' /\ Message' = Message /\ Modulus' = Modulus
       /\ Prime1' = Prime1
       /\ Prime2' = Prime2 /\ Exponent1' = Exponent1 /\ Exponent2' = Exponent2
  BY <1>1, SameNumbers DEF UndoInv
<1>12. Below'
  BY <1>1, <1>11 DEF UndoInv, Below
<1>13. Dividing'
  BY <1>1, <1>2, DividingSame
<1>14. Residue1' = Value(X, m) /\ Residue2' = Value(Y, m)
  BY <1>1 DEF Residue1, Residue2
<1>15. Residues'
  BY <1>9, <1>10, <1>11, <1>14 DEF Residues
<1>16. Remainders' /\ Difference' /\ Produced' /\ Undone'
  BY <1>1 DEF Remainders, Difference, Produced, Undone
<1> QED
  BY <1>11, <1>12, <1>13, <1>15, <1>16 DEF UndoInv

\* Without a borrow, bn_sub is the difference.
LEMMA SubNoBorrow ==
    ASSUME NEW n \in Nat, NEW x, NEW y, HasDigits(x, n), HasDigits(y, n),
           Value(x, n) >= Value(y, n)
    PROVE  /\ bn_sub(x, y, n).digits \in [0..(n - 1) -> Digit]
           /\ Value(bn_sub(x, y, n).digits, n) = Value(x, n) - Value(y, n)
<1> DEFINE r == bn_sub(x, y, n)
           X == Value(x, n)
           Y == Value(y, n)
           V == Value(r.digits, n)
           W == Power(Base, n)
<1>1. /\ r.digits \in [0..(n - 1) -> Digit] /\ r.carry \in {0, 1}
      /\ V - W * r.carry = X - Y
  BY SubExact
<1>2. X \in Nat /\ Y \in Nat /\ X >= Y
  BY ValueFacts
<1> DEFINE d == r.digits
           k == r.carry
<1> HIDE DEF d
<1>3. HasDigits(d, n)
  BY <1>1, ArrayHasDigits DEF d
<1>4. Value(d, n) \in Nat /\ Value(d, n) < W
  BY <1>3, ValueFacts, ValueBound
<1>5. W \in Nat
  BY BignumAssumption, PowerFacts
<1>6. V \in Nat /\ V < W
  BY <1>4 DEF d
<1>7. k \in {0, 1} /\ V - W * k = X - Y
  BY <1>1
<1> HIDE DEF X, Y, V, W, k
<1>8. k # 1
  <2>1. SUFFICES ASSUME k = 1 PROVE FALSE
    OBVIOUS
  <2>2. W * k = W
    BY <1>5, <2>1
  <2> QED
    BY <1>2, <1>5, <1>6, <1>7, <2>2
<1>9. W * k = 0
  BY <1>5, <1>7, <1>8
<1>10. V = X - Y
  BY <1>2, <1>6, <1>7, <1>9
<1> QED
  BY <1>1, <1>10 DEF V, X, Y

\* Subtract keeps the invariant.
LEMMA SubtractUndo ==
    ASSUME RsaInv, UndoInv, Subtract PROVE UndoInv'
<1> DEFINE m == key.pdigits
           X == bn_sub(residue.p, residue.q, m).digits
           Y == bn_sub(residue.q, residue.p, m).digits
           Z == bn_sub(key.p, Y, m).digits
<1>1. /\ pc = "subtract" /\ pc' = "combine"
      /\ t' = IF AtLeast(residue.p, residue.q, m) THEN X ELSE Z
      /\ key' = key /\ in' = in /\ UNCHANGED division
      /\ residue' = residue
  BY DEF Subtract
<1>2. prime' = prime /\ dd' = dd /\ cc' = cc
  BY <1>1 DEF division
<1>3. prime = "q" /\ key \in Keys /\ residue.p \in Half /\ residue.q \in Half
  BY <1>1 DEF RsaInv, Plain, Phases, Results, Late
<1>4. m \in Nat /\ HasDigits(key.p, m) /\ HasDigits(residue.p, m)
      /\ HasDigits(residue.q, m)
  <2>1. key["p"] \in Half
    BY <1>3, KeyFacts DEF Half
  <2> QED
    BY <1>3, <2>1, KeyFacts DEF Half, HasDigits
<1>5. Residue1 \in Nat /\ Residue2 \in Nat /\ Prime1 \in Nat
  <2>1. Residue1 \in Nat
    BY <1>4, ValueFacts DEF Residue1
  <2>2. Residue2 \in Nat
    BY <1>4, ValueFacts DEF Residue2
  <2>3. Prime1 \in Nat
    BY <1>3, KeyNumbers
  <2> QED
    BY <2>1, <2>2, <2>3
<1>6. AtLeast(residue.p, residue.q, m) <=> Residue1 >= Residue2
  BY <1>4, AtLeastComparesValues DEF Residue1, Residue2
<1>7. ASSUME ~Wraps PROVE Cong(Value(t', m), Residue1 - Residue2, Prime1)
  <2>1. CASE Residue1 >= Residue2
    <3>1. Value(X, m) = Residue1 - Residue2
      BY <1>4, <2>1, SubNoBorrow DEF Residue1, Residue2
    <3>2. t' = X
      BY <1>1, <1>6, <2>1
    <3>3. Residue1 - Residue2 \in Int
      BY <1>5
    <3>4. Cong(Residue1 - Residue2, Residue1 - Residue2, Prime1)
      BY <1>5, <3>3, CongRefl
    <3> QED
      BY <3>1, <3>2, <3>4, Zenon
  <2>2. CASE ~(Residue1 >= Residue2)
    <3>1. Residue2 >= Residue1
      BY <1>5, <2>2
    <3>2. Y \in [0..(m - 1) -> Digit] /\ Value(Y, m) = Residue2 - Residue1
      BY <1>4, <3>1, SubNoBorrow DEF Residue1, Residue2
    <3>3. HasDigits(Y, m)
      <4> HIDE DEF Y
      <4> QED
        BY <1>4, <3>2, ArrayHasDigits
    <3>4. Prime1 >= Value(Y, m)
      BY <1>5, <1>7, <3>2 DEF Wraps
    <3>5. Value(Z, m) = Prime1 - Value(Y, m)
      <4> HIDE DEF Y
      <4> QED
        BY <1>4, <3>3, <3>4, SubNoBorrow DEF Prime1
    <3>6. t' = Z
      BY <1>1, <1>6, <2>2
    <3> DEFINE V == Value(Z, m)
    <3> HIDE DEF Z
    <3>7. V = Prime1 - (Residue2 - Residue1)
      BY <3>2, <3>5
    <3> HIDE DEF V
    <3>8. V = 1 * Prime1 + (Residue1 - Residue2) /\ 1 \in Int
      BY <1>5, <3>7
    <3>9. Cong(V, Residue1 - Residue2, Prime1)
      BY <3>8, Zenon DEF Cong
    <3> QED
      BY <3>6, <3>9 DEF V
  <2> QED
    BY <2>1, <2>2
<1> HIDE DEF X, Y, Z
<1>8. /\ Encoded' /\ Message' = Message /\ Modulus' = Modulus
      /\ Prime1' = Prime1
      /\ Prime2' = Prime2 /\ Exponent1' = Exponent1 /\ Exponent2' = Exponent2
      /\ Residue1' = Residue1 /\ Residue2' = Residue2 /\ (Wraps' <=> Wraps)
  BY <1>1, SameNumbers DEF UndoInv
<1>9. Below'
  BY <1>1, <1>8 DEF UndoInv, Below
<1>10. Dividing'
  BY <1>1, <1>2, DividingSame
<1>11. Residues'
  BY <1>1, <1>8 DEF UndoInv, Residues, Raised
<1>12. Difference'
  BY <1>1, <1>7, <1>8 DEF Difference
<1>13. Remainders' /\ Produced' /\ Undone'
  BY <1>1 DEF Remainders, Produced, Undone
<1> QED
  BY <1>8, <1>9, <1>10, <1>11, <1>12, <1>13 DEF UndoInv

\* bn_add without a carry out of n digits is the sum.
LEMMA AddNoCarry ==
    ASSUME NEW n \in Nat, NEW x, NEW y, HasDigits(x, n), HasDigits(y, n),
           Value(x, n) + Value(y, n) < Power(Base, n)
    PROVE  /\ bn_add(x, y, n).digits \in [0..(n - 1) -> Digit]
           /\ Value(bn_add(x, y, n).digits, n) = Value(x, n) + Value(y, n)
<1> DEFINE r == bn_add(x, y, n)
           X == Value(x, n)
           Y == Value(y, n)
           V == Value(r.digits, n)
           W == Power(Base, n)
           d == r.digits
           k == r.carry
<1>1. d \in [0..(n - 1) -> Digit] /\ k \in {0, 1} /\ V + W * k = X + Y
  BY AddExact
<1>2. X \in Nat /\ Y \in Nat /\ X + Y < W
  BY ValueFacts
<1> HIDE DEF d
<1>3. Value(d, n) \in Nat
  BY <1>1, ArrayHasDigits, ValueFacts
<1>4. W \in Nat
  BY BignumAssumption, PowerFacts
<1>5. V \in Nat
  BY <1>3 DEF d
<1> HIDE DEF X, Y, V, W, k
<1>6. k # 1
  <2>1. SUFFICES ASSUME k = 1 PROVE FALSE
    OBVIOUS
  <2>2. W * k = W
    BY <1>4, <2>1
  <2> QED
    BY <1>1, <1>2, <1>4, <1>5, <2>2
<1>7. W * k = 0
  BY <1>1, <1>4, <1>6
<1>8. V = X + Y
  BY <1>1, <1>2, <1>5, <1>7
<1> QED
  BY <1>1, <1>8 DEF V, X, Y, d

\* The digits above the modulus are zeros and need no adding.
LEMMA ShortValue ==
    ASSUME NEW m \in Nat, NEW l \in Nat, l <= m,
           NEW x \in [0..(m - 1) -> Digit],
           Value(x, m) < Power(Base, l)
    PROVE  HasDigits(x, l) /\ Value(x, l) = Value(x, m)
<1>1. HasDigits(x, m)
  BY ArrayHasDigits
<1>2. HasDigits(x, l)
  BY <1>1, FewerDigits
<1>3. Value(x, l) = Value(x, m)
  BY <1>1, SmallValue
<1> QED
  BY <1>2, <1>3

\* A product and less than its second factor stay below the next product.
LEMMA SumBelow ==
    ASSUME NEW P \in Nat, NEW Q \in Nat, NEW H \in Nat, NEW y \in Nat, H < P,
           y < Q
    PROVE  H * Q \in Nat /\ H * Q + y < P * Q
<1>1. (H + 1) * Q <= P * Q
  BY Monotone
<1>2. (H + 1) * Q = H * Q + Q /\ H * Q \in Nat /\ P * Q \in Nat
  OBVIOUS
<1> QED
  BY <1>1, <1>2

\* Combine keeps the invariant.
LEMMA CombineUndo ==
    ASSUME RsaInv, UndoInv, Combine PROVE UndoInv'
<1> DEFINE m == key.pdigits
           l == key.ndigits
           h == bn_mod_mul(t, key.q_inv, key.p, m)
           x == bn_mul(h, key.q, m)
           y == Over(Zero(2 * m), 0, residue.q)
           R == bn_add(x, y, l).digits
           T == Value(t, m)
           H == Value(h, m)
<1>1. /\ pc = "combine" /\ pc' = "public"
      /\ t' = R /\ out' = bn_encode(key.size, t', l)
      /\ key' = key /\ in' = in /\ UNCHANGED division
      /\ residue' = residue
  BY DEF Combine
<1>2. prime' = prime /\ dd' = dd /\ cc' = cc
  BY <1>1 DEF division
<1>3. prime = "q" /\ key \in Keys /\ residue.p \in Half /\ residue.q \in Half
      /\ t \in Half
  BY <1>1 DEF RsaInv, Plain, Phases, Results, Late
<1>4. /\ m \in Nat \ {0} /\ l \in Nat \ {0} /\ l <= 2 * m
      /\ key.p \in Half /\ key.q \in Half /\ key.q_inv \in Half
      /\ key.n \in Whole
  <2>1. /\ key["p"] \in Half /\ key["q"] \in Half /\ key["q_inv"] \in Half
        /\ key["n"] \in Whole
    BY <1>3, KeyFacts DEF Half, Whole
  <2> QED
    BY <1>3, <2>1, KeyFacts
<1>5. \A z \in Half : HasDigits(z, m) /\ Value(z, m) \in Nat
  BY <1>4, ArrayHasDigits, ValueFacts, Zenon DEF Half
<1>6. /\ Prime1 \in Nat \ {0} /\ Prime2 \in Nat \ {0} /\ Coefficient \in Nat
      /\ Prime1 * Prime2 = Modulus /\ (Prime2 * Coefficient) % Prime1 = 1
      /\ Modulus \in Nat
  BY <1>3, KeyNumbers
<1>7. T \in Nat /\ Residue1 \in Nat /\ Residue2 \in Nat
  BY <1>3, <1>5 DEF Residue1, Residue2
<1>8. h \in Half /\ H < Prime1 /\ Cong(T * Coefficient, H, Prime1)
  <2>1. Value(key.p, m) # 0
    BY <1>6 DEF Prime1
  <2>2. IsMod(h, m, Value(t, m) * Value(key.q_inv, m), Value(key.p, m))
    BY <1>3, <1>4, <1>5, <2>1, ModMulIsRemainder
  <2>3. IsMod(h, m, T * Coefficient, Prime1)
    BY <2>2 DEF Coefficient, Prime1
  <2>4. h \in Half /\ H < Prime1
    BY <2>3 DEF IsMod, Half
  <2>5. PICK k \in Nat : T * Coefficient = k * Prime1 + H
    BY <2>3 DEF IsMod
  <2> QED
    BY <2>4, <2>5 DEF Cong
<1> HIDE DEF h
<1>9. H \in Nat
  BY <1>5, <1>8
<1>10. x \in [0..(2 * m - 1) -> Digit] /\ Value(x, 2 * m) = H * Prime2
  BY <1>4, <1>5, <1>8, MulIsProduct, Zenon DEF Prime2
<1>11. y \in [0..(2 * m - 1) -> Digit] /\ Value(y, 2 * m) = Residue2
  <2>1. 2 * m \in Nat /\ m \in Nat /\ m <= 2 * m
    BY <1>4
  <2>2. residue.q \in [0..(m - 1) -> Digit]
    BY <1>3 DEF Half
  <2> QED
    BY <2>1, <2>2, PadFacts, Zenon DEF Residue2
<1> HIDE DEF x, y, H, T
<1>12. Residue2 < Prime2
  BY <1>1 DEF UndoInv, Residues, Raised
<1> DEFINE HQ == H * Prime2
           S == HQ + Residue2
<1>13. HQ \in Nat /\ S < Modulus
  <2>1. Prime1 \in Nat /\ Prime2 \in Nat
    BY <1>6
  <2>2. H * Prime2 \in Nat /\ H * Prime2 + Residue2 < Prime1 * Prime2
    BY <1>7, <1>8, <1>9, <1>12, <2>1, SumBelow
  <2> QED
    BY <1>6, <2>2
<1>14. Modulus < Power(Base, l) /\ Power(Base, l) \in Nat
  <2>1. l \in Nat /\ HasDigits(key.n, l)
    BY <1>4 DEF Whole, HasDigits
  <2>2. Modulus < Power(Base, l)
    BY <2>1, ValueBound DEF Modulus
  <2>3. Power(Base, l) \in Nat
    BY <2>1, BignumAssumption, PowerFacts
  <2> QED
    BY <2>2, <2>3
<1>15. Value(x, 2 * m) = HQ
  BY <1>10
<1> HIDE DEF HQ
<1>16. /\ HasDigits(x, l) /\ Value(x, l) = HQ
       /\ HasDigits(y, l) /\ Value(y, l) = Residue2
  <2>1. HQ < Power(Base, l) /\ Residue2 < Power(Base, l)
    BY <1>6, <1>7, <1>13, <1>14
  <2> DEFINE M == 2 * m
  <2>2. M \in Nat /\ l \in Nat /\ l <= M
    BY <1>4
  <2>3. x \in [0..(M - 1) -> Digit] /\ Value(x, M) = HQ
    BY <1>10, <1>15
  <2>4. y \in [0..(M - 1) -> Digit] /\ Value(y, M) = Residue2
    BY <1>11
  <2> HIDE DEF M
  <2>5. HasDigits(x, l) /\ Value(x, l) = Value(x, M)
    BY <2>1, <2>2, <2>3, ShortValue
  <2>6. HasDigits(y, l) /\ Value(y, l) = Value(y, M)
    BY <2>1, <2>2, <2>4, ShortValue
  <2> QED
    BY <2>3, <2>4, <2>5, <2>6
<1>17. R \in [0..(l - 1) -> Digit] /\ Value(R, l) = S
  <2>1. Value(x, l) + Value(y, l) < Power(Base, l)
    BY <1>6, <1>7, <1>13, <1>14, <1>16
  <2>2. Value(R, l) = Value(x, l) + Value(y, l) /\ R \in [0..(l - 1) -> Digit]
    BY <1>4, <1>16, <2>1, AddNoCarry
  <2> QED
    BY <1>16, <2>2
<1> HIDE DEF R
<1>18. ASSUME ~Wraps PROVE Cong(S, Residue1, Prime1)
              /\ Cong(S, Residue2, Prime2)
  <2>1. Cong(T, Residue1 - Residue2, Prime1)
    BY <1>1, <1>18 DEF UndoInv, Difference, T
  <2>2. Cong(H * Prime2 + Residue2, Residue1, Prime1)
        /\ Cong(H * Prime2 + Residue2, Residue2, Prime2)
    BY <1>6, <1>7, <1>8, <1>9, <2>1, Recombined
  <2> QED
    BY <2>2 DEF HQ
<1> HIDE DEF S
<1>19. /\ Encoded' /\ Message' = Message /\ Modulus' = Modulus
       /\ Prime1' = Prime1
       /\ Prime2' = Prime2 /\ Exponent1' = Exponent1 /\ Exponent2' = Exponent2
       /\ Residue1' = Residue1 /\ Residue2' = Residue2 /\ (Wraps' <=> Wraps)
  BY <1>1, SameNumbers DEF UndoInv
<1>20. Below'
  BY <1>1, <1>19 DEF UndoInv, Below
<1>21. Dividing'
  BY <1>1, <1>2, DividingSame
<1>22. Residues'
  BY <1>1, <1>19 DEF UndoInv, Residues, Raised
<1>23. Produced'
  <2>1. t' \in Whole /\ Whole' = Whole
    BY <1>1, <1>17, SameBlock DEF Whole
  <2>2. Value(t', l) = S
    BY <1>1, <1>17
  <2> QED
    BY <1>1, <1>13, <1>18, <1>19, <2>1, <2>2 DEF Produced
<1>24. Remainders' /\ Difference' /\ Undone'
  BY <1>1 DEF Remainders, Difference, Undone
<1> QED
  BY <1>19, <1>20, <1>21, <1>22, <1>23, <1>24 DEF UndoInv

\* Public keeps the invariant.
LEMMA PublicUndo ==
    ASSUME RsaInv, UndoInv, Public PROVE UndoInv'
<1> DEFINE l == key.ndigits
           m == bn_decode(out, l)
           R == bn_mod_exp(m, key.e, l, key.n, l)
           M == Value(t, l)
           V == Value(R, l)
<1>1. /\ pc = "public"
      /\ IF AtLeast(m, key.n, l)
         THEN pc' = "refused" /\ back' = back
         ELSE back' = bn_encode(key.size, R, l) /\ pc' = "done"
      /\ key' = key /\ in' = in /\ UNCHANGED division
      /\ residue' = residue
  BY DEF Public
<1>2. prime' = prime /\ dd' = dd /\ cc' = cc
  BY <1>1 DEF division
<1>3. prime = "q" /\ key \in Keys /\ in \in Bytes
  BY <1>1 DEF RsaInv, Plain, Phases, Late
<1>4. /\ t \in Whole /\ out = bn_encode(key.size, t, l) /\ M < Modulus
      /\ ~Wraps => Cong(M, Residue1, Prime1) /\ Cong(M, Residue2, Prime2)
  BY <1>1 DEF UndoInv, Produced
<1>5. /\ l \in Nat \ {0} /\ key.size \in Nat
      /\ key.n \in Whole /\ key.e \in Whole
  <2>1. /\ key["n"] \in Whole /\ key["e"] \in Whole
    BY <1>3, KeyFacts DEF Whole
  <2> QED
    BY <1>3, <2>1, KeyFacts
<1>6. \A z \in Whole : HasDigits(z, l) /\ Value(z, l) \in Nat
  BY <1>5, ArrayHasDigits, ValueFacts, Zenon DEF Whole
<1>7. /\ Prime1 \in Nat \ {0} /\ Prime2 \in Nat \ {0} /\ Modulus \in Nat
      /\ Prime1 * Prime2 = Modulus /\ Modulus > 1
      /\ Modulus <= Power(2, ByteBits * key.size)
  BY <1>3, KeyNumbers
<1>8. M \in Nat
  BY <1>4, <1>6
<1>9. m = t
  <2>1. Power(2, ByteBits * key.size) \in Nat
    <3> DEFINE e == ByteBits * key.size
    <3>1. e \in Nat
      BY <1>5, BignumAssumption
    <3> HIDE DEF e
    <3>2. Power(2, e) \in Nat
      BY <3>1, PowerFacts
    <3> QED
      BY <3>2 DEF e
  <2>2. M < Power(2, ByteBits * key.size)
    BY <1>4, <1>7, <1>8, <2>1
  <2>3. bn_decode(bn_encode(key.size, t, l), l) = t
    BY <1>4, <1>5, <2>2, DecodeEncode DEF Whole
  <2> QED
    BY <1>4, <2>3
<1> HIDE DEF m
<1>10. ~AtLeast(m, key.n, l)
  <2>1. AtLeast(t, key.n, l) <=> Value(t, l) >= Value(key.n, l)
    BY <1>4, <1>5, <1>6, AtLeastComparesValues
  <2>2. ~(M >= Modulus)
    BY <1>4, <1>7, <1>8
  <2> QED
    BY <1>9, <2>1, <2>2 DEF Modulus
<1>11. pc' = "done" /\ back' = bn_encode(key.size, R, l)
  BY <1>1, <1>10
<1>12. /\ R \in Whole /\ V < Modulus
       /\ Cong(Power(M, PublicExponent), V, Modulus)
  <2>1. Value(key.n, l) # 0 /\ Value(key.n, l) > 1
    BY <1>7 DEF Modulus
  <2>2. /\ IsPower(R, Value(key.e, l), Value(t, l), key.n, l)
        /\ Value(R, l) < Value(key.n, l)
    BY <1>4, <1>5, <1>6, <1>9, <2>1, ModExpIsPower
  <2> QED
    BY <2>2 DEF IsPower, Whole, Modulus, PublicExponent
<1> HIDE DEF R
<1>13. V \in Nat
  BY <1>6, <1>12
<1>14. ASSUME ~Wraps PROVE back' = in
  <2>1. V = Message
    <3>1. Message \in Nat /\ Message < Modulus
      BY <1>1, <1>3, DividingFacts DEF UndoInv, Below
    <3>2. /\ Cong(Residue1, Power(Message, Exponent1), Prime1)
          /\ Cong(Residue2, Power(Message, Exponent2), Prime2)
      BY <1>1 DEF UndoInv, Residues, Raised
    <3>3. Residue1 \in Int /\ Residue2 \in Int
      <4>1. residue.p \in Half /\ residue.q \in Half /\ key.pdigits \in Nat
        BY <1>1, <1>3, KeyFacts DEF RsaInv, Results, Late
      <4>2. \A z \in Half : Value(z, key.pdigits) \in Nat
        BY <4>1, ArrayHasDigits, ValueFacts DEF Half
      <4> QED
        BY <4>1, <4>2 DEF Residue1, Residue2
    <3>4. /\ Exponent1 \in Nat /\ Exponent2 \in Nat /\ PublicExponent \in Nat
          /\ Coefficient \in Nat
          /\ IsPrime(Prime1) /\ IsPrime(Prime2)
          /\ (Exponent1 * PublicExponent) % (Prime1 - 1) = 1
          /\ (Exponent2 * PublicExponent) % (Prime2 - 1) = 1
          /\ (Prime2 * Coefficient) % Prime1 = 1
      BY <1>3, KeyNumbers
    <3> HIDE DEF M, V
    <3>5. Cong(M, Power(Message, Exponent1), Prime1)
      <4>1. Power(Message, Exponent1) \in Int
        BY <3>1, <3>4, PowerFacts
      <4> QED
        BY <1>4, <1>7, <1>8, <1>14, <3>2, <3>3, <4>1, CongTrans
    <3>6. Cong(M, Power(Message, Exponent2), Prime2)
      <4>1. Power(Message, Exponent2) \in Int
        BY <3>1, <3>4, PowerFacts
      <4> QED
        BY <1>4, <1>7, <1>8, <1>14, <3>2, <3>3, <4>1, CongTrans
    <3>7. Message < Prime1 * Prime2 /\ V < Prime1 * Prime2
          /\ Cong(Power(M, PublicExponent), V, Prime1 * Prime2)
      BY <1>7, <1>12, <3>1 DEF V, M
    <3>8. Prime1 \in Nat /\ Prime2 \in Nat
      BY <1>7
    <3> QED
      BY <1>8, <1>13, <3>1, <3>4, <3>5, <3>6, <3>7, <3>8, RoundTrip
  <2>2. c \in Whole
    BY <1>3, BlockFacts DEF Whole
  <2>3. R = c
    BY <1>5, <1>12, <2>1, <2>2, SameArray DEF Whole, Message
  <2> QED
    BY <1>11, <2>3 DEF UndoInv, Encoded
<1> HIDE DEF M, V
<1>15. /\ Encoded' /\ Message' = Message /\ Modulus' = Modulus
       /\ Prime1' = Prime1
       /\ Prime2' = Prime2 /\ Exponent1' = Exponent1 /\ Exponent2' = Exponent2
       /\ Residue1' = Residue1 /\ Residue2' = Residue2 /\ (Wraps' <=> Wraps)
  BY <1>1, SameNumbers DEF UndoInv
<1>16. Below'
  BY <1>1, <1>11, <1>15 DEF UndoInv, Below
<1>17. Dividing'
  BY <1>1, <1>2, DividingSame
<1>18. Residues'
  BY <1>1, <1>15 DEF UndoInv, Residues, Raised
<1>19. Remainders' /\ Difference' /\ Produced'
  BY <1>11 DEF Remainders, Difference, Produced
<1>20. Undone'
  <2>1. in' = in
    BY <1>1
  <2> QED
    BY <1>11, <1>14, <1>15, <2>1 DEF Undone
<1> QED
  BY <1>15, <1>16, <1>17, <1>18, <1>19, <1>20 DEF UndoInv

\* The invariant depends on the variables alone.
LEMMA UndoStutters ==
    ASSUME UndoInv, UNCHANGED vars PROVE UndoInv'
<1>1. /\ key' = key /\ in' = in /\ pc' = pc /\ prime' = prime /\ cc' = cc
      /\ dd' = dd /\ residue' = residue /\ t' = t /\ out' = out /\ back' = back
  BY DEF vars
<1>2. /\ Encoded' /\ Message' = Message /\ Modulus' = Modulus
      /\ Prime1' = Prime1
      /\ Prime2' = Prime2 /\ Exponent1' = Exponent1 /\ Exponent2' = Exponent2
      /\ Residue1' = Residue1 /\ Residue2' = Residue2 /\ (Wraps' <=> Wraps)
      /\ Whole' = Whole
  BY <1>1, SameNumbers, SameBlock DEF UndoInv
<1>3. Dividing'
  BY <1>1, DividingSame
<1>4. Below' /\ Remainders' /\ Residues'
  BY <1>1, <1>2 DEF UndoInv, Below, Remainders, Residues
<1>5. Difference' /\ Produced' /\ Undone'
  BY <1>1, <1>2 DEF UndoInv, Difference, Produced, Undone
<1> QED
  BY <1>2, <1>3, <1>4, <1>5 DEF UndoInv

\* Every step keeps the invariant.
LEMMA UndoInvKept ==
    ASSUME RsaInv, UndoInv, [Next]_vars PROVE UndoInv'
<1>1. CASE Compare
  BY <1>1, CompareUndo
<1>2. CASE StartDivision
  BY <1>2, StartUndo
<1>3. CASE EstimateDigit
  BY <1>3, EstimateUndo
<1>4. CASE CorrectDigit
  BY <1>4, CorrectUndo
<1>5. CASE SettleDigit
  BY <1>5, SettleUndo
<1>6. CASE FinishDivision
  BY <1>6, FinishUndo
<1>7. CASE Exponentiate
  BY <1>7, ExponentiateUndo
<1>8. CASE Subtract
  BY <1>8, SubtractUndo
<1>9. CASE Combine
  BY <1>9, CombineUndo
<1>10. CASE Public
  BY <1>10, PublicUndo
<1>11. CASE Terminated \/ UNCHANGED vars
  BY <1>11, UndoStutters DEF Terminated
<1> QED
  BY <1>1, <1>2, <1>3, <1>4, <1>5, <1>6, <1>7, <1>8, <1>9, <1>10, <1>11 DEF Next

\* The public operation accepts and undoes what the private one made of any
\* block below the modulus, for every key pair, unless the difference wraps.
THEOREM RsaUndoes == Spec => []PublicUndoesPrivate
<1>1. UndoInv => PublicUndoesPrivate
  BY DEF UndoInv, Below, Undone, PublicUndoesPrivate, Message, Modulus, Wraps,
         Residue1, Residue2, Prime1
<1>2. Init => UndoInv
  BY UndoStarts
<1>3. RsaInv /\ [Next]_vars => RsaInv'
  BY RsaInvKept
<1>4. RsaInv /\ UndoInv /\ [Next]_vars => UndoInv'
  BY UndoInvKept
<1> QED
  BY RsaStarts, <1>1, <1>2, <1>3, <1>4, PTL DEF Spec

\* With prime1 at least prime2, as the keys of RSA tools have it, the
\* difference never wraps: every block below the modulus comes back.
THEOREM RsaUndoesInOrder ==
    Spec => [](pc = "done" /\ Prime1 >= Prime2 => back = in)
<1>1. RsaInv /\ UndoInv => (pc = "done" /\ Prime1 >= Prime2 => back = in)
  <2>1. SUFFICES ASSUME RsaInv, UndoInv, pc = "done", Prime1 >= Prime2
                 PROVE  back = in
    OBVIOUS
  <2>2. key \in Keys /\ residue.p \in Half /\ residue.q \in Half
    BY <2>1 DEF RsaInv, Plain, Phases, Results, Late
  <2>3. key.pdigits \in Nat /\ Prime1 \in Nat /\ Prime2 \in Nat
    BY <2>2, KeyFacts, KeyNumbers, Zenon
  <2>4. \A z \in Half : Value(z, key.pdigits) \in Nat
    BY <2>3, ArrayHasDigits, ValueFacts DEF Half
  <2>5. Residue1 \in Nat /\ Residue2 \in Nat
    BY <2>2, <2>4 DEF Residue1, Residue2
  <2>6. Residue2 < Prime2
    BY <2>1 DEF UndoInv, Residues, Raised
  <2>7. ~Wraps
    BY <2>1, <2>3, <2>5, <2>6 DEF Wraps
  <2> QED
    BY <2>1, <2>7 DEF UndoInv, Undone
<1>2. Init => UndoInv
  BY UndoStarts
<1>3. RsaInv /\ [Next]_vars => RsaInv'
  BY RsaInvKept
<1>4. RsaInv /\ UndoInv /\ [Next]_vars => UndoInv'
  BY UndoInvKept
<1> QED
  BY RsaStarts, <1>1, <1>2, <1>3, <1>4, PTL DEF Spec
=============================================================================

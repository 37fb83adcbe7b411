------------------------------ MODULE Hugeint ------------------------------
(* The 128-bit integers of hugeint.c.  A thuge is a pair of words, a word  *)
(* is two digits of HALF_BITS bits: 32 in the program, few in a model.     *)
(* Words are natural numbers below WORD, and every C expression of type    *)
(* uint64_t is taken modulo WORD.  Shift counts outside of 0 .. HUGEBITS-1 *)
(* are undefined in C and no operator is used with one.                    *)
EXTENDS Integers, Sequences, FiniteSetsExt

CONSTANTS HALF_BITS,    \* the bits of a digit
          BYTE_BITS     \* the bits of a byte in memory, 8 in the program

ASSUME HugeAssumption == /\ HALF_BITS \in Nat \ {0}
                         /\ BYTE_BITS \in 1 .. 2 * HALF_BITS

BASE == 2^HALF_BITS
WORD == BASE * BASE
WORDBITS == 2 * HALF_BITS
HUGEBITS == 4 * HALF_BITS

thuge == [hi : 0 .. WORD - 1, lo : 0 .. WORD - 1]

HIHALF(x) == x \div BASE
LOHALF(x) == x % BASE
COMBINE(a, b) == a * BASE + b

\* A word as the int64_t of the same bits, and the pair of two expressions.
Int64(x) == IF x >= WORD \div 2 THEN x - WORD ELSE x
Huge(hi, lo) == [hi |-> hi % WORD, lo |-> lo % WORD]
HUGESIGN(h) == h.hi >= WORD \div 2

Bit(x, i) == (x \div 2^i) % 2
Shl(x, n) == (x * 2^n) % WORD
One(p) == IF p THEN 1 ELSE 0

huge_zero == Huge(0, 0)
huge_from_int(i) == Huge(IF i < 0 THEN -1 ELSE 0, i)
huge_to_int(h) == Int64(h.lo)

-----------------------------------------------------------------------------
(* Shifts.  The two parts that C joins with | have no bit in common.       *)

hshra(a, b) ==
    IF b >= WORDBITS
    THEN Huge(IF HUGESIGN(a) THEN -1 ELSE 0, Int64(a.hi) \div 2^(b - WORDBITS))
    ELSE IF b = 0 THEN a
    ELSE Huge(Int64(a.hi) \div 2^b, Shl(a.hi, WORDBITS - b) + a.lo \div 2^b)

hshr(a, b) ==
    IF b >= WORDBITS THEN Huge(0, a.hi \div 2^(b - WORDBITS))
    ELSE IF b = 0 THEN a
    ELSE Huge(a.hi \div 2^b, Shl(a.hi, WORDBITS - b) + a.lo \div 2^b)

hshl(a, b) ==
    IF b >= WORDBITS THEN Huge(a.lo * 2^(b - WORDBITS), 0)
    ELSE IF b = 0 THEN a
    ELSE Huge(a.lo \div 2^(WORDBITS - b) + Shl(a.hi, b), a.lo * 2^b)

-----------------------------------------------------------------------------
(* Memory.  mem is the sequence of the bytes, first address first.         *)

\* huge_from_mem: the most significant byte gives the sign.
MostSignificant(be, mem) == IF be THEN mem[1] ELSE mem[Len(mem)]
huge_from_mem(be, mem) ==
    LET n == Len(mem)
        sign == IF MostSignificant(be, mem) >= 2^(BYTE_BITS - 1) THEN Huge(-1, -1) ELSE huge_zero
        r[i \in 0 .. n] ==
            IF i = 0 THEN sign
            ELSE LET s == hshl(r[i - 1], BYTE_BITS)
                 IN  Huge(s.hi, s.lo + mem[IF be THEN i ELSE n + 1 - i])
    IN  r[n]

huge_to_mem(be, size, h) ==
    [i \in 1 .. size |->
        hshr(h, BYTE_BITS * (IF be THEN size - i ELSE i - 1)).lo % 2^BYTE_BITS]

\* Is h a number of that many bits, signed or unsigned?  For as many bits as a
\* word has, C shifts by -1, which the machine takes modulo the word size.
huge_chkrange(h, bits) ==
    LET k == bits - WORDBITS
        Top(x, n) == (x \div 2^n) * 2^n
    IN  \/ bits >= HUGEBITS
        \/ /\ bits >= WORDBITS /\ bits < HUGEBITS
           /\ IF Top(h.hi, k) = WORD - 2^k THEN Bit(h.hi, (k - 1) % WORDBITS) = 1
                                            ELSE Top(h.hi, k) = 0
        \/ /\ bits < WORDBITS
           /\ IF h.hi = WORD - 1 /\ Top(h.lo, bits) = WORD - 2^bits
              THEN Bit(h.lo, bits - 1) = 1
              ELSE h.hi = 0 /\ Top(h.lo, bits) = 0

-----------------------------------------------------------------------------
(* Logic and sums.                                                         *)

hneg(a) == Huge(-Int64(a.hi) - One(a.lo # 0), -Int64(a.lo))
hcpl(a) == Huge(WORD - 1 - a.hi, WORD - 1 - a.lo)
hnot(a) == Huge(0, One(a = huge_zero))

\* One of C's operators &, | and ^ on two words, given what it does to a bit.
Bitwise(x, y, Op(_, _)) ==
    MapThenSumSet(LAMBDA i : Op(Bit(x, i), Bit(y, i)) * 2^i, 0 .. WORDBITS - 1)
And(p, q) == p * q
Or(p, q) == One(p + q > 0)
Xor(p, q) == (p + q) % 2
hand(a, b) == Huge(Bitwise(a.hi, b.hi, And), Bitwise(a.lo, b.lo, And))
hor(a, b) == Huge(Bitwise(a.hi, b.hi, Or), Bitwise(a.lo, b.lo, Or))
hxor(a, b) == Huge(Bitwise(a.hi, b.hi, Xor), Bitwise(a.lo, b.lo, Xor))

haddi(a, b) ==
    LET lo == (a.lo + b) % WORD
    IN  IF b < 0 THEN Huge(a.hi - One(lo > a.lo), lo)
                 ELSE Huge(a.hi + One(lo < a.lo), lo)

\* A mutant: the carry is forgotten.
hadd_carryless(a, b) == Huge(a.hi + b.hi, a.lo + b.lo)

\* For a negative b the carry is taken as if b.hi had not been added.
hadd(a, b) ==
    LET lo == (a.lo + b.lo) % WORD
    IN  IF HUGESIGN(b) THEN Huge(a.hi + b.hi - One(lo > a.lo), lo)
                       ELSE Huge(a.hi + b.hi + One(lo < a.lo), lo)

hsub(a, b) ==
    LET lo == (a.lo - b.lo) % WORD
    IN  IF HUGESIGN(b) THEN Huge(a.hi - b.hi + One(lo < a.lo), lo)
                       ELSE Huge(a.hi - b.hi - One(lo > a.lo), lo)

hcmp(a, b) ==
    LET c == hsub(a, b)
    IN  IF c = huge_zero THEN 0 ELSE IF HUGESIGN(c) THEN -1 ELSE 1

-----------------------------------------------------------------------------
(* Products.  The last carry is looked for in the product of the high      *)
(* digits, not in that of the low ones.                                    *)

\* What the product of two words adds to the high word.
HighPart(x, y) ==
    LET cross == HIHALF(x) * LOHALF(y)
        carry == (cross + LOHALF(x) * HIHALF(y)) % WORD
        high == HIHALF(x) * HIHALF(y)
    IN  One(carry < cross) * BASE + HIHALF(carry) + high
        + One((high + Shl(carry, HALF_BITS)) % WORD < high)

hmuli(a, b) == LET ub == b % WORD IN Huge(a.hi * ub + HighPart(a.lo, ub), a.lo * ub)
hmul(a, b) == Huge(a.hi * b.lo + b.hi * a.lo + HighPart(a.lo, b.lo), a.lo * b.lo)

-----------------------------------------------------------------------------
(* Division, by digits as in Knuth's Algorithm D.  Digit sequences have the *)
(* most significant digit first; u[1] is the digit in front of the number. *)

Digits(h) == << HIHALF(h.hi), LOHALF(h.hi), HIHALF(h.lo), LOHALF(h.lo) >>
FromDigits(d) == Huge(COMBINE(d[1], d[2]), COMBINE(d[3], d[4]))
NoZeros(d) == LET i == CHOOSE i \in 1 .. 4 : d[i] # 0 /\ \A j \in 1 .. i - 1 : d[j] = 0
              IN  SubSeq(d, i, 4)
Padded(d) == [i \in 1 .. 4 - Len(d) |-> 0] \o d

shift_digits(p, sh) ==
    [i \in 1 .. Len(p) |->
        LOHALF(p[i] * 2^sh) + (IF i = Len(p) THEN 0 ELSE p[i + 1] \div 2^(HALF_BITS - sh))]

\* A divisor of one digit: the digits are divided one by one.
ShortDivision(u, t) ==
    LET rem[i \in 0 .. 4] == IF i = 0 THEN 0 ELSE COMBINE(rem[i - 1], u[i]) % t
    IN  [quot |-> FromDigits([i \in 1 .. 4 |-> (COMBINE(rem[i - 1], u[i]) \div t) % BASE]),
         rem |-> Huge(0, rem[4])]

\* The estimate of a digit of the quotient, corrected with the second digit of
\* the divisor: qhat and rhat are lowered while v2 shows that they are too big.
Estimate(u0, u1, u2, v1, v2) ==
    LET Lower(q) == [qhat |-> q.qhat - 1, rhat |-> q.rhat + v1]
        first == IF u0 = v1 THEN Lower([qhat |-> BASE, rhat |-> u1])
                 ELSE [qhat |-> COMBINE(u0, u1) \div v1, rhat |-> COMBINE(u0, u1) % v1]
        Big(q) == q.rhat < BASE /\ v2 * q.qhat > COMBINE(q.rhat, u2)
        fix[k \in 0 .. BASE] == IF k = 0 THEN first
                                ELSE IF Big(fix[k - 1]) THEN Lower(fix[k - 1]) ELSE fix[k - 1]
    IN  fix[BASE].qhat

\* u - qhat * v at position j, with the borrow that is left at the end.
Difference(u, v, j, qhat) ==
    LET n == Len(v)
        Borrow(t) == (BASE - HIHALF(t)) % BASE
        t[i \in 1 .. n] ==
            (u[i + j] - v[i] * qhat - (IF i = n THEN 0 ELSE Borrow(t[i + 1]))) % WORD
        t0 == (u[j] - Borrow(t[1])) % WORD
    IN  [u |-> [i \in 1 .. Len(u) |-> CASE i = j -> LOHALF(t0)
                                        [] i \in j + 1 .. j + n -> LOHALF(t[i - j])
                                        [] OTHER -> u[i]],
         borrow |-> HIHALF(t0)]

\* v added at position j.
AddBack(u, v, j) ==
    LET n == Len(v)
        t[i \in 1 .. n] == u[i + j] + v[i] + (IF i = n THEN 0 ELSE HIHALF(t[i + 1]))
    IN  [i \in 1 .. Len(u) |-> CASE i = j -> LOHALF(u[j] + HIHALF(t[1]))
                                 [] i \in j + 1 .. j + n -> LOHALF(t[i - j])
                                 [] OTHER -> u[i]]

\* A mutant: an estimate that is still one too big is kept.
Subtract_unrepaired(u, v, j, qhat) == [u |-> Difference(u, v, j, qhat).u, q |-> qhat]

\* One digit of the quotient: if the difference is negative, the estimate was
\* one too big and v is added back.
Subtract(u, v, j, qhat) ==
    LET d == Difference(u, v, j, qhat)
    IN  IF d.borrow = 0 THEN [u |-> d.u, q |-> qhat]
                        ELSE [u |-> AddBack(d.u, v, j), q |-> qhat - 1]

\* Step j of the division: s holds what is left of u, and the quotient so far.
QuotientDigit(s, v, j) ==
    LET r == Subtract(s.u, v, j, Estimate(s.u[j], s.u[j + 1], s.u[j + 2], v[1], v[2]))
    IN  [u |-> r.u, q |-> Append(s.q, LOHALF(r.q))]
Quotient(u, v) ==
    LET step[j \in 0 .. Len(u) - Len(v)] ==
            IF j = 0 THEN [u |-> u, q |-> << >>] ELSE QuotientDigit(step[j - 1], v, j)
    IN  step[Len(u) - Len(v)]

\* Both operands are shifted so that the high bit of the divisor is set, and the
\* rest, behind the m digits of the quotient, is shifted back.
Shifted(s, d) == IF d = 0 THEN s ELSE shift_digits(s, d)
Unshifted(w, m, d) ==
    [i \in DOMAIN w |-> CASE d = 0 \/ i < m -> w[i]
                          [] d > 0 /\ i = m -> 0
                          [] OTHER -> w[i] \div 2^d + LOHALF(w[i - 1] * 2^(HALF_BITS - d))]
DividedResult(r, m, d) ==
    [quot |-> FromDigits(Padded(r.q)), rem |-> FromDigits(Padded(Tail(Unshifted(r.u, m, d))))]
LongDivision(u, v) ==
    LET d == CHOOSE d \in 0 .. HALF_BITS - 1 : v[1] * 2^d \in BASE \div 2 .. BASE - 1
    IN  DividedResult(Quotient(Shifted(u, d), Shifted(v, d)), Len(u) - Len(v), d)

divmod(a, b) ==
    IF a.hi < b.hi \/ (a.hi = b.hi /\ a.lo < b.lo) THEN [quot |-> huge_zero, rem |-> a]
    ELSE IF Len(NoZeros(Digits(b))) = 1 THEN ShortDivision(Digits(a), b.lo)
    ELSE LongDivision(<< 0 >> \o NoZeros(Digits(a)), NoZeros(Digits(b)))

Magnitude(a) == IF HUGESIGN(a) THEN hneg(a) ELSE a
Signed(a, b, r) == IF HUGESIGN(a) # HUGESIGN(b) THEN hneg(r) ELSE r
hdiv(a, b) == Signed(a, b, divmod(Magnitude(a), Magnitude(b)).quot)
hmod(a, b) == Signed(a, b, divmod(Magnitude(a), Magnitude(b)).rem)
=============================================================================

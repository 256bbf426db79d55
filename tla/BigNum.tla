------------------------------- MODULE BigNum -------------------------------
(***************************************************************************)
(* Natural numbers of the num library: the kernel bignum/c/KerN.c and      *)
(* bignum/c/bn/.  A BigNum is a pointer into memory and a length, least    *)
(* significant digit first; the functions work in place, often on operands *)
(* that overlap.  Memory is a function m from addresses to digits of       *)
(* BN_DIGIT_SIZE bits, and a function that writes returns [m, r]: memory   *)
(* and result.  Address 0 stands for the local digit QApp of divide.       *)
(***************************************************************************)
EXTENDS Integers, Sequences, FiniteSets

CONSTANT BN_DIGIT_SIZE
ASSUME DigitSizeAssumption == BN_DIGIT_SIZE \in {2, 4, 8}

LOCAL INSTANCE Bitwise

B == 2 ^ BN_DIGIT_SIZE
Half == 2 ^ (BN_DIGIT_SIZE \div 2)
LOW(x) == x % Half
HIGH(x) == x \div Half
L2H(x) == (x * Half) % B
R(m, r) == [m |-> m, r |-> r]

\* Op(x).  The bound v makes TLC compute x before Op, one turn of a loop or one
\* phase of a division after the other, where its arguments, evaluated when they
\* are used, would pile up until the last.
Then(x, Op(_)) == CHOOSE y \in {Op(v) : v \in {x}} : TRUE

BN_LT == -1
BN_EQ == 0
BN_GT == 1

-----------------------------------------------------------------------------
(* Access to digits.                                                       *)

BnnSetToZero(m, nn, nl) == [i \in DOMAIN m |-> IF i \in nn..(nn + nl - 1) THEN 0 ELSE m[i]]

\* One digit at a time, upwards or downwards.
RECURSIVE CopyUp(_, _, _, _)
CopyUp(m, mm, nn, nl) == IF nl = 0 THEN m ELSE CopyUp([m EXCEPT ![mm] = m[nn]], mm + 1, nn + 1, nl - 1)
RECURSIVE CopyDown(_, _, _, _)
CopyDown(m, mm, nn, nl) ==
  IF nl = 0 THEN m ELSE CopyDown([m EXCEPT ![mm + nl - 1] = m[nn + nl - 1]], mm, nn, nl - 1)

\* Mutated form: copies upwards only.
BnnAssign_up(m, mm, nn, nl) == IF nl <= 0 THEN m ELSE CopyUp(m, mm, nn, nl)

BnnAssign(m, mm, nn, nl) ==
  IF nl <= 0 THEN m
  ELSE IF mm < nn \/ mm > nn + nl THEN CopyUp(m, mm, nn, nl)
  ELSE IF mm > nn THEN CopyDown(m, mm, nn, nl)
  ELSE m

RECURSIVE Significant(_, _, _)
Significant(m, nn, nl) == IF nl # 0 /\ m[nn + nl - 1] = 0 THEN Significant(m, nn, nl - 1) ELSE nl
AtLeastOne(n) == IF n = 0 THEN 1 ELSE n
BnnNumDigits(m, nn, nl) == AtLeastOne(Significant(m, nn, nl))

\* Halving the mask of the digit's leading bits.
RECURSIVE ZeroBits(_, _, _)
ZeroBits(d, maskl, p) ==
  IF maskl = 0 THEN p
  ELSE IF d \div 2 ^ (BN_DIGIT_SIZE - maskl) = 0
       THEN ZeroBits((d * 2 ^ maskl) % B, maskl \div 2, p + maskl)
       ELSE ZeroBits(d, maskl \div 2, p)
BnnNumLeadingZeroBitsInDigit(d) == IF d = 0 THEN BN_DIGIT_SIZE ELSE ZeroBits(d, BN_DIGIT_SIZE \div 2, 0)

BnnIsDigitNormalized(d) == d & 2 ^ (BN_DIGIT_SIZE - 1) # 0
BnnIsDigitOdd(d) == d & 1 # 0
BnnCompareDigits(d1, d2) == IF d1 > d2 THEN BN_GT ELSE IF d1 = d2 THEN BN_EQ ELSE BN_LT

\* Mutated form: the complement of a wider word.
BnnComplement_wide(m, nn, nl) == [i \in DOMAIN m |-> IF i \in nn..(nn + nl - 1) THEN -1 - m[i] ELSE m[i]]

BnnComplement(m, nn, nl) == [i \in DOMAIN m |-> IF i \in nn..(nn + nl - 1) THEN B - 1 - m[i] ELSE m[i]]
BnnAndDigits(m, n, d) == [m EXCEPT ![n] = @ & d]
BnnOrDigits(m, n, d) == [m EXCEPT ![n] = @ | d]
BnnXorDigits(m, n, d) == [m EXCEPT ![n] = @ ^^ d]

-----------------------------------------------------------------------------
(* Shifts.                                                                 *)

RECURSIVE ShiftUp(_, _, _, _, _)
ShiftUp(m, mm, ml, nbits, res) ==
  IF ml = 0 THEN R(m, res)
  ELSE ShiftUp([m EXCEPT ![mm] = ((@ * 2 ^ nbits) % B) + res], mm + 1, ml - 1, nbits,
               m[mm] \div 2 ^ (BN_DIGIT_SIZE - nbits))
BnnShiftLeft(m, mm, ml, nbits) == IF nbits = 0 THEN R(m, 0) ELSE ShiftUp(m, mm, ml, nbits, 0)

RECURSIVE ShiftDown(_, _, _, _, _)
ShiftDown(m, mm, ml, nbits, res) ==
  IF ml = 0 THEN R(m, res)
  ELSE LET i == mm + ml - 1
       IN  ShiftDown([m EXCEPT ![i] = (@ \div 2 ^ nbits) + res], mm, ml - 1, nbits,
                     (m[i] * 2 ^ (BN_DIGIT_SIZE - nbits)) % B)
\* Mutated form: the bits of the digit above are not brought in.
BnnShiftRight_dropped(m, mm, ml, nbits) ==
  R([i \in DOMAIN m |-> IF i \in mm..(mm + ml - 1) THEN m[i] \div 2 ^ nbits ELSE m[i]],
    IF ml = 0 \/ nbits = 0 THEN 0 ELSE (m[mm] * 2 ^ (BN_DIGIT_SIZE - nbits)) % B)

BnnShiftRight(m, mm, ml, nbits) == IF nbits = 0 THEN R(m, 0) ELSE ShiftDown(m, mm, ml, nbits, 0)

-----------------------------------------------------------------------------
(* Addition and subtraction: carries are found by comparing the wrapped    *)
(* sum with an operand.                                                    *)

\* while (nl > 0 && !(++(*nn++))) nl--;
RECURSIVE Increments(_, _, _)
Increments(m, nn, nl) ==
  IF nl = 0 THEN R(m, 0)
  ELSE LET m1 == [m EXCEPT ![nn] = (@ + 1) % B]
       IN  IF m1[nn] # 0 THEN R(m1, nl) ELSE Increments(m1, nn + 1, nl - 1)

\* The carry, or the absence of a borrow, when i.r digits were not reached.
CarryOut(i) == R(i.m, IF i.r > 0 THEN 0 ELSE 1)
NoBorrow(i) == R(i.m, IF i.r > 0 THEN 1 ELSE 0)

BnnAddCarry(m, nn, nl, carryin) ==
  IF carryin = 0 THEN R(m, 0)
  ELSE IF nl = 0 THEN R(m, 1)
  ELSE CarryOut(Increments(m, nn, nl))

RECURSIVE BnnAdd(_, _, _, _, _, _)
\* Mutated form: the carry out of the first sum is forgotten.
RECURSIVE BnnAdd_once(_, _, _, _, _, _)
BnnAdd_once(m, mm, ml, nn, nl, carryin) ==
  IF nl = 0 THEN BnnAddCarry(m, mm, ml, carryin)
  ELSE LET c2 == (carryin + m[mm] + m[nn]) % B
       IN  BnnAdd_once([m EXCEPT ![mm] = c2], mm + 1, ml - 1, nn + 1, nl - 1, IF c2 < m[nn] THEN 1 ELSE 0)
BnnAdd(m, mm, ml, nn, nl, carryin) ==
  IF nl = 0 THEN BnnAddCarry(m, mm, ml, carryin)
  ELSE LET save == m[mm]
           c1 == (carryin + save) % B
           c2 == (c1 + m[nn]) % B
       IN  IF c1 < save
           THEN BnnAdd([m EXCEPT ![mm] = m[nn]], mm + 1, ml - 1, nn + 1, nl - 1, 1)
           ELSE BnnAdd([m EXCEPT ![mm] = c2], mm + 1, ml - 1, nn + 1, nl - 1, IF c2 < m[nn] THEN 1 ELSE 0)

\* while (nl > 0 && !((*nn++)--)) nl--;
RECURSIVE Decrements(_, _, _)
Decrements(m, nn, nl) ==
  IF nl = 0 THEN R(m, 0)
  ELSE LET m1 == [m EXCEPT ![nn] = (@ - 1) % B]
       IN  IF m[nn] # 0 THEN R(m1, nl) ELSE Decrements(m1, nn + 1, nl - 1)

BnnSubtractBorrow(m, nn, nl, carryin) ==
  IF carryin = 1 THEN R(m, 1)
  ELSE IF nl = 0 THEN R(m, 0)
  ELSE NoBorrow(Decrements(m, nn, nl))

RECURSIVE BnnSubtract(_, _, _, _, _, _)
BnnSubtract(m, mm, ml, nn, nl, carryin) ==
  IF nl = 0 THEN BnnSubtractBorrow(m, mm, ml, carryin)
  ELSE LET save == m[mm]
           invn == B - 1 - m[nn]
           c1 == (carryin + save) % B
           c2 == (c1 + invn) % B
       IN  IF c1 < save
           THEN BnnSubtract([m EXCEPT ![mm] = invn], mm + 1, ml - 1, nn + 1, nl - 1, 1)
           ELSE BnnSubtract([m EXCEPT ![mm] = c2], mm + 1, ml - 1, nn + 1, nl - 1, IF c2 < invn THEN 1 ELSE 0)

-----------------------------------------------------------------------------
(* Multiplication: a digit by halves, with the carries of the partial      *)
(* products counted in X3.                                                 *)

\* A wrapped sum, and whether it wrapped: it is then below the second term.
Wrap(x, y) == [v |-> (x + y) % B, c |-> IF (x + y) % B < y THEN 1 ELSE 0]

MulTop(q, hi) == [digit |-> q.v, r |-> (hi + q.c) % B]
MulHigh(p, c2, hi) == MulTop(Wrap(p, c2.v), hi + c2.c)
MulMiddle(p, c1, X1, H) ==
  MulHigh(p, Wrap(c1.v, L2H(X1.v)), H + c1.c + Half * X1.c + HIGH(X1.v))

\* Mutated form: the carry of the two middle products is lost.
MulStep_nocarry(p, c, x, d) ==
  MulMiddle(p, Wrap(c, LOW(d) * LOW(x)),
            [v |-> (LOW(d) * HIGH(x) + HIGH(d) * LOW(x)) % B, c |-> 0], HIGH(d) * HIGH(x))

\* One turn of the loop: p + c + x * d as a digit and the carry r.
MulStep(p, c, x, d) ==
  MulMiddle(p, Wrap(c, LOW(d) * LOW(x)), Wrap(LOW(d) * HIGH(x), HIGH(d) * LOW(x)), HIGH(d) * HIGH(x))

\* The digit e computed is stored at address i, its carry or remainder kept.
Stored(s, i, e) == R([s.m EXCEPT ![i] = e.digit], e.r)

RECURSIVE MulLoop(_, _, _, _, _)
MulLoop(s, pp, mm, ml, d) ==
  IF ml = 0 THEN s
  ELSE Then(Stored(s, pp, MulStep(s.m[pp], s.r, s.m[mm], d)),
            LAMBDA t : MulLoop(t, pp + 1, mm + 1, ml - 1, d))

\* The carry of the loop is added at pp, and carried on over pl digits.
MulCarry(s, pp, pl) ==
  LET c == (s.r + s.m[pp]) % B
      m1 == [s.m EXCEPT ![pp] = c]
  IN  IF c >= s.m[pp] THEN R(m1, 0) ELSE CarryOut(Increments(m1, pp + 1, pl))

\* Mutated form: the carry may run one digit too far.
BnnMultiplyDigit_far(m, pp, pl, mm, ml, d) ==
  IF d = 0 THEN R(m, 0)
  ELSE IF d = 1 THEN BnnAdd(m, pp, pl, mm, ml, 0)
  ELSE MulCarry(MulLoop(R(m, 0), pp, mm, ml, d), pp + ml, pl - ml)

BnnMultiplyDigit(m, pp, pl, mm, ml, d) ==
  IF d = 0 THEN R(m, 0)
  ELSE IF d = 1 THEN BnnAdd(m, pp, pl, mm, ml, 0)
  ELSE MulCarry(MulLoop(R(m, 0), pp, mm, ml, d), pp + ml, pl - ml - 1)

\* A call whose carry is added to those in s.r.
Tally(s, e) == R(e.m, s.r + e.r)
MultiplyIn(s, pp, pl, mm, ml, d) == Tally(s, BnnMultiplyDigit(s.m, pp, pl, mm, ml, d))
AddIn(s, pp, pl, mm, ml) == Tally(s, BnnAdd(s.m, pp, pl, mm, ml, 0))

\* The squaring loop of BnnMultiply: the square of digit n, the top bit that
\* doubling the digit before it dropped, and the doubled cross products.
SquareDigit(s, pp, pl, nn, n_prev) ==
  IF n_prev # 0 THEN AddIn(MultiplyIn(s, pp, pl, nn, 1, s.m[nn]), pp, pl, nn, 1)
  ELSE MultiplyIn(s, pp, pl, nn, 1, s.m[nn])
RECURSIVE Square(_, _, _, _, _, _)
Square(s, pp, pl, nn, nl, n_prev) ==
  IF nl = 0 THEN s
  ELSE Then(Then(SquareDigit(s, pp, pl, nn, n_prev),
                 LAMBDA t : MultiplyIn(t, pp + 1, pl - 1, nn + 1, nl - 1, (2 * s.m[nn] + n_prev) % B)),
            LAMBDA t : Square(t, pp + 2, pl - 2, nn + 1, nl - 1, IF s.m[nn] >= B \div 2 THEN 1 ELSE 0))

RECURSIVE Products(_, _, _, _, _, _, _)
Products(s, pp, pl, mm, ml, nn, nl) ==
  IF nl = 0 THEN s
  ELSE Then(MultiplyIn(s, pp, pl, mm, ml, s.m[nn]),
            LAMBDA t : Products(t, pp + 1, pl - 1, mm, ml, nn + 1, nl - 1))

BnnMultiply(m, pp, pl, mm, ml, nn, nl) ==
  IF mm = nn /\ ml = nl /\ nl > 6 THEN Square(R(m, 0), pp, pl, nn, nl, 0)
  ELSE Products(R(m, 0), pp, pl, mm, ml, nn, nl)

-----------------------------------------------------------------------------
(* Division.                                                               *)

\* ph:pl - yh:yl
SUB(x, yh, yl) ==
  [h |-> (x.h - yh - (IF yl > x.l THEN 1 ELSE 0)) % B, l |-> (x.l - yl) % B]
Greater(x, y) == x.h > y.h \/ (x.h = y.h /\ x.l > y.l)

\* While the product is greater than the remainder, decrement qa.
RECURSIVE Adjust(_, _, _, _, _)
Adjust(qa, p, r, yh, yl) ==
  IF Greater(p, r) THEN Adjust((qa - 1) % B, SUB(p, yh, yl), r, yh, yl) ELSE [qa |-> qa, p |-> p]

\* The half digit of the quotient, and the remainder minus its product.
Reduced(x, a) == [qa |-> a.qa, s |-> SUB(x, a.p.h, a.p.l)]
HighHalf(x, ch, cl, qa) ==
  LET t == (cl * qa) % B
  IN  Reduced(x, Adjust(qa, [h |-> (ch * qa + HIGH(t)) % B, l |-> L2H(t)], x, ch, L2H(cl)))
LowHalf(s, d, ch, cl, qa) ==
  LET t == (cl * qa) % B
      u == (ch * qa + HIGH(t)) % B
  IN  Reduced(s, Adjust(qa, [h |-> HIGH(u), l |-> LOW(t) + L2H(LOW(u))], s, 0, d))
DivHalves(a1, a2) == [digit |-> (L2H(a1.qa) + a2.qa) % B, r |-> a2.s.l]
DivSecond(a1, d) == DivHalves(a1, LowHalf(a1.s, d, HIGH(d), LOW(d), (L2H(a1.s.h) + HIGH(a1.s.l)) \div HIGH(d)))

\* Two digits of the remainder divided by the normalized d, half a digit at
\* a time: a digit of the quotient and the remainder r.
DivStep(rh, rl, d) == DivSecond(HighHalf([h |-> rh, l |-> rl], HIGH(d), LOW(d), rh \div HIGH(d)), d)

RECURSIVE DivLoop(_, _, _, _, _)
DivLoop(s, qq, nn, nl, d) ==
  IF nl = 0 THEN s
  ELSE DivLoop(Stored(s, qq + nl - 1, DivStep(s.r, s.m[nn + nl - 1], d)), qq, nn, nl - 1, d)
DivDigits(m, qq, nn, nl, d) == DivLoop(R(m, m[nn + nl - 1]), qq, nn, nl - 1, d)

\* The dividend is denormalized except where the quotient overlaps it.
Denormalized(m, qq, nn, nl, k, l) ==
  R(CASE k = 0 -> l.m
      [] k # 0 /\ qq > nn /\ qq < nn + nl ->
           [BnnShiftRight(l.m, nn, qq - nn, k).m EXCEPT ![qq - 1] = m[qq - 1]]
      [] k # 0 /\ qq = nn -> BnnShiftRight(l.m, nn + nl - 1, 1, k).m
      [] OTHER -> BnnShiftRight(l.m, nn, nl, k).m,
    l.r \div 2 ^ k)
DivideShifted(m, qq, nn, nl, d, k) ==
  Denormalized(m, qq, nn, nl, k, DivDigits(BnnShiftLeft(m, nn, nl, k).m, qq, nn, nl, d * 2 ^ k))
BnnDivideDigit(m, qq, nn, nl, d) == DivideShifted(m, qq, nn, nl, d, BnnNumLeadingZeroBitsInDigit(d))

RECURSIVE CompareFrom(_, _, _, _)
CompareFrom(m, mm, nn, n) ==
  IF n = 0 THEN BN_EQ
  ELSE LET c == BnnCompareDigits(m[mm + n - 1], m[nn + n - 1])
       IN  IF c = BN_EQ THEN CompareFrom(m, mm, nn, n - 1) ELSE c

BnnIsZero(m, nn, nl) == BnnNumDigits(m, nn, nl) = 1 /\ (nl = 0 \/ m[nn] = 0)

\* The comparison proper, of numbers without leading zeros.  (Mutated form of
\* BnnCompare: leading zeros count.)
BnnCompare_raw(m, mm, ml, nn, nl) ==
  IF ml # nl THEN IF ml > nl THEN BN_GT ELSE BN_LT ELSE CompareFrom(m, mm, nn, ml)

BnnCompare(m, mm, ml, nn, nl) ==
  BnnCompare_raw(m, mm, BnnNumDigits(m, mm, ml), nn, BnnNumDigits(m, nn, nl))

QApp == 0   \* the address of divide's local

\* Correct the approximate quotient, in case it was too large.
RECURSIVE Correct(_, _, _, _, _)
\* Mutated form: the approximate quotient is taken as it is.
Correct_never(m, nn, ni, dd, dl) == m
Correct(m, nn, ni, dd, dl) ==
  IF m[nn + ni + dl] = m[QApp] THEN m
  ELSE Correct(BnnSubtractBorrow(BnnSubtract(m, nn + ni, dl + 1, dd, dl, 1).m, QApp, 1, 0).m, nn, ni, dd, dl)

\* The approximate quotient of the two digits at i, in QApp.
Approximate(m, i, DDigit) ==
  IF BnnCompareDigits(m[i + 1], DDigit) = BN_EQ THEN [m EXCEPT ![QApp] = B - 1]
  ELSE BnnDivideDigit(m, QApp, i, 2, DDigit).m
\* Its product with the negated divisor is added to the remainder.
Reduce(m, pp, dd, dl) == BnnMultiplyDigit(m, pp, dl + 1, dd, dl, m[QApp]).m
RECURSIVE DivideLoop(_, _, _, _, _, _)
DivideLoop(m, nn, ni, dd, dl, DDigit) ==
  IF ni < 0 THEN m
  ELSE Then(Correct(Reduce(Approximate(m, nn + ni + dl - 1, DDigit), nn + ni, dd, dl), nn, ni, dd, dl),
            LAMBDA t : DivideLoop(t, nn, ni - 1, dd, dl, DDigit))

Negated(m, dd, dl) == BnnAddCarry(BnnComplement(m, dd, dl), dd, dl, 1).m

divide(m, nn, nl, dd, dl) ==
  Then(Then(Negated(m, dd, dl), LAMBDA t : DivideLoop(t, nn, nl - dl, dd, dl, m[dd + dl - 1])),
       LAMBDA t : Negated(t, dd, dl))

WithRemainder(q, nn) == [q.m EXCEPT ![nn] = q.r]
ShiftBack(m, nn, dd, dl, k) == BnnShiftRight(BnnShiftRight(m, dd, dl, k).m, nn, dl, k).m
DivideNormalized(m, nn, nl, dd, dl, k) ==
  Then(Then(BnnShiftLeft(BnnShiftLeft(m, dd, dl, k).m, nn, nl, k).m, LAMBDA t : divide(t, nn, nl - 1, dd, dl)),
       LAMBDA t : ShiftBack(t, nn, dd, dl, k))
DivideCompared(m, nn, nl, dd, dl, c) ==
  CASE c = BN_LT -> BnnSetToZero(m, nn + dl, nl - dl)
    [] c = BN_EQ -> [BnnSetToZero(m, nn, nl) EXCEPT ![nn + dl] = 1]
    [] c = BN_GT /\ dl = 1 -> WithRemainder(BnnDivideDigit(m, nn + 1, nn, nl, m[dd]), nn)
    [] OTHER -> DivideNormalized(m, nn, nl, dd, dl, BnnNumLeadingZeroBitsInDigit(m[dd + dl - 1]))
BnnDivide(m, nn, nl, dd, dl) == DivideCompared(m, nn, nl, dd, dl, BnnCompare(m, nn, nl, dd, dl))

=============================================================================

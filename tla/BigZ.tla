-------------------------------- MODULE BigZ --------------------------------
(***************************************************************************)
(* Signed big numbers of the num library: bignum/c/bz.c and bzf.c.  A BigZ *)
(* is [sign, d]: its sign and its block of digits, least significant       *)
(* first, perhaps with leading zeros.  Each operation allocates its result *)
(* and runs the kernel of module BigNum on the blocks where malloc put     *)
(* them, with a word of another block after each.                          *)
(***************************************************************************)
EXTENDS BigNum

LOCAL INSTANCE SequencesExt

CONSTANTS BigZs,     \* the numbers operations are tried on
          Bases,     \* the bases strings are written in
          Numerals   \* the strings read in each base

VARIABLES
  bz,    \* the two BigZ of the caller, by name
  bcall  \* the last call: [op, before, args, r]

BZ_MINUS == -1
BZ_ZERO == 0
BZ_PLUS == 1
Larger(a, b) == IF a > b THEN a ELSE b

-----------------------------------------------------------------------------
(* Blocks in memory.  Address 0 is BigNum's QApp, 1 a header.              *)

Header == 9
Zeros(n) == [i \in 1..n |-> 0]
Words(s) == [i \in 0..Len(s) |-> IF i = 0 THEN 0 ELSE s[i]]
Memory(blocks) == Words(<<Header>> \o FlattenSeq([k \in DOMAIN blocks |-> Append(blocks[k], Header)]))
RECURSIVE At(_, _)
At(blocks, k) == IF k = 1 THEN 2 ELSE At(blocks, k - 1) + Len(blocks[k - 1]) + 1
Block(m, blocks, k) == [i \in 1..Len(blocks[k]) |-> m[At(blocks, k) + i - 1]]

BzCreate(Size) == [sign |-> BZ_ZERO, d |-> Zeros(Size)]
BzNumDigits(z) == BnnNumDigits(Memory(<<z.d>>), 2, Len(z.d))
BzCopy(z) == [z EXCEPT !.d = SubSeq(z.d, 1, BzNumDigits(z))]
BzNegate(z) == [BzCopy(z) EXCEPT !.sign = -z.sign]
BzAbs(z) == [BzCopy(z) EXCEPT !.sign = IF z.sign < 0 THEN -z.sign ELSE z.sign]

Magnitudes(y, z) == BnnCompare(Memory(<<y.d, z.d>>), 2, Len(y.d), At(<<y.d, z.d>>, 2), Len(z.d))
BzCompare(y, z) ==
  IF y.sign > z.sign THEN BN_GT
  ELSE IF y.sign < z.sign THEN BN_LT
  ELSE IF y.sign > 0 THEN Magnitudes(y, z)
  ELSE IF y.sign < 0 THEN Magnitudes(z, y)
  ELSE BN_EQ

\* x plus or minus w in the third block, which gets the sign of x.
Combined(x, bs, n, xl, wl, plus) ==
  LET m == BnnAssign(Memory(bs), n, At(bs, 1), xl)
  IN  [sign |-> x.sign,
       d |-> Block(IF plus THEN BnnAdd(m, n, Len(bs[3]), At(bs, 2), wl, 0).m
                   ELSE BnnSubtract(m, n, Len(bs[3]), At(bs, 2), wl, 1).m, bs, 3)]
InBlocks(x, w, bs, plus) == Combined(x, bs, At(bs, 3), BzNumDigits(x), BzNumDigits(w), plus)
Combine(x, w, size, plus) == InBlocks(x, w, <<x.d, w.d, Zeros(size)>>, plus)

\* The sum, the larger magnitude c first, with extra digits for a carry.
AddInto(y, z, c, extra) ==
  IF y.sign = z.sign
  THEN IF c # BN_LT THEN Combine(y, z, BzNumDigits(y) + extra, TRUE)
       ELSE Combine(z, y, BzNumDigits(z) + extra, TRUE)
  ELSE CASE c = BN_EQ -> BzCreate(1)
         [] c = BN_GT -> Combine(y, z, BzNumDigits(y), FALSE)
         [] OTHER -> Combine(z, y, BzNumDigits(z), FALSE)

\* Mutated form: no digit for the carry.
BzAdd_short(y, z) == AddInto(y, z, Magnitudes(y, z), 0)

BzAdd(y, z) == AddInto(y, z, Magnitudes(y, z), 1)

\* same: y and z are the same pointer.
BzSubtract(y, z, same) == IF same THEN BzCreate(1) ELSE BzAdd(y, [z EXCEPT !.sign = -z.sign])

MultiplyBlocks(y, z, yl, zl, bs) ==
  [sign |-> y.sign * z.sign,
   d |-> Block(BnnMultiply(Memory(bs), At(bs, 3), yl + zl, At(bs, 1), yl, At(bs, 2), zl).m, bs, 3)]
Multiplied(y, z, yl, zl) == MultiplyBlocks(y, z, yl, zl, <<y.d, z.d, Zeros(yl + zl)>>)
BzMultiply(y, z) == Multiplied(y, z, BzNumDigits(y), BzNumDigits(z))

\* The blocks of a division: where the operands, the quotient and the
\* remainder are, and their lengths.
Layout(bs, yl, zl) ==
  [bs |-> bs, yy |-> At(bs, 1), zz |-> At(bs, 2), qq |-> At(bs, 3), rr |-> At(bs, 4),
   yl |-> yl, zl |-> zl, ql |-> Len(bs[3]), rl |-> Len(bs[4])]
LayoutFor(y, z, yl, zl) ==
  Layout(<<y.d, z.d, Zeros(Larger(yl - zl + 1, 1) + 1), Zeros(Larger(zl, yl) + 1)>>, yl, zl)

\* The dividend is divided in the remainder's block; the digits of the
\* quotient are moved to their own.
MoveQuotient(m, L) ==
  BnnSetToZero(BnnAssign(m, L.qq, L.rr + L.zl, L.rl - L.zl), L.rr + L.zl, L.rl - L.zl)
DivideBlocks(L) ==
  MoveQuotient(BnnDivide(BnnAssign(Memory(L.bs), L.rr, L.yy, L.yl), L.rr, L.rl, L.zz, L.zl), L)

\* Mutated form: the quotient of a negative number is truncated.
Floor_truncated(m, L) == BnnAdd(BnnComplement(m, L.rr, L.zl), L.rr, L.zl, L.zz, L.zl, 1).m
\* Mutated form: the new remainder is computed in the divisor.
Floor_inplace(m, L) ==
  BnnAdd(BnnComplement(BnnAddCarry(m, L.qq, L.ql, 1).m, L.rr, L.zl), L.zz, L.zl, L.rr, L.zl, 1).m

\* A negative dividend with a remainder: one more in the quotient, and the
\* divisor minus the remainder.
Floor(m, L) ==
  BnnAdd(BnnComplement(BnnAddCarry(m, L.qq, L.ql, 1).m, L.rr, L.zl), L.rr, L.zl, L.zz, L.zl, 1).m

\* Mutated form: a zero quotient keeps a sign.
DivideResult_sign(m, L, z, sign, rnotnul) ==
  [q |-> [sign |-> sign, d |-> Block(m, L.bs, 3)],
   r |-> [sign |-> IF rnotnul THEN BZ_PLUS ELSE BZ_ZERO, d |-> Block(m, L.bs, 4)],
   z |-> [z EXCEPT !.d = Block(m, L.bs, 2)]]

\* The quotient and the remainder, and the divisor as the call leaves it.
DivideResult(m, L, z, sign, rnotnul) ==
  [q |-> [sign |-> IF BnnIsZero(m, L.qq, L.ql) THEN BZ_ZERO ELSE sign, d |-> Block(m, L.bs, 3)],
   r |-> [sign |-> IF rnotnul THEN BZ_PLUS ELSE BZ_ZERO, d |-> Block(m, L.bs, 4)],
   z |-> [z EXCEPT !.d = Block(m, L.bs, 2)]]
DivideSigned(m, L, y, z, rnotnul) ==
  IF y.sign = BZ_MINUS /\ rnotnul THEN DivideResult(Floor(m, L), L, z, -z.sign, rnotnul)
  ELSE DivideResult(m, L, z, y.sign * z.sign, rnotnul)
DivideTested(m, L, y, z) == DivideSigned(m, L, y, z, ~BnnIsZero(m, L.rr, L.zl))
DivideIn(L, y, z) == DivideTested(DivideBlocks(L), L, y, z)
BzDivide(y, z) == DivideIn(LayoutFor(y, z, BzNumDigits(y), BzNumDigits(z)), y, z)

-----------------------------------------------------------------------------
(* Strings: sequences of characters.                                       *)

\* log(base) to the six decimals of the table, scaled.
BzLog == <<0, 693147, 1098612, 1386294, 1609438, 1791759, 1945910, 2079442, 2197225, 2302585,
           2397895, 2484907, 2564949, 2639057, 2708050, 2772588>>
Digit == <<"0", "1", "2", "3", "4", "5", "6", "7", "8", "9", "A", "B", "C", "D", "E", "F">>
LowerDigit == <<"a", "b", "c", "d", "e", "f">>
CTOI(c) ==
  IF \E i \in DOMAIN Digit : Digit[i] = c THEN (CHOOSE i \in DOMAIN Digit : Digit[i] = c) - 1
  ELSE IF \E i \in DOMAIN LowerDigit : LowerDigit[i] = c THEN (CHOOSE i \in DOMAIN LowerDigit : LowerDigit[i] = c) + 9
  ELSE 0

\* Divide repeatedly, exchanging y and q; w.s is the part of the string
\* written, w.m the memory.
DigitWritten(e, s) == [m |-> e.m, s |-> <<Digit[e.r + 1]>> \o s]
RECURSIVE WriteDigits(_, _, _, _, _)
WriteDigits(w, y, q, zl, base) ==
  IF w.s # <<>> /\ BnnIsZero(w.m, y, zl) THEN w.s
  ELSE WriteDigits(DigitWritten(BnnDivideDigit(w.m, q, y, zl, base), w.s), q, y, zl, base)

\* The string and the number of characters of the buffer left unused.
InBuffer(s, sl) == [s |-> s, spare |-> sl - Len(s) - 1]
SignWritten(s, sign) == IF sign < 0 THEN <<"-">> \o s ELSE s
ToStringIn(z, bs, zl, base) ==
  InBuffer(IF z.sign = BZ_ZERO THEN <<"0">>
           ELSE SignWritten(WriteDigits([m |-> BnnAssign(Memory(bs), At(bs, 2), At(bs, 1), zl - 1), s |-> <<>>],
                                        At(bs, 2), At(bs, 3), zl, base), z.sign),
           ((BzLog[2] * BN_DIGIT_SIZE * zl) \div BzLog[base]) + 3)
ToStringOf(z, zl, base) == ToStringIn(z, <<z.d, Zeros(zl), Zeros(zl)>>, zl, base)
BzToString(z, base) == ToStringOf(z, BzNumDigits(z) + 1, base)

RECURSIVE SkipSpaces(_)
SkipSpaces(s) == IF s # <<>> /\ Head(s) = " " THEN SkipSpaces(Tail(s)) ELSE s

\* Multiply in the digits, exchanging z and p.  The kernel is called with a
\* product no longer than the factor, so it also writes the word after p.
RECURSIVE ReadDigits(_, _, _, _, _, _)
ReadDigits(m, z, p, zl, base, s) ==
  IF s = <<>> THEN [m |-> m, z |-> z]
  ELSE LET m1 == [BnnSetToZero(m, p, zl) EXCEPT ![p] = CTOI(Head(s))]
       IN  Then(BnnMultiplyDigit(m1, p, zl, z, zl, base).m,
                LAMBDA t : ReadDigits(t, p, z, zl, base, Tail(s)))

FromDigits(e, bs, zl, sign) ==
  [z |-> [sign |-> IF BnnIsZero(e.m, e.z, zl) THEN BZ_ZERO ELSE sign,
          d |-> [i \in 1..zl |-> e.m[e.z + i - 1]]],
   intact |-> \A i \in {1, At(bs, 2) - 1, At(bs, 2) + zl} : e.m[i] = Header]
FromStringIn(s, bs, zl, base) ==
  FromDigits(ReadDigits(Memory(bs), At(bs, 1), At(bs, 2), zl, base,
                        IF s # <<>> /\ Head(s) \in {"-", "+"} THEN Tail(s) ELSE s),
             bs, zl, IF s # <<>> /\ Head(s) = "-" THEN BZ_MINUS ELSE BZ_PLUS)
FromStringSized(s, zl, base) == FromStringIn(s, <<Zeros(zl), Zeros(zl)>>, zl, base)
DigitsOf(s, base) == (Len(s) * BzLog[base]) \div (BzLog[2] * BN_DIGIT_SIZE)

\* Mutated form: the blocks are a digit short.
BzFromString_short(s, base) ==
  FromStringSized(SkipSpaces(s), Larger(DigitsOf(SkipSpaces(s), base), 1), base)

\* The number, and whether the words around the blocks kept their values.
BzFromString(s, base) == FromStringSized(SkipSpaces(s), DigitsOf(SkipSpaces(s), base) + 1, base)

-----------------------------------------------------------------------------
(* Other conversions; an int has the width of a digit.                     *)

MAXINT == B \div 2 - 1
Signed(x) == LET v == x % B IN IF v > MAXINT THEN v - B ELSE v
Sgn(i) == IF i > 0 THEN BZ_PLUS ELSE IF i < 0 THEN BZ_MINUS ELSE BZ_ZERO
BzFromInteger(i) == [sign |-> Sgn(i), d |-> <<IF i < 0 THEN -i ELSE i>>]
\* Mutated form: the sign is ignored.
BzToInteger_unsigned(z) == IF BzNumDigits(z) > 1 THEN MAXINT ELSE Signed(z.d[1])

BzToInteger(z) ==
  IF BzNumDigits(z) > 1 THEN MAXINT ELSE Signed(IF z.sign = BZ_MINUS THEN -z.d[1] ELSE z.d[1])
BzFromBigNum(n) == [sign |-> IF BnnIsZero(Memory(<<n>>), 2, Len(n)) THEN BZ_ZERO ELSE BZ_PLUS, d |-> n]
BzToBigNum(z) == SubSeq(z.d, 1, BzNumDigits(z))   \* of z >= 0

\* f := f + f * zval, in place, for zval from z - 1 down.
TimesNext(m, f, fl, zval) == BnnMultiplyDigit(m, f, fl + 1, f, fl, zval).m
RECURSIVE Factorials(_, _, _, _)
Factorials(m, f, fl, zval) ==
  IF zval < 1 THEN m
  ELSE Then(TimesNext(m, f, BnnNumDigits(m, f, fl), zval),
            LAMBDA t : Factorials(t, f, fl + 1, zval - 1))
BzFactorial(z) ==
  LET bs == <<z.d, Zeros(z.d[1] + 1)>>
      m == [Memory(bs) EXCEPT ![At(bs, 2)] = 1]
  IN  [sign |-> z.sign, d |-> Block(Factorials(m, At(bs, 2), 1, z.d[1] - 1), bs, 2)]

-----------------------------------------------------------------------------
(* Calls on the BigZ named p and q, which may be one and the same.         *)

NoBcall == [op |-> "none"]
Names == {"y", "z"}

BzInit == bz \in [Names -> BigZs] /\ bcall = NoBcall

Result(op, args, r) == bcall' = [op |-> op, before |-> bz, args |-> args, r |-> r]

Add(p, q) == Result("add", <<p, q>>, BzAdd(bz[p], bz[q])) /\ UNCHANGED bz
Subtract(p, q) == Result("subtract", <<p, q>>, BzSubtract(bz[p], bz[q], p = q)) /\ UNCHANGED bz
Multiply(p, q) == Result("multiply", <<p, q>>, BzMultiply(bz[p], bz[q])) /\ UNCHANGED bz
Compare(p, q) == Result("compare", <<p, q>>, BzCompare(bz[p], bz[q])) /\ UNCHANGED bz
\* NULL for a zero divisor; BzDiv and BzMod keep one of the two results.
Divided(p, q, e) == Result("divide", <<p, q>>, e) /\ bz' = [bz EXCEPT ![q] = e.z]
Divide(p, q) == bz[q].sign # BZ_ZERO /\ Divided(p, q, BzDivide(bz[p], bz[q]))
Negate(p) == Result("negate", <<p>>, BzNegate(bz[p])) /\ UNCHANGED bz
Abs(p) == Result("abs", <<p>>, BzAbs(bz[p])) /\ UNCHANGED bz
WriteString(p, base) == Result("tostring", <<p, base>>, BzToString(bz[p], base)) /\ UNCHANGED bz
FromString(s, base) == Result("fromstring", <<s, base>>, BzFromString(s, base)) /\ UNCHANGED bz
FromInteger(i) == Result("frominteger", <<i>>, BzFromInteger(i)) /\ UNCHANGED bz
ToInteger(p) == Result("tointeger", <<p>>, BzToInteger(bz[p])) /\ UNCHANGED bz
Copied(p) ==
  /\ bz[p].sign # BZ_MINUS
  /\ Result("bignum", <<p>>, BzFromBigNum(BzToBigNum(bz[p])))
  /\ UNCHANGED bz
Factorial(p) ==
  /\ bz[p].sign = BZ_PLUS /\ BzNumDigits(bz[p]) = 1 /\ bz[p].d[1] <= 12
  /\ Result("factorial", <<p>>, BzFactorial(bz[p]))
  /\ UNCHANGED bz

BzNext ==
  /\ bcall = NoBcall
  /\ \/ \E q \in Names :
          Add("y", q) \/ Subtract("y", q) \/ Multiply("y", q) \/ Compare("y", q) \/ Divide("y", q)
     \/ /\ bz["y"] = bz["z"]
        /\ \/ Negate("y") \/ Abs("y") \/ ToInteger("y") \/ Copied("y") \/ Factorial("y")
           \/ \E base \in Bases : WriteString("y", base)
     \/ /\ bz["y"] = bz["z"] /\ bz["y"].sign = BZ_ZERO
        /\ \/ \E base \in Bases : \E s \in Numerals[base] : FromString(s, base)
           \/ \E i \in (-MAXINT)..MAXINT : FromInteger(i)

-----------------------------------------------------------------------------
(* Properties.                                                             *)

RECURSIVE Magnitude(_)
Magnitude(d) == IF d = <<>> THEN 0 ELSE Head(d) + B * Magnitude(Tail(d))
IntOf(z) == z.sign * Magnitude(z.d)
Arg(i) == IntOf(bcall.before[bcall.args[i]])
Did(op) == bcall.op = op

\* The sign of a result is zero exactly when its digits are: comparison and
\* printing look at the sign alone.
Canonical(z) == (z.sign = BZ_ZERO) <=> (Magnitude(z.d) = 0)
BzCanonical ==
  /\ \A p \in Names : Canonical(bz[p])
  /\ bcall.op \in {"add", "subtract", "multiply", "negate", "abs", "frominteger", "bignum", "factorial"}
       => Canonical(bcall.r)
  /\ Did("divide") => Canonical(bcall.r.q) /\ Canonical(bcall.r.r)
  /\ Did("fromstring") => Canonical(bcall.r.z)

\* Sum, difference, product and order are those of the integers, whatever the
\* signs, the leading zeros of the operands, and y = z.
BzArithmetic ==
  /\ Did("add") => IntOf(bcall.r) = Arg(1) + Arg(2)
  /\ Did("subtract") => IntOf(bcall.r) = Arg(1) - Arg(2)
  /\ Did("multiply") => IntOf(bcall.r) = Arg(1) * Arg(2)
  /\ Did("compare") => bcall.r = IF Arg(1) < Arg(2) THEN -1 ELSE IF Arg(1) > Arg(2) THEN 1 ELSE 0
  /\ Did("negate") => IntOf(bcall.r) = -Arg(1)
  /\ Did("abs") => IntOf(bcall.r) = IF Arg(1) < 0 THEN -Arg(1) ELSE Arg(1)
  /\ Did("factorial") => LET F[n \in 0..12] == IF n = 0 THEN 1 ELSE n * F[n - 1] IN IntOf(bcall.r) = F[Arg(1)]

\* Y = Z * Q + R with 0 <= R < |Z|: the correction of the quotient and the
\* remainder of a negative dividend fits their blocks.
BzDivision ==
  Did("divide") =>
    LET q == IntOf(bcall.r.q)
        r == IntOf(bcall.r.r)
        z == Arg(2)
    IN  Arg(1) = z * q + r /\ 0 <= r /\ r < (IF z < 0 THEN -z ELSE z)

\* A call leaves its operands as they were: the divisor is normalized and
\* negated in place and gets its value back.
BzOperandsKept == "before" \in DOMAIN bcall => bz = bcall.before

\* A number written in a base is read back as itself, its text fits the
\* buffer computed from rounded logarithms, and reading a numeral, whose
\* blocks are sized the same way, yields its value and spoils no word after
\* them although the kernel is given a product that is too short.
Forms(n) == IF n < 10 THEN {Digit[n + 1]} ELSE {Digit[n + 1], LowerDigit[n - 9]}
Horner(s, base) ==
  LET V[i \in 0..Len(s)] ==
        IF i = 0 THEN 0 ELSE V[i - 1] * base + (CHOOSE n \in 0..(base - 1) : s[i] \in Forms(n))
  IN  V[Len(s)]
Numeral(s0, base) ==
  LET s == SkipSpaces(s0)
  IN  IF s # <<>> /\ Head(s) = "-" THEN -Horner(Tail(s), base)
      ELSE IF s # <<>> /\ Head(s) = "+" THEN Horner(Tail(s), base)
      ELSE Horner(s, base)
BzStrings ==
  /\ Did("tostring") => /\ bcall.r.spare >= 0
                        /\ Numeral(bcall.r.s, bcall.args[2]) = Arg(1)
                        /\ IntOf(BzFromString(bcall.r.s, bcall.args[2]).z) = Arg(1)
  /\ Did("fromstring") => /\ bcall.r.intact
                          /\ IntOf(bcall.r.z) = Numeral(bcall.args[1], bcall.args[2])

\* Machine integers and digit strings convert without loss, and a number of
\* several digits saturates.
BzConversions ==
  /\ Did("frominteger") => BzToInteger(bcall.r) = bcall.args[1]
  /\ Did("tointeger") => IF Arg(1) \in (-MAXINT)..MAXINT THEN bcall.r = Arg(1)
                         ELSE (Arg(1) >= B \/ Arg(1) <= -B) => bcall.r = MAXINT
  /\ Did("bignum") => IntOf(bcall.r) = Arg(1)

=============================================================================

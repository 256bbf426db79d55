------------------------------ MODULE NatStubs ------------------------------
(***************************************************************************)
(* The primitives on nats of otherlibs/num/nat_stubs.c, which pass a nat,  *)
(* an offset and a length to the kernel of module BigNum.  The digits of   *)
(* all the nats are one memory, so operands that share digits behave as    *)
(* they do in C; the digits around an operand show what a call overwrites. *)
(***************************************************************************)
EXTENDS BigNum

CONSTANT Shapes
  \* A sequence of memories to start from: len digits, those at the addresses of free taken
  \* from digits, the others rest; the primitives and the operands tried.

VARIABLES
  mem,    \* the digits, by address
  shape,  \* the shape of the memory, and the primitives tried on it
  call    \* the last call: [op, before, a, la, b, lb, d, r]

NoCall == [op |-> "none"]
MemoriesOf(s) ==
  {[i \in 0..s.len |-> IF i \in s.free THEN f[i] ELSE s.rest] : f \in [s.free -> s.digits]}

NatInit ==
  /\ shape \in DOMAIN Shapes
  /\ mem \in MemoriesOf(Shapes[shape])
  /\ call = NoCall

Cells == 1..Shapes[shape].len
\* An operand: an address and a length.
Operand(a, la) == a \in Cells /\ la \in 0..(Shapes[shape].len - a + 1)
Operands == Shapes[shape].operands
Tried(ops) == ops \cap Shapes[shape].ops # {}
Span(a, la) == a..(a + la - 1)
Disjoint(a, la, b, lb) == Span(a, la) \cap Span(b, lb) = {}
\* Operands the callers use: the same number, or numbers apart.
Apart(a, la, b, lb) == a = b \/ Disjoint(a, la, b, lb)

\* A call of op leaves the memory as in res.
Called(op, a, la, b, lb, d, res) ==
  /\ op \in Shapes[shape].ops
  /\ mem' = res.m
  /\ call' = [op |-> op, before |-> mem, a |-> a, la |-> la, b |-> b, lb |-> lb, d |-> d, r |-> res.r]
  /\ UNCHANGED shape

set_to_zero_nat(a, la) == Called("set_to_zero", a, la, a, 0, 0, R(BnnSetToZero(mem, a, la), 0))
blit_nat(a, b, l) == Called("blit", a, l, b, l, 0, R(BnnAssign(mem, a, b, l), 0))
num_digits_nat(a, la) == Called("num_digits", a, la, a, la, 0, R(mem, BnnNumDigits(mem, a, la)))
num_leading_zero_bits_in_digit(a) ==
  Called("leading_zero_bits", a, 1, a, 1, 0, R(mem, BnnNumLeadingZeroBitsInDigit(mem[a])))
is_digit_normalized(a) == Called("normalized", a, 1, a, 1, 0, R(mem, BnnIsDigitNormalized(mem[a])))
is_digit_odd(a) == Called("odd", a, 1, a, 1, 0, R(mem, BnnIsDigitOdd(mem[a])))
incr_nat(a, la, c) == Called("incr", a, la, a, 0, c, BnnAddCarry(mem, a, la, c))
decr_nat(a, la, c) == Called("decr", a, la, a, 0, c, BnnSubtractBorrow(mem, a, la, c))
complement_nat(a, la) == Called("complement", a, la, a, 0, 0, R(BnnComplement(mem, a, la), 0))

add_nat(a, la, b, lb, c) ==
  /\ la >= lb /\ Apart(a, la, b, lb)
  /\ Called("add", a, la, b, lb, c, BnnAdd(mem, a, la, b, lb, c))
sub_nat(a, la, b, lb, c) ==
  /\ la >= lb /\ Apart(a, la, b, lb)
  /\ Called("sub", a, la, b, lb, c, BnnSubtract(mem, a, la, b, lb, c))

mult_digit_nat(a, la, b, lb, d) ==
  /\ la >= lb + 1 /\ Apart(a, la, b, lb)
  /\ Called("mult_digit", a, la, b, lb, mem[d], BnnMultiplyDigit(mem, a, la, b, lb, mem[d]))
\* The factors are b and d, of lengths lb and ld; d is recorded as <<d, ld>>.
mult_nat(a, la, b, lb, d, ld) ==
  /\ la >= lb + ld /\ lb >= ld /\ ld > 0
  /\ Disjoint(a, la, b, lb) /\ Disjoint(a, la, d, ld) /\ Apart(b, lb, d, ld)
  /\ Called("mult", a, la, b, lb, <<d, ld>>, BnnMultiply(mem, a, la, b, lb, d, ld))

\* The result is stored in the digit at b: the bits shifted out, the remainder.
OutTo(s, b) == R([s.m EXCEPT ![b] = s.r], 0)
shift_left_nat(a, la, b, nbits) ==
  /\ b \notin Span(a, la)
  /\ Called("shift_left", a, la, b, 1, nbits, OutTo(BnnShiftLeft(mem, a, la, nbits), b))
shift_right_nat(a, la, b, nbits) ==
  /\ b \notin Span(a, la)
  /\ Called("shift_right", a, la, b, 1, nbits, OutTo(BnnShiftRight(mem, a, la, nbits), b))

\* Quotient at q, of la - 1 digits, remainder at r, divisor digit at d.  The
\* quotient is apart from the dividend, or the dividend itself, or one digit
\* up with the remainder below it.
div_digit_nat(q, r, a, la, d) ==
  /\ la > 1 /\ Operand(q, la - 1) /\ q > 1
  /\ mem[a + la - 1] < mem[d] /\ d \notin Span(a, la) \cup Span(q, la - 1)
  /\ r \notin Span(q, la - 1) /\ r # d
  /\ \/ Disjoint(q, la - 1, a, la) /\ r \notin Span(a, la)
     \/ q = a
     \/ q = a + 1 /\ r = a
  /\ Called("div_digit", a, la, q, la - 1, <<r, d>>, OutTo(BnnDivideDigit(mem, q, a, la, mem[d]), r))

div_nat(a, la, b, lb) ==
  /\ la > lb /\ lb > 0 /\ Disjoint(a, la, b, lb)
  /\ BnnCompare(mem, a, la, b, lb) = BN_GT => mem[a + la - 1] < mem[b + lb - 1]
  /\ mem[b + lb - 1] > 0
  /\ Called("div", a, la, b, lb, 0, R(BnnDivide(mem, a, la, b, lb), 0))

\* An empty nat would be compared by the digit at its address.
compare_nat(a, la, b, lb) == la > 0 /\ lb > 0 /\ Called("compare", a, la, b, lb, 0, R(mem, BnnCompare(mem, a, la, b, lb)))
compare_digits_nat(a, b) == Called("compare_digits", a, 1, b, 1, 0, R(mem, BnnCompareDigits(mem[a], mem[b])))
land_digit_nat(a, b) == Called("land", a, 1, b, 1, 0, R(BnnAndDigits(mem, a, mem[b]), 0))
lor_digit_nat(a, b) == Called("lor", a, 1, b, 1, 0, R(BnnOrDigits(mem, a, mem[b]), 0))
lxor_digit_nat(a, b) == Called("lxor", a, 1, b, 1, 0, R(BnnXorDigits(mem, a, mem[b]), 0))

OneNat(a, la) ==
  \/ set_to_zero_nat(a, la)
  \/ num_digits_nat(a, la)
  \/ complement_nat(a, la)
  \/ \E c \in {0, 1} : incr_nat(a, la, c) \/ decr_nat(a, la, c)
  \/ /\ Tried({"shift_left", "shift_right"})
     /\ \E b \in Cells, nbits \in 0..(BN_DIGIT_SIZE - 1) :
          shift_left_nat(a, la, b, nbits) \/ shift_right_nat(a, la, b, nbits)
  \/ Tried({"div_digit"}) /\ \E q, r, d \in Cells : div_digit_nat(q, r, a, la, d)

TwoNats(a, la, b, lb) ==
  \/ \E c \in {0, 1} : add_nat(a, la, b, lb, c) \/ sub_nat(a, la, b, lb, c)
  \/ Tried({"mult_digit"}) /\ \E d \in Cells \ Span(a, la) : mult_digit_nat(a, la, b, lb, d)
  \/ Tried({"mult"}) /\ \E d \in Operands : mult_nat(a, la, b, lb, d[1], d[2])
  \/ div_nat(a, la, b, lb)
  \/ compare_nat(a, la, b, lb)
  \/ la = lb /\ blit_nat(a, b, la)

OneDigit(a) ==
  \/ num_leading_zero_bits_in_digit(a)
  \/ is_digit_normalized(a)
  \/ is_digit_odd(a)
  \/ \E b \in Cells : \/ compare_digits_nat(a, b) \/ land_digit_nat(a, b)
                      \/ lor_digit_nat(a, b) \/ lxor_digit_nat(a, b)

NatNext ==
  /\ call = NoCall
  /\ \/ \E o \in Operands : OneNat(o[1], o[2])
     \/ \E o, p \in Operands : TwoNats(o[1], o[2], p[1], p[2])
     \/ Tried({"odd"}) /\ \E a \in Cells : OneDigit(a)

-----------------------------------------------------------------------------
(* Properties.                                                             *)

RECURSIVE Val(_, _, _)
Val(m, a, la) == IF la = 0 THEN 0 ELSE m[a] + B * Val(m, a + 1, la - 1)

Is(ops) == call.op \in ops
New == Val(mem, call.a, call.la)
Old == Val(call.before, call.a, call.la)
Second == Val(call.before, call.b, call.lb)
Modulus == B ^ call.la
Bit(p) == IF p THEN 1 ELSE 0

TypeOK ==
  /\ \A i \in DOMAIN mem : mem[i] \in 0..(B - 1)
  /\ call.op \in {"none", "unused"} \cup Shapes[shape].ops

\* add, sub, incr and decr compute the number modulo the size of the nat, and
\* return the carry (for a difference, 1 when there is no borrow): carries
\* found by comparing wrapped sums are the true ones, nat1 = nat2 included.
AdditiveExact ==
  /\ Is({"add"}) => New + Modulus * call.r = Old + Second + call.d
  /\ Is({"incr"}) => New + Modulus * call.r = Old + call.d
  /\ Is({"sub"}) => New + Modulus * (call.r - 1) = Old - Second + call.d - 1
  /\ Is({"decr"}) => New + Modulus * (call.r - 1) = Old + call.d - 1
  /\ Is({"complement"}) => New = Modulus - Old - 1

\* Grade-school product by columns: the digits of p + m * n, and the carry.
Column(m, pp, k, mm, ml, N, nl) ==
  LET Terms[i \in 0..nl] ==
        IF i = 0 THEN 0
        ELSE Terms[i - 1] + (IF k - (i - 1) \in 0..(ml - 1) THEN N[i - 1] * m[mm + k - (i - 1)] ELSE 0)
  IN  m[pp + k] + Terms[nl]
RECURSIVE ColumnsAre(_, _, _, _, _, _, _, _)
ColumnsAre(m, k, la, mm, ml, N, nl, carry) ==
  IF k = la THEN carry = call.r
  ELSE LET t == Column(m, call.a, k, mm, ml, N, nl) + carry
       IN  mem[call.a + k] = t % B /\ ColumnsAre(m, k + 1, la, mm, ml, N, nl, t \div B)

\* mult_digit and mult leave the grade-school sum p + m * n in p and return
\* its carry: a digit multiplied by halves loses no carry, and the squaring
\* loop, which doubles the cross products and so drops the top bit of each
\* digit, adds every dropped bit back.
MultiplyExact ==
  /\ Is({"mult_digit"}) =>
       ColumnsAre(call.before, 0, call.la, call.b, call.lb, [i \in {0} |-> call.d], 1, 0)
  /\ Is({"mult"}) =>
       LET d == call.d[1]
           ld == call.d[2]
       IN  ColumnsAre(call.before, 0, call.la, call.b, call.lb, [i \in 0..(ld - 1) |-> call.before[d + i]], ld, 0)

\* div leaves N div D above N mod D and gives the divisor its digits back;
\* div_digit leaves the quotient and the remainder, and the dividend too where
\* they do not overlap it: the normalizing shift is undone.
DivideExact ==
  /\ Is({"div"}) =>
       LET q == Val(mem, call.a + call.lb, call.la - call.lb)
           r == Val(mem, call.a, call.lb)
       IN  /\ q * Second + r = Old
           /\ r < Second
           /\ Val(mem, call.b, call.lb) = Second
  /\ Is({"div_digit"}) =>
       LET q == Val(mem, call.b, call.lb)
           r == mem[call.d[1]]
           d == call.before[call.d[2]]
       IN  /\ q * d + r = Old
           /\ r < d
           /\ \A i \in Span(call.a, call.la) :
                i \in Span(call.b, call.lb) \/ i = call.d[1] \/ mem[i] = call.before[i]

\* A shift moves the bits across digits and hands over exactly the bits that
\* leave the nat.
ShiftExact ==
  /\ Is({"shift_left"}) => New + Modulus * mem[call.b] = Old * 2 ^ call.d
  /\ Is({"shift_right"}) =>
       /\ New = Old \div 2 ^ call.d
       /\ mem[call.b] = IF call.la = 0 \/ call.d = 0 THEN 0
                        ELSE (Old % 2 ^ call.d) * 2 ^ (BN_DIGIT_SIZE - call.d)

\* blit copies the source as it was before the call, however the two overlap.
BlitExact == Is({"blit"}) => \A i \in 0..(call.la - 1) : mem[call.a + i] = call.before[call.b + i]

\* compare orders the values whatever leading zeros the operands have, and the
\* number of digits and of leading zero bits are those of the value.
CompareExact ==
  /\ Is({"compare", "compare_digits"}) =>
       call.r = IF Old < Second THEN BN_LT ELSE IF Old = Second THEN BN_EQ ELSE BN_GT
  /\ Is({"num_digits"}) => /\ Old < B ^ call.r
                           /\ call.r > 1 => Old >= B ^ (call.r - 1)
                           /\ call.r >= 1
  /\ Is({"leading_zero_bits"}) => /\ Old < 2 ^ (BN_DIGIT_SIZE - call.r)
                                  /\ Old > 0 => Old >= 2 ^ (BN_DIGIT_SIZE - call.r - 1)
  /\ Is({"normalized"}) => (call.r = (2 * Old >= B))
  /\ Is({"odd"}) => (call.r = (Old % 2 = 1))

\* The addresses a call may change.
Written ==
  CASE call.op \in {"num_digits", "leading_zero_bits", "normalized", "odd", "compare", "compare_digits"} -> {}
    [] call.op \in {"shift_left", "shift_right"} -> Span(call.a, call.la) \cup {call.b}
    [] call.op = "div_digit" ->
         Span(call.a, call.la) \cup Span(call.b, call.lb) \cup {call.d[1]}
    [] OTHER -> Span(call.a, call.la)

\* A call changes no digit outside its results: no carry runs past the end of
\* the nat, and the digit below a quotient, which the normalization touches,
\* has its value back.
Frame ==
  call.op \in Shapes[shape].ops => \A i \in Cells \ Written : mem[i] = call.before[i]

=============================================================================

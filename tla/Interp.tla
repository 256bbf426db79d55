-------------------------------- MODULE Interp --------------------------------
(***************************************************************************)
(* The bytecode interpreter: byterun/interp.c with the parts of the        *)
(* runtime that it shares its stack and its registers with: stacks.c       *)
(* (growing the stack), callback.c (calls from C to the machine), fail.c   *)
(* (exceptions raised in C) and the processing of signals in signals.c.    *)
(*                                                                         *)
(* Words: <<"i", w>> an immediate of WordBits bits, w = 2n+1; <<"p", b, o, *)
(* g>> a pointer to field o of block b, g being the time of the last       *)
(* collection it is valid since; <<"a", t>> Atom(t); <<"c", a>> a code     *)
(* address; <<"s", a>> a stack address; <<"h", n>> an infix header;        *)
(* <<"l", b, e>> a method label; <<"d", x>> an unboxed float; <<"y", c>> a *)
(* byte of a string.                                                       *)
(*                                                                         *)
(* Any allocation may run the collector, which may move any block.  Here   *)
(* every allocation moves every block: a collection gives a new time to    *)
(* the pointers that are in the roots and in the heap, and a pointer left  *)
(* in a register that was not saved can no longer be followed.             *)
(***************************************************************************)
EXTENDS Bytegen, Bitwise, TLC

CONSTANTS
    Programs,      \* the programs: [main |-> term, event |-> ...]
    WordBits,      \* bits of a word
    StackSize,     \* Stack_size, in words
    MaxStackSize,  \* max_stack_size, in words
    NGlobals       \* size of global_data

VARIABLES
    prog, start_code,                     \* which program runs, and its code
    pc, accu, env, extra_args,            \* registers of the running interprete
    stack,                                \* the words from stack_high down to sp
    trapsp, stack_low, stack_high, max_stack_size,
    heap, gen, global_data, signal_handlers, named,
    off, iext,                            \* initial_sp_offset, initial_external_raise
    external_raise,                       \* the interprete that mlraise jumps to
    cstack,                               \* suspended activations, oldest first
    callback_code,                        \* the operand callbackN_exn patched in
    something_to_do, pending_signal, force_major_slice,
    mode,                                 \* where in the interpreter control is
    res,                                  \* what interprete returned to C
    out,                                  \* what the program printed
    sent                                  \* events that may still arrive

regs == <<pc, accu, env, extra_args>>
area == <<trapsp, stack_low, stack_high, max_stack_size>>
mem == <<heap, gen, global_data, signal_handlers, named>>
act == <<off, iext, external_raise, cstack, callback_code, res>>
sig == <<something_to_do, pending_signal, force_major_slice, sent>>
vars == <<prog, start_code, regs, stack, area, mem, act, sig, mode, out>>

-----------------------------------------------------------------------------
(* Words.                                                                  *)

Val(n) == <<"i", (2 * n + 1) % 2^WordBits>>
Signed(w) == IF w >= 2^(WordBits - 1) THEN w - 2^WordBits ELSE w
Long(v) == Signed(v[2]) \div 2
ValUnit == Val(0)
Bool(b) == IF b THEN Val(1) ELSE Val(0)
Bad == <<"bad">>
IsInt(v) == v[1] = "i"
IsBlock(v) == v[1] \in {"p", "a"}

\* A pointer may be followed when no collection forgot it.
Live(v) == v[1] = "p" /\ v[4] = gen
Field(v, i) == IF Live(v) /\ v[3] + i + 1 \in 1..Len(heap[v[2]].f)
               THEN heap[v[2]].f[v[3] + i + 1] ELSE Bad
Tag(v) == IF v[1] = "a" THEN v[2] ELSE heap[v[2]].tag
Wosize(v) == Len(heap[v[2]].f)
Code(v) == IF Field(v, 0)[1] = "c" THEN Field(v, 0)[2] ELSE 0

-----------------------------------------------------------------------------
(* The stack.  Sp(i) is sp[i].                                             *)

SpAddr == stack_high - Len(stack)
Sp(i) == IF i < Len(stack) THEN stack[Len(stack) - i] ELSE Bad
PushOn(st, ws) == st \o Reversed(ws)
PopOff(st, n) == SubSeq(st, 1, Len(st) - n)
TopOf(st, n) == [i \in 1..n |-> st[Len(st) + 1 - i]] \o <<>>
SetAt(st, i, v) == [st EXCEPT ![Len(st) - i] = v]
FromAddr(a) == SubSeq(stack, 1, stack_high - a)

-----------------------------------------------------------------------------
(* Collections.  Moved(v) is v as the collector leaves it in a root.       *)

Moved(v) == IF Live(v) THEN [v EXCEPT ![4] = gen + 1] ELSE v
MovedSeq(q) == [i \in 1..Len(q) |-> Moved(q[i])] \o <<>>
MovedHeap == [b \in 1..Len(heap) |-> [heap[b] EXCEPT !.f = MovedSeq(@)]] \o <<>>

\* A defect: the register keeps the address the block had.
Restore_after_gc_stale(v) == v

\* Setup_for_gc and Restore_after_gc: env and accu travel through the stack.
Restore_after_gc(v) == Moved(v)

RootsMove ==
    /\ gen' = gen + 1
    /\ global_data' = Moved(global_data)
    /\ signal_handlers' = Moved(signal_handlers)
    /\ named' = [i \in 1..Len(named) |-> [named[i] EXCEPT !.val = Moved(@)]]

\* Alloc_small: the collector runs, then the block is built.  fields are words
\* as the collector left them.
NewBlock == <<"p", Len(heap) + 1, 0, gen + 1>>
Alloc_small(tag, fields) == heap' = Append(MovedHeap, [tag |-> tag, f |-> fields]) /\ RootsMove

Closure_tag == 247
Double_array_tag == 254
Double_tag == 253
String_tag == 252

-----------------------------------------------------------------------------
(* Fetching.  The code of callbacks is a static array that callbackN_exn   *)
(* patches; it comes after the program.                                    *)

CallbackCode == 1000
Instr == CASE pc \in 1..Len(start_code) -> start_code[pc]
           [] pc = CallbackCode     -> <<"ACC", callback_code + 3>>
           [] pc = CallbackCode + 1 -> <<"APPLY", callback_code>>
           [] pc = CallbackCode + 2 -> <<"POP", 1>>
           [] pc = CallbackCode + 3 -> <<"STOP">>
           [] OTHER                 -> <<"none">>
Is(op) == mode = "run" /\ Instr[1] = op
Arg(i) == Instr[i + 1]

\* Instructions that only set the registers and the stack.
Regs(a, st) == /\ accu' = a /\ stack' = st /\ pc' = pc + 1
               /\ UNCHANGED <<prog, start_code, env, extra_args, area, mem, act, sig, mode, out>>
Quiet == UNCHANGED <<prog, start_code, area, mem, act, sig, mode, out>>

ACC == Is("ACC") /\ Regs(Sp(Arg(1)), stack)
PUSH == Is("PUSH") /\ Regs(accu, PushOn(stack, <<accu>>))
PUSHACC == /\ Is("PUSHACC")
           /\ Regs(IF Arg(1) = 0 THEN accu ELSE Sp(Arg(1) - 1), PushOn(stack, <<accu>>))
POP == Is("POP") /\ Regs(accu, PopOff(stack, Arg(1)))
ASSIGN == Is("ASSIGN") /\ Regs(ValUnit, SetAt(stack, Arg(1), accu))

ENVACC == Is("ENVACC") /\ Regs(Field(env, Arg(1)), stack)
PUSHENVACC == Is("PUSHENVACC") /\ Regs(Field(env, Arg(1)), PushOn(stack, <<accu>>))

CONSTINT == Is("CONSTINT") /\ Regs(Val(Arg(1)), stack)
PUSHCONSTINT == Is("PUSHCONSTINT") /\ Regs(Val(Arg(1)), PushOn(stack, <<accu>>))
CONSTLABEL == Is("CONSTLABEL") /\ Regs(<<"l", Arg(1), Arg(2)>>, stack)
ATOM == Is("ATOM") /\ Regs(<<"a", Arg(1)>>, stack)

GETGLOBAL == Is("GETGLOBAL") /\ Regs(Field(global_data, Arg(1)), stack)
PUSHGETGLOBAL == Is("PUSHGETGLOBAL")
                 /\ Regs(Field(global_data, Arg(1)), PushOn(stack, <<accu>>))
GETGLOBALFIELD == Is("GETGLOBALFIELD") /\ Regs(Field(Field(global_data, Arg(1)), Arg(2)), stack)
PUSHGETGLOBALFIELD ==
    /\ Is("PUSHGETGLOBALFIELD")
    /\ Regs(Field(Field(global_data, Arg(1)), Arg(2)), PushOn(stack, <<accu>>))

-----------------------------------------------------------------------------
(* Application.  After a jump into a function control goes to check_stacks.*)

Enter(st, extra) ==
    /\ pc' = Code(accu) /\ env' = accu /\ extra_args' = extra /\ stack' = st
    /\ mode' = "check_stacks"
    /\ UNCHANGED <<prog, start_code, accu, area, mem, act, sig, out>>

PUSH_RETADDR ==
    /\ Is("PUSH_RETADDR")
    /\ Regs(accu, PushOn(stack, <<<<"c", Arg(1)>>, env, Val(extra_args)>>))

APPLY == Is("APPLY") /\ Enter(stack, Arg(1) - 1)

\* APPLY1, APPLY2 and APPLY3 slide a return frame under their arguments.
APPLY1 ==
    /\ Is("APPLY1")
    /\ LET n == Arg(1)
           args == TopOf(stack, n)
       IN  Enter(PushOn(PopOff(stack, n), args \o <<<<"c", pc + 1>>, env, Val(extra_args)>>), n - 1)

\* The arguments take the place of the frame.
APPTERM ==
    /\ Is("APPTERM")
    /\ LET n == Arg(1)
       IN  Enter(PushOn(PopOff(stack, Arg(2)), TopOf(stack, n)), extra_args + n - 1)

\* The return frame at the top of st.
ReturnFrame(st) ==
    LET f == TopOf(st, 3)
    IN  /\ pc' = (IF f[1][1] = "c" THEN f[1][2] ELSE 0)
        /\ env' = f[2]
        /\ extra_args' = Long(f[3])
        /\ stack' = PopOff(st, 3)

RETURN ==
    /\ Is("RETURN")
    /\ LET st == PopOff(stack, Arg(1))
       IN  IF extra_args > 0
           THEN pc' = Code(accu) /\ env' = accu /\ extra_args' = extra_args - 1 /\ stack' = st
           ELSE ReturnFrame(st)
    /\ accu' = accu /\ Quiet

RESTART ==
    /\ Is("RESTART")
    /\ LET n == Wosize(env) - 2
       IN  /\ stack' = PushOn(stack, [i \in 1..n |-> Field(env, i + 1)])
           /\ env' = Field(env, 1)
           /\ extra_args' = extra_args + n
    /\ pc' = pc + 1 /\ accu' = accu /\ Quiet

\* Too few arguments: a closure of RESTART and the arguments, returned to the caller.
GRAB ==
    /\ Is("GRAB")
    /\ IF extra_args >= Arg(1)
       THEN /\ extra_args' = extra_args - Arg(1) /\ pc' = pc + 1
            /\ UNCHANGED <<accu, env, stack, mem>>
       ELSE LET n == 1 + extra_args
                st == MovedSeq(stack)
            IN  /\ Alloc_small(Closure_tag, <<<<"c", pc - 1>>, Restore_after_gc(env)>> \o TopOf(st, n))
                /\ accu' = NewBlock
                /\ ReturnFrame(PopOff(st, n))
    /\ UNCHANGED <<prog, start_code, area, act, sig, mode, out>>

\* The rest of an instruction that allocated: st is the stack it leaves.
Allocated(st) == /\ accu' = NewBlock /\ stack' = st /\ env' = Restore_after_gc(env) /\ pc' = pc + 1
                 /\ UNCHANGED <<prog, start_code, extra_args, area, act, sig, mode, out>>

CLOSURE ==
    /\ Is("CLOSURE")
    /\ LET n == Arg(2)
           st == MovedSeq(IF n > 0 THEN PushOn(stack, <<accu>>) ELSE stack)
       IN  /\ Alloc_small(Closure_tag, <<<<"c", Arg(1)>>>> \o TopOf(st, n))
           /\ Allocated(PopOff(st, n))

CLOSUREREC ==
    /\ Is("CLOSUREREC")
    /\ LET n == Len(Arg(1))
           v == Arg(2)
           st == MovedSeq(IF v > 0 THEN PushOn(stack, <<accu>>) ELSE stack)
           slot(i) == IF i % 2 = 1 THEN <<"c", Arg(1)[(i + 1) \div 2]>> ELSE <<"h", i>>
           infix == [i \in 1..n |-> [NewBlock EXCEPT ![3] = 2 * (i - 1)]]
       IN  /\ Alloc_small(Closure_tag, [i \in 1..(2 * n - 1) |-> slot(i)] \o TopOf(st, v))
           /\ Allocated(PopOff(st, v) \o infix)

Offset(n) == IF env[1] = "p" THEN [env EXCEPT ![3] = @ + n] ELSE Bad
OFFSETCLOSURE == Is("OFFSETCLOSURE") /\ Regs(Offset(Arg(1)), stack)
PUSHOFFSETCLOSURE == Is("PUSHOFFSETCLOSURE") /\ Regs(Offset(Arg(1)), PushOn(stack, <<accu>>))

-----------------------------------------------------------------------------
(* Blocks, arrays, strings and floats.                                     *)

MAKEBLOCK ==
    /\ Is("MAKEBLOCK")
    /\ LET st == MovedSeq(stack)
           n == Arg(1) - 1
       IN  /\ Alloc_small(Arg(2), <<Restore_after_gc(accu)>> \o TopOf(st, n))
           /\ Allocated(PopOff(st, n))

Double(v) == Field(v, 0)
MAKEFLOATBLOCK ==
    /\ Is("MAKEFLOATBLOCK")
    /\ LET n == Arg(1) - 1
       IN  /\ Alloc_small(Double_array_tag,
                          <<Double(accu)>> \o [i \in 1..n |-> Double(Sp(i - 1))])
           /\ Allocated(PopOff(MovedSeq(stack), n))

GETFIELD == Is("GETFIELD") /\ Regs(Field(accu, Arg(1)), stack)
GETFLOATFIELD == /\ Is("GETFLOATFIELD")
                 /\ Alloc_small(Double_tag, <<Field(accu, Arg(1))>>)
                 /\ Allocated(MovedSeq(stack))
GETVECTITEM == Is("GETVECTITEM") /\ Regs(Field(accu, Long(Sp(0))), PopOff(stack, 1))
GETSTRINGCHAR == Is("GETSTRINGCHAR")
                 /\ Regs(Val(Field(accu, Long(Sp(0)))[2]), PopOff(stack, 1))
VECTLENGTH == Is("VECTLENGTH") /\ Regs(Val(Wosize(accu)), stack)
ISINT == Is("ISINT") /\ Regs(Bool(IsInt(accu)), stack)
GETMETHOD == Is("GETMETHOD")
             /\ Regs(Field(Field(Field(Sp(0), 0), accu[2]), accu[3]), stack)

\* Stores; n words are popped.
Modify(i, v, n) ==
    /\ heap' = [heap EXCEPT ![accu[2]].f[accu[3] + i + 1] = v]
    /\ accu' = ValUnit /\ stack' = PopOff(stack, n) /\ pc' = pc + 1
    /\ UNCHANGED <<prog, start_code, env, extra_args, area, gen, global_data, signal_handlers, named,
                   act, sig, mode, out>>
SETFIELD == Is("SETFIELD") /\ Modify(Arg(1), Sp(0), 1)
SETFLOATFIELD == Is("SETFLOATFIELD") /\ Modify(Arg(1), Double(Sp(0)), 1)
SETVECTITEM == Is("SETVECTITEM") /\ Modify(Long(Sp(0)), Sp(1), 2)
SETSTRINGCHAR == Is("SETSTRINGCHAR") /\ Modify(Long(Sp(0)), <<"y", Long(Sp(1)) % 256>>, 2)
OFFSETREF == /\ Is("OFFSETREF")
             /\ Modify(0, <<"i", (Field(accu, 0)[2] + 2 * Arg(1)) % 2^WordBits>>, 0)
SETGLOBAL ==
    /\ Is("SETGLOBAL")
    /\ heap' = [heap EXCEPT ![global_data[2]].f[Arg(1) + 1] = accu]
    /\ accu' = ValUnit /\ pc' = pc + 1
    /\ UNCHANGED <<prog, start_code, env, extra_args, stack, area, gen, global_data, signal_handlers, named,
                   act, sig, mode, out>>

-----------------------------------------------------------------------------
(* Branches and integers.                                                  *)

Goto(a) == pc' = a /\ UNCHANGED <<accu, env, extra_args, stack>> /\ Quiet
BRANCH == Is("BRANCH") /\ Goto(Arg(1))
BRANCHIF == Is("BRANCHIF") /\ Goto(IF accu # Val(0) THEN Arg(1) ELSE pc + 1)
BRANCHIFNOT == Is("BRANCHIFNOT") /\ Goto(IF accu = Val(0) THEN Arg(1) ELSE pc + 1)
SWITCH == Is("SWITCH") /\ Goto(IF IsBlock(accu) THEN Arg(2)[Tag(accu) + 1]
                               ELSE Arg(1)[Long(accu) + 1])
BOOLNOT == Is("BOOLNOT") /\ Regs(<<"i", (4 - accu[2]) % 2^WordBits>>, stack)

\* Comparisons of words; a pointer is only compared for equality.
Compare(op, a, b) ==
    CASE op = "EQ"    -> a = b
      [] op = "NEQ"   -> a # b
      [] op = "LTINT" -> Signed(a[2]) < Signed(b[2])
      [] op = "LEINT" -> Signed(a[2]) <= Signed(b[2])
      [] op = "GTINT" -> Signed(a[2]) > Signed(b[2])
      [] op = "GEINT" -> Signed(a[2]) >= Signed(b[2])
Integer_comparison == Is("COMPARE") /\ Regs(Bool(Compare(Arg(1), accu, Sp(0))), PopOff(stack, 1))

Unsigned(n) == n % 2^WordBits
Integer_branch_comparison ==
    /\ Is("BRANCHCMP")
    /\ LET k == Arg(2)
           n == Long(accu)
       IN  Goto(IF CASE Arg(1) = "BEQ"     -> k = n
                     [] Arg(1) = "BNEQ"    -> k # n
                     [] Arg(1) = "BLTINT"  -> k < n
                     [] Arg(1) = "BLEINT"  -> k <= n
                     [] Arg(1) = "BGTINT"  -> k > n
                     [] Arg(1) = "BGEINT"  -> k >= n
                     [] Arg(1) = "BULTINT" -> Unsigned(k) < Unsigned(n)
                     [] Arg(1) = "BUGEINT" -> Unsigned(k) >= Unsigned(n)
                THEN Arg(3) ELSE pc + 1)

OFFSETINT == Is("OFFSETINT") /\ Regs(<<"i", (accu[2] + 2 * Arg(1)) % 2^WordBits>>, stack)

\* C division truncates towards zero.
Quot(a, b) == LET q == (IF a < 0 THEN -a ELSE a) \div (IF b < 0 THEN -b ELSE b)
              IN  IF (a < 0) = (b < 0) THEN q ELSE -q
\* The arithmetic instructions on tagged words a = accu, b = *sp.
Arithmetic(op, a, b) ==
    CASE op = "ADDINT" -> (a + b - 1) % 2^WordBits
      [] op = "SUBINT" -> (a - b + 1) % 2^WordBits
      [] op = "MULINT" -> Val((Signed(a) \div 2) * (Signed(b) \div 2))[2]
      [] op = "DIVINT" -> Val(Quot(Signed(a) \div 2, Signed(b) \div 2))[2]
      [] op = "MODINT" -> LET p == Signed(a) \div 2
                              q == Signed(b) \div 2
                          IN  Val(p - q * Quot(p, q))[2]
      [] op = "ANDINT" -> a & b
      [] op = "ORINT"  -> a | b
      [] op = "XORINT" -> (a ^^ b) | 1
      [] op = "LSLINT" -> (((a - 1) * 2^(b \div 2)) + 1) % 2^WordBits
      [] op = "LSRINT" -> ((a - 1) \div 2^(b \div 2)) | 1
      [] op = "ASRINT" -> (((Signed(a) - 1) \div 2^(b \div 2)) % 2^WordBits) | 1
      [] op = "ULTINT" -> Bool(a < b)[2]

NEGINT == Is("ARITH") /\ Arg(1) = "NEGINT" /\ Regs(<<"i", (2 - accu[2]) % 2^WordBits>>, stack)
ARITH ==
    /\ Is("ARITH") /\ Arg(1) # "NEGINT"
    /\ ~(Arg(1) \in {"DIVINT", "MODINT"} /\ Sp(0) = Val(0))
    /\ Regs(<<"i", Arithmetic(Arg(1), accu[2], Sp(0)[2])>>, PopOff(stack, 1))

-----------------------------------------------------------------------------
(* Exceptions.                                                             *)

PUSHTRAP ==
    /\ Is("PUSHTRAP")
    /\ stack' = PushOn(stack, <<<<"c", Arg(1)>>, <<"s", trapsp>>, env, Val(extra_args)>>)
    /\ trapsp' = SpAddr - 4
    /\ pc' = pc + 1
    /\ UNCHANGED <<prog, start_code, accu, env, extra_args, stack_low, stack_high, max_stack_size, mem, act,
                   sig, mode, out>>

\* A defect: the event is left for later, when the handler is gone.
POPTRAP_late ==
    /\ Is("POPTRAP")
    /\ trapsp' = (IF Sp(1)[1] = "s" THEN Sp(1)[2] ELSE 0)
    /\ stack' = PopOff(stack, 4)
    /\ pc' = pc + 1
    /\ mode' = (IF something_to_do THEN "process_signal" ELSE mode)
    /\ UNCHANGED <<accu, env, extra_args>>
    /\ UNCHANGED <<prog, start_code, stack_low, stack_high, max_stack_size, mem, act, sig, out>>

\* A pending event is processed inside the scope of the handler: the
\* instruction is restarted afterwards.
POPTRAP ==
    /\ Is("POPTRAP")
    /\ IF something_to_do
       THEN mode' = "process_signal" /\ UNCHANGED <<regs, stack, trapsp>>
       ELSE /\ trapsp' = (IF Sp(1)[1] = "s" THEN Sp(1)[2] ELSE 0)
            /\ stack' = PopOff(stack, 4)
            /\ pc' = pc + 1
            /\ UNCHANGED <<accu, env, extra_args, mode>>
    /\ UNCHANGED <<prog, start_code, stack_low, stack_high, max_stack_size, mem, act, sig, out>>

\* interprete returns to its C caller.
ReturnToC(r, st) ==
    /\ external_raise' = iext /\ res' = r /\ mode' = "returned" /\ stack' = st
    /\ UNCHANGED <<prog, start_code, regs, area, mem, off, iext, cstack, callback_code, sig, out>>

raise_exception ==
    IF trapsp >= stack_high - off
    THEN ReturnToC(<<"exn", accu>>, FromAddr(stack_high - off))
    ELSE LET st == FromAddr(trapsp)
             f == TopOf(st, 4)
         IN  /\ pc' = (IF f[1][1] = "c" THEN f[1][2] ELSE 0)
             /\ trapsp' = (IF f[2][1] = "s" THEN f[2][2] ELSE 0)
             /\ env' = f[3]
             /\ extra_args' = Long(f[4])
             /\ stack' = PopOff(st, 4)
             /\ mode' = "run"
             /\ UNCHANGED <<prog, start_code, accu, stack_low, stack_high, max_stack_size, mem, act, sig, out>>

RAISE == Is("RAISE") /\ raise_exception
STOP == Is("STOP") /\ ReturnToC(<<"val", accu>>, stack)

\* mlraise: jump to the interprete that external_raise designates, whose locals
\* are those of its frame; st is the stack from extern_sp, and the innermost
\* interprete has the frames cs below it and the locals o and i.
Activation == Len(cstack) + 1
mlraise(v, st, cs, o, i) ==
    /\ accu' = v /\ stack' = st /\ pc' = 0
    /\ UNCHANGED <<env, extra_args>>
    /\ IF external_raise = 0
       THEN mode' = "uncaught" /\ cstack' = cs /\ off' = o /\ iext' = i
       ELSE /\ mode' = "raise_exception"
            /\ cstack' = SubSeq(cs, 1, external_raise - 1)
            /\ IF external_raise = Len(cs) + 1 THEN off' = o /\ iext' = i
               ELSE off' = cs[external_raise].off /\ iext' = cs[external_raise].iext

\* The target of siglongjmp.
External_raise == mode = "raise_exception" /\ raise_exception

\* raise_constant: the bucket of a predefined exception is allocated.
Exn(slot) == Moved(Field(global_data, slot))
raise_constant(slot, st) ==
    /\ Alloc_small(0, <<Exn(slot)>>)
    /\ mlraise(NewBlock, MovedSeq(st), cstack, off, iext)
    /\ UNCHANGED <<prog, start_code, area, external_raise, callback_code, res, sig, out>>
raise_with_arg(slot, arg, st) ==
    /\ Alloc_small(0, <<Exn(slot), Moved(arg)>>)
    /\ mlraise(NewBlock, MovedSeq(st), cstack, off, iext)
    /\ UNCHANGED <<prog, start_code, area, external_raise, callback_code, res, sig, out>>

\* Slots of global_data that hold predefined exceptions.
FAILURE_EXN == 0
ZERO_DIVIDE_EXN == 1
STACK_OVERFLOW_EXN == 2
NOT_FOUND_EXN == 3

\* Setup_for_c_call: env is pushed; the registers are not otherwise saved.
Setup_for_c_call == PushOn(stack, <<env>>)

DIVINT == /\ Is("ARITH") /\ Arg(1) \in {"DIVINT", "MODINT"} /\ Sp(0) = Val(0)
          /\ raise_constant(ZERO_DIVIDE_EXN, PushOn(PopOff(stack, 1), <<env>>))

-----------------------------------------------------------------------------
(* stacks.c.  A new area is disjoint from the old one.                     *)

RECURSIVE NewSize(_, _)
NewSize(size, need) ==
    IF size >= max_stack_size THEN 0
    ELSE IF size * 2 >= need THEN size * 2 ELSE NewSize(size * 2, need)

RECURSIVE ShiftLinks(_, _, _)
ShiftLinks(st, p, high) ==
    IF p >= high \/ high - p > Len(st) THEN st
    ELSE LET i == high - p - 1
             link == high - (stack_high - st[i][2])
         IN  ShiftLinks([st EXCEPT ![i] = <<"s", link>>], link, high)

\* A defect: the links between the trap frames still lead into the old area.
realloc_stack_links(st, required) ==
    LET size == NewSize(stack_high - stack_low, Len(st) + required)
        high == stack_high + 10 + size
    IN  /\ stack' = st
        /\ trapsp' = high - (stack_high - trapsp)
        /\ stack_low' = stack_high + 10
        /\ stack_high' = high
        /\ UNCHANGED max_stack_size

\* The new area for a stack st, when its size is not limited: the trap links
\* and trapsp are shifted.
realloc_stack(st, required) ==
    LET size == NewSize(stack_high - stack_low, Len(st) + required)
        high == stack_high + 10 + size
        tsp == high - (stack_high - trapsp)
    IN  /\ stack' = ShiftLinks(st, tsp, high)
        /\ trapsp' = tsp
        /\ stack_low' = stack_high + 10
        /\ stack_high' = high
        /\ UNCHANGED max_stack_size

check_stacks ==
    /\ mode = "check_stacks"
    /\ IF SpAddr >= stack_low + StackThreshold
       THEN /\ mode' = (IF something_to_do THEN "process_signal" ELSE "run")
            /\ UNCHANGED <<prog, start_code, regs, stack, area, mem, act, sig, out>>
       ELSE IF NewSize(stack_high - stack_low, Len(stack) + StackThreshold) = 0
       THEN raise_constant(STACK_OVERFLOW_EXN, stack)
       ELSE /\ realloc_stack(stack, StackThreshold)
            /\ mode' = (IF something_to_do THEN "process_signal" ELSE "run")
            /\ UNCHANGED <<prog, start_code, regs, mem, act, sig, out>>

-----------------------------------------------------------------------------
(* Events.                                                                 *)

CHECK_SIGNALS ==
    /\ Is("CHECK_SIGNALS")
    /\ mode' = (IF something_to_do THEN "process_signal" ELSE "run")
    /\ pc' = pc + 1
    /\ UNCHANGED <<prog, start_code, accu, env, extra_args, stack, area, mem, act, sig, out>>

\* The prologue of interprete, called on a stack st.
interprete(code, st) ==
    /\ off' = Len(st) /\ iext' = external_raise /\ external_raise' = Activation + 1
    /\ stack' = st /\ pc' = code /\ extra_args' = 0 /\ env' = <<"a", 0>> /\ accu' = Val(0)
    /\ mode' = "run" /\ res' = <<"none">>

\* callbackN_exn up to the call of interprete.  st is the stack from
\* extern_sp; the suspended activation resumes at next, how tells in what way:
\* the C function prim was called with n arguments, or an event is processed.
callbackN_exn(closure, args, st, next, how, n) ==
    LET narg == Len(args)
        st1 == PushOn(st, args \o <<<<"c", CallbackCode + 2>>, ValUnit, Val(0), closure>>)
    IN  /\ callback_code' = narg
        /\ cstack' = Append(cstack, [pc |-> next, extra_args |-> extra_args, off |-> off,
                                     iext |-> iext, how |-> how, n |-> n, narg |-> narg,
                                     depth |-> Len(st), trap |-> stack_high - trapsp])
        /\ interprete(CallbackCode, st1)

\* process_signal, process_event, execute_signal.
Setup_for_event ==
    PushOn(stack, <<accu, ValUnit, ValUnit, <<"c", pc>>, env, Val(extra_args)>>)
Restore_after_event(st) ==
    LET f == TopOf(st, 6)
    IN  /\ accu' = f[1]
        /\ pc' = (IF f[4][1] = "c" THEN f[4][2] ELSE 0)
        /\ env' = f[5]
        /\ extra_args' = Long(f[6])
        /\ stack' = PopOff(st, 6)

\* A defect: something_to_do stays set.
process_signal_again ==
    /\ mode = "process_signal"
    /\ pending_signal' = FALSE
    /\ force_major_slice' = FALSE
    /\ IF force_major_slice THEN heap' = MovedHeap /\ RootsMove ELSE UNCHANGED mem
    /\ LET mv(v) == IF force_major_slice THEN Moved(v) ELSE v
           st == IF force_major_slice THEN MovedSeq(Setup_for_event) ELSE Setup_for_event
       IN  IF pending_signal
           THEN callbackN_exn(mv(Field(signal_handlers, 0)), <<Val(1)>>, st, pc, "event", 0)
           ELSE Restore_after_event(st) /\ mode' = "run" /\ UNCHANGED act
    /\ UNCHANGED <<prog, start_code, area, something_to_do, sent, out>>

process_signal ==
    /\ mode = "process_signal"
    /\ something_to_do' = FALSE
    /\ pending_signal' = FALSE
    /\ force_major_slice' = FALSE
    /\ IF force_major_slice THEN heap' = MovedHeap /\ RootsMove ELSE UNCHANGED mem
    /\ LET mv(v) == IF force_major_slice THEN Moved(v) ELSE v
           st == IF force_major_slice THEN MovedSeq(Setup_for_event) ELSE Setup_for_event
       IN  IF pending_signal
           THEN callbackN_exn(mv(Field(signal_handlers, 0)), <<Val(1)>>, st, pc, "event", 0)
           ELSE Restore_after_event(st) /\ mode' = "run" /\ UNCHANGED act
    /\ UNCHANGED <<prog, start_code, area, sent, out>>

\* A signal is received by handle_signal, or a major slice is urged.
handle_signal ==
    /\ mode \in {"run", "check_stacks"} /\ "signal" \in sent /\ Live(signal_handlers)
    /\ pending_signal' = TRUE /\ something_to_do' = TRUE /\ sent' = sent \ {"signal"}
    /\ UNCHANGED <<prog, start_code, regs, stack, area, mem, act, force_major_slice, mode, out>>
urge_major_slice ==
    /\ mode \in {"run", "check_stacks"} /\ "slice" \in sent
    /\ force_major_slice' = TRUE /\ something_to_do' = TRUE /\ sent' = sent \ {"slice"}
    /\ UNCHANGED <<prog, start_code, regs, stack, area, mem, act, pending_signal, mode, out>>

-----------------------------------------------------------------------------
(* C functions.  Calls(f) is the call of primitive f with arguments CArg(1),
   CArg(2)...; C_CALLN also pushes the accumulator.                         *)

Calls(f) == Is("C_CALL") /\ Arg(1) = f
CArg(i) == IF i = 1 THEN accu ELSE Sp(i - 2)
CFrame == IF Arg(2) > 5 THEN PushOn(stack, <<env, accu>>) ELSE Setup_for_c_call

\* Restore_after_c_call, and the arguments popped: the call of n arguments
\* returns v on a stack st.
CReturns(v, st, n, next, extra) ==
    /\ accu' = v /\ env' = st[Len(st)]
    /\ stack' = PopOff(st, IF n > 5 THEN 1 + n ELSE n)
    /\ pc' = next /\ extra_args' = extra /\ mode' = "run"
Returns(v) == CReturns(v, CFrame, Arg(2), pc + 1, extra_args)
\* The same, after an allocation; v is the result as the collector left it.
ReturnsMoved(v) == CReturns(v, MovedSeq(CFrame), Arg(2), pc + 1, extra_args)

\* An external function with an effect.
print == /\ Calls("print") /\ Returns(ValUnit) /\ out' = Append(out, Long(accu))
         /\ UNCHANGED <<prog, start_code, area, mem, act, sig>>

\* Functions that allocate.
CAllocates ==
    /\ \/ Calls("float_of_int") /\ Alloc_small(Double_tag, <<<<"d", Long(accu)>>>>)
       \/ /\ Calls("create_string")
          /\ Alloc_small(String_tag, [i \in 1..Long(accu) |-> <<"y", 0>>])
       \/ /\ Calls("alloc_dummy") /\ accu # Val(0)
          /\ Alloc_small(0, [i \in 1..Long(accu) |-> ValUnit])
    /\ ReturnsMoved(NewBlock)
    /\ UNCHANGED <<prog, start_code, area, act, sig, out>>

update_dummy ==
    /\ Calls("update_dummy")
    /\ heap' = [heap EXCEPT ![accu[2]] = heap[CArg(2)[2]]]
    /\ Returns(ValUnit)
    /\ UNCHANGED <<prog, start_code, area, gen, global_data, signal_handlers, named, act, sig, out>>

\* meta.c: the table of globals grows.
realloc_global ==
    /\ Calls("realloc_global")
    /\ IF Long(accu) >= Wosize(global_data)
       THEN LET old == MovedHeap[global_data[2]].f
                grown == [i \in 1..(Long(accu) + NGlobals) |-> IF i <= Len(old) THEN old[i] ELSE Val(0)]
            IN  /\ heap' = Append(MovedHeap, [tag |-> 0, f |-> grown])
                /\ gen' = gen + 1
                /\ global_data' = NewBlock
                /\ signal_handlers' = Moved(signal_handlers)
                /\ named' = [i \in 1..Len(named) |-> [named[i] EXCEPT !.val = Moved(@)]]
                /\ ReturnsMoved(ValUnit)
       ELSE Returns(ValUnit) /\ UNCHANGED mem
    /\ UNCHANGED <<prog, start_code, area, act, sig, out>>

ensure_stack_capacity ==
    /\ Calls("ensure_stack_capacity")
    /\ LET req == Long(accu)
           st == CFrame
       IN  IF stack_high - Len(st) - req >= stack_low
           THEN Returns(ValUnit) /\ UNCHANGED <<prog, start_code, area, mem, act, sig, out>>
           ELSE IF NewSize(stack_high - stack_low, Len(st) + req) = 0
           THEN raise_constant(STACK_OVERFLOW_EXN, st)
           ELSE /\ mode' = "grown"
                /\ realloc_stack(st, req)
                /\ UNCHANGED <<prog, start_code, regs, mem, act, sig, out>>
\* The return of ensure_stack_capacity through the new area.
ensure_stack_capacity_returns ==
    /\ mode = "grown"
    /\ CReturns(ValUnit, stack, 1, pc + 1, extra_args)
    /\ UNCHANGED <<prog, start_code, area, mem, act, sig, out>>

\* callback.c: named values; the latest registration comes first.
register_named_value ==
    /\ Calls("register_named_value")
    /\ named' = <<[name |-> accu, val |-> CArg(2)]>> \o named
    /\ Returns(ValUnit)
    /\ UNCHANGED <<prog, start_code, area, heap, gen, global_data, signal_handlers, act, sig, out>>
caml_named_value ==
    /\ Calls("named_value")
    /\ Returns(IF \E i \in 1..Len(named) : named[i].name = accu
               THEN named[CHOOSE i \in 1..Len(named) :
                            /\ named[i].name = accu
                            /\ \A j \in 1..(i - 1) : named[j].name # accu].val
               ELSE ValUnit)
    /\ UNCHANGED <<prog, start_code, area, mem, act, sig, out>>

\* signals.c: the action is a block that holds the closure.
install_signal_handler ==
    /\ Calls("install_signal_handler")
    /\ heap' = Append(MovedHeap, [tag |-> 0, f |-> <<Moved(Field(CArg(2), 0))>>])
    /\ gen' = gen + 1 /\ global_data' = Moved(global_data) /\ signal_handlers' = NewBlock
    /\ named' = [i \in 1..Len(named) |-> [named[i] EXCEPT !.val = Moved(@)]]
    /\ ReturnsMoved(ValUnit)
    /\ UNCHANGED <<prog, start_code, area, act, sig, out>>

\* fail.c.
CRaises ==
    \/ Calls("failwith") /\ raise_with_arg(FAILURE_EXN, accu, CFrame)
    \/ Calls("not_found") /\ raise_constant(NOT_FOUND_EXN, CFrame)

\* A C function that calls its first argument with the others.
CCallsBack ==
    /\ \E f \in {"callback", "callback_exn"} :
          /\ Calls(f)
          /\ callbackN_exn(accu, [i \in 1..(Arg(2) - 1) |-> CArg(i + 1)], CFrame, pc + 1, f, Arg(2))
    /\ UNCHANGED <<prog, start_code, area, mem, sig, out>>

\* A defect (PR#1228): what was pushed for the call stays on the stack.
callbackN_exn_returns_kept(f) == stack

\* interprete has returned: callbackN_exn drops what it pushed if the result is
\* an exception (PR#1228) ...
callbackN_exn_returns(f) == IF res[1] = "exn" THEN PopOff(stack, f.narg + 4) ELSE stack
\* ... and the C caller goes on.
callback_returns ==
    /\ mode = "returned" /\ cstack # <<>>
    /\ LET f == cstack[Len(cstack)]
           cs == SubSeq(cstack, 1, Len(cstack) - 1)
           st == callbackN_exn_returns(f)
           back == off' = f.off /\ iext' = f.iext /\ cstack' = cs
       IN  IF f.how = "callback_exn"
           THEN /\ Alloc_small(IF res[1] = "exn" THEN 1 ELSE 0, <<Moved(res[2])>>)
                /\ CReturns(NewBlock, MovedSeq(st), f.n, f.pc, f.extra_args)
                /\ back
           ELSE /\ UNCHANGED mem
                /\ IF res[1] = "exn" THEN mlraise(res[2], st, cs, f.off, f.iext)
                   ELSE IF f.how = "event"
                   THEN Restore_after_event(st) /\ mode' = "run" /\ back
                   ELSE CReturns(res[2], st, f.n, f.pc, f.extra_args) /\ back
    /\ res' = <<"none">>
    /\ UNCHANGED <<prog, start_code, area, external_raise, callback_code, sig, out>>

\* caml_main: the program has stopped.
main_returns ==
    /\ mode = "returned" /\ cstack = <<>>
    /\ mode' = (IF res[1] = "exn" THEN "uncaught" ELSE "done")
    /\ UNCHANGED <<prog, start_code, regs, stack, area, mem, act, sig, out>>

-----------------------------------------------------------------------------
\* init_stack, the table of globals and the first call of interprete.
Init ==
    /\ prog \in 1..Len(Programs)
    /\ start_code = to_file(Programs[prog].main)
    /\ pc = 1 /\ accu = Val(0) /\ env = <<"a", 0>> /\ extra_args = 0
    /\ stack = <<>> /\ trapsp = StackSize
    /\ stack_low = 0 /\ stack_high = StackSize /\ max_stack_size = MaxStackSize
    /\ heap = <<[tag |-> 0, f |-> [i \in 1..NGlobals |-> IF i < 5 THEN Val(10 + i) ELSE Val(0)]]>>
    /\ gen = 0 /\ global_data = <<"p", 1, 0, 0>> /\ signal_handlers = <<"i", 1>> /\ named = <<>>
    /\ off = 0 /\ iext = 0 /\ external_raise = 1 /\ cstack = <<>> /\ callback_code = 0
    /\ something_to_do = FALSE /\ pending_signal = FALSE /\ force_major_slice = FALSE
    /\ mode = "run" /\ res = <<"none">> /\ out = <<>> /\ sent = Programs[prog].events

Stack_instr == ACC \/ PUSH \/ PUSHACC \/ POP \/ ASSIGN \/ ENVACC \/ PUSHENVACC
Const_instr == CONSTINT \/ PUSHCONSTINT \/ CONSTLABEL \/ ATOM
Global_instr == GETGLOBAL \/ PUSHGETGLOBAL \/ GETGLOBALFIELD \/ PUSHGETGLOBALFIELD \/ SETGLOBAL
Apply_instr == PUSH_RETADDR \/ APPLY \/ APPLY1 \/ APPTERM \/ RETURN \/ RESTART \/ GRAB
Closure_instr == CLOSURE \/ CLOSUREREC \/ OFFSETCLOSURE \/ PUSHOFFSETCLOSURE
Block_instr == MAKEBLOCK \/ MAKEFLOATBLOCK \/ GETFIELD \/ GETFLOATFIELD \/ GETVECTITEM
               \/ GETSTRINGCHAR \/ VECTLENGTH \/ ISINT \/ GETMETHOD \/ SETFIELD \/ SETFLOATFIELD
               \/ SETVECTITEM \/ SETSTRINGCHAR \/ OFFSETREF
Branch_instr == BRANCH \/ BRANCHIF \/ BRANCHIFNOT \/ SWITCH \/ BOOLNOT
                \/ Integer_comparison \/ Integer_branch_comparison
Arith_instr == OFFSETINT \/ NEGINT \/ ARITH \/ DIVINT
Control_instr == PUSHTRAP \/ POPTRAP \/ RAISE \/ STOP \/ CHECK_SIGNALS
Runtime == External_raise \/ check_stacks \/ process_signal \/ callback_returns \/ main_returns
C_function == print \/ CAllocates \/ update_dummy \/ realloc_global \/ ensure_stack_capacity
              \/ ensure_stack_capacity_returns \/ register_named_value \/ caml_named_value
              \/ install_signal_handler \/ CRaises \/ CCallsBack

Machine == Stack_instr \/ Const_instr \/ Global_instr \/ Apply_instr \/ Closure_instr \/ Block_instr
           \/ Branch_instr \/ Arith_instr \/ Control_instr \/ Runtime \/ C_function
Events == handle_signal \/ urge_major_slice
Finished == mode \in {"done", "uncaught"}
Next == Machine \/ Events \/ (Finished /\ UNCHANGED vars)
Spec == Init /\ [][Next]_vars /\ WF_vars(Machine)

-----------------------------------------------------------------------------
(* Properties.                                                             *)

\* What a program can see of a word.
RECURSIVE Observe(_)
Observe(w) ==
    CASE w[1] = "i" -> <<"i", Long(w)>>
      [] Live(w) /\ Tag(w) = Closure_tag -> <<"fun">>
      [] Live(w) /\ Tag(w) = Double_tag -> Field(w, 0)
      [] Live(w) /\ Tag(w) # Closure_tag /\ Tag(w) # Double_tag ->
             <<"block", Tag(w), [i \in 1..Wosize(w) |-> Observe(Field(w, i - 1))] \o <<>>>>
      [] OTHER -> w

\* sp never leaves the stack area: the checks made when a function is entered
\* (check_stacks, ensure_stack_capacity) leave room for what it, events and
\* callbacks push unchecked.
StackInBounds == SpAddr >= stack_low

\* From trapsp the trap frames lead to the bottom of the stack, through the
\* growth of the stack, callbacks and the unwinding of exceptions.
RECURSIVE ChainTo(_)
ChainTo(a) ==
    IF a = stack_high THEN TRUE
    ELSE LET i == stack_high - a   \* the index of the frame's top word
         IN  /\ i \in 4..Len(stack)
             /\ stack[i][1] = "c" /\ stack[i - 1][1] = "s"
             /\ stack[i - 1][2] > a /\ ChainTo(stack[i - 1][2])
TrapChain == trapsp \in 0..stack_high /\ ChainTo(trapsp)

\* Every pointer on the stack and in the heap can be followed: no word reaches
\* them through a register that an allocation left behind.
Current(w) == w[1] = "p" => w[4] = gen
RootsCurrent == /\ \A i \in 1..Len(stack) : Current(stack[i])
                /\ \A b \in 1..Len(heap) : \A i \in 1..Len(heap[b].f) : Current(heap[b].f[i])
                /\ Current(global_data) /\ Current(signal_handlers)
                /\ \A i \in 1..Len(named) : Current(named[i].val)

\* When a callback returns to C, by a value or by an exception, the stack and
\* the handlers are what they were when it was called; at the end of the
\* program they are empty.
CallsBalanced ==
    mode = "returned" =>
        IF cstack = <<>> THEN Len(stack) = 0 /\ trapsp = stack_high /\ external_raise = 0
        ELSE LET f == cstack[Len(cstack)]
             IN  /\ Len(callbackN_exn_returns(f)) = f.depth
                 /\ stack_high - trapsp = f.trap
                 /\ external_raise = Len(cstack)

\* The machine's own structures: the stack stays in its area, the handlers form
\* a chain, no stale pointer is in a root, and callbacks are balanced.
MachineSound == StackInBounds /\ TrapChain /\ RootsCurrent /\ CallsBalanced
=============================================================================

----------------------------- MODULE RegexMatch -----------------------------
(***************************************************************************)
(* The matcher of the regular expression library behind Str                *)
(* (otherlibs/str/regex-0.12/regex.c, strstubs.c): a pattern is compiled   *)
(* once, and calls of string_match, search_forward and search_backward     *)
(* then run the compiled program on texts.  re_match_2 is an interpreter   *)
(* with a stack of failure points; here every instruction is an action.    *)
(* It rewrites the program while it runs (maybe_pop_jump, the counters of  *)
(* intervals), so that a call depends on the calls before it.              *)
(*                                                                         *)
(* Positions in the text count from 0.  The text is in one piece (string1  *)
(* is NULL), as Str passes it.                                             *)
(***************************************************************************)
EXTENDS RegexReference

CONSTANTS Inputs,          \* the expressions, with their syntax and case folding, and the
                           \* texts to match each with
          Ops,             \* the entry points to call
          Extensions,      \* what may follow a text that matches in part
          re_max_failures  \* the bound on the stack of failure points

VARIABLES pc,      \* "compile", "ready", "search", "match" or "answer"
          input,   \* the expression
          comp,    \* the compiler's state; comp.b is the program
          fast,    \* the fastmap
          call,    \* the call in progress: entry point, text, start, range, position
          m,       \* the matcher's state
          ret      \* what the last call returned
vars == <<pc, input, comp, fast, call, m, ret>>

\* No register is active; no position; the dummy failure point.
NO_HIGHEST_ACTIVE_REG == 256
NO_LOWEST_ACTIVE_REG == 257
REG_UNSET_VALUE == -1
KEEP_STRING == -1
MATCH_NULL_UNSET_VALUE == 3
INIT_FAILURE_ALLOC == 5

None == [val |-> "none"]
b == comp.b
pend == Len(b) + 1
text == call.text
end == Len(text)
num_regs == comp.regnum + 1
Regs == 1 .. comp.regnum
T(ch) == TRANSLATE(input.fold, ch)

Init == /\ pc = "compile"
        /\ input \in Inputs
        /\ comp = CompileInit(Unparse(input.expr, input.syn), input.syn, input.fold)
        /\ fast = None /\ call = None /\ m = None /\ ret = None

-----------------------------------------------------------------------------
(* str_compile_regexp: re_compile_pattern, then the fastmap.               *)

compile_step == /\ pc = "compile" /\ ~ AtEnd(comp) /\ comp.err = "REG_NOERROR"
                /\ comp' = compile_char(comp)
                /\ UNCHANGED <<pc, input, fast, call, m, ret>>

compile_finish == /\ pc = "compile" /\ AtEnd(comp) /\ comp.err = "REG_NOERROR"
                  /\ comp' = compile_end(comp)
                  /\ fast' = IF comp'.err = "REG_NOERROR"
                             THEN LET f == re_compile_fastmap(comp'.b, input.syn)
                                  IN  [map |-> f.map, can_be_null |-> f.can_be_null]
                             ELSE None
                  /\ pc' = IF comp'.err = "REG_NOERROR" THEN "ready" ELSE pc
                  /\ UNCHANGED <<input, call, m, ret>>

-----------------------------------------------------------------------------
(* The matcher's state, and the stack of failure points.                   *)

match_init(pos) ==
  [p |-> 1, d |-> pos, low |-> NO_LOWEST_ACTIVE_REG, high |-> NO_HIGHEST_ACTIVE_REG,
   regstart |-> [r \in Regs |-> REG_UNSET_VALUE], regend |-> [r \in Regs |-> REG_UNSET_VALUE],
   old_regstart |-> [r \in Regs |-> REG_UNSET_VALUE],
   old_regend |-> [r \in Regs |-> REG_UNSET_VALUE],
   info |-> [r \in Regs |-> [null |-> MATCH_NULL_UNSET_VALUE, active |-> FALSE,
                             matched |-> FALSE, ever |-> FALSE]],
   stack |-> <<>>, size |-> INIT_FAILURE_ALLOC, best |-> <<>>, partial |-> FALSE]

NUM_FAILURE_ITEMS(low, high) == 3 * (high - low + 1) + 4
MAX_FAILURE_ITEMS == 3 * (num_regs - 1) + 4
avail(x) == FoldSeq(LAMBDA f, n : n + NUM_FAILURE_ITEMS(f.low, f.high), 0, x.stack)

\* The size of the stack once it holds the items: it doubles until it does, or
\* until it is too large.
GrownSize(x, items) ==
  LET k == CHOOSE k \in 0 .. 30 : /\ \/ x.size * 2^k >= items
                                     \/ x.size * 2^k > re_max_failures * MAX_FAILURE_ITEMS
                                  /\ \A j \in 0 .. k - 1 :
                                       /\ x.size * 2^j < items
                                       /\ x.size * 2^j <= re_max_failures * MAX_FAILURE_ITEMS
  IN  x.size * 2^k

Holds(x) == x.size >= avail(x)

PUSH_FAILURE_POINT(x, pat, str) ==
  [x EXCEPT
     !.size = GrownSize(x, avail(x) + NUM_FAILURE_ITEMS(x.low, x.high)),
     !.stack = Append(@, [pat |-> pat, str |-> str, low |-> x.low, high |-> x.high,
                          regs |-> [r \in x.low .. x.high |->
                                      <<x.regstart[r], x.regend[r], x.info[r]>>]])]

POP_FAILURE_POINT(x) ==
  LET f == Last(x.stack)
      Restored(r, i, old) == IF r \in DOMAIN f.regs THEN f.regs[r][i] ELSE old
  IN  [x EXCEPT !.stack = Front(@), !.p = f.pat, !.low = f.low, !.high = f.high,
                !.d = IF f.str = KEEP_STRING THEN @ ELSE f.str,
                !.regstart = [r \in Regs |-> Restored(r, 1, @[r])],
                !.regend = [r \in Regs |-> Restored(r, 2, @[r])],
                !.info = [r \in Regs |-> Restored(r, 3, @[r])]]

\* A failure point that leads back into its own loop is passed over.
IntoLoop(p) ==
  /\ p < pend /\ b[p] \in {jump_n, maybe_pop_jump, pop_failure_jump, jump}
  /\ JumpTarget(b, p) < pend
  /\ b[JumpTarget(b, p)] = IF b[p] = jump_n THEN succeed_n ELSE on_failure_jump

RECURSIVE backtrack(_)
\* The state to go on with after a failure; its stack is empty and p is 0 when
\* there is none.
backtrack(x) ==
  IF x.stack = <<>> THEN [x EXCEPT !.p = 0]
  ELSE LET y == POP_FAILURE_POINT(x)
       IN  IF y.p = 0 \/ IntoLoop(y.p) THEN backtrack(y) ELSE y

-----------------------------------------------------------------------------
(* The end of re_match_2, for the call that asked for the match.           *)

\* The registers that are returned.
regs_of(x) == [r \in Regs |-> IF REG_UNSET_VALUE \in {x.regstart[r], x.regend[r]}
                             THEN <<-1, -1>> ELSE <<x.regstart[r], x.regend[r]>>]

Result(val, pos, endpos, regs) ==
  [val |-> val, op |-> call.op, text |-> text, start |-> call.start, pos |-> pos,
   end |-> endpos, regs |-> regs]
NoResult(val) == Result(val, -1, -1, <<>>)

Answer(r) == /\ pc' = "answer" /\ ret' = r /\ call' = None /\ m' = None
             /\ UNCHANGED <<input, fast>>

\* re_search_2 tries the next position after a failure.
advance == IF call.range = 0 THEN Answer(NoResult(-1))
           ELSE LET dir == IF call.range > 0 THEN 1 ELSE -1
                IN  /\ pc' = "search" /\ m' = None
                    /\ call' = [call EXCEPT !.pos = @ + dir, !.range = @ - dir]
                    /\ UNCHANGED <<input, fast, ret>>

Accept(x) == Answer(Result(x.d - call.pos, call.pos, x.d, regs_of(x)))


restore_best_regs(x) == [x EXCEPT !.d = x.best.d, !.regstart = x.best.regstart,
                                  !.regend = x.best.regend]

\* The instruction succeeds, or fails.
Continue(x) == /\ IF Holds(x) THEN m' = x /\ UNCHANGED <<pc, input, fast, call, ret>>
                  ELSE Answer(NoResult(-2))

Fail(x) ==
  LET y == backtrack(x)
  IN  IF ~ Holds(x) THEN Answer(NoResult(-2))
      ELSE IF y.p # 0 THEN m' = y /\ UNCHANGED <<pc, input, fast, call, ret>>
      ELSE IF x.best # <<>> THEN Accept(restore_best_regs(x))
      ELSE IF call.op = "match" THEN Answer(NoResult(IF x.partial THEN -3 ELSE -1))
      ELSE advance

Executing(ops) == pc = "match" /\ m.p < pend /\ b[m.p] \in ops
SameProgram == UNCHANGED comp

\* PREFETCH: there is a character to read, or the match is partial.
HasChar == m.d < end
NoChar_whole == m
NoChar == [m EXCEPT !.partial = TRUE]

SET_REGS_MATCHED(x) ==
  [x EXCEPT !.info = [r \in Regs |-> IF r \in x.low .. x.high
                                    THEN [@[r] EXCEPT !.matched = TRUE, !.ever = TRUE]
                                    ELSE @[r]]]

\* The end of the program: the longest match is wanted, so that other ways are
\* tried unless the whole text has been matched.
match_end ==
  /\ pc = "match" /\ m.p = pend
  /\ LET best == [d |-> m.d, regstart |-> m.regstart, regend |-> m.regend]
         better == m.best = <<>> \/ m.d > m.best.d
     IN  IF m.d = end THEN Accept(m)
         ELSE IF m.stack # <<>> THEN Fail(IF better THEN [m EXCEPT !.best = best] ELSE m)
         ELSE IF m.best # <<>> THEN Accept(restore_best_regs(m))
         ELSE Accept(m)
  /\ SameProgram

-----------------------------------------------------------------------------
(* Instructions that match characters.                                     *)

match_exactn ==
  /\ Executing({exactn})
  /\ LET n == b[m.p + 1]
         Same(i) == m.d + i < end /\ T(text[m.d + i + 1]) = b[m.p + 2 + i]
         bad == {i \in 0 .. n - 1 : ~ Same(i)}
     IN  IF bad = {} THEN Continue([SET_REGS_MATCHED(m) EXCEPT !.p = @ + 2 + n, !.d = @ + n])
         ELSE IF m.d + Min(bad) = end THEN Fail([NoChar EXCEPT !.d = end])
         ELSE Fail([m EXCEPT !.d = @ + Min(bad) + 1])
  /\ SameProgram

match_one ==
  /\ Executing({anychar, charset, charset_not, wordchar, notwordchar})
  /\ LET op == b[m.p]
         ch == text[m.d + 1]
         taken == CASE op = anychar -> /\ "RE_DOT_NEWLINE" \in input.syn \/ T(ch) # NL
                                       /\ "RE_DOT_NOT_NULL" \notin input.syn \/ T(ch) # 0
                    [] op = charset -> InBitmap(b, m.p + 1, T(ch))
                    [] op = charset_not -> ~ InBitmap(b, m.p + 1, T(ch))
                    [] op = wordchar -> ch \in Sword
                    [] op = notwordchar -> ch \notin Sword
         length == IF op \in {charset, charset_not} THEN 2 + b[m.p + 1] ELSE 1
     IN  IF ~ HasChar THEN Fail(NoChar)
         ELSE IF ~ taken THEN Fail(m)
         ELSE Continue([SET_REGS_MATCHED(m) EXCEPT !.p = @ + length, !.d = @ + 1])
  /\ SameProgram

\* A back reference compares with what its group matched.
match_duplicate ==
  /\ Executing({duplicate})
  /\ LET r == b[m.p + 1]
         n == m.regend[r] - m.regstart[r]
         here == Min({n, end - m.d})
         Same(i) == T(text[m.d + i]) = T(text[m.regstart[r] + i])
     IN  IF REG_UNSET_VALUE \in {m.regstart[r], m.regend[r]} THEN Fail(m)
         ELSE IF \E i \in 1 .. here : ~ Same(i) THEN Fail(m)
         ELSE IF here < n THEN Fail([NoChar EXCEPT !.d = end])
         ELSE Continue([m EXCEPT !.p = @ + 2, !.d = @ + n])
  /\ SameProgram

\* Anchors; the end of the text is a word boundary, and so is its start.
match_anchor ==
  /\ Executing({begline, endline, begbuf, endbuf, wordbound, notwordbound, wordbeg, wordend})
  /\ LET op == b[m.p]
         before == WordAt(text, m.d - 1)
         after == WordAt(text, m.d)
         boundary == m.d \in {0, end} \/ before # after
         ok == CASE op = begline -> m.d = 0 \/ text[m.d] = NL
                 [] op = endline -> m.d = end \/ text[m.d + 1] = NL
                 [] op = begbuf -> m.d = 0
                 [] op = endbuf -> m.d = end
                 [] op = wordbound -> boundary
                 [] op = notwordbound -> ~ boundary
                 [] op = wordbeg -> after /\ (m.d = 0 \/ ~ before)
                 [] op = wordend -> m.d # 0 /\ before /\ (~ after \/ m.d = end)
     IN  IF ok THEN Continue([m EXCEPT !.p = @ + 1]) ELSE Fail(m)
  /\ SameProgram

match_no_op == /\ Executing({no_op})
               /\ Continue([m EXCEPT !.p = @ + 1])
               /\ SameProgram

-----------------------------------------------------------------------------
(* Groups.                                                                 *)

RECURSIVE group_match_null_string_p(_, _), group_alternatives(_, _),
          alt_match_null_string_p(_, _, _), common_op_match_null_string_p(_, _)

\* Whether an instruction can match the null string, where the next one is, and
\* the register information, in which it notes what it found about groups.
common_op_match_null_string_p(p, info) ==
  LET op == b[p]
      Null(q) == [ok |-> TRUE, p |-> q, info |-> info]
      no == [ok |-> FALSE, p |-> p, info |-> info]
  IN  CASE op \in {no_op, begline, endline, begbuf, endbuf, wordbeg, wordend, wordbound,
                   notwordbound} -> Null(p + 1)
        [] op = start_memory ->
             LET g == group_match_null_string_p(p + 3, info)
             IN  IF g.info[b[p + 1]].null # MATCH_NULL_UNSET_VALUE THEN g
                 ELSE [g EXCEPT !.info[b[p + 1]].null = IF g.ok THEN 1 ELSE 0]
        [] op = jump -> IF JumpTarget(b, p) >= p + 3 THEN Null(JumpTarget(b, p)) ELSE no
        [] op = succeed_n -> IF EXTRACT_NUMBER(b, p + 3) = 0 THEN Null(JumpTarget(b, p)) ELSE no
        [] op = duplicate -> IF info[b[p + 1]].null # 0 THEN Null(p + 1) ELSE no
        [] OTHER -> no

alt_match_null_string_p(p, stop, info) ==
  IF p >= stop THEN [ok |-> TRUE, p |-> p, info |-> info]
  ELSE IF b[p] = on_failure_jump
  THEN alt_match_null_string_p(JumpTarget(b, p), stop, info)
  ELSE LET c == common_op_match_null_string_p(p, info)
       IN  IF c.ok THEN alt_match_null_string_p(c.p, stop, c.info) ELSE c

\* The alternatives that start with the on_failure_jump at p.
group_alternatives(p, info) ==
  LET to == JumpTarget(b, p)
      a == alt_match_null_string_p(p + 3, to - 3, info)
      LastAlternative(q, i) ==
        LET z == alt_match_null_string_p(q, q + EXTRACT_NUMBER(b, q - 2), i)
        IN  [z EXCEPT !.p = q + EXTRACT_NUMBER(b, q - 2)]
  IN  IF b[to - 3] # jump_past_alt THEN LastAlternative(p + 3, info)
      ELSE IF ~ a.ok THEN a
      ELSE IF b[to] = on_failure_jump /\ b[JumpTarget(b, to) - 3] = jump_past_alt
      THEN group_alternatives(to, a.info)
      ELSE LastAlternative(to, a.info)

\* p is after the arguments of a start_memory.
group_match_null_string_p(p, info) ==
  LET o == IF b[p] # on_failure_jump THEN common_op_match_null_string_p(p, info)
           ELSE IF JumpTarget(b, p) >= p + 3 THEN group_alternatives(p, info)
           ELSE [ok |-> TRUE, p |-> p + 3, info |-> info]
  IN  IF p >= pend THEN [ok |-> FALSE, p |-> p, info |-> info]
      ELSE IF b[p] = stop_memory THEN [ok |-> TRUE, p |-> p + 2, info |-> info]
      ELSE IF o.ok THEN group_match_null_string_p(o.p, o.info) ELSE o

\* The position of the time before, kept in case this time fails.
OldPosition(null, reg) == IF null # 0 /\ reg = REG_UNSET_VALUE THEN m.d ELSE reg

match_start_memory ==
  /\ Executing({start_memory})
  /\ LET r == b[m.p + 1]
         g == group_match_null_string_p(m.p + 3, m.info)
         info == IF m.info[r].null # MATCH_NULL_UNSET_VALUE THEN m.info
                 ELSE [g.info EXCEPT ![r].null = IF g.ok THEN 1 ELSE 0]
     IN  Continue([m EXCEPT !.p = @ + 3, !.regstart[r] = m.d,
                            !.old_regstart[r] = OldPosition(info[r].null, m.regstart[r]),
                            !.info = [info EXCEPT ![r].active = TRUE, ![r].matched = FALSE],
                            !.high = r,
                            !.low = IF @ = NO_LOWEST_ACTIVE_REG THEN r ELSE @])
  /\ SameProgram

\* The group's register is closed.
Closed(r) ==
  LET actives == {q \in 1 .. r - 1 : m.info[q].active}
      none == m.low = m.high \/ actives = {}
  IN  [m EXCEPT !.regend[r] = m.d,
                !.old_regend[r] = OldPosition(m.info[r].null, m.regend[r]),
                !.info[r].active = FALSE,
                !.low = IF none THEN NO_LOWEST_ACTIVE_REG ELSE @,
                !.high = IF none THEN NO_HIGHEST_ACTIVE_REG ELSE Max(actives)]

\* The on_failure_jump of the loop around group r that ends at p, or 0.
LoopHead(p, r) ==
  LET to == JumpTarget(b, p) + (IF b[p] = jump_n THEN 2 ELSE 0)
  IN  IF /\ p < pend
         /\ b[p] \in {jump_n, pop_failure_jump, maybe_pop_jump, jump, dummy_failure_jump}
         /\ EXTRACT_NUMBER(b, p + 1) < 0
         /\ b[to] = on_failure_jump /\ b[to + 3] = start_memory /\ b[to + 4] = r
      THEN to ELSE 0

\* The registers of group r and of all but the last of its inner groups are those
\* of the time before.
RegistersBefore(x, r, inner) ==
  LET back == [x EXCEPT
        !.regstart = [q \in Regs |-> IF q \in r .. r + inner - 1 THEN x.old_regstart[q]
                                     ELSE @[q]],
        !.info[r].ever = FALSE]
  IN  IF ~ x.info[r].ever THEN x
      ELSE [back EXCEPT
              !.regend = [q \in Regs |-> IF /\ q \in r .. r + inner - 1
                                            /\ x.old_regend[q] >= back.regstart[q]
                                         THEN x.old_regend[q] ELSE @[q]]]

\* A turn of a loop that matched nothing is the last one.
match_stop_memory ==
  /\ Executing({stop_memory})
  /\ LET r == b[m.p + 1]
         inner == b[m.p + 2]
         x == Closed(r)
         loop == LoopHead(m.p + 3, r)
     IN  IF (~ x.info[r].matched \/ b[m.p - 2] = start_memory) /\ loop # 0
         THEN Fail(PUSH_FAILURE_POINT(RegistersBefore(x, r, inner), JumpTarget(b, loop), m.d))
         ELSE Continue([x EXCEPT !.p = @ + 3])
  /\ SameProgram

-----------------------------------------------------------------------------
(* Jumps.                                                                  *)

match_on_failure_keep_string_jump ==
  /\ Executing({on_failure_keep_string_jump})
  /\ Continue([PUSH_FAILURE_POINT(m, JumpTarget(b, m.p), KEEP_STRING) EXCEPT !.p = @ + 3])
  /\ SameProgram

\* When a group follows, its registers and those of the groups in it are saved too.
on_failure(x) ==
  LET p1 == CHOOSE q \in x.p + 3 .. pend : /\ \A i \in x.p + 3 .. q - 1 : b[i] = no_op
                                           /\ q = pend \/ b[q] # no_op
      group == p1 < pend /\ b[p1] = start_memory
      y == IF ~ group THEN x
           ELSE [x EXCEPT !.high = b[p1 + 1] + b[p1 + 2],
                          !.low = IF @ = NO_LOWEST_ACTIVE_REG THEN b[p1 + 1] ELSE @]
  IN  [PUSH_FAILURE_POINT(y, JumpTarget(b, x.p), x.d) EXCEPT !.p = @ + 3]

match_on_failure_jump == /\ Executing({on_failure_jump})
                         /\ Continue(on_failure(m))
                         /\ SameProgram

\* Mutated form: what starts the loop is not compared with what follows it.
NeverBacktracks_always(p) == TRUE

\* Nothing that starts the loop that ends at p can start what follows it, so that
\* the loop need never be left early.  The bound of a bitmap is taken modulo 256.
NeverBacktracks(p) ==
  LET p2 == CHOOSE q \in p + 3 .. pend :
              /\ (q - p) % 3 = 0
              /\ \A i \in p + 3 .. q - 1 : (i - p) % 3 = 0 =>
                   b[i] \in {start_memory, stop_memory} /\ i + 2 < pend
              /\ ~ (q + 2 < pend /\ b[q] \in {start_memory, stop_memory})
      p1 == JumpTarget(b, p)
      c == IF b[p2] = endline THEN NL ELSE b[p2 + 2]
      inside == /\ c < (b[p1 + 4] * BYTEWIDTH) % 256
                /\ InBitmap(b, p1 + 4, c)
  IN  \/ p2 = pend
      \/ /\ b[p2] \in {exactn, endline}
         /\ \/ b[p1 + 3] = exactn /\ b[p1 + 5] # c
            \/ b[p1 + 3] = charset /\ ~ inside
            \/ b[p1 + 3] = charset_not /\ inside

Jumped(x) == [x EXCEPT !.p = JumpTarget(b, x.p)]

match_maybe_pop_jump ==
  /\ Executing({maybe_pop_jump})
  /\ IF NeverBacktracks(m.p)
     THEN /\ m.stack # <<>>
          /\ comp' = [comp EXCEPT !.b[m.p] = pop_failure_jump]
          /\ Continue(Jumped([m EXCEPT !.stack = Front(@)]))
     ELSE /\ comp' = [comp EXCEPT !.b[m.p] = jump]
          /\ Continue(Jumped(m))

match_pop_failure_jump ==
  /\ Executing({pop_failure_jump}) /\ m.stack # <<>>
  /\ Continue(Jumped([m EXCEPT !.stack = Front(@)]))
  /\ SameProgram

match_jump == /\ Executing({jump, jump_past_alt})
              /\ Continue(Jumped(m))
              /\ SameProgram

\* Mutated form: nothing is pushed for the pop_failure_jump.
match_dummy_failure_jump_bare ==
  /\ Executing({dummy_failure_jump})
  /\ Continue(Jumped(m))
  /\ SameProgram

match_dummy_failure_jump ==
  /\ Executing({dummy_failure_jump})
  /\ Continue(Jumped(PUSH_FAILURE_POINT(m, 0, KEEP_STRING)))
  /\ SameProgram

match_push_dummy_failure ==
  /\ Executing({push_dummy_failure})
  /\ Continue([PUSH_FAILURE_POINT(m, 0, KEEP_STRING) EXCEPT !.p = @ + 1])
  /\ SameProgram

\* The counters of intervals are in the program.
match_succeed_n ==
  /\ Executing({succeed_n})
  /\ LET n == EXTRACT_NUMBER(b, m.p + 3)
     IN  IF n > 0
         THEN /\ comp' = [comp EXCEPT !.b = STORE_NUMBER(@, m.p + 3, n - 1)]
              /\ Continue([m EXCEPT !.p = @ + 5])
         ELSE /\ comp' = [comp EXCEPT !.b = [@ EXCEPT ![m.p + 3] = no_op, ![m.p + 4] = no_op]]
              /\ Continue(on_failure(m))

match_jump_n ==
  /\ Executing({jump_n})
  /\ LET n == EXTRACT_NUMBER(b, m.p + 3)
     IN  IF n # 0
         THEN /\ comp' = [comp EXCEPT !.b = STORE_NUMBER(@, m.p + 3, n - 1)]
              /\ Continue(Jumped(m))
         ELSE /\ Continue([m EXCEPT !.p = @ + 5])
              /\ SameProgram

match_set_number_at ==
  /\ Executing({set_number_at})
  /\ comp' = [comp EXCEPT !.b = STORE_NUMBER(@, JumpTarget(b, m.p), EXTRACT_NUMBER(b, m.p + 3))]
  /\ Continue([m EXCEPT !.p = @ + 5])

-----------------------------------------------------------------------------
(* The entry points of strstubs.c and the loop of re_search_2.             *)

re_string_match ==
  /\ pc = "ready"
  /\ \E t \in input.texts : \E start \in 0 .. Len(t) :
       /\ "match" \in Ops
       /\ call' = [op |-> "match", text |-> t, start |-> start, pos |-> start, range |-> 0]
       /\ m' = match_init(start)
  /\ pc' = "match"
  /\ UNCHANGED <<input, comp, fast, ret>>

\* The range of a search: a program that starts with begbuf is tried at one position
\* only.
StartSearch(op, t, start, range) ==
  /\ op \in Ops
  /\ call' = [op |-> op, text |-> t, start |-> start, pos |-> start,
              range |-> IF range > 0 /\ Len(b) > 0 /\ b[1] = begbuf THEN 1 ELSE range]
  /\ UNCHANGED <<input, comp, fast, m>>
  /\ IF range > 0 /\ Len(b) > 0 /\ b[1] = begbuf /\ start > 0
     THEN /\ pc' = "answer"
          /\ ret' = [val |-> -1, op |-> op, text |-> t, start |-> start, pos |-> -1,
                     end |-> -1, regs |-> <<>>]
     ELSE pc' = "search" /\ UNCHANGED ret

re_search_forward ==
  /\ pc = "ready"
  /\ \E t \in input.texts : \E start \in 0 .. Len(t) :
       StartSearch("forward", t, start, Len(t) - start)

re_search_backward ==
  /\ pc = "ready"
  /\ \E t \in input.texts : \E start \in 0 .. Len(t) :
       StartSearch("backward", t, start, -start - 1)

\* The position that the fastmap allows next, in a forward search.
SkipTo == Min({end, call.pos + call.range}
                \cup {i \in call.pos .. end - 1 : T(text[i + 1]) \in fast.map})

\* One position of a search.  A backward search ends at position -1, where nothing
\* matches.
search_step ==
  /\ pc = "search"
  /\ LET skip == call.pos < end /\ ~ fast.can_be_null
         pos == IF skip /\ call.range > 0 THEN SkipTo ELSE call.pos
         range == call.range - (pos - call.pos)
     IN  IF /\ skip /\ call.range <= 0
            /\ call.pos < 0 \/ T(text[call.pos + 1]) \notin fast.map
         THEN advance
         ELSE IF range >= 0 /\ pos = end /\ ~ fast.can_be_null THEN Answer(NoResult(-1))
         ELSE IF pos < 0 THEN advance
         ELSE /\ pc' = "match" /\ call' = [call EXCEPT !.pos = pos, !.range = range]
              /\ m' = match_init(pos)
              /\ UNCHANGED <<input, fast, ret>>
  /\ UNCHANGED comp

\* The stub returns to the program.
re_return == /\ pc = "answer"
             /\ pc' = "ready" /\ ret' = None /\ call' = None
             /\ UNCHANGED <<input, comp, fast, m>>

match_step == \/ match_end \/ match_exactn \/ match_one \/ match_duplicate \/ match_anchor
              \/ match_no_op \/ match_start_memory \/ match_stop_memory
              \/ match_on_failure_keep_string_jump \/ match_on_failure_jump
              \/ match_maybe_pop_jump \/ match_pop_failure_jump \/ match_jump
              \/ match_dummy_failure_jump \/ match_push_dummy_failure
              \/ match_succeed_n \/ match_jump_n \/ match_set_number_at

Call == re_string_match \/ re_search_forward \/ re_search_backward
Work == compile_step \/ compile_finish \/ search_step \/ match_step \/ re_return
Next == Call \/ Work

Spec == Init /\ [][Next]_vars

-----------------------------------------------------------------------------
\* The type invariant: the program is made of bytes, and what the matcher keeps
\* points into the program and the text.
TypeOK ==
  /\ pc \in {"compile", "ready", "search", "match", "answer"}
  /\ \A i \in 1 .. Len(b) : b[i] \in CharSet
  /\ pc = "match" => /\ m.p \in 1 .. pend /\ m.d \in 0 .. end
                     /\ m.low \in 1 .. comp.regnum \cup {NO_LOWEST_ACTIVE_REG}
                     /\ m.high \in 1 .. comp.regnum \cup {NO_HIGHEST_ACTIVE_REG}

Answered(ops) == pc = "answer" /\ ret.op \in ops

\* A match is reported exactly where there is one: re_match_2 answers that there is
\* a match from a position when the expression matches there, and what it gives
\* as its end is the end of a match.  It is the end of the longest one when that
\* reaches the end of the text, or when there are no alternatives.  It never runs
\* out of failure points on a short text: a turn of a loop that matches nothing is
\* the last one.
MatchExact ==
  Answered({"match"}) =>
    LET ends == {w.i : w \in Matches(input, ret.text, ret.start)}
    IN  IF ret.val < 0 THEN ends = {} /\ ret.val # -2
        ELSE /\ ret.end \in ends
             /\ ~ HasAlt(input.expr) \/ Len(ret.text) \in ends => ret.end = Max(ends)

\* The comment at regex.c:3396 ("we want the longest match, try backtracking"), and
\* NEWS ("The longest match was not always chosen", fixed): the match that is
\* reported is the longest one.
LongestMatch ==
  Answered({"match"}) /\ ret.val >= 0 =>
    \A w \in Matches(input, ret.text, ret.start) : w.i <= ret.end

\* The groups that are reported are those of one way to match up to the end that
\* is reported, when the failure points save all the registers that matter.
GroupsConsistent ==
  Answered({"match"}) /\ ret.val >= 0 /\ SavesGroups(input.expr) =>
    \E w \in Matches(input, ret.text, ret.start) : w.i = ret.end /\ w.caps = ret.regs

\* The positions a search goes through where the expression matches, and the
\* better of two of them.
Hits ==
  {i \in (IF ret.op = "forward" THEN ret.start .. Len(ret.text) ELSE 0 .. ret.start) :
     Matches(input, ret.text, i) # {}}
FoundSooner(i, j) == IF ret.op = "forward" THEN i < j ELSE i > j

\* A newline where a match starts, in an expression that may start with a dot too:
\* re_compile_fastmap may have taken the newline out again for the dot.
HiddenNewline(i) ==
  StartsWithDot(input.expr) /\ i < Len(ret.text) /\ ret.text[i + 1] = NL

\* A search finds the first position, or for a backward search the last one, where
\* the expression matches: the fastmap never skips one that is not a hidden newline.
SearchExact ==
  Answered({"forward", "backward"}) =>
    /\ ret.val >= 0 => ret.pos \in Hits
    /\ \A i \in Hits : ~ HiddenNewline(i) => ret.val >= 0 /\ ~ FoundSooner(i, ret.pos)

\* What the comment on re_compile_fastmap says ("records which of the (1 << BYTEWIDTH)
\* possible characters can start a string that matches"), and str.mli of the searches:
\* where the expression matches somewhere, the first such position is found.
FastmapComplete ==
  Answered({"forward", "backward"}) =>
    \A i \in Hits : ret.val >= 0 /\ ~ FoundSooner(i, ret.pos)

\* string_partial_match: where there is no match, a partial match is reported exactly
\* when some longer text would match.
PartialExact ==
  Answered({"match"}) /\ ret.val < 0 /\ input.extensible =>
    (ret.val = -3
       <=> \E t \in Extensions : Matches(input, ret.text \o t, ret.start) # {})

\* pop_failure_jump pops a failure point that is there ("we got through the
\* pattern to here from the matching on_failure_jump").
PopsWhatWasPushed ==
  /\ Executing({pop_failure_jump}) => m.stack # <<>>
  /\ Executing({maybe_pop_jump}) /\ NeverBacktracks(m.p) => m.stack # <<>>

\* A match answers what the semantics of the pattern says, with the groups of
\* one of its ways to match.
MatchSound == TypeOK /\ MatchExact /\ GroupsConsistent

\* A search answers the first position that matches, and a partial match
\* whether the text could be continued to one.
SearchSound == SearchExact /\ PartialExact

=============================================================================

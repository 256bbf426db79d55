---------------------------- MODULE RegexCompile ----------------------------
(***************************************************************************)
(* The compiler of the regular expression library behind Str               *)
(* (otherlibs/str/regex-0.12/regex.c): regex_compile turns a pattern, a    *)
(* sequence of characters, into a program, a sequence of bytes, and        *)
(* re_compile_fastmap computes which characters can start a match.         *)
(*                                                                         *)
(* Characters are their codes.  Addresses in the program count from 1, and *)
(* 0 is the null pointer.  Two syntaxes are covered: RE_SYNTAX_EMACS,      *)
(* which Str uses, and the groups, alternatives, anchors and intervals of  *)
(* RE_SYNTAX_POSIX_EXTENDED.  The program has no maximal size, and there   *)
(* are at most 255 groups.                                                 *)
(***************************************************************************)
EXTENDS Integers, Sequences, SequencesExt, FiniteSetsExt

\* The characters with a meaning in patterns.
NL == 10
DOLLAR == 36
QUOTE == 39
LPAREN == 40
RPAREN == 41
STAR == 42
PLUS == 43
COMMA == 44
DASH == 45
DOT == 46
ZERO == 48
QM == 63
LBRACK == 91
BACKSLASH == 92
RBRACK == 93
HAT == 94
UNDERSCORE == 95
BACKQUOTE == 96
LBRACE == 123
VBAR == 124
RBRACE == 125
Digits == 48 .. 57
Upper == 65 .. 90
Lower == 97 .. 122

\* re_opcode_t.
no_op == 0
exactn == 1
anychar == 2
charset == 3
charset_not == 4
start_memory == 5
stop_memory == 6
duplicate == 7
begline == 8
endline == 9
begbuf == 10
endbuf == 11
jump == 12
jump_past_alt == 13
on_failure_jump == 14
on_failure_keep_string_jump == 15
pop_failure_jump == 16
maybe_pop_jump == 17
dummy_failure_jump == 18
push_dummy_failure == 19
succeed_n == 20
jump_n == 21
set_number_at == 22
wordchar == 23
notwordchar == 24
wordbeg == 25
wordend == 26
wordbound == 27
notwordbound == 28

\* The syntax bits that are set.
EMACS == {}
POSIX_EXTENDED == {"RE_INTERVALS", "RE_NO_BK_BRACES", "RE_NO_BK_PARENS", "RE_NO_BK_VBAR",
                   "RE_CONTEXT_INDEP_ANCHORS", "RE_CONTEXT_INDEP_OPS", "RE_DOT_NEWLINE",
                   "RE_DOT_NOT_NULL", "RE_NO_EMPTY_RANGES",
                   "RE_UNMATCHED_RIGHT_PAREN_ORD"}

BYTEWIDTH == 8
CharSet == 0 .. 2^BYTEWIDTH - 1
RE_DUP_MAX == 2^15 - 1

\* The syntax table: the characters of words.
Sword == Lower \cup Upper \cup Digits \cup {UNDERSCORE}

\* The translation table that Str uses to fold case.
case_fold_table(ch) ==
  IF ch \in Upper \cup 192 .. 214 \cup 216 .. 222 THEN ch + 32 ELSE ch
TRANSLATE(fold, ch) == IF fold THEN case_fold_table(ch) ELSE ch

-----------------------------------------------------------------------------
(* Numbers of two bytes, the second one signed, and the instructions that  *)
(* hold them.                                                              *)

EXTRACT_NUMBER(b, i) ==
  b[i] + 256 * (IF b[i + 1] >= 128 THEN b[i + 1] - 256 ELSE b[i + 1])

STORE_NUMBER(b, i, n) == [b EXCEPT ![i] = n % 256, ![i + 1] = (n \div 256) % 256]

\* Where the jump at loc leads.
JumpTarget(b, loc) == loc + 3 + EXTRACT_NUMBER(b, loc + 1)

store_op1(b, op, loc, arg) == STORE_NUMBER([b EXCEPT ![loc] = op], loc + 1, arg)

store_op2(b, op, loc, arg1, arg2) ==
  STORE_NUMBER(store_op1(b, op, loc, arg1), loc + 3, arg2)

Opened(b, loc, n) == SubSeq(b, 1, loc - 1) \o [i \in 1 .. n |-> 0] \o SubSeq(b, loc, Len(b))

insert_op1(b, op, loc, arg) == store_op1(Opened(b, loc, 3), op, loc, arg)
insert_op2(b, op, loc, arg1, arg2) == store_op2(Opened(b, loc, 5), op, loc, arg1, arg2)

STORE_JUMP(b, op, loc, to) == store_op1(b, op, loc, to - loc - 3)
INSERT_JUMP(b, op, loc, to) == insert_op1(b, op, loc, to - loc - 3)

\* The bitmap of a set of characters, without the zero bytes at its end, and
\* the test of a character against the bitmap whose length is at i.
Bitmap(S) ==
  LET n == IF S = {} THEN 0 ELSE Max(S) \div BYTEWIDTH + 1
  IN  <<n>> \o [i \in 1 .. n |-> MapThenSumSet(LAMBDA k : 2^k,
                    {k \in 0 .. BYTEWIDTH - 1 : BYTEWIDTH * (i - 1) + k \in S})]

InBitmap(b, i, ch) ==
  /\ ch < b[i] * BYTEWIDTH
  /\ (b[i + 1 + ch \div BYTEWIDTH] \div 2^(ch % BYTEWIDTH)) % 2 = 1

-----------------------------------------------------------------------------
(* The state of regex_compile: the pattern and how to read it, the next    *)
(* character, the program so far, the addresses that the code keeps in it, *)
(* the groups that are open, the number of the last group, and the error.  *)

CompileInit(pat, syn, fold) ==
  [pat |-> pat, syn |-> syn, fold |-> fold, p |-> 1, b |-> <<>>, laststart |-> 0,
   begalt |-> 1, fixup_alt_jump |-> 0, pending_exact |-> 0, stack |-> <<>>, regnum |-> 0,
   err |-> "REG_NOERROR"]

End(c) == Len(c.b) + 1
Emit(c, bytes) == [c EXCEPT !.b = @ \o bytes]
Error(c, code) == [c EXCEPT !.err = code]

\* A Caml string is followed by a null character.
PatternAt(c, i) == IF i <= Len(c.pat) THEN c.pat[i] ELSE 0
AtEnd(c) == c.p > Len(c.pat)

RepeatOps == {STAR, PLUS, QM}

\* An ordinary character joins the exactn before it unless a repetition
\* operator, or what may be one, follows.
normal_char(c, ch) ==
  LET alone == \/ c.pending_exact = 0
               \/ c.pending_exact + c.b[c.pending_exact] + 1 # End(c)
               \/ c.b[c.pending_exact] = 2^BYTEWIDTH - 1
               \/ PatternAt(c, c.p) \in RepeatOps \cup {HAT}
               \/ "RE_INTERVALS" \in c.syn /\ PatternAt(c, c.p) = LBRACE
      o == IF alone
           THEN [Emit(c, <<exactn, 0>>) EXCEPT !.laststart = End(c),
                                               !.pending_exact = End(c) + 1]
           ELSE c
  IN  [Emit(o, <<ch>>) EXCEPT !.b[o.pending_exact] = @ + 1]

at_begline_loc_p(c) ==
  LET prev == c.p - 2
      escaped == prev > 1 /\ c.pat[prev - 1] = BACKSLASH
  IN  \/ c.pat[prev] = LPAREN /\ ("RE_NO_BK_PARENS" \in c.syn \/ escaped)
      \/ c.pat[prev] = VBAR /\ ("RE_NO_BK_VBAR" \in c.syn \/ escaped)

at_endline_loc_p(c) ==
  LET Next(ch, bit) == IF bit \in c.syn THEN PatternAt(c, c.p) = ch
                       ELSE PatternAt(c, c.p) = BACKSLASH /\ PatternAt(c, c.p + 1) = ch
  IN  Next(RPAREN, "RE_NO_BK_PARENS") \/ Next(VBAR, "RE_NO_BK_VBAR")

caret(c) ==
  IF c.p = 2 \/ "RE_CONTEXT_INDEP_ANCHORS" \in c.syn \/ at_begline_loc_p(c)
  THEN Emit(c, <<begline>>) ELSE normal_char(c, HAT)

dollar(c) ==
  IF AtEnd(c) \/ "RE_CONTEXT_INDEP_ANCHORS" \in c.syn \/ at_endline_loc_p(c)
  THEN Emit(c, <<endline>>) ELSE normal_char(c, DOLLAR)

\* The end of a loop.
loop_end(c, keep) ==
  IF keep THEN STORE_JUMP(c.b \o <<0, 0, 0>>, jump, End(c), c.laststart)
          ELSE STORE_JUMP(c.b \o <<0, 0, 0>>, maybe_pop_jump, End(c), c.laststart - 3)

\* One or several repetition operators, the first of them ch.
repeat(c, ch) ==
  LET j == CHOOSE j \in c.p .. Len(c.pat) + 1 :
             /\ \A i \in c.p .. j - 1 : c.pat[i] \in RepeatOps
             /\ PatternAt(c, j) \notin RepeatOps
      ops == {ch} \cup {c.pat[i] : i \in c.p .. j - 1}
      zero_times_ok == ops # {PLUS}
      many_times_ok == ops # {QM}
      keep_string_p == /\ many_times_ok /\ zero_times_ok /\ "RE_DOT_NEWLINE" \notin c.syn
                       /\ c.pat[j - 2] = DOT /\ PatternAt(c, j) = NL
      b1 == IF many_times_ok THEN loop_end(c, keep_string_p) ELSE c.b
      b2 == INSERT_JUMP(b1, IF keep_string_p THEN on_failure_keep_string_jump
                            ELSE on_failure_jump, c.laststart, Len(b1) + 1 + 3)
      b3 == IF zero_times_ok THEN b2
            ELSE INSERT_JUMP(b2, dummy_failure_jump, c.laststart, c.laststart + 6)
  IN  IF c.laststart # 0 THEN [c EXCEPT !.p = j, !.b = b3, !.pending_exact = 0]
      ELSE IF "RE_CONTEXT_INDEP_OPS" \in c.syn THEN [c EXCEPT !.p = j]
      ELSE normal_char(c, ch)

-----------------------------------------------------------------------------
(* Bracket expressions.                                                    *)

\* The range that ends at p, after its dash.
compile_range(c, p) ==
  IF p > Len(c.pat) THEN [err |-> "REG_ERANGE", set |-> {}]
  ELSE IF c.pat[p - 2] <= c.pat[p]
  THEN [err |-> "REG_NOERROR",
        set |-> {TRANSLATE(c.fold, x) : x \in c.pat[p - 2] .. c.pat[p]}]
  ELSE [err |-> IF "RE_NO_EMPTY_RANGES" \in c.syn THEN "REG_ERANGE" ELSE "REG_NOERROR",
        set |-> {}]

RECURSIVE list(_, _, _, _)
\* The members of a list that starts at p1, from p on: S is what came before.
list(c, p1, p, S) ==
  LET ch == TRANSLATE(c.fold, c.pat[p])
      q == p + 1
      InRange(r) == LET e == compile_range(c, r)
                  IN  IF e.err # "REG_NOERROR" THEN [err |-> e.err, set |-> S, p |-> r]
                      ELSE list(c, p1, r + 1, S \cup e.set)
  IN  IF p > Len(c.pat) THEN [err |-> "REG_EBRACK", set |-> S, p |-> p]
      ELSE IF ch = RBRACK /\ p # p1 THEN [err |-> "REG_NOERROR", set |-> S, p |-> q]
      ELSE IF /\ ch = DASH /\ c.pat[q - 2] # LBRACK
              /\ ~ (c.pat[q - 3] = LBRACK /\ c.pat[q - 2] = HAT)
              /\ PatternAt(c, q) # RBRACK
      THEN InRange(q)
      ELSE IF PatternAt(c, q) = DASH /\ PatternAt(c, q + 1) # RBRACK THEN InRange(q + 1)
      ELSE list(c, p1, q, S \cup {ch})

bracket(c) ==
  IF AtEnd(c) THEN Error(c, "REG_EBRACK")
  ELSE LET not == c.pat[c.p] = HAT
           p1 == IF not THEN c.p + 1 ELSE c.p
           l == list(c, p1, p1, {})
       IN  [Emit(c, <<IF not THEN charset_not ELSE charset>> \o Bitmap(l.set))
              EXCEPT !.p = l.p, !.err = l.err, !.laststart = End(c)]

-----------------------------------------------------------------------------
(* Groups, alternatives and intervals.                                     *)

handle_open(c) ==
  [Emit(c, <<start_memory, c.regnum + 1, 0>>) EXCEPT
     !.regnum = @ + 1,
     !.stack = Append(@, [begalt |-> c.begalt, fixup_alt_jump |-> c.fixup_alt_jump,
                          laststart |-> End(c), inner_group |-> End(c) + 2,
                          regnum |-> c.regnum + 1]),
     !.fixup_alt_jump = 0, !.laststart = 0, !.begalt = End(c) + 3, !.pending_exact = 0]

\* A dummy failure point ends the alternatives, for a pop_failure_jump to pop.
end_alternatives(c) ==
  IF c.fixup_alt_jump = 0 THEN c
  ELSE [c EXCEPT !.b = STORE_JUMP(Append(@, push_dummy_failure), jump_past_alt,
                                  c.fixup_alt_jump, End(c))]

close_group(c) ==
  LET top == Last(c.stack)
      inner == c.regnum - top.regnum
  IN  [Emit(c, <<stop_memory, top.regnum, inner>>) EXCEPT
         !.b[top.inner_group] = inner, !.stack = Front(@), !.begalt = top.begalt,
         !.fixup_alt_jump = top.fixup_alt_jump, !.laststart = top.laststart,
         !.pending_exact = 0]

handle_close(c) ==
  LET e == end_alternatives(c)
  IN  IF c.stack # <<>> THEN close_group(e)
      ELSE IF "RE_UNMATCHED_RIGHT_PAREN_ORD" \in c.syn THEN normal_char(e, RPAREN)
      ELSE Error(e, "REG_ERPAREN")

handle_alt(c) ==
  LET b1 == INSERT_JUMP(c.b, on_failure_jump, c.begalt, End(c) + 6)
      e == Len(b1) + 1
      b2 == IF c.fixup_alt_jump = 0 THEN b1
            ELSE STORE_JUMP(b1, jump_past_alt, c.fixup_alt_jump, e)
  IN  [c EXCEPT !.b = b2 \o <<0, 0, 0>>, !.fixup_alt_jump = e, !.laststart = 0,
                !.begalt = e + 3, !.pending_exact = 0]

\* The first character from i on that is not a digit, and the number before it.
DigitsEnd(c, i) == CHOOSE j \in i .. Len(c.pat) + 1 :
                     /\ \A k \in i .. j - 1 : c.pat[k] \in Digits
                     /\ PatternAt(c, j) \notin Digits
Number(c, i, j) == FoldLeft(LAMBDA n, d : 10 * n + d - ZERO, 0, SubSeq(c.pat, i, j - 1))

\* The instructions that repeat what starts at l between lower and upper times.
interval_code(b, l, lower, upper) ==
  LET more == IF upper > 1 THEN 5 ELSE 0
      b1 == insert_op2(b, succeed_n, l, Len(b) + 1 + 5 + more - l - 3, lower)
      b2 == insert_op2(b1, set_number_at, l, 5, lower)
      b3 == store_op2(b2 \o <<0, 0, 0, 0, 0>>, jump_n, Len(b2) + 1,
                      l + 5 - (Len(b2) + 1) - 3, upper - 1)
  IN  IF upper = 0 THEN INSERT_JUMP(b, jump, l, Len(b) + 1 + 3)
      ELSE IF upper = 1 THEN b2
      ELSE insert_op2(b3, set_number_at, l, Len(b3) + 1 - l, upper - 1)

\* What is not a valid interval is read again as ordinary characters.
handle_interval(c) ==
  LET e1 == DigitsEnd(c, c.p)
      lower == IF e1 = c.p THEN -1 ELSE Number(c, c.p, e1)
      comma == PatternAt(c, e1) = COMMA
      e2 == IF comma THEN DigitsEnd(c, e1 + 1) ELSE e1
      upper == IF ~ comma THEN lower
               ELSE IF e2 = e1 + 1 THEN RE_DUP_MAX ELSE Number(c, e1 + 1, e2)
      l == IF c.laststart = 0 THEN End(c) ELSE c.laststart
  IN  IF /\ lower >= 0 /\ upper <= RE_DUP_MAX /\ lower <= upper
         /\ PatternAt(c, e2) = RBRACE
      THEN [c EXCEPT !.p = e2 + 1, !.b = interval_code(@, l, lower, upper),
                     !.laststart = l, !.pending_exact = 0]
      ELSE normal_char(c, LBRACE)

\* A back reference inside its own group is an ordinary digit.
group_in_compile_stack(c, n) == \E i \in 1 .. Len(c.stack) : c.stack[i].regnum = n

back_reference(c, ch) ==
  LET n == ch - ZERO
  IN  IF n > c.regnum THEN Error(c, "REG_ESUBREG")
      ELSE IF group_in_compile_stack(c, n) THEN normal_char(c, ch)
      ELSE [Emit(c, <<duplicate, n>>) EXCEPT !.laststart = End(c)]

\* What follows a backslash.
WordOps == [ch \in {60, 62, 98, 66, BACKQUOTE, QUOTE} |->
              CASE ch = 60 -> wordbeg [] ch = 62 -> wordend
                [] ch = 98 -> wordbound [] ch = 66 -> notwordbound
                [] ch = BACKQUOTE -> begbuf [] ch = QUOTE -> endbuf]

escape(c) ==
  IF AtEnd(c) THEN Error(c, "REG_EESCAPE")
  ELSE LET ch == c.pat[c.p]
           n == [c EXCEPT !.p = @ + 1]
       IN  CASE ch = LPAREN /\ "RE_NO_BK_PARENS" \notin c.syn -> handle_open(n)
             [] ch = RPAREN /\ "RE_NO_BK_PARENS" \notin c.syn ->
                  IF c.stack = <<>> THEN Error(n, "REG_ERPAREN") ELSE handle_close(n)
             [] ch = VBAR /\ "RE_NO_BK_VBAR" \notin c.syn -> handle_alt(n)
             [] ch \in {119, 87} ->
                  [Emit(n, <<IF ch = 119 THEN wordchar ELSE notwordchar>>)
                     EXCEPT !.laststart = End(c)]
             [] ch \in DOMAIN WordOps -> Emit(n, <<WordOps[ch]>>)
             [] ch \in Digits \ {ZERO} -> back_reference(n, ch)
             [] OTHER -> normal_char(n, TRANSLATE(c.fold, ch))

-----------------------------------------------------------------------------
\* One turn of the loop of regex_compile, and its end.
compile_char(c) ==
  LET ch == TRANSLATE(c.fold, c.pat[c.p])
      n == [c EXCEPT !.p = @ + 1]
  IN  CASE ch = HAT -> caret(n)
        [] ch = DOLLAR -> dollar(n)
        [] ch \in RepeatOps -> repeat(n, ch)
        [] ch = DOT -> [Emit(n, <<anychar>>) EXCEPT !.laststart = End(c)]
        [] ch = LBRACK -> bracket(n)
        [] ch = LPAREN /\ "RE_NO_BK_PARENS" \in c.syn -> handle_open(n)
        [] ch = RPAREN /\ "RE_NO_BK_PARENS" \in c.syn -> handle_close(n)
        [] ch = VBAR /\ "RE_NO_BK_VBAR" \in c.syn -> handle_alt(n)
        [] ch = LBRACE /\ {"RE_INTERVALS", "RE_NO_BK_BRACES"} \subseteq c.syn ->
             handle_interval(n)
        [] ch = BACKSLASH -> escape(n)
        [] OTHER -> normal_char(n, ch)

compile_end(c) ==
  IF c.stack # <<>> THEN Error(c, "REG_EPAREN")
  ELSE IF c.fixup_alt_jump = 0 THEN c
  ELSE [c EXCEPT !.b = STORE_JUMP(@, jump_past_alt, c.fixup_alt_jump, End(c))]

-----------------------------------------------------------------------------
(* The fastmap: the characters that can start a match, and whether the     *)
(* pattern can match the null string.                                      *)

Jumps == {jump_n, pop_failure_jump, maybe_pop_jump, jump, jump_past_alt,
          dummy_failure_jump}

\* The characters that the instruction at p matches.
Accepted(b, syn, p) ==
  CASE b[p] = exactn -> {b[p + 2]}
    [] b[p] = charset -> {ch \in CharSet : InBitmap(b, p + 1, ch)}
    [] b[p] = charset_not -> {ch \in CharSet : ~ InBitmap(b, p + 1, ch)}
    [] b[p] = wordchar -> Sword
    [] b[p] = notwordchar -> CharSet \ Sword
    [] b[p] = anychar -> IF "RE_DOT_NEWLINE" \in syn THEN CharSet ELSE CharSet \ {NL}

\* Mutated form: the way out of a loop is not followed.
push_failure_none(f, b, to, next) == [f EXCEPT !.p = next]

push_failure(f, b, to, next) ==
  IF to <= Len(b) THEN [f EXCEPT !.p = next, !.stack = Append(@, to)]
  ELSE [f EXCEPT !.p = next, !.can_be_null = TRUE]

\* One instruction; done at a back reference, where the fastmap is given up.
fastmap_op(f, b, syn) ==
  LET p == f.p
      to == JumpTarget(b, p)
  IN  CASE b[p] = duplicate -> [f EXCEPT !.can_be_null = TRUE, !.done = TRUE]
        [] b[p] \in {exactn, charset, charset_not, wordchar, notwordchar, anychar} ->
             [f EXCEPT !.p = Len(b) + 1, !.path_can_be_null = FALSE,
                       !.map = IF b[p] = anychar /\ "RE_DOT_NEWLINE" \notin syn
                               THEN (@ \cup Accepted(b, syn, p)) \ {NL}
                               ELSE @ \cup Accepted(b, syn, p),
                       !.done = b[p] = anychar /\ "RE_DOT_NEWLINE" \in syn /\ f.can_be_null]
        [] b[p] \in Jumps ->
             IF to > p + 3 \/ to > Len(b) \/ b[to] \notin {on_failure_jump, succeed_n}
             THEN [f EXCEPT !.p = to]
             ELSE LET out == JumpTarget(b, to)
                  IN  [f EXCEPT !.p = out,
                                !.stack = IF @ # <<>> /\ Last(@) = out THEN Front(@) ELSE @]
        [] b[p] \in {on_failure_jump, on_failure_keep_string_jump} ->
             push_failure(f, b, to, p + 3)
        [] b[p] = succeed_n ->
             IF EXTRACT_NUMBER(b, p + 3) = 0 THEN push_failure(f, b, to, p + 5)
             ELSE [f EXCEPT !.p = @ + 5]
        [] b[p] = set_number_at -> [f EXCEPT !.p = @ + 5]
        [] b[p] \in {start_memory, stop_memory} -> [f EXCEPT !.p = @ + 3]
        [] OTHER -> [f EXCEPT !.p = @ + 1]

RECURSIVE fastmap_loop(_, _, _)
fastmap_loop(f, b, syn) ==
  IF f.done THEN f
  ELSE IF f.p <= Len(b) THEN fastmap_loop(fastmap_op(f, b, syn), b, syn)
  ELSE IF f.stack = <<>>
  THEN [f EXCEPT !.can_be_null = @ \/ f.path_can_be_null, !.done = TRUE]
  ELSE fastmap_loop([f EXCEPT !.can_be_null = @ \/ f.path_can_be_null,
                              !.path_can_be_null = TRUE,
                              !.p = Last(f.stack), !.stack = Front(@)], b, syn)

re_compile_fastmap(b, syn) ==
  fastmap_loop([p |-> 1, stack |-> <<>>, map |-> {}, can_be_null |-> FALSE,
                path_can_be_null |-> TRUE, done |-> FALSE], b, syn)
=============================================================================

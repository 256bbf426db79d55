---------------------------- MODULE ParseEngine ----------------------------
(***************************************************************************)
(* The parsers ocamlyacc generates, at work: parse_engine and yyparse of   *)
(* illib/stdlib/parsing.ml, on the tables that the generator (YaccOutput)  *)
(* produces for each of the Grammars.                                      *)
(*                                                                         *)
(* One action per local function of parse_engine and per arm of yyparse's  *)
(* loop.  The locals sp, state and errflag of parse_engine are saved in    *)
(* env before every return that yyparse comes back from (save, restore),   *)
(* so they are the fields of env here.  The four stacks of env are one     *)
(* array of cells [s, v, b, e]: state, semantic value, start and end       *)
(* position.  Cells above sp keep what was last written in them.           *)
(*                                                                         *)
(* A semantic action builds the node of its rule from the values it peeks; *)
(* it may instead raise Parse_error or another exception, or first call a  *)
(* parser itself on the same global env, which is what yyparse saves and   *)
(* restores its registers for.  The lexer and the error function may raise *)
(* too.  MaxDetours of these happen in a run.                              *)
(***************************************************************************)
EXTENDS YaccReference

CONSTANTS Grammars,    \* name -> [decls, body, rules, mains, exact, ops]
          MaxTokens,   \* tokens the lexer delivers before it only delivers EOF
          NestedTokens,\* the same for the lexer of a nested call
          InitStack,   \* initial size of the stacks (100 in parsing.ml)
          MaxDetours

ASSUME EngineAssumption ==
  /\ MaxTokens \in Nat /\ InitStack \in Nat \ {0} /\ NestedTokens \in Nat /\ MaxDetours \in Nat

\* The code of the error token.
ERRCODE == 256

VARIABLES gr,       \* the grammar whose tables are in use
          gen,      \* what ocamlyacc made of it; never changes
          pc,       \* label of parse_engine, or arm of yyparse's loop
          env,      \* the global parser_env
          n,        \* register of parse_engine: the rule, or the state to go to
          arg,      \* the value handed to parse_engine, and yyparse's result
          frames,   \* what the yyparse calls in progress will restore
          read,     \* the constructors each of these calls has read
          budget,   \* detours left
          lookahead,\* curr_char in the closure of current_lookahead_fun
          errs,     \* tokens shifted since the error function was called, at most 3
          ghost     \* how the run went: see the properties
vars == << gr, gen, pc, env, n, arg, frames, read, budget, lookahead, errs, ghost >>

T == gen.tables
Level == Len(frames)
Constructors == DOMAIN true_tokens(gen.g)

\* The value of a token: when some constructor of the type has an argument
\* they are all blocks, tagged by their rank, otherwise all are integers.
HasArg(c) == gen.g.symbol_tag[true_tokens(gen.g)[c]]
constructor_descrs(c) ==
  [is_block |-> \E d \in Constructors : HasArg(d), tag |-> c - 1, size |-> IF HasArg(c) THEN 1 ELSE 0]

Leaf(tok) == [rule |-> 0, tok |-> tok, kids |-> << >>, b |-> 0, e |-> 0]
Cell0 == [s |-> 0, v |-> Leaf(0), b |-> 0, e |-> 0]

Init ==
  /\ gr \in DOMAIN Grammars
  /\ gen = ocamlyacc(Grammars[gr].decls, Grammars[gr].body)
  /\ pc = "yyparse"
  /\ env = [stack |-> [i \in 0 .. InitStack - 1 |-> Cell0], stacksize |-> InitStack,
            stackbase |-> 0, curr_char |-> 0, lval |-> Leaf(0), symb_start |-> 0, symb_end |-> 0,
            asp |-> 0, rule_len |-> 0, rule_number |-> 0, sp |-> 0, state |-> 0, errflag |-> 0]
  /\ n = 0
  /\ arg = Leaf(0)
  /\ frames = << >>
  /\ read = << >>
  /\ budget = MaxDetours
  /\ lookahead = -1
  /\ errs = 3
  /\ ghost = [clobbered |-> FALSE, misplaced |-> FALSE, skewed |-> FALSE,
             recovered |-> FALSE, start |-> 0]

-----------------------------------------------------------------------------
(* yyparse. *)

\* The rules make_goal added come after the others: their action is YYexit.
IsEntry(rule) == rule > Len(Grammars[gr].rules)

\* yyparse's prologue; node is what the action that makes the call computes.
Enter(node, start) ==
  /\ frames' = Append(frames, [asp |-> env.asp, sp |-> env.sp, stackbase |-> env.stackbase,
                               state |-> env.state, curr_char |-> env.curr_char,
                               errflag |-> env.errflag, node |-> node])
  /\ read' = Append(read, << >>)
  /\ env' = [env EXCEPT !.stackbase = env.sp + 1, !.curr_char = start]
  /\ pc' = "Start"

yyparse ==
  /\ pc = "yyparse"
  /\ \E start \in DOMAIN Grammars[gr].mains :
       Enter(Leaf(0), start) /\ ghost' = [ghost EXCEPT !.start = start]
  /\ UNCHANGED << gr, gen, n, arg, budget, lookahead, errs >>

\* Mutated form: the base of the stack is not restored.
Restored_base(f) ==
  [env EXCEPT !.asp = f.asp, !.sp = f.sp,
              !.state = f.state, !.curr_char = f.curr_char, !.errflag = f.errflag]

\* The registers come back, but not lval, symb_start, symb_end, rule_len and
\* rule_number.
Restored(f) ==
  [env EXCEPT !.asp = f.asp, !.sp = f.sp, !.stackbase = f.stackbase,
              !.state = f.state, !.curr_char = f.curr_char, !.errflag = f.errflag]

\* The token code of a token: an integer, or the tag of a block without
\* field, is looked up in transl_const, any other tag in transl_block.
transl(tok) ==
  IF tok.is_block /\ tok.size > 0 THEN T.transl_block[tok.tag + 1] ELSE T.transl_const[tok.tag + 1]

is_current_lookahead(tok) == transl(tok) = lookahead

\* The handler of yyparse.  An exception of a nested call is an exception of
\* the action that made it: Parse_error starts the recovery of the caller,
\* any other leaves the caller too.
Leave(how) ==
  LET f == Last(frames)
  IN  /\ env' = Restored(f)
      /\ frames' = Front(frames)
      /\ lookahead' = IF how = "exit" THEN lookahead ELSE env.curr_char
      /\ read' = IF Level = 1 THEN read ELSE Front(read)
      /\ pc' = IF Level = 1 THEN how
               ELSE CASE how = "exit"  -> "Semantic_action_computed"
                      [] how = "error" -> "Error_detected"
                      [] how = "exn"   -> "unwind"
      /\ ghost' = IF Level > 1 /\ how = "error"
                  THEN [ghost EXCEPT !.skewed = @ \/ f.sp > f.asp \/ f.errflag = 3] ELSE ghost

unwind ==
  /\ pc = "unwind"
  /\ Leave("exn")
  /\ UNCHANGED << gr, gen, n, arg, budget, errs >>

\* The lexer or the error function raises Parse_error ("error") or another
\* exception, or a semantic action one that yyparse's loop does not catch.
Exception ==
  /\ budget > 0
  /\ budget' = budget - 1
  /\ \/ pc \in {"Read_token", "Call_error_function"} /\ \E how \in {"error", "exn"} : Leave(how)
     \/ pc = "Compute_semantic_action" /\ ~IsEntry(env.rule_number) /\ Leave("exn")
  /\ UNCHANGED << gr, gen, n, arg, errs >>

\* The lexer: any token, until the end of the input, which then remains.
Eof(c) == gen.g.name[true_tokens(gen.g)[c]] = "EOF"
lexer(input) ==
  {c \in Constructors :
     /\ (input # << >> /\ Eof(Last(input))) => Eof(c)
     /\ Len(input) >= (IF Level = 1 THEN MaxTokens ELSE NestedTokens) => Eof(c)}

\* Mutated form: a constant token leaves the last attribute in lval.
Read_token_stale ==
  /\ pc = "Read_token"
  /\ \E c \in lexer(Last(read)) :
       LET tok == constructor_descrs(c)
           i == Len(Last(read)) + 1
       IN  /\ read' = [read EXCEPT ![Level] = Append(@, c)]
           /\ env' = [env EXCEPT !.symb_start = 2 * i, !.symb_end = 2 * i + 1,
                                 !.curr_char = transl(tok),
                                 !.lval = IF tok.is_block /\ tok.size > 0 THEN Leaf(i) ELSE @]
  /\ pc' = "testshift"
  /\ UNCHANGED << gr, gen, n, arg, frames, budget, lookahead, errs, ghost >>

Read_token ==
  /\ pc = "Read_token"
  /\ \E c \in lexer(Last(read)) :
       LET tok == constructor_descrs(c)
           i == Len(Last(read)) + 1
       IN  /\ read' = [read EXCEPT ![Level] = Append(@, c)]
           /\ env' = [env EXCEPT !.symb_start = 2 * i, !.symb_end = 2 * i + 1,
                                 !.curr_char = transl(tok),
                                 !.lval = IF tok.is_block /\ tok.size > 0 THEN Leaf(i) ELSE Leaf(0)]
  /\ pc' = "testshift"
  /\ UNCHANGED << gr, gen, n, arg, frames, budget, lookahead, errs, ghost >>

Raise_parse_error ==
  /\ pc = "Raise_parse_error"
  /\ Leave("error")
  /\ UNCHANGED << gr, gen, n, arg, budget, errs >>

\* The error function does nothing here: parse_error of the grammar's header.
Call_error_function ==
  /\ pc = "Call_error_function"
  /\ pc' = "Error_detected"
  /\ errs' = IF Level = 1 THEN 0 ELSE errs
  /\ UNCHANGED << gr, gen, env, n, arg, frames, read, budget, lookahead, ghost >>

grow_stacks(then) ==
  /\ env' = [env EXCEPT !.stacksize = 2 * @,
               !.stack = [i \in 0 .. 2 * env.stacksize - 1 |->
                            IF i < env.stacksize THEN @[i] ELSE Cell0]]
  /\ pc' = then
  /\ UNCHANGED << gr, gen, n, arg, frames, read, budget, lookahead, errs, ghost >>

Grow_stacks_1 == pc = "Grow_stacks_1" /\ grow_stacks("push")
Grow_stacks_2 == pc = "Grow_stacks_2" /\ grow_stacks("semantic_action")

peek_val(k) == env.stack[env.asp - k].v

symbol_start ==
  IF env.rule_len > 0 THEN env.stack[env.asp - env.rule_len + 1].b ELSE env.stack[env.asp].e
symbol_end == env.stack[env.asp].e

Node == [rule |-> env.rule_number, tok |-> 0,
         kids |-> [k \in 1 .. env.rule_len |-> peek_val(env.rule_len - k)],
         b |-> symbol_start, e |-> symbol_end]

Compute_semantic_action ==
  /\ pc = "Compute_semantic_action"
  /\ ~IsEntry(env.rule_number)
  /\ arg' = Node
  /\ pc' = "Semantic_action_computed"
  /\ UNCHANGED << gr, gen, env, n, frames, read, budget, lookahead, errs, ghost >>

\* skewed: recovery starts from a cell that does not belong to the stack
\* (an empty rule), or is not started at all (errflag still 3).
Action_raises ==
  /\ pc = "Compute_semantic_action"
  /\ ~IsEntry(env.rule_number)
  /\ budget > 0
  /\ budget' = budget - 1
  /\ ghost' = [ghost EXCEPT !.skewed = @ \/ env.sp > env.asp \/ env.errflag = 3]
  /\ pc' = "Error_detected"
  /\ UNCHANGED << gr, gen, env, n, arg, frames, read, lookahead, errs >>

\* clobbered: the nested call overwrites lval while a token is held back;
\* misplaced: it overwrites positions that the reduction still needs.
Action_parses ==
  /\ pc = "Compute_semantic_action"
  /\ ~IsEntry(env.rule_number)
  /\ budget > 0
  /\ budget' = budget - 1
  /\ ghost' = [ghost EXCEPT !.clobbered = @ \/ env.curr_char >= 0,
                            !.misplaced = @ \/ env.curr_char >= 0 \/ env.asp > env.sp]
  /\ \E start \in DOMAIN Grammars[gr].mains : Enter(Node, start)
  /\ UNCHANGED << gr, gen, n, arg, lookahead, errs >>

YYexit ==
  /\ pc = "Compute_semantic_action"
  /\ IsEntry(env.rule_number)
  /\ arg' = IF Level = 1 THEN peek_val(0) ELSE Last(frames).node
  /\ Leave("exit")
  /\ UNCHANGED << gr, gen, n, budget, errs >>

\* The program, once the parser has returned: no value stays in the stacks.
clear_parser ==
  /\ pc \in {"exit", "error", "exn"}
  /\ env' = [env EXCEPT !.stack = [i \in DOMAIN @ |-> [@[i] EXCEPT !.v = Leaf(0)]], !.lval = Leaf(0)]
  /\ pc' = "cleared"
  /\ UNCHANGED << gr, gen, n, arg, frames, read, budget, lookahead, errs, ghost >>

-----------------------------------------------------------------------------
(* parse_engine. *)

Keep == UNCHANGED << gr, gen, arg, frames, read, budget, lookahead, errs, ghost >>

Start ==
  /\ pc = "Start"
  /\ env' = [env EXCEPT !.state = 0, !.errflag = 0]
  /\ pc' = "loop"
  /\ UNCHANGED n /\ Keep

loop ==
  /\ pc = "loop"
  /\ IF T.defred[env.state] # 0
     THEN n' = T.defred[env.state] /\ pc' = "reduce"
     ELSE /\ pc' = IF env.curr_char >= 0 THEN "testshift" ELSE "Read_token"
          /\ UNCHANGED n
  /\ UNCHANGED env /\ Keep

\* An entry of a packed row or column: there is one when the check agrees.
Entry(base, key) ==
  /\ base # 0
  /\ base + key \in 0 .. T.tablesize
  /\ T.check[base + key] = key

testshift ==
  /\ pc = "testshift"
  /\ LET c == env.curr_char
         n1 == T.sindex[env.state]
         n2 == T.rindex[env.state]
     IN  IF Entry(n1, c) THEN n' = T.table[n1 + c] /\ pc' = "shift"
         ELSE IF Entry(n2, c) THEN n' = T.table[n2 + c] /\ pc' = "reduce"
         ELSE /\ pc' = IF env.errflag > 0 THEN "recover" ELSE "Call_error_function"
              /\ UNCHANGED n
  /\ UNCHANGED env /\ Keep

\* recover, the first time: discard states until one shifts the error token.
\* errflag is set first; it is saved only when the parser goes on.
Error_detected ==
  /\ pc = "Error_detected"
  /\ pc' = "recover"
  /\ ghost' = [ghost EXCEPT !.recovered = @ \/ Level = 1]
  /\ UNCHANGED << gr, gen, env, n, arg, frames, read, budget, lookahead, errs >>

\* Mutated form: two tokens are enough for the next report.
recover_two ==
  /\ pc = "recover"
  /\ IF env.errflag < 2
     THEN env' = [env EXCEPT !.errflag = 2] /\ pc' = "discard"
     ELSE IF env.curr_char = 0
     THEN pc' = "Raise_parse_error" /\ UNCHANGED env
     ELSE env' = [env EXCEPT !.curr_char = -1] /\ pc' = "loop"
  /\ UNCHANGED n /\ Keep

recover ==
  /\ pc = "recover"
  /\ IF env.errflag < 3
     THEN env' = [env EXCEPT !.errflag = 3] /\ pc' = "discard"
     ELSE IF env.curr_char = 0
     THEN pc' = "Raise_parse_error" /\ UNCHANGED env
     ELSE env' = [env EXCEPT !.curr_char = -1] /\ pc' = "loop"
  /\ UNCHANGED n /\ Keep

discard ==
  /\ pc = "discard"
  /\ LET n1 == T.sindex[env.stack[env.sp].s]
     IN  IF Entry(n1, ERRCODE)
         THEN n' = T.table[n1 + ERRCODE] /\ pc' = "shift_recover" /\ UNCHANGED env
         ELSE IF env.sp <= env.stackbase
         THEN pc' = "Raise_parse_error" /\ UNCHANGED << env, n >>
         ELSE env' = [env EXCEPT !.sp = @ - 1] /\ UNCHANGED << pc, n >>
  /\ Keep

shift ==
  /\ pc = "shift"
  /\ env' = [env EXCEPT !.curr_char = -1, !.errflag = IF @ > 0 THEN @ - 1 ELSE 0]
  /\ pc' = "shift_recover"
  /\ errs' = IF Level = 1 /\ errs < 3 THEN errs + 1 ELSE errs
  /\ UNCHANGED << gr, gen, n, arg, frames, read, budget, lookahead, ghost >>

\* Mutated form: the stacks are not grown.
shift_recover_ungrown ==
  /\ pc = "shift_recover"
  /\ env' = [env EXCEPT !.state = n, !.sp = @ + 1]
  /\ pc' = "push"
  /\ UNCHANGED n /\ Keep

shift_recover ==
  /\ pc = "shift_recover"
  /\ env' = [env EXCEPT !.state = n, !.sp = @ + 1]
  /\ pc' = IF env'.sp < env.stacksize THEN "push" ELSE "Grow_stacks_1"
  /\ UNCHANGED n /\ Keep

push ==
  /\ pc = "push"
  /\ env' = [env EXCEPT !.stack[env.sp] = [s |-> env.state, v |-> env.lval,
                                           b |-> env.symb_start, e |-> env.symb_end]]
  /\ pc' = "loop"
  /\ UNCHANGED n /\ Keep

reduce ==
  /\ pc = "reduce"
  /\ LET sp1 == env.sp - T.len[n] + 1
         m == T.lhs[n]
         state1 == env.stack[sp1 - 1].s
         n1 == T.gindex[m]
     IN  /\ env' = [env EXCEPT !.asp = env.sp, !.rule_number = n, !.rule_len = T.len[n], !.sp = sp1,
                      !.state = IF Entry(n1, state1) THEN T.table[n1 + state1] ELSE T.dgoto[m]]
         /\ pc' = IF sp1 < env.stacksize THEN "semantic_action" ELSE "Grow_stacks_2"
  /\ UNCHANGED n /\ Keep

semantic_action ==
  /\ pc = "semantic_action"
  /\ pc' = "Compute_semantic_action"
  /\ UNCHANGED << env, n >> /\ Keep

\* Mutated form: an empty rule keeps the start position found in its cell.
Semantic_action_computed_empty ==
  /\ pc = "Semantic_action_computed"
  /\ LET e == env.stack[env.asp].e
     IN  env' = [env EXCEPT !.stack[env.sp] = [s |-> env.state, v |-> arg, b |-> @.b, e |-> e]]
  /\ pc' = "loop"
  /\ UNCHANGED n /\ Keep

Semantic_action_computed ==
  /\ pc = "Semantic_action_computed"
  /\ LET e == env.stack[env.asp].e
     IN  env' = [env EXCEPT !.stack[env.sp] =
                   [s |-> env.state, v |-> arg,
                    b |-> IF env.sp > env.asp THEN e ELSE @.b, e |-> e]]
  /\ pc' = "loop"
  /\ UNCHANGED n /\ Keep

Done == pc \in {"exit", "error", "exn", "cleared"} /\ UNCHANGED vars

Next ==
  \/ yyparse \/ Read_token \/ Raise_parse_error \/ Call_error_function
  \/ Grow_stacks_1 \/ Grow_stacks_2
  \/ Compute_semantic_action \/ Action_raises \/ Action_parses \/ YYexit
  \/ Exception \/ unwind \/ clear_parser
  \/ Start \/ loop \/ testshift \/ Error_detected \/ recover \/ discard
  \/ shift \/ shift_recover \/ push \/ reduce \/ semantic_action \/ Semantic_action_computed
  \/ Done

Spec == Init /\ [][Next]_vars

-----------------------------------------------------------------------------
(* Properties. *)

Labels == {"yyparse", "Start", "loop", "testshift", "Error_detected", "recover", "discard", "shift",
           "shift_recover", "push", "reduce", "semantic_action", "Semantic_action_computed",
           "Read_token", "Raise_parse_error", "Call_error_function", "Grow_stacks_1", "Grow_stacks_2",
           "Compute_semantic_action", "unwind", "exit", "error", "exn", "cleared"}

\* Type correctness: the registers of the engine stay in range, and the
\* stack pointer is inside the stacks except while they are being grown.
TypeOK ==
  /\ pc \in Labels
  /\ DOMAIN env.stack = 0 .. env.stacksize - 1
  /\ env.sp \in 0 .. env.stacksize
  /\ env.sp = env.stacksize => pc \in {"Grow_stacks_1", "Grow_stacks_2"}
  /\ env.asp \in 0 .. env.stacksize - 1
  /\ env.state \in States(gen.L)
  /\ env.errflag \in 0 .. 3

G == gen.g
Lang == Grammars[gr]
TokenNames == [k \in Constructors |-> G.name[true_tokens(G)[k]]]
Input == [i \in DOMAIN read[1] |-> TokenNames[read[1][i]]]

\* About to leave the outermost parser with a result.
Accepting == pc = "Compute_semantic_action" /\ IsEntry(env.rule_number) /\ Level = 1
\* The tokens the parser has shifted: the last one read may be held back.
Consumed == IF env.curr_char >= 0 THEN Front(Input) ELSE Input
Main == Lang.mains[ghost.start]

\* LookaheadsExact: the lookahead sets lalr.c computes by its digraph
\* traversals are exactly the LALR(1) lookaheads of the grammar.
LookaheadsExact ==
  pc = "yyparse" =>
    UNION {{<< gen.la.rows[k][1], gen.la.rows[k][2], t >> : t \in gen.la.LA[k]} :
             k \in DOMAIN gen.la.rows} = ReferenceLookaheads(G, gen.L)

\* PackedExact: after output.c has laid the rows and columns over one
\* another, the engine's lookups find every action and goto of the parser it
\* was made from, and find none where there is none.
PackedExact ==
  pc = "yyparse" =>
    /\ G.error = ""
    /\ \A q \in States(gen.L), c \in {G.symbol_value[s] : s \in 0 .. G.ntokens - 1} \cup {2, 300} :
         LET live == {a \in ToSet(gen.mp.parser[q]) : a.suppressed = 0 /\ G.symbol_value[a.symbol] = c}
             shifts == {a.number : a \in {b \in live : b.code = "SHIFT"}}
             reds == {a.number - 2 : a \in {b \in live : b.code = "REDUCE" /\ b.number # gen.mp.defred[q]}}
         IN  /\ Entry(T.sindex[q], c) <=> shifts # {}
             /\ Entry(T.sindex[q], c) => T.table[T.sindex[q] + c] \in shifts
             /\ Entry(T.rindex[q], c) <=> reds # {}
             /\ Entry(T.rindex[q], c) => T.table[T.rindex[q] + c] \in reds
    /\ \A t \in ToSet(gen.la.gotos) :
         LET m == G.symbol_value[t.symbol]
         IN  t.to = IF Entry(T.gindex[m], t.from) THEN T.table[T.gindex[m] + t.from] ELSE T.dgoto[m]

\* AcceptsExact: what a generated parser accepts without any error is a
\* sentence of the entry point it was called on.
AcceptsExact ==
  Accepting /\ ~ghost.recovered => Sentence(Lang.rules, Main, Consumed)

\* ErrorsExact: the first syntax error is reported at the earliest token
\* that cannot continue what was read before it, in spite of the default
\* reductions taken without looking at it.
ErrorsExact ==
  pc = "Call_error_function" /\ Level = 1 /\ ~ghost.recovered /\ Lang.exact =>
    /\ ViablePrefix(Lang.rules, Main, Consumed)
    /\ ~ViablePrefix(Lang.rules, Main, Input)

\* LookaheadExact: after an exception of the parser, is_current_lookahead is
\* true of no token but the last one read, whatever parsers the actions ran,
\* and it is true of that one when nothing but the syntax raised Parse_error:
\* a program that skips to the end of the phrase (driver/parse.ml) skips
\* nothing that was not read.
LookaheadExact ==
  pc \in {"error", "exn"} =>
    /\ \A c \in Constructors :
         is_current_lookahead(constructor_descrs(c)) => read[1] # << >> /\ c = Last(read[1])
    /\ pc = "error" /\ budget = MaxDetours => is_current_lookahead(constructor_descrs(Last(read[1])))

\* The number of tokens read once the value v of symbol s, starting after i
\* of them, has been accounted for; -1 when v is not a derivation of them or
\* (with spans) carries a wrong position.  The end position before the first
\* token is left over from the parse before and is not checked.
RECURSIVE Covers(_, _, _, _)
Covers(v, s, i, spans) ==
  LET rhs == Lang.rules[v.rule].rhs
      One(j, k) == IF j < 0 THEN j ELSE Covers(v.kids[k], rhs[k], j, spans)
      upto[k \in 0 .. Len(rhs)] == IF k = 0 THEN i ELSE One(upto[k - 1], k)
      end == upto[Len(rhs)]
      First == IF rhs = << >> THEN 2 * i + 1
               ELSE IF rhs[1] \in Nonterminals(Lang.rules) THEN v.kids[1].b ELSE 2 * (i + 1)
  IN  IF s \notin Nonterminals(Lang.rules)
      THEN IF /\ i < Len(Input) /\ Input[i + 1] = s
              /\ v = Leaf(IF G.symbol_tag[Index(G, s)] THEN i + 1 ELSE 0)
           THEN i + 1 ELSE -1
      ELSE IF ~(/\ v.rule \in DOMAIN Lang.rules
                /\ Lang.rules[v.rule].lhs = s
                /\ Len(v.kids) = Len(rhs)) THEN -1
      ELSE IF spans /\ ~(/\ (end > 0 => v.e = 2 * end + 1)
                         /\ ((i > 0 \/ rhs # << >>) => v.b = First))
      THEN -1 ELSE end

\* TreeFaithful: the value a parse returns is a derivation tree of exactly
\* the tokens it consumed, in order, with the attribute of every token,
\* however often the stacks grew and whatever an action parsed meanwhile --
\* unless an action called a parser while a token was held back: yyparse
\* does not restore lval.
TreeFaithful ==
  Accepting /\ ~ghost.recovered /\ ~ghost.clobbered =>
    Covers(peek_val(0), Main, 0, FALSE) = Len(Consumed)

\* SpansFaithful: and every node's symbol_start and symbol_end are those of
\* the tokens it covers, unless an action called a parser while a token was
\* held back or in a rule of two symbols or more, whose cells it overwrites.
SpansFaithful ==
  Accepting /\ ~ghost.recovered /\ ~ghost.misplaced =>
    Covers(peek_val(0), Main, 0, TRUE) = Len(Consumed)

\* PrecedenceRespected: in an accepted tree no operator has an operand that
\* the %left, %right, %nonassoc and %prec declarations put outside of it.
RECURSIVE Respects(_)
Respects(v) ==
  LET ops == Lang.ops
      Inside(k, assoc) ==
        v.kids[k].rule \in DOMAIN ops /\ ops[v.kids[k].rule].infix =>
          \/ ops[v.kids[k].rule].prec > ops[v.rule].prec
          \/ ops[v.kids[k].rule].prec = ops[v.rule].prec /\ ops[v.rule].assoc = assoc
  IN  /\ v.rule \in DOMAIN ops =>
           /\ ops[v.rule].infix => Inside(1, "LEFT")
           /\ Inside(Len(v.kids), "RIGHT")
      /\ \A k \in DOMAIN v.kids : Respects(v.kids[k])

PrecedenceRespected ==
  Accepting /\ ~ghost.recovered /\ ~ghost.clobbered => Respects(peek_val(0))

\* StackIsPath: whenever the engine is about to look at a token, the states
\* on the stack are a path of the automaton from state 0, also those of the
\* parsers whose actions are being run, so that every goto taken on the way
\* back exists -- unless an action of an empty rule, or one run before three
\* tokens were shifted after an error, raised Parse_error.
Path(from, to) ==
  \A i \in from .. to :
    env.stack[i].s \in ToSet(gen.L.shifts[(IF i = from THEN 0 ELSE env.stack[i - 1].s) + 1])

StackIsPath ==
  pc = "loop" /\ ~ghost.skewed =>
    /\ Path(env.stackbase, env.sp)
    /\ env.state = IF env.sp < env.stackbase THEN 0 ELSE env.stack[env.sp].s
    /\ \A k \in 2 .. Level : Path(frames[k].stackbase, frames[k].sp - 1)

\* ErrorsSpaced: the error function is not called again until three tokens
\* have been shifted after the last call.
ErrorsSpaced == pc = "Call_error_function" /\ Level = 1 => errs = 3

\* The tables say what the grammar says: the lookaheads of every reduction, and
\* the packed vectors every action and every goto.
TablesExact == LookaheadsExact /\ PackedExact

\* The parser accepts the sentences of the grammar and reports an error at the
\* first token that no sentence continues with, which is then the lookahead.
LanguageExact == AcceptsExact /\ ErrorsExact /\ LookaheadExact

\* The value of a parse is a tree of the grammar over the tokens read, each
\* node with its span, grouped as the precedences say.
ValuesFaithful == TreeFaithful /\ SpansFaithful /\ PrecedenceRespected

\* The stack is a path of the automaton, through growth, recovery and nested
\* parses, and errors are reported three shifts apart.
StackSound == TypeOK /\ StackIsPath /\ ErrorsSpaced

=============================================================================

----------------------------- MODULE YaccReader -----------------------------
(***************************************************************************)
(* The front end of ocamlyacc: the symbol table of yacc/symtab.c and the   *)
(* declarations and grammar read by yacc/reader.c, up to the packed        *)
(* grammar (symbols numbered, rules laid end to end in ritem) that lr0.c,  *)
(* lalr.c, mkpar.c and output.c work on.                                   *)
(*                                                                         *)
(* The text is abstracted to the sequence of what the scanner recognises:  *)
(*   a declaration is [kind, tag, names], where kind is the keyword and    *)
(*     names a sequence of <<name, number>> (number: the optional integer  *)
(*     after a token, or UNDEFINED);                                       *)
(*   an item of the grammar section is [kind, name], where kind is "lhs"   *)
(*     (a name followed by a colon), "sym", "action", "bar" or "prec".     *)
(* A bucket's tag is abstracted to whether there is one.  The first fatal  *)
(* error (error.c: done(1)) is kept in the field error, and nothing        *)
(* changes after it.                                                       *)
(***************************************************************************)
EXTENDS Integers, Sequences, SequencesExt

UNDEFINED == -1

make_bucket(name) ==
  [name |-> name, tag |-> FALSE, value |-> UNDEFINED, prec |-> 0,
   class |-> "UNKNOWN", assoc |-> "TOKEN", entry |-> 0, true_token |-> FALSE]

\* The list first_symbol .. last_symbol, in order of creation.
create_symbol_table == << [make_bucket("error") EXCEPT !.class = "TERM"] >>

Find(st, name) == SelectInSeq(st, LAMBDA b : b.name = name)

lookup(st, name) ==
  IF Find(st, name) > 0 THEN st ELSE Append(st, make_bucket(name))

Bucket(st, name) == st[Find(st, name)]

Fail(r, e) == [r EXCEPT !.error = IF @ = "" THEN e ELSE @]

(***************************************************************************)
(* The reader's state: the symbols, the counters prec and entry_counter,   *)
(* the rules (plhs, rprec, rassoc as records of rules 3, 4, ...; pitem as  *)
(* the right-hand side of each), and the rule being read.                  *)
(***************************************************************************)
initialize_grammar ==
  [st |-> create_symbol_table, prec |-> 0, entry_counter |-> 0,
   rules |-> << >>, rule |-> [lhs |-> "", rhs |-> << >>, prec |-> UNDEFINED, assoc |-> "TOKEN"],
   at_first |-> FALSE, last_was_action |-> FALSE, error |-> ""]

declare_tokens(r, d) ==
  LET p == IF d.kind = "TOKEN" THEN r.prec ELSE r.prec + 1
      One(st, nm) ==
        LET s == lookup(st, nm[1])
            b == Bucket(s, nm[1])
        IN  [s EXCEPT ![Find(s, nm[1])] =
               [b EXCEPT
                 !.class = "TERM",
                 !.tag = @ \/ d.tag,
                 !.true_token = @ \/ d.kind = "TOKEN",
                 !.assoc = IF d.kind = "TOKEN" THEN @ ELSE d.kind,
                 !.prec = IF d.kind = "TOKEN" THEN @ ELSE p,
                 !.value = IF nm[2] # UNDEFINED THEN nm[2]
                           ELSE IF nm[1] = "EOF" THEN 0 ELSE @]]
  IN  [r EXCEPT !.prec = p, !.st = FoldLeft(One, @, d.names)]

declare_types(r, d) ==
  LET One(st, nm) ==
        LET s == lookup(st, nm[1]) IN [s EXCEPT ![Find(s, nm[1])].tag = TRUE]
  IN  [r EXCEPT !.st = FoldLeft(One, @, d.names)]

declare_start(r, d) ==
  LET One(q, nm) ==
        LET s == lookup(q.st, nm[1])
            q1 == IF Bucket(s, nm[1]).class = "TERM" THEN Fail(q, "terminal_start") ELSE q
        IN  [q1 EXCEPT !.entry_counter = @ + 1,
                       !.st = [s EXCEPT ![Find(s, nm[1])].entry = q.entry_counter + 1]]
  IN  FoldLeft(One, r, d.names)

read_declarations(decls) ==
  LET One(r, d) ==
        CASE d.kind \in {"TOKEN", "LEFT", "RIGHT", "NONASSOC"} -> declare_tokens(r, d)
          [] d.kind = "TYPE" -> declare_types(r, d)
          [] d.kind = "START" -> declare_start(r, d)
  IN  FoldLeft(One, initialize_grammar, decls)

start_rule(r, name) ==
  LET s == lookup(r.st, name)
      r1 == IF Bucket(s, name).class = "TERM" THEN Fail(r, "terminal_lhs") ELSE r
  IN  [r1 EXCEPT !.st = [s EXCEPT ![Find(s, name)].class = "NONTERM"],
                 !.rule = [lhs |-> name, rhs |-> << >>, prec |-> UNDEFINED, assoc |-> "TOKEN"],
                 !.at_first = TRUE]

end_rule(r) ==
  LET r1 == IF r.last_was_action THEN r ELSE Fail(r, "default_action_error")
  IN  [r1 EXCEPT !.last_was_action = FALSE, !.rules = Append(@, r.rule)]

add_symbol(r, name) ==
  LET r1 == IF r.last_was_action THEN Fail(r, "syntax_error") ELSE r
  IN  [r1 EXCEPT !.st = lookup(@, name), !.rule.rhs = Append(@, name)]

copy_action(r) ==
  IF r.last_was_action THEN Fail(r, "syntax_error")
  ELSE [r EXCEPT !.last_was_action = TRUE]

mark_symbol(r, name) ==
  LET s == lookup(r.st, name)
      b == Bucket(s, name)
  IN  [r EXCEPT !.st = s, !.rule.prec = b.prec, !.rule.assoc = b.assoc]

\* One item of the grammar section.  The first is the left-hand side read by
\* advance_to_start.
read_item(r, it) ==
  LET q == [r EXCEPT !.at_first = FALSE]
  IN  CASE it.kind = "lhs" -> start_rule(IF r.rule.lhs = "" THEN q ELSE end_rule(q), it.name)
        [] it.kind = "sym" -> add_symbol(q, it.name)
        [] it.kind = "action" -> copy_action(q)
        [] it.kind = "prec" -> mark_symbol(q, it.name)
        [] it.kind = "bar" -> IF r.at_first THEN q ELSE start_rule(end_rule(q), r.rule.lhs)

RECURSIVE read_grammar(_, _)
read_grammar(r, body) ==
  IF r.error # "" THEN r
  ELSE IF body = << >> THEN end_rule(r)
  ELSE read_grammar(read_item(r, Head(body)), Tail(body))

\* make_goal names the token of entry n by its octal code.
EntryToken == << "'001'", "'002'", "'003'" >>

\* The rule of entry b, its token in symbol table s.
EntryRule(r, s, b) ==
  [r EXCEPT !.st = [s EXCEPT ![Find(s, EntryToken[b.entry])] = [@ EXCEPT !.class = "TERM", !.value = b.entry % 256]],
            !.rule.rhs = << EntryToken[b.entry], b.name >>,
            !.last_was_action = TRUE]
WithToken(r, b) == EntryRule(r, lookup(r.st, EntryToken[b.entry]), b)
AddEntry(r, b) ==
  IF b.entry = 0 THEN r
  ELSE end_rule(IF b.tag THEN WithToken(start_rule(r, "%entry%"), b)
                ELSE Fail(WithToken(start_rule(r, "%entry%"), b), "entry_without_type"))
GoalFrom(r, s) == FoldLeft(AddEntry, [r EXCEPT !.st = s], s)
make_goal(r) == GoalFrom(r, lookup(r.st, "%entry%"))

check_symbols(r) ==
  LET r1 == IF Bucket(r.st, "%entry%").class = "UNKNOWN" THEN Fail(r, "undefined_goal") ELSE r
  IN  [r1 EXCEPT !.st = [i \in DOMAIN @ |->
         IF @[i].class = "UNKNOWN" THEN [@[i] EXCEPT !.class = "TERM"] ELSE @[i]]]

(***************************************************************************)
(* The packed grammar.  Symbol 0 is $end, tokens are 1 .. ntokens - 1,     *)
(* start_symbol is $accept and the other variables follow; rule 2 is       *)
(* $accept: %entry% $end and the rules read are 3 .. nrules - 1.  ritem    *)
(* holds the right-hand sides end to end, each closed by minus its rule.   *)
(***************************************************************************)
Tokens(st) == SelectSeq(st, LAMBDA b : b.class = "TERM")
Variables(st) ==
  << Bucket(st, "%entry%") >> \o SelectSeq(st, LAMBDA b : b.class # "TERM" /\ b.name # "%entry%")

\* Mutated form: the values the declarations gave are not skipped.
token_values_all(toks) ==
  LET One(acc, b) ==
        IF b.value # UNDEFINED THEN [acc EXCEPT !.vals = Append(@, b.value)]
        ELSE IF b.name = "error" THEN [acc EXCEPT !.vals = Append(@, 256)]
        ELSE [n |-> acc.n + 1, vals |-> Append(acc.vals, acc.n)]
  IN  FoldLeft(One, [n |-> 257, vals |-> << >>], toks).vals

\* The values given to the tokens that have none: 256 for error, then from
\* 257 upwards, skipping the values the declarations gave.
token_values(toks) ==
  LET given == {toks[i].value : i \in DOMAIN toks}
      Free(n) == CHOOSE m \in n .. (n + Len(toks)) : m \notin given /\ \A k \in n .. m - 1 : k \in given
      One(acc, b) ==
        IF b.value # UNDEFINED THEN [acc EXCEPT !.vals = Append(@, b.value)]
        ELSE IF b.name = "error" THEN [acc EXCEPT !.vals = Append(@, 256)]
        ELSE [n |-> Free(acc.n) + 1, vals |-> Append(acc.vals, Free(acc.n))]
  IN  FoldLeft(One, [n |-> 257, vals |-> << >>], toks).vals

pack_symbols(st) ==
  LET toks == Tokens(st)
      vars == Variables(st)
      nt == Len(toks) + 1
      vals == token_values(toks)
      Of(i) == IF i < nt THEN toks[i] ELSE vars[i - nt]
      Proper(i) == i # 0 /\ i # nt
      Syms == 0 .. (nt + Len(vars))
  IN  [ntokens |-> nt, start_symbol |-> nt, nsyms |-> nt + Len(vars) + 1,
       nvars |-> Len(vars) + 1,
       name |-> [i \in Syms |-> IF i = 0 THEN "$end" ELSE IF i = nt THEN "$accept" ELSE Of(i).name],
       symbol_value |-> [i \in Syms |-> IF i = 0 THEN 0 ELSE IF i < nt THEN vals[i] ELSE i - nt - 1],
       symbol_prec |-> [i \in Syms |-> IF Proper(i) THEN Of(i).prec ELSE 0],
       symbol_assoc |-> [i \in Syms |-> IF Proper(i) THEN Of(i).assoc ELSE "TOKEN"],
       symbol_tag |-> [i \in Syms |-> Proper(i) /\ Of(i).tag],
       symbol_true_token |-> [i \in Syms |-> Proper(i) /\ Of(i).true_token]]

Index(y, name) == CHOOSE i \in DOMAIN y.name : y.name[i] = name

pack_grammar(r, y) ==
  LET n == Len(r.rules)
      Rhs(k) == IF k = 2 THEN << y.start_symbol + 1, 0 >>
                ELSE [j \in DOMAIN r.rules[k - 2].rhs |-> Index(y, r.rules[k - 2].rhs[j])]
      laid == FoldLeft(LAMBDA s, k : s \o Rhs(k) \o << -k >>, << -1 >>, [k \in 1 .. n + 1 |-> k + 1])
      start == FoldLeft(LAMBDA s, k : Append(s, s[Len(s)] + Len(Rhs(k)) + 1), << 1 >>,
                        [k \in 1 .. n + 1 |-> k + 1])
      LastTerm(k) == LET ts == SelectSeq(Rhs(k), LAMBDA x : x < y.start_symbol)
                     IN  IF ts = << >> THEN 0 ELSE ts[Len(ts)]
  IN  [nrules |-> n + 3, nitems |-> Len(laid),
       ritem |-> [i \in 0 .. Len(laid) - 1 |-> laid[i + 1]],
       rlhs |-> [k \in 0 .. n + 2 |-> IF k < 2 THEN 0 ELSE IF k = 2 THEN y.start_symbol
                                      ELSE Index(y, r.rules[k - 2].lhs)],
       rrhs |-> [k \in 0 .. n + 3 |-> IF k < 2 THEN 0 ELSE start[k - 1]],
       rprec |-> [k \in 0 .. n + 2 |->
                   IF k < 3 THEN 0 ELSE IF r.rules[k - 2].prec # UNDEFINED THEN r.rules[k - 2].prec
                   ELSE y.symbol_prec[LastTerm(k)]],
       rassoc |-> [k \in 0 .. n + 2 |->
                   IF k < 3 THEN "TOKEN" ELSE IF r.rules[k - 2].prec # UNDEFINED THEN r.rules[k - 2].assoc
                   ELSE y.symbol_assoc[LastTerm(k)]]]

PackAll(r, y, p) ==
  [error |-> r.error, ntokens |-> y.ntokens, start_symbol |-> y.start_symbol,
   nsyms |-> y.nsyms, nvars |-> y.nvars, name |-> y.name, symbol_value |-> y.symbol_value,
   symbol_prec |-> y.symbol_prec, symbol_assoc |-> y.symbol_assoc, symbol_tag |-> y.symbol_tag,
   symbol_true_token |-> y.symbol_true_token,
   nrules |-> p.nrules, nitems |-> p.nitems, ritem |-> p.ritem, rlhs |-> p.rlhs,
   rrhs |-> p.rrhs, rprec |-> p.rprec, rassoc |-> p.rassoc]
PackRules(r, y) == PackAll(r, y, pack_grammar(r, y))
Pack(r) == PackRules(r, pack_symbols(r.st))
reader(decls, body) == Pack(check_symbols(make_goal(read_grammar(read_declarations(decls), body))))
=============================================================================

----------------------------- MODULE YaccOutput -----------------------------
(***************************************************************************)
(* The back end of ocamlyacc: mkpar.c (the parse actions of each state and *)
(* the resolution of conflicts) and output.c (the tables yytable, yycheck, *)
(* yysindex, yyrindex, yygindex, yydefred, yydgoto, yylhs and yylen, with  *)
(* the rows and columns packed over one another).                          *)
(***************************************************************************)
EXTENDS YaccTables

\* An action of a state: on symbol, shift to or reduce by number.
get_shifts(g, L, q) ==
  LET to == SelectSeq(L.shifts[q + 1], LAMBDA t : ~ISVAR(g, accessing_symbol(L, t)))
  IN  [k \in DOMAIN to |->
        LET s == accessing_symbol(L, to[k])
        IN  [symbol |-> s, number |-> to[k], prec |-> g.symbol_prec[s],
             assoc |-> g.symbol_assoc[s], code |-> "SHIFT", suppressed |-> 0]]

\* Sorted by symbol; on a symbol, shifts first and then rules in order.
add_reduce(g, actions, ruleno, symbol) ==
  LET Before(a) == \/ a.symbol < symbol
                   \/ a.symbol = symbol /\ a.code = "SHIFT"
                   \/ a.symbol = symbol /\ a.number < ruleno
      n == Len(SelectSeq(actions, Before))
  IN  InsertAt(actions, n + 1,
        [symbol |-> symbol, number |-> ruleno, prec |-> g.rprec[ruleno],
         assoc |-> g.rassoc[ruleno], code |-> "REDUCE", suppressed |-> 0])

add_reductions(g, la, q, actions) ==
  LET mine == SelectSeq([n \in DOMAIN la.rows |-> n], LAMBDA n : la.rows[n][1] = q)
      OfRow(acts, n) ==
        FoldRight(LAMBDA j, a : add_reduce(g, a, la.rows[n][2], j), Sorted(la.LA[n]), acts)
  IN  FoldLeft(OfRow, actions, mine)

parse_actions(g, L, la, q) == add_reductions(g, la, q, get_shifts(g, L, q))

\* The first state of state 0's successors, from the last, on the goal symbol.
find_final_state(g, L) ==
  LET s == L.shifts[1]
      hit == {k \in DOMAIN s : accessing_symbol(L, s[k]) = g.ritem[1]}
  IN  IF hit = {} THEN s[1] ELSE s[Max(hit)]

\* Mutated forms: %left and %right exchanged; %left taken for %nonassoc.
Prefer_swapped(q, p) ==
  IF q.prec < p.prec \/ (q.prec = p.prec /\ q.assoc = "RIGHT") THEN "REDUCE"
  ELSE IF q.prec > p.prec \/ q.assoc = "LEFT" THEN "SHIFT" ELSE "NEITHER"
Prefer_nonassoc(q, p) ==
  IF q.prec < p.prec THEN "REDUCE"
  ELSE IF q.prec > p.prec \/ q.assoc = "RIGHT" THEN "SHIFT" ELSE "NEITHER"

\* The verdict on shift q and reduction p, both with a precedence.
Prefer(q, p) ==
  IF q.prec < p.prec \/ (q.prec = p.prec /\ q.assoc = "LEFT") THEN "REDUCE"
  ELSE IF q.prec > p.prec \/ q.assoc = "RIGHT" THEN "SHIFT" ELSE "NEITHER"

(***************************************************************************)
(* remove_conflicts, for one state: a scan in which pref is the action     *)
(* preferred so far on the current symbol.                                 *)
(***************************************************************************)
remove_conflicts(acts, final) ==
  LET Suppress(r, i, n) == [r EXCEPT !.acts[i].suppressed = n]
      One(r, i) ==
        LET p == r.acts[i]
            q == r.acts[r.pref]
        IN  IF r.pref = 0 \/ p.symbol # q.symbol THEN [r EXCEPT !.pref = i]
            ELSE IF final /\ p.symbol = 0 THEN [Suppress(r, i, 1) EXCEPT !.SR = @ + 1]
            ELSE IF q.code = "SHIFT"
            THEN IF q.prec > 0 /\ p.prec > 0
                 THEN CASE Prefer(q, p) = "REDUCE" -> [Suppress(r, r.pref, 2) EXCEPT !.pref = i]
                        [] Prefer(q, p) = "SHIFT" -> Suppress(r, i, 2)
                        [] Prefer(q, p) = "NEITHER" -> Suppress(Suppress(r, r.pref, 2), i, 2)
                 ELSE [Suppress(r, i, 1) EXCEPT !.SR = @ + 1]
            ELSE [Suppress(r, i, 1) EXCEPT !.RR = @ + 1]
  IN  FoldLeft(One, [acts |-> acts, pref |-> 0, SR |-> 0, RR |-> 0], [i \in DOMAIN acts |-> i])

\* The rule a state reduces by whatever the token, or 0.
sole_reduction(acts) ==
  LET live == {a \in ToSet(acts) : a.suppressed = 0}
      rules == {a.number : a \in {b \in live : b.code = "REDUCE"}}
  IN  IF /\ \A a \in live : a.code = "REDUCE"
         /\ Cardinality(rules) = 1
         /\ \E a \in live : a.symbol # 1
      THEN CHOOSE k \in rules : TRUE ELSE 0

unused_rules(g, parser) ==
  (3 .. g.nrules - 1) \ {a.number : a \in {b \in UNION {ToSet(parser[q]) : q \in DOMAIN parser} :
                                             b.code = "REDUCE" /\ b.suppressed = 0}}

ParserOf(g, L, resolved, parser) ==
  [parser |-> parser, unused |-> unused_rules(g, parser),
   SRtotal |-> MapThenSumSet(LAMBDA q : resolved[q].SR, States(L)),
   RRtotal |-> MapThenSumSet(LAMBDA q : resolved[q].RR, States(L)),
   defred |-> [q \in States(L) |-> sole_reduction(parser[q])]]
Resolved(g, L, resolved) == ParserOf(g, L, resolved, [q \in States(L) |-> resolved[q].acts])
make_parser(g, L, la) ==
  Resolved(g, L, [q \in States(L) |->
                    remove_conflicts(parse_actions(g, L, la, q), q = find_final_state(g, L))] @@ << >>)

(***************************************************************************)
(* The vectors to pack: for state q, vector q holds its shifts and vector  *)
(* nstates + q its reductions other than the default one (keyed by token   *)
(* value), and vector 2 * nstates + v the gotos of the variable of value v *)
(* other than its default one (keyed by state).  A vector is a sequence of *)
(* pairs <<from, to>>.                                                     *)
(***************************************************************************)
token_actions(g, mp, q, code) ==
  LET mine == SelectSeq(mp.parser[q], LAMBDA a : /\ a.suppressed = 0 /\ a.code = code
                                                 /\ ~(code = "REDUCE" /\ a.number = mp.defred[q]))
  IN  [k \in DOMAIN mine |->
        << g.symbol_value[mine[k].symbol],
           IF code = "SHIFT" THEN mine[k].number ELSE mine[k].number - 2 >>]

\* The commonest target of the gotos on v, the smallest of them on a tie.
default_goto(L, gotos, v) ==
  LET Count(q) == Cardinality({k \in DOMAIN gotos : gotos[k].symbol = v /\ gotos[k].to = q})
      best == {q \in States(L) : \A p \in States(L) : Count(p) <= Count(q)}
  IN  IF \A k \in DOMAIN gotos : gotos[k].symbol # v THEN 0 ELSE Min(best)

save_column(gotos, v, default_state) ==
  LET mine == SelectSeq(gotos, LAMBDA t : t.symbol = v /\ t.to # default_state)
  IN  [k \in DOMAIN mine |-> << mine[k].from, mine[k].to >>]

Vectors(g, L, la, mp) ==
  LET n == nstates(L)
  IN  [i \in 0 .. 2 * n + g.nvars - 1 |->
        IF i < n THEN token_actions(g, mp, i, "SHIFT")
        ELSE IF i < 2 * n THEN token_actions(g, mp, i - n, "REDUCE")
        ELSE IF i = 2 * n + g.nvars - 1 THEN << >>
        ELSE LET v == g.start_symbol + 1 + (i - 2 * n)
             IN  save_column(la.gotos, v, default_goto(L, la.gotos, v))]

tally(v) == Len(v)

\* token_actions starts its maximum at 0, save_column takes first and last.
width(v, column) ==
  LET keys == {v[k][1] : k \in DOMAIN v}
  IN  IF column THEN v[Len(v)][1] - v[1][1] + 1 ELSE Max(keys \cup {0}) - Min(keys) + 1

\* The insertion sort: by decreasing width, then by decreasing tally.
sort_actions(vec, n2) ==
  LET W(i) == width(vec[i], i >= n2)
      One(order, i) ==
        IF tally(vec[i]) = 0 THEN order
        ELSE LET Stays(k) == \/ W(order[k]) > W(i)
                             \/ W(order[k]) = W(i) /\ tally(vec[order[k]]) >= tally(vec[i])
                 j == Max({0} \cup {k \in DOMAIN order : Stays(k)})
             IN  InsertAt(order, j + 1, i)
  IN  FoldLeft(One, << >>, Sorted(DOMAIN vec))

\* An earlier row with the same contents: only the rows just before it with
\* the same width and tally are looked at.
RECURSIVE Matching(_, _, _, _, _)
Matching(vec, order, n2, i, prev) ==
  IF prev = 0 THEN -1
  ELSE LET j == order[prev]
       IN  IF \/ width(vec[j], j >= n2) # width(vec[i], FALSE)
              \/ tally(vec[j]) # tally(vec[i]) THEN -1
           ELSE IF vec[j] = vec[i] THEN j
           ELSE Matching(vec, order, n2, i, prev - 1)

matching_vector(vec, order, n2, n) ==
  IF order[n] >= n2 THEN -1 ELSE Matching(vec, order, n2, order[n], n - 1)

\* Mutated form: two vectors may have the same base.
Place_shared(p, v) ==
  LET first == Min({v[k][1] : k \in DOMAIN v})
      Ok(j) == j # 0 /\ \A k \in DOMAIN v : j + v[k][1] \notin DOMAIN p.check
  IN  CHOOSE j \in p.lowzero - first .. p.high + Len(p.pos) + 2 - first :
        Ok(j) /\ \A i \in p.lowzero - first .. j - 1 : ~Ok(i)

\* The first place where the vector covers only free slots and no other
\* vector is based; 0 is never a base.  p is [table, check, lowzero, high,
\* base, pos]; table and check are functions of the slots in use.
Place(p, v) ==
  LET first == Min({v[k][1] : k \in DOMAIN v})
      Ok(j) == /\ j # 0
               /\ \A k \in DOMAIN v : j + v[k][1] \notin DOMAIN p.check
               /\ j \notin ToSet(p.pos)
  IN  CHOOSE j \in p.lowzero - first .. p.high + Len(p.pos) + 2 - first :
        Ok(j) /\ \A i \in p.lowzero - first .. j - 1 : ~Ok(i)

NextZero(check, z) ==
  CHOOSE y \in z .. z + Cardinality(DOMAIN check) :
    y \notin DOMAIN check /\ \A x \in z .. y - 1 : x \in DOMAIN check

pack_vector(p, v) ==
  LET j == Place(p, v)
      locs == {j + v[k][1] : k \in DOMAIN v}
      At(l) == Max({k \in DOMAIN v : j + v[k][1] = l})
      check == [l \in locs |-> v[At(l)][1]] @@ p.check
  IN  [p EXCEPT !.table = [l \in locs |-> v[At(l)][2]] @@ @,
                !.check = check,
                !.lowzero = NextZero(check, @),
                !.high = Max(locs \cup {@}),
                !.pos = Append(@, j)]

Based(p, i) == [p EXCEPT !.base[i] = Last(p.pos)]
PackOne(p, vec, i, m) ==
  Based(IF m < 0 THEN pack_vector(p, vec[i]) ELSE [p EXCEPT !.pos = Append(@, p.base[m])], i)
PackInOrder(vec, n2, order) ==
  FoldLeft(LAMBDA p, n : PackOne(p, vec, order[n], matching_vector(vec, order, n2, n)),
           [table |-> << >>, check |-> << >>, lowzero |-> 0, high |-> 0,
            base |-> [i \in DOMAIN vec |-> 0], pos |-> << >>],
           [n \in DOMAIN order |-> n])
pack_table(vec, n2) == PackInOrder(vec, n2, sort_actions(vec, n2))

\* output_rule_data and output_yydefred: rule n of the tables is rule n + 2
\* here, and entry 0 stands for $accept.
output_rule_data(g) ==
  [lhs |-> [n \in 0 .. g.nrules - 3 |-> IF n = 0 THEN -1 ELSE g.symbol_value[g.rlhs[n + 2]]],
   len |-> [n \in 0 .. g.nrules - 3 |-> IF n = 0 THEN 2 ELSE g.rrhs[n + 3] - g.rrhs[n + 2] - 1]]

output_yydefred(mp) ==
  [q \in DOMAIN mp.defred |-> IF mp.defred[q] # 0 THEN mp.defred[q] - 2 ELSE 0]

\* The constructors of the type of tokens, in order of declaration.
true_tokens(g) == SelectSeq([i \in 1 .. g.ntokens |-> i - 1], LAMBDA i : g.symbol_true_token[i])

\* The token value of every constructor in the table of its kind, and -666
\* in the other: both tables are indexed by the rank of declaration.
output_transl(g) ==
  LET Tbl(tagged) == [k \in DOMAIN true_tokens(g) |->
                       IF g.symbol_tag[true_tokens(g)[k]] = tagged
                       THEN g.symbol_value[true_tokens(g)[k]] ELSE -666]
  IN  [transl_const |-> Tbl(FALSE), transl_block |-> Tbl(TRUE)]

\* A slot of table or check never filled keeps its initial value.
Slot(f, high, init) == [l \in 0 .. high |-> IF l \in DOMAIN f THEN f[l] ELSE init]

TablesOf(g, L, la, mp, n, p, rd, tr) ==
  [lhs |-> rd.lhs, len |-> rd.len, defred |-> output_yydefred(mp),
   dgoto |-> [v \in 0 .. g.nvars - 2 |-> default_goto(L, la.gotos, g.start_symbol + 1 + v)],
   sindex |-> [q \in 0 .. n - 1 |-> p.base[q]],
   rindex |-> [q \in 0 .. n - 1 |-> p.base[n + q]],
   gindex |-> [v \in 0 .. g.nvars - 2 |-> p.base[2 * n + v]],
   tablesize |-> p.high, table |-> Slot(p.table, p.high, 0), check |-> Slot(p.check, p.high, -1),
   transl_const |-> tr.transl_const, transl_block |-> tr.transl_block]
output(g, L, la, mp) ==
  TablesOf(g, L, la, mp, nstates(L), pack_table(Vectors(g, L, la, mp) @@ << >>, 2 * nstates(L)),
           output_rule_data(g), output_transl(g))

\* The whole generator (main.c).
WithTables(g, L, la, mp) == [g |-> g, L |-> L, la |-> la, mp |-> mp, tables |-> output(g, L, la, mp)]
WithParser(g, L, la) == WithTables(g, L, la, make_parser(g, L, la))
WithAutomaton(g, L) == WithParser(g, L, lalr(g, L))
Generated(g) == WithAutomaton(g, generate_states(g))
ocamlyacc(decls, body) == Generated(reader(decls, body))
=============================================================================

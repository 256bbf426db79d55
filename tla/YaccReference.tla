--------------------------- MODULE YaccReference ---------------------------
(***************************************************************************)
(* What ocamlyacc's tables are supposed to say, defined without its        *)
(* algorithms: the language of a grammar by Earley's recogniser on the     *)
(* rules as written, and the LALR(1) lookaheads as the least fixed point   *)
(* of the propagation of LR(1) lookaheads over the LR(0) automaton.        *)
(* A grammar here is a sequence of rules [lhs, rhs] over symbol names.     *)
(***************************************************************************)
EXTENDS YaccOutput

Nonterminals(rules) == {rules[r].lhs : r \in DOMAIN rules}

(***************************************************************************)
(* Earley.  An item <<r, dot, origin>>; rule 0 is the start: << main >>.   *)
(***************************************************************************)
RhsOf(rules, main, r) == IF r = 0 THEN << main >> ELSE rules[r].rhs
AfterDot(rules, main, it) ==
  LET rhs == RhsOf(rules, main, it[1])
  IN  IF it[2] < Len(rhs) THEN {rhs[it[2] + 1]} ELSE {}

RECURSIVE Saturate(_, _, _, _)
Saturate(rules, main, charts, S) ==
  LET k == Len(charts)
      predicted == UNION {{<< r, 0, k >> : r \in {q \in DOMAIN rules : rules[q].lhs \in AfterDot(rules, main, it)}} : it \in S}
      At(o) == IF o = k THEN S ELSE charts[o + 1]
      completed == UNION {{<< w[1], w[2] + 1, w[3] >> :
                             w \in {x \in At(it[3]) : rules[it[1]].lhs \in AfterDot(rules, main, x)}} :
                           it \in {y \in S : y[1] # 0 /\ AfterDot(rules, main, y) = {}}}
      next == S \cup predicted \cup completed
  IN  IF next = S THEN S ELSE Saturate(rules, main, charts, next)

\* The charts after each of the tokens; an empty chart is a dead end.
Charts(rules, main, toks) ==
  FoldLeft(LAMBDA cs, t :
             Append(cs, Saturate(rules, main, cs,
               {<< it[1], it[2] + 1, it[3] >> : it \in {x \in Last(cs) : t \in AfterDot(rules, main, x)}})),
           << Saturate(rules, main, << >>, {<< 0, 0, 0 >>}) >>, toks)

Sentence(rules, main, toks) == << 0, 1, 0 >> \in Last(Charts(rules, main, toks))
ViablePrefix(rules, main, toks) == Last(Charts(rules, main, toks)) # {}

(***************************************************************************)
(* LALR(1) lookaheads: triples <<state, item, token>>.                     *)
(***************************************************************************)
RuleItems(g, k) == g.rrhs[k] .. g.rrhs[k + 1] - 2
Rules(g) == 2 .. g.nrules - 1

\* Which variables derive the empty string, and the tokens that can begin
\* what a variable derives.
RECURSIVE Empties(_, _)
Empties(g, S) ==
  LET next == S \cup {g.rlhs[k] : k \in {r \in Rules(g) : \A i \in RuleItems(g, r) : g.ritem[i] \in S}}
  IN  IF next = S THEN S ELSE Empties(g, next)

RECURSIVE Firsts(_, _, _)
Firsts(g, E, S) ==
  LET Lead(k) == {i \in RuleItems(g, k) : \A j \in RuleItems(g, k) : j < i => g.ritem[j] \in E}
      Begin(s) == IF ISVAR(g, s) THEN {p[2] : p \in {q \in S : q[1] = s}} ELSE {s}
      next == S \cup UNION {UNION {{<< g.rlhs[k], t >> : t \in Begin(g.ritem[i])} : i \in Lead(k)} : k \in Rules(g)}
  IN  IF next = S THEN S ELSE Firsts(g, E, next)

\* The tokens that can begin what follows item i, when t follows the rule.
RECURSIVE FirstFrom(_, _, _, _, _)
FirstFrom(g, E, F, i, t) ==
  LET s == g.ritem[i]
  IN  IF s < 0 THEN {t}
      ELSE IF ~ISVAR(g, s) THEN {s}
      ELSE {p[2] : p \in {q \in F : q[1] = s}} \cup (IF s \in E THEN FirstFrom(g, E, F, i + 1, t) ELSE {})

RECURSIVE Propagate(_, _, _, _, _)
Propagate(g, L, E, F, S) ==
  LET Over(x) == g.ritem[x[2]]
      closed == UNION {{<< x[1], g.rrhs[k], u >> : k \in {r \in Rules(g) : g.rlhs[r] = Over(x)},
                                                    u \in FirstFrom(g, E, F, x[2] + 1, x[3])} :
                       x \in {y \in S : ISVAR(g, Over(y))}}
      shifted == {<< Shift(L, x[1], Over(x)), x[2] + 1, x[3] >> : x \in {y \in S : Over(y) > 0}}
      next == S \cup closed \cup shifted
  IN  IF next = S THEN S ELSE Propagate(g, L, E, F, next)

ReferenceLookaheads(g, L) ==
  LET E == Empties(g, {})
      S == Propagate(g, L, E, Firsts(g, E, {}), {<< 0, 1, 0 >>})
  IN  {<< x[1], -g.ritem[x[2]], x[3] >> : x \in {y \in S : g.ritem[y[2]] < 0}}
=============================================================================

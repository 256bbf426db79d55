----------------------------- MODULE YaccTables -----------------------------
(***************************************************************************)
(* The table generator of ocamlyacc: closure.c and warshall.c (item sets), *)
(* lr0.c (the LR(0) automaton), lalr.c (LALR(1) lookaheads by the digraph  *)
(* method), mkpar.c (parse actions and conflict resolution) and output.c   *)
(* (the packed tables).  Each operator is one C function; g is the packed  *)
(* grammar of YaccReader, and what the C code keeps in globals is passed   *)
(* along.  Bit vectors are sets.                                           *)
(***************************************************************************)
EXTENDS YaccReader, FiniteSets, FiniteSetsExt, Functions

ISVAR(g, s) == s >= g.start_symbol
Vars(g) == g.start_symbol .. g.nsyms - 1
\* A set of integers in increasing order.
RECURSIVE Sorted(_)
Sorted(S) == IF S = {} THEN << >> ELSE << Min(S) >> \o Sorted(S \ {Min(S)})

derives(g, lhs) == Sorted({i \in 0 .. g.nrules - 1 : g.rlhs[i] = lhs})

(***************************************************************************)
(* warshall.c, on a relation as a set of pairs: row j takes in row i when  *)
(* it holds i, for each i in turn.                                         *)
(***************************************************************************)
transitive_closure(R, order) ==
  FoldLeft(LAMBDA Q, i : Q \cup {<< p[1], q[2] >> : p \in {x \in Q : x[2] = i}, q \in {x \in Q : x[1] = i}},
           R, order)

reflexive_transitive_closure(R, order) ==
  transitive_closure(R, order) \cup {<< v, v >> : v \in ToSet(order)}

\* The variables that can begin what a variable derives, leftmost symbols only.
set_EFF(g) ==
  reflexive_transitive_closure(
    {<< g.rlhs[k], g.ritem[g.rrhs[k]] >> : k \in {r \in 2 .. g.nrules - 1 : ISVAR(g, g.ritem[g.rrhs[r]])}},
    Sorted(Vars(g)))

\* The pairs of a variable and a rule it brings into a closure.
set_first_derives(g) ==
  UNION {{<< e[1], k >> : k \in ToSet(derives(g, e[2]))} : e \in set_EFF(g)}

\* The nucleus and the first items of the rules it brings in, in item order.
closure(g, first_derives, nucleus) ==
  LET next == {g.ritem[c] : c \in ToSet(nucleus)}
      ruleset == {e[2] : e \in {d \in first_derives : d[1] \in next}}
  IN  Sorted(ToSet(nucleus) \cup {g.rrhs[k] : k \in ruleset})

(***************************************************************************)
(* lr0.c.  An automaton is [cores, shifts, reds]: cores is the list of     *)
(* [accessing_symbol, items] in order of number (state i is cores[i + 1]), *)
(* shifts[i + 1] its successors in order of symbol, reds[i + 1] the rules  *)
(* it completes.                                                           *)
(***************************************************************************)
initialize_states(g) ==
  [cores |-> << [accessing_symbol |-> 0, items |-> << g.rrhs[derives(g, g.start_symbol)[1]] >>] >>,
   shifts |-> << >>, reds |-> << >>]

save_reductions(g, itemset) ==
  Sorted({-g.ritem[i] : i \in {j \in ToSet(itemset) : g.ritem[j] < 0}})

\* The kernel of the successor on symbol s: the dot moves over s.
new_itemsets(g, itemset, s) ==
  Sorted({i + 1 : i \in {j \in ToSet(itemset) : g.ritem[j] = s}})

shift_symbols(g, itemset) == Sorted({g.ritem[i] : i \in ToSet(itemset)} \cap 1 .. g.nsyms)

new_state(L, s, kernel) ==
  [L EXCEPT !.cores = Append(@, [accessing_symbol |-> s, items |-> kernel])]

\* The number of the state with that kernel, created when there is none.
get_state(L, s, kernel) ==
  LET known == SelectInSeq(L.cores, LAMBDA c : c.items = kernel)
  IN  IF known > 0 THEN << L, known - 1 >> ELSE << new_state(L, s, kernel), Len(L.cores) >>

append_states(g, L, itemset) ==
  LET One(acc, s) ==
        LET r == get_state(acc.L, s, new_itemsets(g, itemset, s))
        IN  [L |-> r[1], shiftset |-> Append(acc.shiftset, r[2])]
      all == FoldLeft(One, [L |-> L, shiftset |-> << >>], shift_symbols(g, itemset))
  IN  [all.L EXCEPT !.shifts = Append(@, all.shiftset)]

RECURSIVE Generate(_, _, _, _)
Generate(g, first_derives, L, this) ==
  IF this > Len(L.cores) THEN L
  ELSE LET itemset == closure(g, first_derives, L.cores[this].items)
           L1 == [L EXCEPT !.reds = Append(@, save_reductions(g, itemset))]
       IN  Generate(g, first_derives, append_states(g, L1, itemset), this + 1)

generate_states(g) == Generate(g, set_first_derives(g), initialize_states(g), 1)

\* One pass over the items: a rule all of whose symbols are nullable makes
\* its left-hand side nullable; the passes repeat until nothing changes.
RECURSIVE set_nullable(_, _)
set_nullable(g, nullable) ==
  LET Rhs(k) == {g.ritem[i] : i \in g.rrhs[k] .. g.rrhs[k + 1] - 2}
      One(S, k) == IF Rhs(k) \subseteq S THEN S \cup {g.rlhs[k]} ELSE S
      next == FoldLeft(One, nullable, [k \in 1 .. g.nrules - 2 |-> k + 1])
  IN  IF next = nullable THEN nullable ELSE set_nullable(g, next)

(***************************************************************************)
(* lalr.c.                                                                 *)
(***************************************************************************)
accessing_symbol(L, q) == L.cores[q + 1].accessing_symbol
nstates(L) == Len(L.cores)
States(L) == 0 .. nstates(L) - 1

\* The LA rows: one per reduction, those of a state contiguous.
initialize_LA(L) ==
  FoldLeft(LAMBDA s, q : s \o [k \in DOMAIN L.reds[q + 1] |-> << q, L.reds[q + 1][k] >>],
           << >>, [i \in 1 .. nstates(L) |-> i - 1])

\* The gotos, by variable and then by the state they leave: goto k (from 0)
\* is [symbol, from, to].
set_goto_map(g, L) ==
  FoldLeft(LAMBDA s, v :
             LET froms == SelectSeq([i \in 1 .. nstates(L) |-> i - 1],
                            LAMBDA q : \E t \in ToSet(L.shifts[q + 1]) : accessing_symbol(L, t) = v)
             IN  s \o [k \in DOMAIN froms |->
                        [symbol |-> v, from |-> froms[k],
                         to |-> CHOOSE t \in ToSet(L.shifts[froms[k] + 1]) : accessing_symbol(L, t) = v]],
           << >>, Sorted(Vars(g)))

\* goto_map[v]: the number of the first goto on v.
goto_map(gotos, v) == Cardinality({k \in DOMAIN gotos : gotos[k].symbol < v})

\* The binary search between goto_map[symbol] and goto_map[symbol + 1].
RECURSIVE Search(_, _, _, _)
Search(gotos, q, low, high) ==
  LET middle == (low + high) \div 2
      s == gotos[middle + 1].from
  IN  IF s = q THEN middle
      ELSE IF s < q THEN Search(gotos, q, middle + 1, high)
      ELSE Search(gotos, q, low, middle - 1)

map_goto(gotos, q, v) == Search(gotos, q, goto_map(gotos, v), goto_map(gotos, v + 1))

(***************************************************************************)
(* traverse and digraph: F is closed under the relation R by one           *)
(* depth-first search; the vertices of a strongly connected component are  *)
(* popped together and get the same set.  d is [F, INDEX, VERTICES].       *)
(***************************************************************************)
infinity(R) == Cardinality(DOMAIN R) + 2
\* The component of i, from place height of the stack on, is complete.
PopComponent(R, d, i, height, comp) ==
  [F |-> [v \in comp |-> d.F[i]] @@ d.F,
   INDEX |-> [v \in comp |-> infinity(R)] @@ d.INDEX,
   VERTICES |-> SubSeq(d.VERTICES, 1, height - 1)]
Finish(R, d, i, height) ==
  IF d.INDEX[i] # height THEN d
  ELSE PopComponent(R, d, i, height, {d.VERTICES[k] : k \in height .. Len(d.VERTICES)})
\* The edge from i to j, once j has been traversed.
Edge(d, i, j) ==
  [d EXCEPT !.INDEX[i] = IF @ > d.INDEX[j] THEN d.INDEX[j] ELSE @, !.F[i] = @ \cup d.F[j]]
RECURSIVE Edges(_, _, _, _)
RECURSIVE traverse(_, _, _)
Edges(R, d, i, js) ==
  IF js = << >> THEN d
  ELSE Edges(R, Edge(IF d.INDEX[Head(js)] = 0 THEN traverse(R, d, Head(js)) ELSE d, i, Head(js)), i, Tail(js))
Push(d, i) == [d EXCEPT !.VERTICES = Append(@, i), !.INDEX[i] = Len(d.VERTICES) + 1]
traverse(R, d, i) == Finish(R, Edges(R, Push(d, i), i, R[i]), i, Len(d.VERTICES) + 1)

digraph(R, F) ==
  FoldLeft(LAMBDA d, i : IF d.INDEX[i] = 0 /\ R[i] # << >> THEN traverse(R, d, i) ELSE d,
           [F |-> F, INDEX |-> [i \in DOMAIN R |-> 0], VERTICES |-> << >>],
           Sorted(DOMAIN R)).F

\* The tokens each goto reads directly, and through nullable variables.
initialize_F(g, L, gotos, nullable) ==
  LET G == 0 .. Len(gotos) - 1
      Next(i) == [k \in DOMAIN L.shifts[gotos[i + 1].to + 1] |->
                    accessing_symbol(L, L.shifts[gotos[i + 1].to + 1][k])]
      reads == [i \in G |->
                 LET vs == SelectSeq(Next(i), LAMBDA s : ISVAR(g, s) /\ s \in nullable)
                 IN  [k \in DOMAIN vs |-> map_goto(gotos, gotos[i + 1].to, vs[k])]]
      direct == [i \in G |-> {s \in ToSet(Next(i)) : ~ISVAR(g, s)} \cup (IF i = 0 THEN {0} ELSE {})]
  IN  digraph(reads, direct)

\* The state reached from q over one symbol.
Shift(L, q, s) == CHOOSE t \in ToSet(L.shifts[q + 1]) : accessing_symbol(L, t) = s

\* The states passed through when rule k is walked from state q.
Walk(g, L, q, k) ==
  FoldLeft(LAMBDA path, i : Append(path, Shift(L, path[Len(path)], g.ritem[i])),
           << q >>, [j \in 1 .. g.rrhs[k + 1] - g.rrhs[k] - 1 |-> g.rrhs[k] + j - 1])

\* Backwards over the right-hand side while what follows is nullable.
RECURSIVE IncludeEdges(_, _, _, _, _, _)
\* Mutated form: the walk back stops at the last symbol, nullable or not.
IncludeEdges_last(g, gotos, nullable, k, path, length) ==
  LET s == g.ritem[g.rrhs[k] + length - 1]
  IN  IF length = 0 \/ ~ISVAR(g, s) THEN << >> ELSE << map_goto(gotos, path[length], s) >>
IncludeEdges(g, gotos, nullable, k, path, length) ==
  LET s == g.ritem[g.rrhs[k] + length - 1]
  IN  IF length = 0 \/ ~ISVAR(g, s) THEN << >>
      ELSE << map_goto(gotos, path[length], s) >> \o
           (IF s \in nullable THEN IncludeEdges(g, gotos, nullable, k, path, length - 1) ELSE << >>)

\* includes (before it is transposed) and lookback, from one walk over the
\* rules of every goto.
build_relations(g, L, gotos, nullable) ==
  LET G == 0 .. Len(gotos) - 1
      Rules(i) == derives(g, gotos[i + 1].symbol)
      Path(i, k) == Walk(g, L, gotos[i + 1].from, k)
      includes == [i \in G |->
        FlattenSeq([n \in DOMAIN Rules(i) |->
          IncludeEdges(g, gotos, nullable, Rules(i)[n], Path(i, Rules(i)[n]),
                       Len(Path(i, Rules(i)[n])) - 1)])]
  IN  [includes |-> includes,
       lookback |-> UNION {{<< Last(Path(i, k)), k, i >> : k \in ToSet(Rules(i))} : i \in G}]

transpose(R) ==
  [j \in DOMAIN R |->
    FlattenSeq([n \in 1 .. Cardinality(DOMAIN R) |->
                 [k \in DOMAIN SelectSeq(R[n - 1], LAMBDA x : x = j) |-> n - 1]])]

compute_FOLLOWS(includes, F) == digraph(transpose(includes), F)

compute_lookaheads(rows, lookback, F) ==
  [n \in DOMAIN rows |->
    UNION {F[b[3]] : b \in {c \in lookback : << c[1], c[2] >> = rows[n]}}]

\* [rows, LA]: the lookahead set of each reduction.
WithLookaheads(gotos, rows, rel, F) ==
  [gotos |-> gotos, rows |-> rows, LA |-> compute_lookaheads(rows, rel.lookback, compute_FOLLOWS(rel.includes, F))]
Lookaheads(g, L, gotos, nullable) ==
  WithLookaheads(gotos, initialize_LA(L), build_relations(g, L, gotos, nullable), initialize_F(g, L, gotos, nullable))
lalr(g, L) == Lookaheads(g, L, set_goto_map(g, L), set_nullable(g, {}))
=============================================================================

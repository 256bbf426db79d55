--------------------------- MODULE RegexReference ---------------------------
(***************************************************************************)
(* What regular expressions mean, for comparison with the matcher: a       *)
(* syntax tree, its concrete syntax, and the set of all the ways it can    *)
(* match from a position of a text.                                        *)
(***************************************************************************)
EXTENDS RegexCompile

Chr(c) == [k |-> "chr", c |-> c]
AnyChar == [k |-> "any"]
SetOf(neg, S, src) == [k |-> "set", neg |-> neg, s |-> S, src |-> src]
Word(neg) == [k |-> "word", neg |-> neg]
Anchor(c) == [k |-> "anchor", c |-> c]
Grp(e) == [k |-> "grp", e |-> e]
Ref(n) == [k |-> "ref", n |-> n]
Rep(op, e) == [k |-> "rep", op |-> op, e |-> e]
Times(lo, hi, e) == [k |-> "times", lo |-> lo, hi |-> hi, e |-> e]
Cat(l, r) == [k |-> "cat", l |-> l, r |-> r]
Alt(l, r) == [k |-> "alt", l |-> l, r |-> r]

Escaped(syn, bit, c) == IF bit \in syn THEN <<c>> ELSE <<BACKSLASH, c>>

RECURSIVE Unparse(_, _)
Unparse(e, syn) ==
  CASE e.k = "chr" -> IF e.c \in {DOT, STAR} THEN <<BACKSLASH, e.c>> ELSE <<e.c>>
    [] e.k = "any" -> <<DOT>>
    [] e.k = "set" -> (IF e.neg THEN <<LBRACK, HAT>> ELSE <<LBRACK>>) \o e.src \o <<RBRACK>>
    [] e.k = "word" -> <<BACKSLASH, IF e.neg THEN 87 ELSE 119>>
    [] e.k = "anchor" -> IF e.c \in {HAT, DOLLAR} THEN <<e.c>> ELSE <<BACKSLASH, e.c>>
    [] e.k = "grp" -> Escaped(syn, "RE_NO_BK_PARENS", LPAREN) \o Unparse(e.e, syn)
                        \o Escaped(syn, "RE_NO_BK_PARENS", RPAREN)
    [] e.k = "ref" -> <<BACKSLASH, ZERO + e.n>>
    [] e.k = "rep" -> Append(Unparse(e.e, syn), e.op)
    [] e.k = "times" -> Unparse(e.e, syn) \o <<LBRACE, ZERO + e.lo, COMMA, ZERO + e.hi, RBRACE>>
    [] e.k = "cat" -> Unparse(e.l, syn) \o Unparse(e.r, syn)
    [] e.k = "alt" -> Unparse(e.l, syn) \o Escaped(syn, "RE_NO_BK_VBAR", VBAR)
                        \o Unparse(e.r, syn)

RECURSIVE NGroups(_)
NGroups(e) ==
  CASE e.k = "grp" -> 1 + NGroups(e.e)
    [] e.k \in {"rep", "times"} -> NGroups(e.e)
    [] e.k \in {"cat", "alt"} -> NGroups(e.l) + NGroups(e.r)
    [] OTHER -> 0

\* A way to match so far: the position reached and the span of each group.
Way(i, caps) == [i |-> i, caps |-> caps]
Start(e, i) == Way(i, [n \in 1 .. NGroups(e) |-> <<-1, -1>>])

\* What a text, read under a syntax and a case folding, is to an expression.
WordAt(text, i) == i \in 0 .. Len(text) - 1 /\ text[i + 1] \in Sword

AnchorHolds(text, c, i) ==
  CASE c = HAT -> i = 0 \/ text[i] = NL
    [] c = DOLLAR -> i = Len(text) \/ text[i + 1] = NL
    [] c = BACKQUOTE -> i = 0
    [] c = QUOTE -> i = Len(text)
    [] c = 60 -> WordAt(text, i) /\ ~ WordAt(text, i - 1)
    [] c = 62 -> WordAt(text, i - 1) /\ ~ WordAt(text, i)
    [] c = 98 -> i \in {0, Len(text)} \/ WordAt(text, i) # WordAt(text, i - 1)
    [] c = 66 -> i \notin {0, Len(text)} /\ WordAt(text, i) = WordAt(text, i - 1)

CharMatches(inp, e, ch) ==
  LET T(x) == TRANSLATE(inp.fold, x)
  IN  CASE e.k = "chr" -> T(e.c) = T(ch)
        [] e.k = "any" -> "RE_DOT_NEWLINE" \in inp.syn \/ ch # NL
        [] e.k = "set" -> (\E x \in e.s : T(x) = T(ch)) # e.neg
        [] e.k = "word" -> (ch \in Sword) # e.neg

RECURSIVE Ways(_, _, _, _, _), Closure(_, _, _, _, _)
\* The ways to match e, whose first group is the one after g, going on from w.
Ways(inp, text, e, g, w) ==
  CASE e.k \in {"chr", "any", "set", "word"} ->
         IF w.i < Len(text) /\ CharMatches(inp, e, text[w.i + 1])
         THEN {[w EXCEPT !.i = @ + 1]} ELSE {}
    [] e.k = "anchor" -> IF AnchorHolds(text, e.c, w.i) THEN {w} ELSE {}
    [] e.k = "grp" -> {[v EXCEPT !.caps[g + 1] = <<w.i, v.i>>] :
                          v \in Ways(inp, text, e.e, g + 1, w)}
    [] e.k = "ref" ->
         LET c == w.caps[e.n]
             n == c[2] - c[1]
         IN  IF /\ c[1] # -1 /\ w.i + n <= Len(text)
                /\ \A j \in 1 .. n : TRANSLATE(inp.fold, text[c[1] + j])
                                       = TRANSLATE(inp.fold, text[w.i + j])
             THEN {[w EXCEPT !.i = @ + n]} ELSE {}
    [] e.k = "cat" -> UNION {Ways(inp, text, e.r, g + NGroups(e.l), v) :
                                v \in Ways(inp, text, e.l, g, w)}
    [] e.k = "alt" -> Ways(inp, text, e.l, g, w)
                        \cup Ways(inp, text, e.r, g + NGroups(e.l), w)
    [] e.k = "rep" ->
         (IF e.op = PLUS THEN {} ELSE {w})
           \cup (IF e.op = QM THEN Ways(inp, text, e.e, g, w)
                 ELSE Closure(inp, text, e.e, g, Ways(inp, text, e.e, g, w)))
    [] e.k = "times" ->
         LET after[n \in 0 .. e.hi] ==
               IF n = 0 THEN {w}
               ELSE UNION {Ways(inp, text, e.e, g, v) : v \in after[n - 1]}
         IN  UNION {after[n] : n \in e.lo .. e.hi}

Closure(inp, text, e, g, W) ==
  LET more == W \cup UNION {Ways(inp, text, e, g, w) : w \in W}
  IN  IF more = W THEN W ELSE Closure(inp, text, e, g, more)

\* The ways to match a whole expression from position i.
Matches(inp, text, i) == Ways(inp, text, inp.expr, 0, Start(inp.expr, i))

RECURSIVE Nullable(_)
\* Whether an expression can match the empty string somewhere.
Nullable(e) ==
  CASE e.k \in {"anchor", "ref"} -> TRUE
    [] e.k = "grp" -> Nullable(e.e)
    [] e.k = "rep" -> e.op # PLUS \/ Nullable(e.e)
    [] e.k = "times" -> e.lo = 0 \/ Nullable(e.e)
    [] e.k = "cat" -> Nullable(e.l) /\ Nullable(e.r)
    [] e.k = "alt" -> Nullable(e.l) \/ Nullable(e.r)
    [] OTHER -> FALSE

RECURSIVE StartsWithDot(_)
\* Whether a match can start with a character that AnyChar stands for.
StartsWithDot(e) ==
  CASE e.k = "any" -> TRUE
    [] e.k \in {"grp", "rep", "times"} -> StartsWithDot(e.e)
    [] e.k = "cat" -> StartsWithDot(e.l) \/ (Nullable(e.l) /\ StartsWithDot(e.r))
    [] e.k = "alt" -> StartsWithDot(e.l) \/ StartsWithDot(e.r)
    [] OTHER -> FALSE

RECURSIVE HasAlt(_)
HasAlt(e) ==
  CASE e.k = "alt" -> TRUE
    [] e.k \in {"grp", "rep", "times"} -> HasAlt(e.e)
    [] e.k = "cat" -> HasAlt(e.l) \/ HasAlt(e.r)
    [] OTHER -> FALSE

RECURSIVE SavesGroups(_)
\* An expression in which what can be skipped or left has its groups at its start,
\* and the groups that are repeated contain no group that can be skipped.
SavesGroups(e) ==
  CASE e.k = "alt" -> /\ NGroups(e.l) = 0 \/ (e.l.k = "grp" /\ NGroups(e.l) = 1)
                      /\ SavesGroups(e.l) /\ SavesGroups(e.r)
    [] e.k = "cat" -> SavesGroups(e.l) /\ SavesGroups(e.r)
    [] e.k \in {"rep", "times"} -> NGroups(e.e) <= 1
    [] e.k = "grp" -> SavesGroups(e.e)
    [] OTHER -> TRUE
=============================================================================

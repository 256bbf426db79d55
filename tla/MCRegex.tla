------------------------------- MODULE MCRegex -------------------------------
(***************************************************************************)
(* Expressions for RegexMatch: all the small ones over two letters, in the *)
(* syntax of Str, and chosen ones with anchors, back references, sets,     *)
(* intervals and case folding.                                             *)
(***************************************************************************)
EXTENDS RegexReference

CONSTANTS MaxSize,  \* the size of the expressions
          MaxText   \* the length of the texts

a == Chr(97)
bb == Chr(98)

RECURSIVE Exprs(_)
Exprs(n) ==
  IF n = 1 THEN {a, bb, AnyChar}
  ELSE LET E == Exprs(n - 1)
       IN  {Rep(op, e) : op \in {STAR, PLUS, QM},
                         e \in {f \in E : f.k \in {"chr", "any", "grp"}}}
             \cup {Grp(e) : e \in {f \in E : f.k \notin {"grp", "chr", "any"}}}
             \cup UNION {{Cat(l, r) : l \in {f \in Exprs(i) : f.k \notin {"cat", "alt"}},
                                      r \in {f \in Exprs(n - 1 - i) : f.k # "alt"}} :
                            i \in 1 .. n - 2}
             \cup UNION {{Alt(l, r) : l \in {f \in Exprs(i) : f.k # "alt"},
                                      r \in Exprs(n - 1 - i)} :
                            i \in 1 .. n - 2}

SmallExprs == UNION {Exprs(n) : n \in 1 .. MaxSize}

TextsOver(A, n) == UNION {[1 .. i -> A] : i \in 0 .. n}
Str(e, A, n) == [expr |-> e, syn |-> EMACS, fold |-> FALSE, texts |-> TextsOver(A, n),
                 extensible |-> FALSE]
Fold(e, A, n) == [Str(e, A, n) EXCEPT !.fold = TRUE]
Posix(e, A, n) == [Str(e, A, n) EXCEPT !.syn = POSIX_EXTENDED]

aSet(neg) == SetOf(neg, {97}, <<97>>)
abSet(neg) == SetOf(neg, 97 .. 98, <<97, DASH, 98>>)
many(e) == Rep(STAR, e)

\* Anchors, and the loops that keep their position at the end of a line.
AnchorInputs ==
  {Str(e, {97, NL}, 3) : e \in
     {Cat(Anchor(HAT), many(a)), Cat(many(a), Anchor(DOLLAR)), Cat(Anchor(BACKQUOTE), a),
      Cat(a, Anchor(QUOTE)), Cat(Anchor(HAT), Anchor(DOLLAR)),
      Cat(many(AnyChar), Chr(NL)), Cat(many(AnyChar), Cat(Chr(NL), a)),
      Cat(many(Chr(NL)), Anchor(DOLLAR)), Alt(Cat(a, Anchor(DOLLAR)), Chr(NL)),
      Alt(Chr(NL), AnyChar), Alt(Chr(NL), Cat(AnyChar, a)), Alt(AnyChar, Chr(NL)),
      Cat(Rep(QM, Chr(NL)), Cat(AnyChar, a))}}
  \cup {Str(e, {97, 32}, 3) : e \in
     {Cat(Anchor(60), many(AnyChar)), Cat(many(AnyChar), Anchor(62)),
      Cat(Anchor(98), AnyChar), Cat(AnyChar, Cat(Anchor(66), AnyChar)),
      Cat(Rep(PLUS, Word(FALSE)), Word(TRUE)), Cat(many(Word(TRUE)), Word(FALSE))}}

\* Back references.
ReferenceInputs ==
  {Str(Cat(Grp(e), Cat(f, Ref(1))), {97, 98}, 3) :
     e \in {AnyChar, many(a), Alt(a, Cat(a, bb)), many(AnyChar)},
     f \in {Rep(QM, bb), many(AnyChar)}}
  \cup {Str(Cat(many(Grp(e)), Ref(1)), {97, 98}, 3) : e \in {AnyChar, Alt(a, bb)}}

\* Sets of characters, before something that they contain or not.
SetInputs ==
  {Str(Cat(Rep(op, e), f), {97, 98, 99}, 2) :
     op \in {STAR, PLUS, QM}, e \in {aSet(FALSE), aSet(TRUE), abSet(FALSE), abSet(TRUE)},
     f \in {a, bb, Anchor(DOLLAR)}}

\* Intervals, in the other syntax.
IntervalInputs ==
  {Posix(e, {97, 98}, 3) : e \in
     {Times(lo, hi, a) : lo \in 0 .. 2, hi \in 2 .. 3} \cup {Times(0, 0, a), Times(1, 1, a)}
       \cup {Cat(Times(lo, 2, x), a) : lo \in 0 .. 2, x \in {a, AnyChar, aSet(TRUE)}}
       \cup {many(Grp(Cat(Times(1, 2, a), bb))), Alt(Times(0, 1, Grp(a)), Grp(bb))}}

FoldInputs ==
  {Fold(e, {65, 97, 98}, 2) : e \in
     {Chr(65), Cat(many(a), Chr(66)), aSet(FALSE), SetOf(TRUE, {65}, <<65>>),
      Cat(Grp(AnyChar), Ref(1))}}

\* A shorter alternative before a longer one, and a newline before a dot.
LongestInputs == {Str(Alt(a, many(a)), {97, 98}, 3)}
NewlineInputs == {Str(Alt(Chr(NL), AnyChar), {97, NL}, 2)}

MCInputs == {[Str(e, {97, 98}, MaxText) EXCEPT !.extensible = TRUE] : e \in SmallExprs}
              \cup AnchorInputs \cup ReferenceInputs \cup SetInputs \cup IntervalInputs
              \cup FoldInputs

\* An expression of size n matches some text of length n at most, if any.
MCExtensions == TextsOver({97, 98}, MaxSize) \ {<<>>}
=============================================================================

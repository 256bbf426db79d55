--------------------------- MODULE InterpReference ---------------------------
(***************************************************************************)
(* What a lambda term means, without a stack: an evaluator over            *)
(* environments, a store and an output.  Arguments are evaluated from the  *)
(* last to the first, a function after its arguments.  An event may be     *)
(* handled at a poll: when a function is entered by an application, at     *)
(* each iteration of a loop, and at the end of the body of a try, inside   *)
(* of it.  The evaluation is given the number of the poll at which a       *)
(* signal is handled, 0 for none.                                          *)
(*                                                                         *)
(* Values: <<"i", n>>, <<"b", location>>, <<"a", tag>>, <<"d", float>>,    *)
(* <<"l", b, e>>, and <<"f", params, body, env, got>> for a function       *)
(* that already got some arguments.  A result is                           *)
(* [o |-> "val" or "exn" or "exit", v |-> value or <<number, arguments>>,  *)
(*  s |-> state].                                                          *)
(***************************************************************************)
EXTENDS Integers, Sequences

CONSTANT IntBits     \* bits of an integer

Wrap(n) == LET m == n % 2^IntBits IN IF m >= 2^(IntBits - 1) THEN m - 2^IntBits ELSE m
I(n) == <<"i", Wrap(n)>>
UnitV == <<"i", 0>>
BoolV(b) == IF b THEN <<"i", 1>> ELSE <<"i", 0>>

Ok(v, s) == [o |-> "val", v |-> v, s |-> s]
Raises(v, s) == [o |-> "exn", v |-> v, s |-> s]

NewCell(s, tag, f) == [s EXCEPT !.store = Append(@, [tag |-> tag, f |-> f])]
AllocV(s, tag, f) == Ok(<<"b", Len(s.store) + 1>>, NewCell(s, tag, f))
Contents(s, v) == s.store[v[2]]
StoreAt(s, v, i, w) == [s EXCEPT !.store[v[2]].f[i] = w]
RaiseNew(s, f) == Raises(<<"b", Len(s.store) + 1>>, NewCell(s, 0, f))
PredefExn(k) == <<"i", 11 + k>>

\* Variables are cells of the store, so that they can be assigned.
LookupVar(x, env) == env[CHOOSE i \in 1..Len(env) : /\ env[i][1] = x
                                                     /\ \A j \in 1..(i - 1) : env[j][1] # x][2]
RECURSIVE BindAll(_, _, _, _)
BindAll(ids, vs, env, s) ==   \* [env, s]
    IF ids = <<>> THEN [env |-> env, s |-> s]
    ELSE BindAll(Tail(ids), Tail(vs), <<<<Head(ids), Len(s.cells) + 1>>>> \o env,
                 [s EXCEPT !.cells = Append(@, Head(vs))])

Bits(n) == n % 2^IntBits
RECURSIVE BitOp(_, _, _, _)
BitOp(op, a, b, k) ==
    IF k = 0 THEN 0
    ELSE LET x == a % 2
             y == b % 2
             z == CASE op = "andint" -> IF x = 1 /\ y = 1 THEN 1 ELSE 0
                    [] op = "orint"  -> IF x = 1 \/ y = 1 THEN 1 ELSE 0
                    [] op = "xorint" -> IF x # y THEN 1 ELSE 0
         IN  z + 2 * BitOp(op, a \div 2, b \div 2, k - 1)

AbsV(n) == IF n < 0 THEN -n ELSE n
DivZ(a, b) == IF (a < 0) = (b < 0) THEN AbsV(a) \div AbsV(b) ELSE -(AbsV(a) \div AbsV(b))

ArithV(op, a, b) ==
    CASE op = "addint" -> I(a + b)
      [] op = "subint" -> I(a - b)
      [] op = "mulint" -> I(a * b)
      [] op = "divint" -> I(DivZ(a, b))
      [] op = "modint" -> I(a - b * DivZ(a, b))
      [] op \in {"andint", "orint", "xorint"} -> I(BitOp(op, Bits(a), Bits(b), IntBits))
      [] op = "lslint" -> I(a * 2^b)
      [] op = "lsrint" -> I(Bits(a) \div 2^b)
      [] op = "asrint" -> I(a \div 2^b)
      [] op = "isout"  -> BoolV(~(0 <= b /\ b <= a))
ArithOps == {"addint", "subint", "mulint", "divint", "modint", "andint", "orint", "xorint",
             "lslint", "lsrint", "asrint", "isout"}

CompareV(c, v, w) ==
    CASE c = "=" -> v = w [] c = "#" -> v # w [] c = "<" -> v[2] < w[2] [] c = "<=" -> v[2] <= w[2]
      [] c = ">" -> v[2] > w[2] [] c = ">=" -> v[2] >= w[2]

RECURSIVE Evaluation(_), EvalArgs(_, _, _), Apply(_, _, _), WhileMore(_, _, _), For(_, _, _, _, _),
          Decls(_, _, _, _)

Eval(e, env, s) == Evaluation(<<e, env, s>>)
Bound(x, b) == Eval(b, x.env, x.s)

\* A poll: the signal is handled here if this is its number.
Polled(s) == IF s.polls = s.at /\ s.handler # UnitV THEN Apply(s.handler, <<I(1)>>, s) ELSE Ok(UnitV, s)
Poll(s) == Polled([s EXCEPT !.polls = @ + 1])

\* The function is entered with its arguments, after the poll p.
CallAfter(p, f, args) == IF p.o # "val" THEN p ELSE Apply(f, args, p.s)
Call(f, args, s) == CallAfter(Poll(s), f, args)

\* The result r of a body, given back at the depth of the call, and applied to
\* the arguments that are left.
Return(r, rest) == IF r.o # "val" \/ rest = <<>> THEN r ELSE Apply(r.v, rest, r.s)
AtDepth(r, d) == [r EXCEPT !.s.depth = d]
ApplyAll(f, got, n, s) ==
    IF Len(got) < n THEN Ok([f EXCEPT ![5] = got], s)
    ELSE IF s.depth >= s.maxdepth THEN RaiseNew(s, <<PredefExn(2)>>)
    ELSE Return(AtDepth(Bound(BindAll(f[2], SubSeq(got, 1, n), f[4], [s EXCEPT !.depth = @ + 1]), f[3]),
                        s.depth),
                SubSeq(got, n + 1, Len(got)))
Apply(f, args, s) == ApplyAll(f, f[5] \o args, Len(f[2]), s)

\* The values of a list of terms, the last term first (by halves).
Front(q, vs) == IF q.o # "val" THEN q ELSE [q EXCEPT !.v = @ \o vs]
EvalFront(r, l, env) == IF r.o # "val" THEN r ELSE Front(EvalArgs(l, env, r.s), r.v)
AsList(r) == IF r.o # "val" THEN r ELSE [r EXCEPT !.v = <<@>>]
EvalArgs(l, env, s) ==
    LET h == Len(l) \div 2
    IN  IF l = <<>> THEN Ok(<<>>, s)
        ELSE IF Len(l) = 1 THEN AsList(Eval(l[1], env, s))
        ELSE EvalFront(EvalArgs(SubSeq(l, h + 1, Len(l)), env, s), SubSeq(l, 1, h), env)

\* A loop: while its body b yields a value, the rest.
BodyAfter(p, e, env) == IF p.o # "val" THEN p ELSE Eval(e, env, p.s)
WhileBody(c, e, env) ==
    IF c.o # "val" THEN c
    ELSE IF c.v = <<"i", 0>> THEN Ok(UnitV, c.s)
    ELSE WhileMore(BodyAfter(Poll(c.s), e[3], env), e, env)
WhileMore(b, e, env) == IF b.o # "val" THEN b ELSE WhileBody(Eval(e[2], env, b.s), e, env)
While(e, env, s) == WhileMore(Ok(UnitV, s), e, env)

ForBody(p, e, i, env) ==
    LET x == BindAll(<<e[2]>>, <<I(i)>>, env, p.s) IN IF p.o # "val" THEN p ELSE Eval(e[6], x.env, x.s)
For(b, e, i, stop, env) ==
    IF b.o # "val" THEN b
    ELSE IF (e[5] = "upto" /\ i > stop) \/ (e[5] = "downto" /\ i < stop) THEN Ok(UnitV, b.s)
    ELSE For(ForBody(Poll(b.s), e, i, env), e, IF e[5] = "upto" THEN i + 1 ELSE i - 1, stop, env)

\* The primitives, on values.
AsResult(r) == AllocV(r.s, IF r.o = "exn" THEN 1 ELSE 0, <<r.v>>)
Prim(p, k, a, s) ==
    CASE p \in ArithOps -> IF p \in {"divint", "modint"} /\ a[2] = I(0)
                           THEN RaiseNew(s, <<PredefExn(1)>>)
                           ELSE Ok(ArithV(p, a[1][2], a[2][2]), s)
      [] p = "negint"    -> Ok(I(-a[1][2]), s)
      [] p = "offsetint" -> Ok(I(a[1][2] + k), s)
      [] p = "offsetref" -> Ok(UnitV, StoreAt(s, a[1], 1, I(Contents(s, a[1]).f[1][2] + k)))
      [] p = "intcomp"   -> Ok(BoolV(CompareV(k, a[1], a[2])), s)
      [] p = "not"       -> Ok(BoolV(a[1] = <<"i", 0>>), s)
      [] p = "ignore"    -> Ok(UnitV, s)
      [] p = "isint"     -> Ok(BoolV(a[1][1] = "i"), s)
      [] p = "raise"     -> Raises(a[1], s)
      [] p = "makeblock" -> IF a = <<>> THEN Ok(<<"a", k>>, s) ELSE AllocV(s, k, a)
      [] p = "getfield"  -> Ok(Contents(s, a[1]).f[k + 1], s)
      [] p = "setfield"  -> Ok(UnitV, StoreAt(s, a[1], k + 1, a[2]))
      [] p = "vectlength" -> Ok(I(Len(Contents(s, a[1]).f)), s)
      [] p = "getvectitem" -> Ok(Contents(s, a[1]).f[a[2][2] + 1], s)
      [] p = "setvectitem" -> Ok(UnitV, StoreAt(s, a[1], a[2][2] + 1, a[3]))
      [] p = "create_string" -> AllocV(s, 252, [i \in 1..a[1][2] |-> <<"y", 0>>] \o <<>>)
      [] p = "getstringchar" -> Ok(I(Contents(s, a[1]).f[a[2][2] + 1][2]), s)
      [] p = "setstringchar" -> Ok(UnitV, StoreAt(s, a[1], a[2][2] + 1, <<"y", a[3][2] % 256>>))
      [] p = "float_of_int" -> Ok(<<"d", a[1][2]>>, s)
      [] p = "makefloatblock" -> AllocV(s, 254, a)
      [] p = "getfloatfield" -> Ok(Contents(s, a[1]).f[k + 1], s)
      [] p = "setfloatfield" -> Ok(UnitV, StoreAt(s, a[1], k + 1, a[2]))
      [] p = "getglobal" -> Ok(s.globals[k + 1], s)
      [] p = "setglobal" -> Ok(UnitV, [s EXCEPT !.globals[k + 1] = a[1]])
      [] p = "realloc_global" ->
             Ok(UnitV, [s EXCEPT !.globals = @ \o [i \in 1..a[1][2] |-> UnitV]])
      [] p = "print"     -> Ok(UnitV, [s EXCEPT !.out = Append(@, a[1][2])])
      [] p = "failwith"  -> RaiseNew(s, <<PredefExn(0), a[1]>>)
      [] p = "not_found" -> RaiseNew(s, <<PredefExn(3)>>)
      [] p = "register_named_value" -> Ok(UnitV, [s EXCEPT !.named = <<<<a[1], a[2]>>>> \o @])
      [] p = "named_value" ->
             Ok(IF \E i \in 1..Len(s.named) : s.named[i][1] = a[1]
                THEN LookupVar(a[1], s.named) ELSE UnitV, s)
      [] p = "install_signal_handler" -> Ok(UnitV, [s EXCEPT !.handler = Contents(s, a[2]).f[1]])
      [] p = "callback"  -> Call(a[1], Tail(a), s)
      [] p = "callback_exn" ->
             AsResult(Call(a[1], Tail(a), s))

Decls(decl, i, env, s) ==
    IF i > Len(decl) THEN Ok(UnitV, s)
    ELSE LET r == Eval(decl[i][2], env, s)
         IN  IF r.o # "val" THEN r
             ELSE LET loc == r.s.cells[LookupVar(decl[i][1], env)][2]
                  IN  Decls(decl, i + 1, env,
                            [r.s EXCEPT !.store[loc] = Contents(r.s, r.v)])

\* The end of a try: it is polled, and an exception goes to the handler.
EndAfter(q, v) == IF q.o = "val" THEN Ok(v, q.s) ELSE q
TryEnd(r) == IF r.o # "val" THEN r ELSE EndAfter(Poll(r.s), r.v)
Handled(r, e, env, depth) ==
    IF r.o # "exn" THEN r
    ELSE Bound(BindAll(<<e[3]>>, <<r.v>>, env, [r.s EXCEPT !.depth = depth]), e[4])

\* What is done with the result r of a part of the term e: a value goes on in
\* Then, by the form of e; an exception or an exit is the result of e.
Chosen(e, r) == CASE r.v[1] = "i" -> e[3][r.v[2] + 1]
                  [] r.v[1] = "a" -> e[4][r.v[2] + 1]
                  [] r.v[1] = "b" -> e[4][Contents(r.s, r.v).tag + 1]
True(v) == v # <<"i", 0>>
Method(a) == LET tbl == Contents(a.s, a.v[2]).f[1]
             IN  Contents(a.s, Contents(a.s, tbl).f[a.v[1][2] + 1]).f[a.v[1][3] + 1]
Then(r, e, env) ==
    CASE e[1] = "let"    -> Bound(BindAll(<<e[2]>>, <<r.v>>, env, r.s), e[4])
      [] e[1] = "if"     -> Eval(IF True(r.v) THEN e[3] ELSE e[4], env, r.s)
      [] e[1] = "seq"    -> Eval(e[3], env, r.s)
      [] e[1] = "switch" -> Eval(Chosen(e, r), env, r.s)
      [] e[1] = "assign" -> Ok(UnitV, [r.s EXCEPT !.cells[LookupVar(e[2], env)] = r.v])
      [] e[1] = "apply"  -> Call(r.v[1], Tail(r.v), r.s)
      [] e[1] = "send"   -> Call(Method(r), Tail(r.v), r.s)
      [] e[1] = "for"    -> For(Ok(UnitV, r.s), e, r.v[2][2], r.v[1][2], env)
      [] e[1] = "exit"   -> [r EXCEPT !.o = "exit", !.v = <<e[2], @>>]
      [] e[1] = "prim" /\ e[2] \in {"sequand", "sequor"} ->
             IF True(r.v) = (e[2] = "sequand") THEN Eval(e[4][2], env, r.s) ELSE r
      [] e[1] = "prim" /\ e[2] \notin {"sequand", "sequor"} -> Prim(e[2], e[3], r.v, r.s)
After(r, e, env) == IF r.o = "val" THEN Then(r, e, env) ELSE r

Caught(r, e, env) ==
    IF r.o = "exit" /\ r.v[1] = e[3] THEN Bound(BindAll(e[4], r.v[2], env, r.s), e[5]) ELSE r

\* let rec of functions: the cells of the variables hold the functions; of
\* values: they hold blocks that are filled one after the other.
RecFunctions(x, e, s) ==
    Eval(e[3], x.env,
         [x.s EXCEPT !.cells = [c \in 1..Len(@) |->
                                  IF c <= Len(s.cells) THEN @[c]
                                  ELSE LET f == e[2][c - Len(s.cells)][2]
                                       IN  <<"f", f[2], f[3], x.env, <<>>>>] \o <<>>])
RecBody(d, e, env) == IF d.o = "val" THEN Eval(e[3], env, d.s) ELSE d
RecValues(x, e) ==
    RecBody(Decls(e[2], 1, x.env,
                  [x.s EXCEPT !.store = @ \o [i \in 1..Len(e[2]) |-> [tag |-> 0, f |-> <<>>]]]), e, x.env)
RecEnv(e, env, s) == BindAll([i \in 1..Len(e[2]) |-> e[2][i][1]],
                             [i \in 1..Len(e[2]) |-> <<"b", Len(s.store) + i>>], env, s)

\* The result of evaluating e in the environment env and the state s.
Evaluation(t) ==
    LET e == t[1]
        env == t[2]
        s == t[3]
    IN  CASE e[1] = "var"   -> Ok(s.cells[LookupVar(e[2], env)], s)
          [] e[1] = "const" -> Ok(I(e[2]), s)
          [] e[1] = "lab"   -> Ok(<<"l", e[2], e[3]>>, s)
          [] e[1] = "fun"   -> Ok(<<"f", e[2], e[3], env, <<>>>>, s)
          [] e[1] \in {"let", "assign"} -> After(Eval(e[3], env, s), e, env)
          [] e[1] \in {"if", "seq", "switch"} -> After(Eval(e[2], env, s), e, env)
          [] e[1] = "apply" -> After(EvalArgs(<<e[2]>> \o e[3], env, s), e, env)
          [] e[1] = "send"  -> After(EvalArgs(<<e[2], e[3]>> \o e[4], env, s), e, env)
          [] e[1] = "for"   -> After(EvalArgs(<<e[4], e[3]>>, env, s), e, env)
          [] e[1] = "exit"  -> After(EvalArgs(e[3], env, s), e, env)
          [] e[1] = "prim" /\ e[2] \in {"sequand", "sequor"} -> After(Eval(e[4][1], env, s), e, env)
          [] e[1] = "prim" /\ e[2] \notin {"sequand", "sequor"} -> After(EvalArgs(e[4], env, s), e, env)
          [] e[1] = "letrec" -> IF \A i \in 1..Len(e[2]) : e[2][i][2][1] = "fun"
                                THEN RecFunctions(RecEnv(e, env, s), e, s)
                                ELSE RecValues(RecEnv(e, env, s), e)
          [] e[1] = "while" -> While(e, env, s)
          [] e[1] = "catch" -> Caught(Eval(e[2], env, s), e, env)
          [] e[1] = "try"   -> Handled(TryEnd(Eval(e[2], env, s)), e, env, s.depth)

\* A value as it can be seen from outside.
RECURSIVE ObserveV(_, _)
ObserveV(v, s) ==
    CASE v[1] = "b" -> LET c == Contents(s, v)
                       IN  <<"block", c.tag, [i \in 1..Len(c.f) |-> ObserveV(c.f[i], s)] \o <<>>>>
      [] v[1] = "f" -> <<"fun">>
      [] OTHER      -> v

Start(at, nglobals, maxdepth) ==
    [store |-> <<>>, cells |-> <<>>, out |-> <<>>, polls |-> 0, at |-> at, handler |-> UnitV,
     named |-> <<>>, depth |-> 0, maxdepth |-> maxdepth,
     globals |-> [i \in 1..nglobals |-> IF i < 5 THEN PredefExn(i - 1) ELSE UnitV] \o <<>>]

\* The outcome of a program when the signal is handled at poll at, and the
\* stack overflows at the nested call after maxdepth.
Seen(r) == [o |-> r.o, v |-> ObserveV(r.v, r.s), out |-> r.s.out, polls |-> r.s.polls]
Outcome(e, at, nglobals, maxdepth) == Seen(Eval(e, <<>>, Start(at, nglobals, maxdepth)))
=============================================================================

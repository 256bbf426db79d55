------------------------------- MODULE Bytegen -------------------------------
(***************************************************************************)
(* The compilation of lambda terms to the instructions of the abstract     *)
(* machine: bytecomp/bytegen.ml (terms to lists of instructions, written   *)
(* from the continuation backwards) and bytecomp/emitcode.ml (peephole     *)
(* rewriting and the resolution of labels).                                *)
(*                                                                         *)
(* A term, an instruction and a machine word are tuples headed by their    *)
(* constructor.  Addresses in the code count instructions, not words.      *)
(* Idents are strings; debugging events and structured constants are left  *)
(* out.  The counter of labels, the stack of functions that remain to     *)
(* be compiled and max_stack_used are threaded through as                  *)
(* s = [l |-> counter, f |-> functions_to_compile, m |-> max_stack_used].  *)
(***************************************************************************)
EXTENDS Integers, Sequences

\* Config.stack_threshold: the stack space every function may use unchecked.
CONSTANT StackThreshold

Unit == <<"const", 0>>

RECURSIVE IdentSeq(_)
IdentSeq(S) == IF S = {} THEN <<>>
               ELSE LET x == CHOOSE x \in S : TRUE IN <<x>> \o IdentSeq(S \ {x})

Elems(s) == {s[i] : i \in 1..Len(s)}

\* Lambda.free_variables.
RECURSIVE free_variables(_)
free_variables(e) ==
    LET all(s) == UNION {free_variables(s[i]) : i \in 1..Len(s)}
    IN  CASE e[1] = "var"    -> {e[2]}
          [] e[1] = "apply"  -> free_variables(e[2]) \cup all(e[3])
          [] e[1] = "fun"    -> free_variables(e[3]) \ Elems(e[2])
          [] e[1] = "let"    -> (free_variables(e[3]) \cup free_variables(e[4])) \ {e[2]}
          [] e[1] = "letrec" ->
                 (free_variables(e[3]) \cup UNION {free_variables(e[2][i][2]) : i \in 1..Len(e[2])})
                   \ {e[2][i][1] : i \in 1..Len(e[2])}
          [] e[1] = "prim"   -> all(e[4])
          [] e[1] = "switch" -> free_variables(e[2]) \cup all(e[3]) \cup all(e[4])
          [] e[1] = "exit"   -> all(e[3])
          [] e[1] = "catch"  -> (free_variables(e[2]) \cup free_variables(e[5])) \ Elems(e[4])
          [] e[1] = "try"    -> (free_variables(e[2]) \cup free_variables(e[4])) \ {e[3]}
          [] e[1] \in {"if", "seq", "while"} -> all(Tail(e))
          [] e[1] = "for"    -> all(<<e[3], e[4], e[6]>>) \ {e[2]}
          [] e[1] = "assign" -> {e[2]} \cup free_variables(e[3])
          [] e[1] = "send"   -> all(<<e[2], e[3]>> \o e[4])
          [] OTHER           -> {}

-----------------------------------------------------------------------------
(* Compilation environments: association lists, the latest entry first.    *)

Has(x, l) == \E i \in 1..Len(l) : l[i][1] = x
Find(x, l) == LET i == CHOOSE i \in 1..Len(l) : /\ l[i][1] = x
                                                 /\ \A j \in 1..(i - 1) : l[j][1] # x
              IN  l[i]

add_var(id, pos, env) == [env EXCEPT !.stack = <<<<id, pos>>>> \o @]

RECURSIVE add_vars(_, _, _)
add_vars(ids, pos, env) ==
    IF ids = <<>> THEN env ELSE add_vars(Tail(ids), pos + 1, add_var(Head(ids), pos, env))

-----------------------------------------------------------------------------
(* Examination of the continuation.                                        *)

Op(c) == IF c = <<>> THEN "end" ELSE c[1][1]
WithLabel(s) == [s EXCEPT !.l = @ + 1]

\* A label for the beginning of cont: [l, c, s].
label_code(c, s) ==
    IF Op(c) \in {"branch", "label"} THEN [l |-> c[1][2], c |-> c, s |-> s]
    ELSE [l |-> s.l + 1, c |-> <<<<"label", s.l + 1>>>> \o c, s |-> WithLabel(s)]

RECURSIVE make_branch_2(_, _, _, _, _)
make_branch_2(lbl, n, cont, c, s) ==
    CASE Op(c) = "return" -> [b |-> <<"return", n + c[1][2]>>, c |-> cont, s |-> s]
      [] Op(c) = "label"  -> make_branch_2(lbl, n, cont, Tail(c), s)
      [] Op(c) = "pop"    -> make_branch_2(lbl, n + c[1][2], cont, Tail(c), s)
      [] OTHER -> IF lbl # 0 THEN [b |-> <<"branch", lbl>>, c |-> cont, s |-> s]
                  ELSE [b |-> <<"branch", s.l + 1>>,
                        c |-> <<<<"label", s.l + 1>>>> \o cont, s |-> WithLabel(s)]

\* An instruction that does what cont does: [b, c, s].
make_branch(c, s) ==
    IF Op(c) \in {"branch", "return", "raise"} THEN [b |-> c[1], c |-> c, s |-> s]
    ELSE make_branch_2(IF Op(c) = "label" THEN c[1][2] ELSE 0, 0, c, c, s)

branch_to(lbl, c) ==
    IF Op(c) = "label" /\ c[1][2] = lbl THEN c ELSE <<<<"branch", lbl>>>> \o c

RECURSIVE discard_dead_code(_)
discard_dead_code(c) ==
    IF Op(c) \in {"end", "label", "restart", "setglobal"} THEN c ELSE discard_dead_code(Tail(c))

RECURSIVE is_tailcall(_)
is_tailcall(c) == \/ Op(c) = "return"
                  \/ Op(c) \in {"label", "pop"} /\ is_tailcall(Tail(c))

RECURSIVE add_pop(_, _)
add_pop(n, c) ==
    CASE n = 0            -> c
      [] Op(c) = "pop"    -> add_pop(n + c[1][2], Tail(c))
      [] Op(c) = "return" -> <<<<"return", n + c[1][2]>>>> \o Tail(c)
      [] Op(c) = "raise"  -> c
      [] OTHER            -> <<<<"pop", n>>>> \o c

add_const_unit(c) ==
    IF Op(c) \in {"acc", "const", "getglobal", "push_retaddr"} THEN c ELSE <<Unit>> \o c

RECURSIVE push_dummies(_, _)
push_dummies(n, c) == IF n = 0 THEN c ELSE <<Unit, <<"push">>>> \o push_dummies(n - 1, c)

\* The size of the block that a term of a "let rec" builds.
RECURSIVE size_of_lambda(_)
size_of_lambda(e) ==
    CASE e[1] = "fun"  -> 1 + Len(IdentSeq(free_variables(e)))
      [] e[1] = "prim" -> Len(e[4])
      [] e[1] \in {"let", "letrec", "seq"} -> size_of_lambda(e[Len(e)])

\* Primitives that are one instruction with the primitive's own operand; the
\* others are C functions.
Inline == {"makeblock", "getfield", "setfield", "getglobal", "setglobal", "intcomp",
           "negint", "addint", "subint", "mulint", "divint", "modint", "andint", "orint",
           "xorint", "lslint", "lsrint", "asrint", "offsetint", "offsetref", "isint", "isout",
           "vectlength", "getvectitem", "setvectitem", "getstringchar", "setstringchar",
           "makefloatblock", "getfloatfield", "setfloatfield"}

comp_primitive(e) ==
    CASE e[2] = "makeblock"      -> <<"makeblock", Len(e[4]), e[3]>>
      [] e[2] = "makefloatblock" -> <<"makefloatblock", Len(e[4])>>
      [] e[2] \in Inline         -> <<e[2], e[3]>>
      [] OTHER                   -> <<"ccall", e[2], Len(e[4])>>

commute_comparison(c) ==
    CASE c = "<" -> ">" [] c = ">" -> "<" [] c = "<=" -> ">=" [] c = ">=" -> "<=" [] OTHER -> c
negate_comparison(c) ==
    CASE c = "=" -> "#" [] c = "#" -> "=" [] c = "<" -> ">=" [] c = ">=" -> "<"
      [] c = ">" -> "<=" [] c = "<=" -> ">"

-----------------------------------------------------------------------------
(* comp_expr(env, e, sz, cont, s) = [c |-> code, s |-> s'].                *)

R(c, s) == [c |-> c, s |-> s]
Cons(i, r) == [r EXCEPT !.c = <<i>> \o @]
Vars(ids) == [i \in 1..Len(ids) |-> <<"var", ids[i]>>]
Reversed(q) == [i \in 1..Len(q) |-> q[Len(q) + 1 - i]]

RECURSIVE Translation(_), comp_expr_list(_, _, _, _, _),
          comp_expr_list_assign(_, _, _, _, _, _), comp_binary_test(_, _, _, _, _, _, _),
          comp_decl(_, _, _, _, _, _), comp_acts(_, _, _, _, _, _)

\* (The continuation, which is compiled before, is evaluated before.)
comp_expr(env, e, sz, cont, s) ==
    IF Len(cont) >= 0 /\ s.l >= 0 THEN Translation(<<env, e, sz, cont, s>>) ELSE R(cont, s)

comp_args(env, argl, sz, cont, s) == comp_expr_list(env, Reversed(argl), sz, cont, s)

\* (By halves, the second half first, which gives the same code.)
comp_expr_list(env, l, sz, cont, s) ==
    LET h == Len(l) \div 2
        r == comp_expr_list(env, SubSeq(l, h + 1, Len(l)), sz + h, cont, s)
    IN  IF l = <<>> THEN R(cont, s)
        ELSE IF Len(l) = 1 THEN comp_expr(env, l[1], sz, cont, s)
        ELSE IF r.s.l < s.l THEN r
        ELSE comp_expr_list(env, SubSeq(l, 1, h), sz, <<<<"push">>>> \o r.c, r.s)

comp_expr_list_assign(env, l, sz, pos, cont, s) ==
    IF l = <<>> THEN R(cont, s)
    ELSE LET r == comp_expr_list_assign(env, Tail(l), sz, pos - 1, cont, s)
         IN  comp_expr(env, l[1], sz, <<<<"assign", sz - pos>>>> \o r.c, r.s)

comp_var(env, id, sz) ==
    CASE Has(id, env.stack) -> <<"acc", sz - Find(id, env.stack)[2]>>
      [] Has(id, env.heap)  -> <<"envacc", Find(id, env.heap)[2]>>
      [] Has(id, env.rec)   -> <<"offsetclosure", Find(id, env.rec)[2]>>

\* An application whose function is left in the accumulator by fn, n words
\* having been pushed for the arguments by pushing(sz, rest).
comp_apply(env, func, args, sz, cont, s) ==
    LET n == Len(args)
        ap(z, r, i) ==
            LET f == comp_expr(env, func, z + n, <<i>> \o r.c, r.s)
            IN  comp_args(env, args, z, <<<<"push">>>> \o f.c, f.s)
    IN  IF is_tailcall(cont)
        THEN ap(sz, R(discard_dead_code(cont), s), <<"appterm", n, sz + n>>)
        ELSE IF n < 4 THEN ap(sz, R(cont, s), <<"apply", n>>)
        ELSE LET l == label_code(cont, s)
             IN  Cons(<<"push_retaddr", l.l>>, ap(sz + 3, l, <<"apply", n>>))

comp_send(env, args, sz, cont, s) ==
    LET n == Len(args) - 1
        ap(z, r, i) == comp_args(env, args, z, <<<<"getmethod">>, i>> \o r.c, r.s)
    IN  IF is_tailcall(cont)
        THEN ap(sz, R(discard_dead_code(cont), s), <<"appterm", n, sz + n>>)
        ELSE IF n < 4 THEN ap(sz, R(cont, s), <<"apply", n>>)
        ELSE LET l == label_code(cont, s)
             IN  Cons(<<"push_retaddr", l.l>>, ap(sz + 3, l, <<"apply", n>>))

\* Function bodies are put aside on the stack functions_to_compile.
ToCompile(f, lbl, fv, ndefs, recs, pos) ==
    [params |-> f[2], body |-> f[3], label |-> lbl, free_vars |-> fv,
     num_defs |-> ndefs, rec_vars |-> recs, rec_pos |-> pos]

comp_closure(env, e, sz, cont, s) ==
    LET fv == IdentSeq(free_variables(e))
        s1 == [WithLabel(s) EXCEPT !.f = <<ToCompile(e, s.l + 1, fv, 1, <<>>, 0)>> \o @]
    IN  comp_args(env, Vars(fv), sz, <<<<"closure", s.l + 1, Len(fv)>>>> \o cont, s1)

comp_letrec_funs(env, e, sz, cont, s) ==
    LET decl == e[2]
        n == Len(decl)
        fv == IdentSeq(free_variables(<<"letrec", decl, Unit>>))
        ids == [i \in 1..n |-> decl[i][1]]
        tc == [i \in 1..n |-> ToCompile(decl[i][2], s.l + i, fv, n, ids, i - 1)]
        s1 == [s EXCEPT !.l = @ + n, !.f = Reversed(tc) \o @]
        b == comp_expr(add_vars(ids, sz + 1, env), e[3], sz + n, add_pop(n, cont), s1)
    IN  comp_args(env, Vars(fv), sz,
                  <<<<"closurerec", [i \in 1..n |-> s.l + i], Len(fv)>>>> \o b.c, b.s)

comp_decl(env, e, sz, i, cont, s) ==
    IF i = 0 THEN comp_expr(env, e[3], sz, add_pop(Len(e[2]), cont), s)
    ELSE LET r == comp_decl(env, e, sz, i - 1, cont, s)
         IN  comp_expr(env, e[2][Len(e[2]) + 1 - i][2], sz,
                       <<<<"push">>, <<"acc", i>>, <<"ccall", "update_dummy", 2>>>> \o r.c, r.s)

comp_letrec_values(env, e, sz, cont, s) ==
    LET n == Len(e[2])
        ids == [i \in 1..n |-> e[2][i][1]]
        r == comp_decl(add_vars(ids, sz + 1, env), e, sz + n, n, cont, s)
        RECURSIVE init(_)
        init(i) == IF i > n THEN r.c
                   ELSE <<<<"const", size_of_lambda(e[2][i][2])>>,
                          <<"ccall", "alloc_dummy", 1>>, <<"push">>>> \o init(i + 1)
    IN  R(init(1), r.s)

\* Psequand (and TRUE) and Psequor (and FALSE), by the branch that follows.
comp_sequ(env, e1, e2, and, sz, cont, s) ==
    LET stop == IF and THEN "branchifnot" ELSE "branchif"
        go == IF and THEN "branchif" ELSE "branchifnot"
    IN  IF Op(cont) = stop
        THEN LET r == comp_expr(env, e2, sz, cont, s)
             IN  comp_expr(env, e1, sz, <<<<stop, cont[1][2]>>>> \o r.c, r.s)
        ELSE IF Op(cont) = go
        THEN LET l == label_code(Tail(cont), s)
                 r == comp_expr(env, e2, sz, <<cont[1]>> \o l.c, l.s)
             IN  comp_expr(env, e1, sz, <<<<stop, l.l>>>> \o r.c, r.s)
        ELSE LET l == label_code(cont, s)
                 r == comp_expr(env, e2, sz, l.c, l.s)
             IN  comp_expr(env, e1, sz, <<<<IF and THEN "strictbranchifnot" ELSE "strictbranchif", l.l>>>> \o r.c, r.s)

comp_prim(env, e, sz, cont, s) ==
    LET p == e[2]
        a == e[4]
    IN  CASE p = "ignore" -> comp_expr(env, a[1], sz, add_const_unit(cont), s)
          [] p = "not" ->
                 comp_expr(env, a[1], sz,
                     CASE Op(cont) = "branchif"    -> <<<<"branchifnot", cont[1][2]>>>> \o Tail(cont)
                       [] Op(cont) = "branchifnot" -> <<<<"branchif", cont[1][2]>>>> \o Tail(cont)
                       [] OTHER                    -> <<<<"boolnot">>>> \o cont, s)
          [] p = "sequand" -> comp_sequ(env, a[1], a[2], TRUE, sz, cont, s)
          [] p = "sequor"  -> comp_sequ(env, a[1], a[2], FALSE, sz, cont, s)
          [] p = "raise" ->
                 comp_expr(env, a[1], sz, <<<<"raise">>>> \o discard_dead_code(cont), s)
          [] p = "addint" /\ a[2][1] = "const" ->
                 comp_expr(env, a[1], sz, <<<<"offsetint", a[2][2]>>>> \o cont, s)
          [] p = "subint" /\ a[2][1] = "const" ->
                 comp_expr(env, a[1], sz, <<<<"offsetint", -a[2][2]>>>> \o cont, s)
          [] p = "intcomp" /\ a[2][1] = "const" ->
                 comp_args(env, <<a[2], a[1]>>, sz,
                           <<<<"intcomp", commute_comparison(e[3])>>>> \o cont, s)
          [] OTHER -> comp_args(env, a, sz, <<comp_primitive(e)>> \o cont, s)

comp_handler(env, vars, h, sz, b) ==
    LET n == Len(vars)
        r == comp_expr(add_vars(vars, sz + 1, env), h, sz + n, add_pop(n, b.c), b.s)
    IN  IF n # 1 THEN r ELSE Cons(<<"push">>, r)

\* The body, its handler being at label l.
comp_catch_body(env, e, sz, b, l) ==
    LET n == Len(e[4])
        top == IF n # 1 THEN sz + n ELSE sz
        body == comp_expr([env EXCEPT !.raises = <<<<e[3], l.l, top>>>> \o @], e[2], top,
                          IF n # 1 THEN add_pop(n, <<b.b>> \o l.c) ELSE <<b.b>> \o l.c, l.s)
    IN  IF n # 1 THEN R(push_dummies(n, body.c), body.s) ELSE body

label_result(r) == label_code(r.c, r.s)
comp_catch_at(env, e, sz, b) ==
    comp_catch_body(env, e, sz, b, label_result(comp_handler(env, e[4], e[5], sz, b)))
comp_catch(env, e, sz, cont, s) == comp_catch_at(env, e, sz, make_branch(cont, s))

comp_exit(env, e, sz, cont, s) ==
    LET h == Find(e[2], env.raises)
        out == add_pop(sz - h[3], branch_to(h[2], discard_dead_code(cont)))
    IN  IF Len(e[3]) = 1 THEN comp_expr(env, e[3][1], sz, out, s)
        ELSE comp_expr_list_assign(env, Reversed(e[3]), sz, h[3], out, s)

comp_try(env, e, sz, cont, s) ==
    LET b == make_branch(cont, s)
        lbl == b.s.l + 1
        h == comp_expr(add_var(e[3], sz + 1, env), e[4], sz + 1, add_pop(1, b.c), WithLabel(b.s))
    IN  Cons(<<"pushtrap", lbl>>,
             comp_expr(env, e[2], sz + 4,
                       <<<<"poptrap">>, b.b, <<"label", lbl>>, <<"push">>>> \o h.c, h.s))

comp_while(env, e, sz, cont, s) ==
    LET loop == s.l + 1
        test == s.l + 2
        c == comp_expr(env, e[2], sz, <<<<"branchif", loop>>>> \o add_const_unit(cont),
                       [s EXCEPT !.l = @ + 2])
        b == comp_expr(env, e[3], sz, <<<<"label", test>>>> \o c.c, c.s)
    IN  R(<<<<"branch", test>>, <<"label", loop>>, <<"check_signals">>>> \o b.c, b.s)

comp_for(env, e, sz, cont, s) ==
    LET loop == s.l + 1
        test == s.l + 2
        up == e[5] = "upto"
        b == comp_expr(add_var(e[2], sz + 1, env), e[6], sz + 2,
                 <<<<"acc", 1>>, <<"offsetint", IF up THEN 1 ELSE -1>>, <<"assign", 1>>,
                   <<"label", test>>, <<"acc", 0>>, <<"push">>, <<"acc", 2>>,
                   <<"intcomp", IF up THEN "<=" ELSE ">=">>, <<"branchif", loop>>>>
                 \o add_const_unit(add_pop(2, cont)), [s EXCEPT !.l = @ + 2])
        stop == comp_expr(env, e[4], sz + 1,
                    <<<<"push">>, <<"branch", test>>, <<"label", loop>>, <<"check_signals">>>>
                    \o b.c, b.s)
    IN  comp_expr(env, e[3], sz, <<<<"push">>>> \o stop.c, stop.s)

\* Equal actions of a switch share their code (mk_store).
RECURSIVE Distinct(_)
Distinct(q) == IF q = <<>> THEN <<>>
               ELSE LET r == Distinct(SubSeq(q, 1, Len(q) - 1)) IN
                    IF \E i \in 1..Len(r) : r[i] = q[Len(q)] THEN r ELSE Append(r, q[Len(q)])

AddAct(l, lbls) == [c |-> discard_dead_code(l.c), s |-> l.s, lbls |-> <<l.l>> \o lbls]
comp_acts(env, acts, i, sz, b, r) ==
    IF i = 0 THEN r
    ELSE comp_acts(env, acts, i - 1, sz, b,
                   AddAct(label_result(comp_expr(env, acts[i], sz, <<b>> \o r.c, r.s)), r.lbls))

\* The switch itself, before the code of its actions.
comp_test(env, e, acts, sz, r) ==
    LET at(a) == r.lbls[CHOOSE i \in 1..Len(acts) : acts[i] = a]
    IN  comp_expr(env, e[2], sz,
                  <<<<"switch", [i \in 1..Len(e[3]) |-> at(e[3][i])],
                                [i \in 1..Len(e[4]) |-> at(e[4][i])]>>>> \o r.c, r.s)
comp_switch_at(env, e, acts, sz, b) ==
    comp_test(env, e, acts, sz,
              comp_acts(env, acts, Len(acts), sz, b.b,
                        [c |-> discard_dead_code(b.c), s |-> b.s, lbls |-> <<>>]))
comp_switch(env, e, sz, cont, s) ==
    comp_switch_at(env, e, Distinct(e[3] \o e[4]), sz, make_branch(cont, s))

\* Will the translation of e be a jump to a label?  (0 for no.)
code_as_jump(env, e, sz) ==
    IF e[1] = "exit" /\ e[3] = <<>>
    THEN LET h == Find(e[2], env.raises) IN IF h[3] = sz THEN h[2] ELSE 0
    ELSE 0

comp_binary_test(env, cond, ifso, ifnot, sz, cont, s) ==
    LET test(i, r) == comp_expr(env, cond, sz, <<i>> \o r.c, r.s)
    IN  IF ifnot = Unit
        THEN LET l == label_code(cont, s)
             IN  test(<<"strictbranchifnot", l.l>>, comp_expr(env, ifso, sz, l.c, l.s))
        ELSE IF code_as_jump(env, ifso, sz) # 0
        THEN test(<<"branchif", code_as_jump(env, ifso, sz)>>, comp_expr(env, ifnot, sz, cont, s))
        ELSE IF code_as_jump(env, ifnot, sz) # 0
        THEN test(<<"branchifnot", code_as_jump(env, ifnot, sz)>>, comp_expr(env, ifso, sz, cont, s))
        ELSE LET b == make_branch(cont, s)
                 n == comp_expr(env, ifnot, sz, b.c, b.s)
                 l == label_code(n.c, n.s)
             IN  test(<<"branchifnot", l.l>>, comp_expr(env, ifso, sz, <<b.b>> \o l.c, l.s))

\* The code of <<env, e, sz, cont, s>>, by the form of the term e.
Translation(t) ==
    LET env == t[1]
        e == t[2]
        sz == t[3]
        cont == t[4]
        s == [t[5] EXCEPT !.m = IF sz > @ THEN sz ELSE @]
    IN
    CASE e[1] = "var"    -> R(<<comp_var(env, e[2], sz)>> \o cont, s)
      [] e[1] \in {"const", "lab"} -> R(<<e>> \o cont, s)
      [] e[1] = "apply"  -> comp_apply(env, e[2], e[3], sz, cont, s)
      [] e[1] = "send"   -> comp_send(env, <<e[2], e[3]>> \o e[4], sz, cont, s)
      [] e[1] = "fun"    -> comp_closure(env, e, sz, cont, s)
      [] e[1] = "let"    ->
             LET b == comp_expr(add_var(e[2], sz + 1, env), e[4], sz + 1, add_pop(1, cont), s)
             IN  comp_expr(env, e[3], sz, <<<<"push">>>> \o b.c, b.s)
      [] e[1] = "letrec" -> IF \A i \in 1..Len(e[2]) : e[2][i][2][1] = "fun"
                            THEN comp_letrec_funs(env, e, sz, cont, s)
                            ELSE comp_letrec_values(env, e, sz, cont, s)
      [] e[1] = "prim"   -> comp_prim(env, e, sz, cont, s)
      [] e[1] = "catch"  -> comp_catch(env, e, sz, cont, s)
      [] e[1] = "exit"   -> comp_exit(env, e, sz, cont, s)
      [] e[1] = "try"    -> comp_try(env, e, sz, cont, s)
      [] e[1] = "if"     -> comp_binary_test(env, e[2], e[3], e[4], sz, cont, s)
      [] e[1] = "seq"    -> LET r == comp_expr(env, e[3], sz, cont, s)
                            IN  comp_expr(env, e[2], sz, r.c, r.s)
      [] e[1] = "while"  -> comp_while(env, e, sz, cont, s)
      [] e[1] = "for"    -> comp_for(env, e, sz, cont, s)
      [] e[1] = "switch" -> comp_switch(env, e, sz, cont, s)
      [] e[1] = "assign" -> comp_expr(env, e[3], sz,
                                      <<<<"assign", sz - Find(e[2], env.stack)[2]>>>> \o cont, s)

-----------------------------------------------------------------------------
(* Blocks, functions and programs.                                         *)

Before(is, r) == [r EXCEPT !.c = is \o @]
WithCheck(r) == IF r.s.m + 1 > StackThreshold
                THEN Before(<<<<"const", r.s.m + 1>>, <<"ccall", "ensure_stack_capacity", 1>>>>, r)
                ELSE r
comp_block(env, e, sz, cont, s) == WithCheck(comp_expr(env, e, sz, cont, [s EXCEPT !.m = 0]))

Positions(ids, pos, delta) == [i \in 1..Len(ids) |-> <<ids[i], pos + (i - 1) * delta>>]
EmptyEnv == [stack |-> <<>>, heap |-> <<>>, rec |-> <<>>, raises |-> <<>>]

comp_function(tc, cont, s) ==
    LET arity == Len(tc.params)
        env == [EmptyEnv EXCEPT
                  !.stack = Positions(tc.params, arity, -1),
                  !.heap = Positions(tc.free_vars, 2 * (tc.num_defs - tc.rec_pos) - 1, 1),
                  !.rec = Positions(tc.rec_vars, -2 * tc.rec_pos, 2)]
    IN  Before(IF arity > 1
               THEN <<<<"restart">>, <<"label", tc.label>>, <<"grab", arity - 1>>>>
               ELSE <<<<"label", tc.label>>>>,
               comp_block(env, tc.body, arity, <<<<"return", arity>>>> \o cont, s))

RECURSIVE comp_remainder(_)
comp_remainder(r) ==
    IF r.s.f = <<>> THEN r.c
    ELSE comp_remainder(comp_function(Head(r.s.f), r.c, [r.s EXCEPT !.f = Tail(@)]))

\* A compilation unit, and the STOP that the linker adds to the last one.
WithFunctions(init_code) ==
    LET lbl_init == init_code.s.l + 1
    IN  IF init_code.s.f = <<>> THEN init_code.c
        ELSE <<<<"branch", lbl_init>>>>
             \o comp_remainder(R(<<<<"label", lbl_init>>>> \o init_code.c, WithLabel(init_code.s)))
compile_implementation(e) ==
    Append(WithFunctions(comp_block(EmptyEnv, e, 0, <<>>, [l |-> 0, f |-> <<>>, m |-> 0])), <<"stop">>)

-----------------------------------------------------------------------------
(* Emission: instruction names of the machine; ACC stands for ACC0..ACC7   *)
(* and ACC, and so on for the other instructions with short forms.         *)

BranchComp(c) ==
    CASE c = "=" -> "BEQ" [] c = "#" -> "BNEQ" [] c = "<" -> "BLTINT" [] c = "<=" -> "BLEINT"
      [] c = ">" -> "BGTINT" [] c = ">=" -> "BGEINT"
Comp(c) ==
    CASE c = "=" -> "EQ" [] c = "#" -> "NEQ" [] c = "<" -> "LTINT" [] c = "<=" -> "LEINT"
      [] c = ">" -> "GTINT" [] c = ">=" -> "GEINT"

Arith == [negint |-> "NEGINT", addint |-> "ADDINT", subint |-> "SUBINT", mulint |-> "MULINT",
          divint |-> "DIVINT", modint |-> "MODINT", andint |-> "ANDINT", orint |-> "ORINT",
          xorint |-> "XORINT", lslint |-> "LSLINT", lsrint |-> "LSRINT", asrint |-> "ASRINT",
          isout |-> "ULTINT"]
Plain == [push |-> "PUSH", boolnot |-> "BOOLNOT", poptrap |-> "POPTRAP", raise |-> "RAISE",
          check_signals |-> "CHECK_SIGNALS", restart |-> "RESTART", stop |-> "STOP",
          isint |-> "ISINT", vectlength |-> "VECTLENGTH", getvectitem |-> "GETVECTITEM",
          setvectitem |-> "SETVECTITEM", getstringchar |-> "GETSTRINGCHAR",
          setstringchar |-> "SETSTRINGCHAR", getmethod |-> "GETMETHOD"]
Operand == [acc |-> "ACC", envacc |-> "ENVACC", pop |-> "POP", assign |-> "ASSIGN",
            push_retaddr |-> "PUSH_RETADDR", return |-> "RETURN", grab |-> "GRAB",
            offsetclosure |-> "OFFSETCLOSURE", getglobal |-> "GETGLOBAL",
            setglobal |-> "SETGLOBAL", const |-> "CONSTINT", getfield |-> "GETFIELD",
            setfield |-> "SETFIELD", makefloatblock |-> "MAKEFLOATBLOCK",
            getfloatfield |-> "GETFLOATFIELD", setfloatfield |-> "SETFLOATFIELD",
            branch |-> "BRANCH", branchif |-> "BRANCHIF", branchifnot |-> "BRANCHIFNOT",
            strictbranchif |-> "BRANCHIF", strictbranchifnot |-> "BRANCHIFNOT",
            pushtrap |-> "PUSHTRAP", offsetint |-> "OFFSETINT", offsetref |-> "OFFSETREF"]

emit_instr(i) ==
    CASE i[1] \in DOMAIN Plain   -> <<Plain[i[1]]>>
      [] i[1] \in DOMAIN Arith   -> <<"ARITH", Arith[i[1]]>>
      [] i[1] \in DOMAIN Operand -> <<Operand[i[1]], i[2]>>
      [] i[1] = "intcomp"  -> <<"COMPARE", Comp(i[2])>>
      [] i[1] = "lab"      -> <<"CONSTLABEL", i[2], i[3]>>
      [] i[1] = "apply"    -> IF i[2] < 4 THEN <<"APPLY1", i[2]>> ELSE <<"APPLY", i[2]>>
      [] i[1] = "appterm"  -> <<"APPTERM", i[2], i[3]>>
      [] i[1] = "closure"  -> <<"CLOSURE", i[2], i[3]>>
      [] i[1] = "closurerec" -> <<"CLOSUREREC", i[2], i[3]>>
      [] i[1] = "makeblock" -> IF i[2] = 0 THEN <<"ATOM", i[3]>> ELSE <<"MAKEBLOCK", i[2], i[3]>>
      [] i[1] = "switch"   -> <<"SWITCH", i[2], i[3]>>
      [] i[1] = "ccall"    -> <<"C_CALL", i[2], i[3]>>

\* The head of c is the given sequence of constructors.
Starts(c, ops) == Len(c) >= Len(ops) /\ \A i \in 1..Len(ops) : c[i][1] = ops[i]
Drop(c, n) == SubSeq(c, n + 1, Len(c))

\* One step of emit, on r = [in |-> what remains, out |-> what is emitted,
\* labels |-> the labels defined, with their addresses].
Emitted(r, i, n) == [r EXCEPT !.in = Drop(@, n), !.out = Append(@, i)]
define_label(r, l) == [r EXCEPT !.in = Tail(@), !.labels = Append(@, <<l, Len(r.out) + 1>>)]
EmitStep(r) ==
    LET c == r.in
    IN  CASE c = <<>> -> r
          [] Op(c) = "label" -> define_label(r, c[1][2])
          [] Starts(c, <<"push", "const", "intcomp", "branchif">>) ->
                 Emitted(r, <<"BRANCHCMP", BranchComp(c[3][2]), c[2][2], c[4][2]>>, 4)
          [] Starts(c, <<"push", "const", "intcomp", "branchifnot">>) ->
                 Emitted(r, <<"BRANCHCMP", BranchComp(negate_comparison(c[3][2])), c[2][2], c[4][2]>>, 4)
          [] Starts(c, <<"push", "const", "isout", "branchif">>) ->
                 Emitted(r, <<"BRANCHCMP", "BULTINT", c[2][2], c[4][2]>>, 4)
          [] Starts(c, <<"push", "const", "isout", "branchifnot">>) ->
                 Emitted(r, <<"BRANCHCMP", "BUGEINT", c[2][2], c[4][2]>>, 4)
          [] Starts(c, <<"push", "acc", "return">>) /\ c[2][2] = 0 ->
                 [r EXCEPT !.in = <<<<"return", c[3][2] - 1>>>> \o Drop(c, 3)]
          [] Starts(c, <<"push", "acc">>)     -> Emitted(r, <<"PUSHACC", c[2][2]>>, 2)
          [] Starts(c, <<"push", "envacc">>)  -> Emitted(r, <<"PUSHENVACC", c[2][2]>>, 2)
          [] Starts(c, <<"push", "offsetclosure">>) -> Emitted(r, <<"PUSHOFFSETCLOSURE", c[2][2]>>, 2)
          [] Starts(c, <<"push", "getglobal", "getfield">>) ->
                 Emitted(r, <<"PUSHGETGLOBALFIELD", c[2][2], c[3][2]>>, 3)
          [] Starts(c, <<"push", "getglobal">>) -> Emitted(r, <<"PUSHGETGLOBAL", c[2][2]>>, 2)
          [] Starts(c, <<"push", "const">>)   -> Emitted(r, <<"PUSHCONSTINT", c[2][2]>>, 2)
          [] Starts(c, <<"getglobal", "getfield">>) ->
                 Emitted(r, <<"GETGLOBALFIELD", c[1][2], c[2][2]>>, 2)
          [] OTHER -> Emitted(r, emit_instr(c[1]), 1)

RECURSIVE EmitSteps(_, _)
EmitMore(r, n) == IF r.in = <<>> THEN r ELSE EmitSteps(r, n)
EmitSteps(r, n) == IF n = 0 THEN r
                   ELSE IF n = 1 THEN EmitStep(r)
                   ELSE EmitMore(EmitSteps(r, n \div 2), n - n \div 2)
emit(c) == EmitSteps([in |-> c, out |-> <<>>, labels |-> <<>>], 2 * Len(c))

\* Operands that are labels become addresses.
backpatch(labels, i) ==
    LET at(l) == Find(l, labels)[2]
        all(ls) == [k \in 1..Len(ls) |-> at(ls[k])] \o <<>>
    IN  CASE i[1] \in {"BRANCH", "BRANCHIF", "BRANCHIFNOT", "PUSHTRAP", "PUSH_RETADDR"} ->
               <<i[1], at(i[2])>>
          [] i[1] = "BRANCHCMP"  -> <<i[1], i[2], i[3], at(i[4])>>
          [] i[1] = "CLOSURE"    -> <<i[1], at(i[2]), i[3]>>
          [] i[1] = "CLOSUREREC" -> <<i[1], all(i[2]), i[3]>>
          [] i[1] = "SWITCH"     -> <<i[1], all(i[2]), all(i[3])>>
          [] OTHER               -> i

\* The code of a program.
Patched(r) == [k \in 1..Len(r.out) |-> backpatch(r.labels, r.out[k])] \o <<>>
Emission(c) == IF c = <<>> THEN c ELSE Patched(emit(c))
to_file(e) == Emission(compile_implementation(e))
=============================================================================

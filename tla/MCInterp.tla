------------------------------- MODULE MCInterp -------------------------------
(***************************************************************************)
(* Small programs for the interpreter, and what they mean.                 *)
(***************************************************************************)
EXTENDS Interp

CONSTANT IntBits

VARIABLE expected   \* the outcomes the reference allows

Ref == INSTANCE InterpReference

v(x) == <<"var", x>>
k(n) == <<"const", n>>
p1(op, a) == <<"prim", op, 0, <<a>>>>
p2(op, a, b) == <<"prim", op, 0, <<a, b>>>>
pk(op, n, as) == <<"prim", op, n, as>>
cmp(c, a, b) == <<"prim", "intcomp", c, <<a, b>>>>
ap(f, as) == <<"apply", f, as>>
fn(ps, b) == <<"fun", ps, b>>
lt(x, a, b) == <<"let", x, a, b>>
sq(a, b) == <<"seq", a, b>>
iff(c, a, b) == <<"if", c, a, b>>
try(b, x, h) == <<"try", b, x, h>>
rec(f, ps, b, e) == <<"letrec", <<<<f, fn(ps, b)>>>>, e>>
tuple(as) == pk("makeblock", 0, as)
say(e) == p1("print", e)
raise(e) == p1("raise", e)
exn(e) == pk("getfield", 0, <<e>>)

\* let rec sum n = if n < 1 then 0 else n + sum (n - 1), the recursive call in a
\* try so that the chain of handlers grows with the stack.
DeepTry ==
    rec("f", <<"n">>,
        iff(cmp("<", v("n"), k(1)), raise(tuple(<<k(5)>>)),
            try(p2("addint", v("n"), ap(v("f"), <<p2("subint", v("n"), k(1))>>)), "e",
                iff(cmp("=", v("n"), k(2)), p2("addint", exn(v("e")), v("n")), raise(v("e"))))),
        ap(v("f"), <<k(3)>>))

\* Partial and over-application; a function of many arguments.
Curry ==
    lt("g", fn(<<"a", "b", "c">>, p2("subint", p2("addint", v("a"), v("b")), v("c"))),
    lt("h", ap(v("g"), <<k(10)>>),
    lt("i", ap(v("h"), <<k(20)>>),
       tuple(<<ap(v("i"), <<k(3)>>), ap(v("h"), <<k(1), k(2)>>), ap(v("g"), <<k(1), k(2), k(4)>>),
               ap(fn(<<"x">>, v("x")), <<v("i"), k(7)>>)>>))))
Many == lt("h", k(4), lt("many", fn(<<"a", "b", "c", "d", "e">>, tuple(<<v("a"), v("c"), v("e"), v("h")>>)),
           tuple(<<k(1), ap(v("many"), <<k(1), k(2), k(3), k(4), k(5)>>)>>)))

\* Mutually recursive functions with free variables, in tail position.
EvenOdd ==
    lt("z", k(9),
    <<"letrec", <<<<"even", fn(<<"n">>, iff(cmp("=", v("n"), k(0)), v("z"),
                                           ap(v("odd"), <<p2("subint", v("n"), k(1))>>)))>>,
                  <<"odd", fn(<<"n">>, iff(cmp("=", v("n"), k(0)), k(0),
                                          ap(v("even"), <<pk("offsetint", -1, <<v("n")>>)>>)))>>>>,
      tuple(<<ap(v("even"), <<k(4)>>), ap(v("odd"), <<k(4)>>), ap(v("even"), <<k(0)>>)>>)>>)

\* A cyclic value, and a block with a function in it.
Cyclic ==
    <<"letrec", <<<<"x", tuple(<<k(1), v("y")>>)>>,
                  <<"y", tuple(<<fn(<<"u">>, pk("getfield", 0, <<v("x")>>)), k(3)>>)>>>>,
      tuple(<<ap(pk("getfield", 0, <<pk("getfield", 1, <<v("x")>>)>>), <<k(0)>>),
              pk("getfield", 1, <<v("y")>>)>>)>>

Loops ==
    lt("r", tuple(<<k(0)>>),
    lt("s", k(0),
    sq(<<"for", "i", k(1), k(3), "upto", sq(pk("offsetref", 2, <<v("r")>>), say(v("i")))>>,
    sq(<<"for", "j", k(2), k(1), "downto",
         pk("setfield", 0, <<v("r"), p2("mulint", pk("getfield", 0, <<v("r")>>), v("j"))>>)>>,
    sq(<<"while", cmp("<", v("s"), k(2)), <<"assign", "s", p2("addint", v("s"), k(1))>>>>,
       tuple(<<pk("getfield", 0, <<v("r")>>), v("s")>>))))))

\* A pattern matching: switch, static raise with several arguments and with none.
Match(e) ==
    <<"catch",
      <<"switch", e, <<k(1), <<"exit", 1, <<k(2), k(3)>>>>, k(1)>>,
                     <<iff(pk("isint", 0, <<k(6)>>), <<"exit", 1, <<k(6), k(4)>>>>, k(0)), k(1)>>>>,
      1, <<"p", "q">>, p2("subint", v("p"), v("q"))>>
Switches(es) == tuple([i \in 1..Len(es) |-> Match(es[i])])
Catches ==
    tuple(<<<<"catch", sq(iff(cmp("=", k(3), k(3)), <<"exit", 2, <<>>>>, k(0)), k(8)), 2, <<>>, k(9)>>,
            <<"catch", p2("addint", k(1), <<"exit", 3, <<k(5)>>>>), 3, <<"x">>, v("x")>>>>)

Tests(es) ==
    rec("t", <<"x", "y">>, tuple(es),
        tuple(<<ap(v("t"), <<k(1), k(3)>>), ap(v("t"), <<k(3), k(2)>>), ap(v("t"), <<k(-2), k(-1)>>)>>))
Booleans ==
    LET a == cmp("<", v("x"), v("y"))
        b == cmp(">=", v("x"), k(2))
    IN  <<iff(p2("sequand", a, b), k(1), k(2)), iff(p2("sequor", a, b), k(1), k(2)),
          p2("sequand", a, b), p2("sequor", p1("not", a), b),
          iff(p1("not", p2("sequor", a, p1("not", b))), k(1), k(2))>>
Comparisons ==
    <<iff(pk("isout", 0, <<k(3), v("x")>>), k(1), k(2)), pk("isout", 0, <<k(2), v("y")>>),
      cmp("#", v("x"), v("y")), iff(cmp("<=", v("x"), k(1)), k(4), k(5)), iff(cmp(">", v("x"), k(-1)), k(4), k(5)),
      iff(cmp("#", v("x"), k(3)), k(4), k(5)),
      iff(p1("not", pk("isout", 0, <<k(3), v("x")>>)), k(1), k(0))>>

Arithmetics(es) ==
    lt("f", fn(<<"a", "b">>, tuple(es)),
       tuple(<<ap(v("f"), <<k(-50), k(3)>>), ap(v("f"), <<k(45), k(-20)>>), ap(v("f"), <<k(-64), k(-1)>>)>>))
Sums == [i \in 1..5 |-> p2(<<"addint", "subint", "mulint", "divint", "modint">>[i], v("a"), v("b"))]
              \o <<p1("negint", v("a"))>>
Bitwises == [i \in 1..3 |-> p2(<<"andint", "orint", "xorint">>[i], v("a"), v("b"))]
                  \o <<p2("lslint", v("a"), k(2)), p2("lsrint", v("a"), k(1)), p2("asrint", v("a"), k(1))>>
Divisions == tuple(<<try(p2("divint", k(1), k(0)), "e", exn(v("e"))), try(p2("modint", k(1), k(0)), "e", k(3))>>)

Strings ==
    lt("s", p1("create_string", k(2)),
    lt("ar", tuple(<<k(7), k(8)>>),
    sq(pk("setstringchar", 0, <<v("s"), k(1), k(33)>>),
    sq(pk("setvectitem", 0, <<v("ar"), k(0), v("s")>>),
       tuple(<<v("s"), pk("getstringchar", 0, <<v("s"), k(1)>>), pk("vectlength", 0, <<v("ar")>>),
               pk("getvectitem", 0, <<v("ar"), k(0)>>)>>)))))
Floats ==
    lt("t", pk("makefloatblock", 0, <<p1("float_of_int", k(4)), p1("float_of_int", k(5))>>),
    sq(pk("setfloatfield", 0, <<v("t"), p1("float_of_int", k(6))>>),
       tuple(<<v("t"), pk("getfloatfield", 1, <<v("t")>>)>>)))

\* A method call; the table of globals is replaced by a larger one.
Objects ==
    lt("o", tuple(<<tuple(<<k(0), tuple(<<k(0), fn(<<"self", "d">>, p2("addint", pk("getfield", 1, <<v("self")>>),
                                                                        v("d")))>>)>>), k(30)>>),
       <<"send", <<"lab", 1, 1>>, v("o"), <<k(2)>>>>)
Globals ==
    sq(pk("setglobal", 5, <<tuple(<<k(9), k(30)>>)>>),
    sq(p1("realloc_global", k(7)),
    sq(pk("setglobal", 7, <<k(4)>>),
       tuple(<<p2("addint", pk("getfield", 1, <<pk("getglobal", 5, <<>>)>>), k(1)),
               pk("getfield", 1, <<pk("getglobal", 5, <<>>)>>), pk("getglobal", 7, <<>>)>>))))

\* Exceptions and callbacks in every combination.
Callbacks ==
    lt("boom", fn(<<"x">>, raise(tuple(<<v("x")>>))),
    lt("inner", fn(<<"a", "b">>, try(pk("callback", 0, <<v("boom"), v("b")>>), "e",
                                     p2("addint", exn(v("e")), v("a")))),
    lt("r", pk("callback", 0, <<v("inner"), k(10), k(4)>>),
    lt("c", pk("callback_exn", 0, <<fn(<<"y">>, sq(say(v("y")), pk("callback", 0, <<v("boom"), v("y")>>))), k(6)>>),
       tuple(<<v("r"), v("c"), pk("callback_exn", 0, <<fn(<<"y">>, tuple(<<v("y"), v("r")>>)), k(2)>>)>>)))))
CExceptions ==
    tuple(<<pk("callback", 0, <<fn(<<"a", "b", "c", "d", "e">>, tuple(<<v("b"), v("e")>>)),
                                k(1), k(2), k(3), k(4), k(5)>>),
            try(p1("failwith", k(8)), "e", v("e")),
            try(pk("callback", 0, <<fn(<<"u">>, p1("not_found", v("u"))), k(0)>>), "e", exn(v("e")))>>)

Uncaught == lt("f", fn(<<"x">>, p1("failwith", v("x"))),
               p2("addint", k(1), pk("callback", 0, <<v("f"), k(3)>>)))

\* Unbounded recursion ends in an exception that can be caught, also when the
\* recursion goes through C.
Overflow ==
    rec("f", <<"x">>, p2("addint", k(1), ap(v("f"), <<v("x")>>)),
        try(ap(v("f"), <<k(0)>>), "e", tuple(<<exn(v("e")), k(3)>>)))
OverflowInC ==
    rec("g", <<"x">>, p2("addint", pk("callback", 0, <<v("g"), v("x")>>), k(1)),
        try(ap(v("g"), <<k(0)>>), "e", exn(v("e"))))

\* A frame larger than the space a function may use unchecked.
Wide == rec("w", <<"x">>,
            tuple([i \in 1..24 |-> p2("addint", v("x"), k(i))]), ap(v("w"), <<k(1)>>))

Names == lt("f", fn(<<"x">>, p2("addint", v("x"), k(1))),
         sq(pk("register_named_value", 0, <<k(1), v("f")>>),
         sq(pk("register_named_value", 0, <<k(2), k(6)>>),
         sq(pk("register_named_value", 0, <<k(1), fn(<<"x">>, p2("mulint", v("x"), k(2)))>>),
            tuple(<<pk("callback", 0, <<p1("named_value", k(1)), k(5)>>), p1("named_value", k(2)),
                    p1("named_value", k(3))>>)))))

\* A signal handler that returns, and one that raises, around calls, loops,
\* handlers and callbacks.
Interrupted(handler) ==
    sq(pk("install_signal_handler", 0, <<k(0), tuple(<<handler>>)>>),
    rec("f", <<"n", "a">>,
        iff(cmp("<", v("n"), k(1)), v("a"),
            ap(v("f"), <<p2("subint", v("n"), k(1)), p2("addint", v("a"), v("n"))>>)),
    lt("body", fn(<<"u">>,
          try(sq(say(k(1)), sq(ap(v("f"), <<k(2), v("u")>>),
                 <<"for", "i", k(1), k(2), "upto", say(v("i"))>>)), "e", exn(v("e")))),
       tuple(<<try(p2("addint", pk("callback", 0, <<v("body"), k(3)>>), k(1)), "e", tuple(<<k(50), v("e")>>)),
               pk("callback_exn", 0, <<v("f"), k(1), k(0)>>), k(2)>>))))
SaySig == fn(<<"s">>, say(p2("addint", k(40), v("s"))))
RaiseSig == fn(<<"s">>, raise(tuple(<<p2("addint", k(40), v("s"))>>)))

\* depth: the nested calls after which the reference lets the stack overflow;
\* the recursions that overflow are unbounded, and do not observe it.
P(e) == [main |-> e, events |-> {"slice"}, depth |-> 5]
Deep(e) == [main |-> e, events |-> {"slice"}, depth |-> 1]
MCPrograms == <<P(DeepTry), P(Curry), P(Many), P(EvenOdd), P(Cyclic), P(Loops), P(Switches(<<k(0), k(1), k(2)>>)),
                P(Switches(<<tuple(<<k(1)>>), pk("makeblock", 1, <<>>)>>)), P(Catches),
                P(Tests(Booleans)), P(Tests(Comparisons)), P(Arithmetics(Sums)), P(Arithmetics(Bitwises)),
                P(Divisions), P(Strings), P(Floats), P(Objects), P(Globals), P(Callbacks), P(CExceptions), P(Uncaught),
                Deep(Overflow), Deep(OverflowInC), P(Wide), P(Names),
                [main |-> Interrupted(SaySig), events |-> {"signal"}, depth |-> 5],
                [main |-> Interrupted(RaiseSig), events |-> {"signal", "slice"}, depth |-> 5]>>

-----------------------------------------------------------------------------
\* The outcomes the reference allows for a program.
Visible(r) == [o |-> r.o, v |-> r.v, out |-> r.out]
OutcomesUpTo(p, polls) == {Visible(Ref!Outcome(p.main, at, NGlobals, p.depth)) : at \in 0..polls}
OutcomesOf(p) ==
    OutcomesUpTo(p, IF "signal" \in p.events THEN Ref!Outcome(p.main, 0, NGlobals, p.depth).polls ELSE 0)
Outcomes(i) == OutcomesOf(Programs[i])

MCInit == prog \in 1..Len(Programs) /\ expected = Outcomes(prog) /\ Init
MCNext == Next /\ UNCHANGED expected
MCSpec == MCInit /\ [][MCNext]_<<vars, expected>> /\ WF_vars(Machine)

\* The compiled program computes what the term means: the value or the
\* exception, and the output, are those of the evaluator, the signal being
\* handled at one of its polls.  (interp.c, bytegen.ml.)
ComputesMeaning ==
    mode \in {"done", "uncaught"} =>
        [o |-> IF mode = "done" THEN "val" ELSE "exn", v |-> Observe(res[2]), out |-> out]
            \in expected

\* A program that terminates does so however the events fall: processing them
\* (process_signal, and the jump back to the instruction that saw
\* something_to_do) does not go on for ever.
Terminates == <>Finished
=============================================================================

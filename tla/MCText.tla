------------------------------- MODULE MCText -------------------------------
(***************************************************************************)
(* The parser generator and the regular expressions, one of them in a      *)
(* behaviour; the variables of the other are unused.                       *)
(*                                                                         *)
(* Small grammars for ParseEngine. Each is chosen for what it makes the    *)
(* generator do: precedences (expr, and nonassoc, where a token is given   *)
(* the value another would have had), LALR(1) but not SLR(1) lookaheads    *)
(* with two entry points (lvalue, whose tokens are all constant, so that   *)
(* they are integers and not blocks), nullable variables whose reads and   *)
(* includes relations have edges and cycles (nullable), and error recovery *)
(* (stmts).                                                                *)
(***************************************************************************)
EXTENDS ParseEngine

Names(s) == [i \in DOMAIN s |-> << s[i], UNDEFINED >>]
Decl(kind, names) == [kind |-> kind, tag |-> FALSE, names |-> Names(names)]
Tagged(kind, names) == [kind |-> kind, tag |-> TRUE, names |-> Names(names)]
R(lhs, rhs) == [lhs |-> lhs, rhs |-> rhs, prec |-> ""]

It(kind, name) == [kind |-> kind, name |-> name]

\* The text of a grammar: alternatives of one variable separated by bars.
Body(rules) ==
  FlattenSeq([r \in DOMAIN rules |->
    << IF r > 1 /\ rules[r].lhs = rules[r - 1].lhs THEN It("bar", "") ELSE It("lhs", rules[r].lhs) >>
    \o [k \in DOMAIN rules[r].rhs |-> It("sym", rules[r].rhs[k])]
    \o (IF rules[r].prec = "" THEN << >> ELSE << It("prec", rules[r].prec) >>)
    \o << It("action", "") >>])

Grammar(decls, mains, rules, exact, ops) ==
  [decls |-> decls \o << Tagged("TYPE", mains), Decl("START", mains) >>,
   body |-> Body(rules), rules |-> rules, mains |-> mains, exact |-> exact, ops |-> ops]

Op(prec, assoc, infix) == [prec |-> prec, assoc |-> assoc, infix |-> infix]

expr == Grammar(
  << Tagged("TOKEN", << "NUM" >>), Decl("TOKEN", << "PLUS", "POW", "EOF" >>),
     Decl("LEFT", << "PLUS" >>), Decl("RIGHT", << "POW" >>), Decl("LEFT", << "UPLUS" >>) >>,
  << "main" >>,
  << R("main", << "expr", "EOF" >>), R("expr", << "NUM" >>),
     R("expr", << "expr", "PLUS", "expr" >>), R("expr", << "expr", "POW", "expr" >>),
     [lhs |-> "expr", rhs |-> << "PLUS", "expr" >>, prec |-> "UPLUS"] >>,
  TRUE,
  (3 :> Op(1, "LEFT", TRUE) @@ 4 :> Op(2, "RIGHT", TRUE) @@ 5 :> Op(3, "LEFT", FALSE)))

nonassoc == Grammar(
  << [kind |-> "TOKEN", tag |-> TRUE, names |-> << << "NUM", 258 >> >>],
     Decl("TOKEN", << "PLUS", "EQ", "EOF" >>),
     Decl("NONASSOC", << "EQ" >>), Decl("LEFT", << "PLUS" >>) >>,
  << "expr" >>,
  << R("expr", << "expr", "EQ", "expr" >>), R("expr", << "expr", "PLUS", "expr" >>),
     R("expr", << "NUM" >>) >>,
  FALSE,
  (1 :> Op(1, "NONE", TRUE) @@ 2 :> Op(2, "LEFT", TRUE)))

lvalue == Grammar(
  << Decl("TOKEN", << "ID", "ASSIGN", "STAR", "EOF" >>) >>,
  << "stmt", "right" >>,
  << R("stmt", << "left", "ASSIGN", "right" >>), R("stmt", << "right" >>),
     R("left", << "STAR", "right" >>), R("left", << "ID" >>), R("right", << "left" >>) >>,
  TRUE, << >>)

nullable == Grammar(
  << Tagged("TOKEN", << "A", "B" >>), Decl("TOKEN", << "C", "EOF" >>) >>,
  << "main" >>,
  << R("main", << "x", "y", "C", "EOF" >>),
     R("x", << >>), R("x", << "A", "x", "z" >>),
     R("y", << >>), R("y", << "z", "B" >>), R("z", << >>) >>,
  TRUE, << >>)

stmts == Grammar(
  << Tagged("TOKEN", << "NUM" >>), Decl("TOKEN", << "SEMI", "LP", "RP", "EOF" >>) >>,
  << "main" >>,
  << R("main", << "list", "EOF" >>), R("list", << >>), R("list", << "list", "stmt", "SEMI" >>),
     R("list", << "list", "error", "SEMI" >>), R("stmt", << "NUM" >>),
     R("stmt", << "LP", "stmt", "RP" >>) >>,
  TRUE, << >>)

MCGrammars == [expr |-> expr, nonassoc |-> nonassoc, lvalue |-> lvalue, nullable |-> nullable,
               stmts |-> stmts]

-----------------------------------------------------------------------------
(* Regular expressions.                                                    *)

CONSTANTS MaxSize, MaxText,  \* bounds on the expressions and on the texts
          Inputs, Ops, Extensions, re_max_failures,  \* see RegexMatch
          Parts              \* what runs: "yacc", "regex" or either

VARIABLES part,  \* the one that runs
          regex_pc, input, comp, fast, call, m, ret
regexvars == <<regex_pc, input, comp, fast, call, m, ret>>

E == INSTANCE MCRegex
MCInputs == E!MCInputs
LongestInputs == E!LongestInputs
NewlineInputs == E!NewlineInputs
MCExtensions == E!MCExtensions

Regex == INSTANCE RegexMatch WITH pc <- regex_pc

unused == "unused"
YaccUnused ==
  /\ gr = unused /\ gen = unused /\ pc = unused /\ env = unused /\ n = unused /\ arg = unused
  /\ frames = unused /\ read = unused /\ budget = unused /\ lookahead = unused /\ errs = unused
  /\ ghost = unused
RegexUnused ==
  /\ regex_pc = unused /\ input = unused /\ comp = unused /\ fast = unused /\ call = unused
  /\ m = unused /\ ret = unused

TextInit ==
  /\ part \in Parts
  /\ \/ part = "yacc" /\ Init /\ RegexUnused
     \/ part = "regex" /\ Regex!Init /\ YaccUnused
TextNext ==
  \/ part = "yacc" /\ Next /\ UNCHANGED <<part, regexvars>>
  \/ part = "regex" /\ Regex!Next /\ UNCHANGED <<part, vars>>
TextSpec == TextInit /\ [][TextNext]_<<vars, regexvars, part>>

-----------------------------------------------------------------------------
(* Properties.                                                             *)

\* The tables ocamlyacc writes say what the grammar says: the lookaheads of
\* every reduction, and the packed vectors every action and every goto.
GrammarTablesExact == part = "yacc" => TablesExact

\* The parser accepts the sentences of the grammar and reports an error at the
\* first token that no sentence continues with, which is then the lookahead.
ParserLanguageExact == part = "yacc" => LanguageExact

\* The value of a parse is a tree of the grammar over the tokens read, each
\* node with its span, grouped as the precedences say.
ParserValuesFaithful == part = "yacc" => ValuesFaithful

\* The parser's stack is a path of the automaton, through growth, recovery and
\* nested parses, and errors are reported three shifts apart.
ParserStackSound == part = "yacc" => StackSound


\* re_search answers the first position that matches, but for newlines that the
\* fastmap lost, and a partial match whether the text could be continued to one.
RegexSearchSound == part = "regex" => Regex!SearchSound

\* pop_failure_jump pops a failure point that is there.
RegexPopsWhatWasPushed == part = "regex" => Regex!PopsWhatWasPushed

\* regex.c:3396 ("we want the longest match, try backtracking"): the match that
\* re_match reports is the longest one.
RegexLongestMatch == part = "regex" => Regex!LongestMatch

\* re_compile_fastmap "records which of the (1 << BYTEWIDTH) possible characters
\* can start a string that matches": a search misses no position that matches.
RegexFastmapComplete == part = "regex" => Regex!FastmapComplete
=============================================================================

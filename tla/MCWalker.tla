------------------------------ MODULE MCWalker ------------------------------
(***************************************************************************)
(* Small programs to walk: a prelude that gives x, ys and xs a meaning,    *)
(* then one compound statement with every small block in every position,   *)
(* then a use.  Two texts; a pure atom p; v, which a write to region r of  *)
(* the filesystem spoils; u, which depends on everything.                  *)
(***************************************************************************)
EXTENDS WalkerRun, SequencesExt
CONSTANTS ta, tb, any, prg, pln

MCTexts == {ta, tb}
MCPureOf == ta :> {"p"} @@ tb :> {}
MCReads == "v" :> {"r"}
MCMediumOf == "r" :> "fs"
MCCheckWrites == "v" :> {} @@ "u" :> {"r"} @@ "p" :> {}

\* Every statement gets its path in the tree as its label.
RECURSIVE Lab(_, _, _)
Lab(stmts, path, i) ==
    IF stmts = <<>> THEN <<>>
    ELSE LET s == Head(stmts)
             q == Append(path, i)
             at(j, b) == Lab(b, Append(q, j), 1)
             bodies(seq) == FoldLeftDomain(LAMBDA acc, j :
                                Append(acc, [seq[j] EXCEPT !.body = at(3 + j, seq[j].body)]), <<>>, seq)
             told == CASE s.s = "if" -> [s EXCEPT !.then = at(1, s.then), !.orelse = at(2, s.orelse)]
                       [] s.s \in {"while", "for"} -> [s EXCEPT !.body = at(1, s.body), !.orelse = at(2, s.orelse)]
                       [] s.s = "try" -> [s EXCEPT !.body = at(1, s.body), !.orelse = at(2, s.orelse),
                                                   !.final = at(3, s.final), !.handlers = bodies(s.handlers)]
                       [] s.s = "with" -> [s EXCEPT !.body = at(1, s.body)]
                       [] s.s = "match" -> [s EXCEPT !.cases = bodies(s.cases)]
                       [] OTHER -> s
         IN  <<[l |-> q] @@ told>> \o Lab(Tail(stmts), path, i + 1)

T(t) == [e |-> "text", t |-> t]
Input == [e |-> "input"]
N(x) == [e |-> "name", x |-> x]
L(of) == [e |-> "list", of |-> of]
Exec == [e |-> "exec"]
Open == [e |-> "open"]
Call(f, y) == [e |-> "call", f |-> f, y |-> y]
Meth(x, m, y) == [e |-> "method", x |-> x, m |-> m, y |-> y]
Single(v, x) == [e |-> "single", v |-> v, x |-> x]
Comp(over, elt) == [e |-> "comp", z |-> "z", over |-> over, elt |-> elt]
Lambda == [e |-> "lambda"]

Asg(x, e) == [s |-> "assign", x |-> x, e |-> e]
Ann(x, atoms, e) == [s |-> "annot", x |-> x, atoms |-> atoms, e |-> e]
Ex(e) == [s |-> "expr", e |-> e]
Chk(v, x) == [s |-> "check", v |-> v, x |-> x]
Ret(e) == [s |-> "return", e |-> e]
Just(s) == [s |-> s]
G(x, a, pos) == [t |-> "guard", x |-> x, atom |-> a, pos |-> pos]
D(e) == [t |-> "do", e |-> e]
IfS(t, a, b) == [s |-> "if", t |-> t, then |-> a, orelse |-> b]
WhileS(t, a, b) == [s |-> "while", t |-> t, body |-> a, orelse |-> b]
ForS(x, over, a, b) == [s |-> "for", x |-> x, over |-> over, body |-> a, orelse |-> b]
TryS(a, h, b, fin, star) ==
    [s |-> "try", body |-> a, handlers |-> h, orelse |-> b, final |-> fin, star |-> star]
H(b) == [x |-> NoName, body |-> b]
WithS(x, e, a) == [s |-> "with", x |-> x, e |-> e, body |-> a]
Case(caps, t, b, all) == [caps |-> caps, t |-> t, body |-> b, all |-> all]
MatchS(x, cases) == [s |-> "match", x |-> x, cases |-> cases]
Fn(param, rely, guar, body) == [param |-> param, rely |-> rely, guar |-> guar, body |-> body]
NoFns == [f \in {} |-> 0]
Pass == Just("pass")

Program1(main, fns) ==
    [main |-> Lab(main, <<0>>, 1), fns |-> [f \in DOMAIN fns |-> [fns[f] EXCEPT !.body = Lab(fns[f].body, IF f = "f" THEN <<1>> ELSE <<2>>, 1)]]]

\* Every combination, in a fixed order.
Cross(As, Bs, F(_, _)) ==
    [i \in 1..(Len(As) * Len(Bs)) |-> F(As[((i - 1) \div Len(Bs)) + 1], Bs[((i - 1) % Len(Bs)) + 1])]
Over(As, F(_)) == [i \in DOMAIN As |-> F(As[i])]

(***************************************************************************)
(* x a checked text and ys a list of it, in every small block.             *)
(***************************************************************************)
Checked == <<Asg("x", Input), Chk("v", "x"), Asg("ys", L(<<"x">>)), Asg("g", Lambda)>>
Small ==
    << <<Ex(Exec)>>, <<Ex(Open)>>, <<Chk("v", "x")>>, <<Chk("u", "x")>>, <<Asg("x", T(tb))>>,
       <<Asg("x", N("g"))>>, <<Ex(Meth("ys", "append", "g"))>>, <<[s |-> "store", x |-> "ys", y |-> "g"]>>,
       <<Ex(Call("f", "x"))>>, <<Ex(Meth("ys", "sort", "g"))>>, <<Ex([e |-> "getter", x |-> "ys"])>>,
       <<Asg("y", [e |-> "item", x |-> "ys"]), Ex(Meth("y", "go", "y"))>>,
       <<Asg("ys", L(<<"g">>)), Just("raise")>>, <<Chk("u", "x"), Ex(Exec)>>,
       <<Asg("y", Comp("ys", Meth("z", "go", "z"))), Ex(Meth("ys", "append", "g"))>>,
       <<[s |-> "aug", x |-> "x", y |-> "x"]>>, <<[s |-> "assert", t |-> G("x", "p", TRUE)]>>,
       <<Asg("y", Meth("x", "go", "g")), Ex(Meth("y", "go", "x"))>>, <<Asg("y", Comp("g", N("z")))>>,
       <<Asg("y", [e |-> "sorted", x |-> "ys"]), Asg("y", [e |-> "item", x |-> "y"]), Ex(Meth("y", "go", "y"))>>,
       <<Just("raise")>>, <<Pass>> >>
Ends == << <<Pass>>, <<Asg("x", T(ta))>>, <<Chk("v", "x")>>, <<Ex(Exec)>> >>
LoopEnds == << <<>>, <<IfS(D(Input), <<Just("break")>>, <<>>)>>,
               <<IfS(D(Input), <<Just("continue")>>, <<Just("break")>>)>> >>

Compounds ==
    Cross(Small, Small, LAMBDA a, c : IfS(G("x", "p", TRUE), a, c))
    \o Cross(Small, Small, LAMBDA a, c : WhileS(D(Input), a \o c, <<>>))
    \o Cross(Small, Small, LAMBDA a, c : WhileS(D(Input), <<Pass>>, <<TryS(a, <<H(c)>>, <<>>, <<>>, FALSE)>>))
    \o Cross(Small, Small, LAMBDA a, c : ForS("z", "ys", <<IfS(G("z", "p", FALSE), a, c)>>, <<Ex(Meth("z", "go", "z"))>>))
    \o Cross(Small, Ends, LAMBDA a, c : WhileS(G("x", "p", FALSE), a, c))
    \o Cross(Small, LoopEnds, LAMBDA a, e : WhileS(D(Exec), a \o e, <<Chk("v", "x")>>))
    \o Cross(Small, LoopEnds, LAMBDA a, e : WhileS(D(Comp("ys", Meth("z", "go", "z"))), a \o e, <<Chk("v", "x")>>))
    \o Cross(Small, LoopEnds, LAMBDA a, e : ForS("z", "ys", <<Ex(Meth("z", "go", "z"))>> \o a \o e, <<Pass>>))
    \o Cross(Small, Ends, LAMBDA a, c : TryS(a, <<H(c)>>, <<Ex(Open)>>, <<>>, FALSE))
    \o Cross(Small, Ends, LAMBDA a, c : TryS(<<Pass>>, <<H(c), H(a)>>, <<>>, <<>>, TRUE))
    \o Cross(Small, Ends, LAMBDA a, c : TryS(a, <<>>, <<>>, c, FALSE))
    \o Over(Small, LAMBDA a : WithS("h", Open, a))
    \o Over(Small, LAMBDA a : WithS("h", Call("f", "x"), a))
    \o Over(Small, LAMBDA a : MatchS("ys", <<Case({"x"}, NoTest, a, FALSE), Case({}, G("x", "p", TRUE), <<Pass>>, FALSE)>>))
    \o Cross(Small, Ends, LAMBDA a, c : MatchS("x", <<Case({}, G("x", "p", TRUE), a, FALSE), Case({"y"}, NoTest, c, TRUE)>>))
    \o Cross(Small, Ends, LAMBDA a, c : MatchS("ys", <<Case({"z"}, G("z", "p", TRUE), a, FALSE), Case({"z"}, G("x", "p", TRUE), c, FALSE)>>))

FExec == "f" :> Fn("a", {}, {}, <<Ex(Exec), Ret(N("a"))>>)
Branching == Over(Compounds, LAMBDA s : Program1(Checked \o <<s, Pass>>, FExec))

(***************************************************************************)
(* Typed containers and handles.                                           *)
(***************************************************************************)
Boxed == <<Asg("x", Input), [s |-> "assert", t |-> G("x", "p", TRUE)], Chk("v", "x"),
           Ann("xs", {"p", "v"}, L(<<"x">>)),
           Asg("h", Open), Asg("d", Exec), Asg("g", Lambda)>>
BoxSteps ==
    << <<Ex(Exec)>>, <<Ex(Meth("h", "write", "x"))>>, <<Ex(Meth("xs", "append", "x"))>>,
      <<Asg("x", Input), Chk("v", "x")>>, <<Asg("x", T(ta)), Chk("v", "x"), Ex(Meth("xs", "append", "x"))>>,
      <<Ann("xs", {"p"}, N("xs"))>>, <<Ann("ws", {"v"}, N("xs")), Ex(Meth("xs", "extend", "ws"))>>,
      <<Asg("x", [e |-> "item", x |-> "xs"]), [s |-> "store", x |-> "xs", y |-> "x"]>>,
      <<Asg("x", Meth("xs", "pop", "x"))>>, <<Ex(Meth("d", "read", "g"))>>, <<Ex(Meth("d", "read", "x"))>>,
      <<Ann("ws", {"v"}, Comp("xs", Single("v", "z"))), [s |-> "aug", x |-> "xs", y |-> "ws"]>>,
      <<Ann("ws", {"p"}, Comp("d", Single("p", "z")))>>, <<Ann("ws", {"u"}, Comp("d", Single("u", "z")))>>,
      <<Ann("ws", {"v"}, Comp("xs", N("z"))), [s |-> "aug", x |-> "xs", y |-> "ws"]>>,
      <<Asg("y", Comp("xs", Meth("z", "go", "g")))>>, <<Asg("y", [e |-> "sorted", x |-> "xs"])>>,
      <<[s |-> "attr", x |-> "d", y |-> "g"], Ex(Meth("d", "read", "x"))>>,
      <<Asg("n", [e |-> "len", x |-> "xs"]), Asg("y", [e |-> "getter", x |-> "d"])>>,
      <<Asg("y", Meth("x", "go", "g")), Ex(Meth("y", "go", "x"))>>,
      <<Asg("q", Input), Ann("ws", {}, L(<<"q">>)), Ex(Meth("xs", "extend", "ws"))>>,
      <<Asg("q", Input), Ann("ws", {}, L(<<"q">>)), [s |-> "aug", x |-> "xs", y |-> "ws"]>>,
      <<Ex(Meth("g", "go", "x"))>>, <<Just("raise")>> >>
BoxCompounds ==
    Cross(BoxSteps, << <<Pass>>, <<Ann("xs", {"p", "v"}, L(<<>>))>> >>, LAMBDA a, b : IfS(D(Input), a, b))
    \o Over(BoxSteps, LAMBDA a : WhileS(D(Input), a, <<>>))
    \o Over(BoxSteps, LAMBDA a : ForS("z", "d", a, <<>>))
    \o Cross(BoxSteps, BoxSteps, LAMBDA a, b : IfS(D(Input), a, b))
    \o Cross(BoxSteps, BoxSteps, LAMBDA a, b : TryS(a, <<[x |-> "e", body |-> b]>>, <<>>, <<>>, TRUE))
    \o Cross(BoxSteps, BoxSteps, LAMBDA a, b : WhileS(D(Input), a \o b, <<>>))
    \o Over(BoxSteps, LAMBDA a : TryS(a, <<[x |-> "e", body |-> <<Pass>>]>>, <<>>, <<>>, FALSE))
    \o Over(BoxSteps, LAMBDA a : WithS("h", Open, a \o <<Ex(Meth("h", "write", "x"))>>))
Boxes ==
    Over(BoxCompounds, LAMBDA s : Program1(Boxed \o <<s, Pass>>, NoFns))
    \o Over(BoxSteps, LAMBDA a :
            Program1(Boxed \o <<Ann("ps", {"p"}, N("xs")), ForS("z", "ps", a, <<>>), Pass>>, NoFns))

(***************************************************************************)
(* Functions that call each other, and contracts.                          *)
(***************************************************************************)
Bodies ==
    << <<Ex(Exec)>>, <<Ret(Call("g", "a"))>>, <<Chk("u", "a"), Ret(N("a"))>>, <<Asg("b", Lambda), Ret(N("b"))>>,
      <<IfS(D(Input), <<Ret(L(<<"k">>))>>, <<Ex(Call("f", "a"))>>)>>,
      <<TryS(<<Asg("b", Call("g", "a"))>>, <<H(<<Ret(T(ta))>>)>>, <<Ret(N("b"))>>, <<>>, FALSE)>>,
      <<Ex(Meth("a", "go", "a"))>>, <<WhileS(D(Input), <<Ret([e |-> "len", x |-> "k"])>>, <<>>), Ret(Exec)>>,
      <<MatchS("a", <<Case({"a"}, NoTest, <<Ret(N("a"))>>, TRUE)>>)>>,
      <<Ret([e |-> "sorted", x |-> "k"])>>, <<[s |-> "yield", x |-> "a"], Ex(Exec), Ret(N("k"))>>,
      <<Asg("b", L(<<"k">>)), Asg("c", Lambda),
        WhileS(D(Comp("b", Meth("z", "go", "z"))), <<Ex(Meth("b", "append", "c")), Ex(Comp("b", Meth("z", "go", "z")))>>,
               <<>>), Ret(N("k"))>> >>
Calling == Cross(Bodies, Bodies, LAMBDA f, g : Program1(<<Asg("k", T(ta)), Asg("x", T(tb)), Chk("v", "x"), Asg("ys", L(<<"x">>)),
                       Asg("y", Call("f", "x")), Ex(Meth("y", "go", "y")), Pass>>,
                     "f" :> Fn("a", {}, {}, f) @@ "g" :> Fn("a", {}, {}, g)))

Vouching == << <<Ret(N("a"))>>, <<Ex(Exec), Ret(N("a"))>>, <<Chk("u", "a"), Ret(N("a"))>>, <<Ret(Exec)>>,
              <<Chk("u", "a"), Chk("v", "a"), Ret(N("a"))>>, <<IfS(D(Input), <<Ret(N("a"))>>, <<Pass>>)>>,
              <<Asg("a", Input), Chk("v", "a"), Ret(N("a"))>>, <<Ex(Open), Just("raise")>>,
              <<[s |-> "assert", t |-> G("a", "p", TRUE)], Ret(N("a"))>> >>
Clauses == << [rely |-> {}, guar |-> {}], [rely |-> {"v"}, guar |-> {}], [rely |-> {"v"}, guar |-> {"v"}],
              [rely |-> {}, guar |-> {"u"}], [rely |-> {}, guar |-> {"p"}] >>
Contracts == Cross(Vouching, Clauses, LAMBDA b, c :
                Program1(<<Asg("x", Input), Chk("v", "x"), Asg("y", Call("f", "x")), Ex(Exec), Asg("w", Call("f", "y")), Pass>>,
                         "f" :> Fn("a", c.rely, c.guar, b)))

\* A for over a container whose element check the body spoils.
Stale == {Program1(<<Asg("x", Input), Chk("v", "x"), Ann("xs", {"v"}, L(<<"x">>)),
                     ForS("z", "xs", <<Pass, Ex(Open)>>, <<>>), Pass>>, NoFns)}
\* An exception in a handler, or in an else block, that finally does not expect.
Unexpected == {Program1(<<Asg("x", Input), Chk("v", "x"), TryS(<<Just("raise")>>, <<H(b)>>, <<>>, <<Pass>>, FALSE), Pass>>, NoFns)
                 : b \in {<<Asg("x", Input), Just("raise")>>, <<Ex(Open), Just("raise")>>}}
\* A write handle read back out of a list, and one handed back by a function.
Laundered == {Program1(<<Asg("x", Input), Chk("v", "x"), Asg("h", Open), Asg("hs", L(<<"h">>)), Chk("v", "x"),
                         Asg("i", [e |-> "item", x |-> "hs"]), Ex(Meth("i", "write", "x")), Pass>>, NoFns)}
\* A capture that stays bound when the guard of its case fails.
Captured == {Program1(Checked \o <<MatchS("ys", <<Case({"x"}, G("x", "p", TRUE), <<Just("raise")>>, FALSE),
                                                 Case({}, NoTest, <<Pass>>, FALSE)>>), Pass>>, NoFns)}
\* A loop in a function whose header runs the program's code from the second time on only.
LateHeader == {Program1(<<Asg("k", T(ta)), Asg("x", T(tb)), Chk("v", "x"), Asg("y", Call("f", "x")), Pass>>,
                 "f" :> Fn("a", {}, {}, <<Asg("b", L(<<"k">>)), Asg("c", Lambda),
                           WhileS(D(Comp("b", Meth("z", "go", "z"))), <<Ex(Meth("b", "append", "c"))>>, <<>>)>>))}
\* A list extended by a generator.
Consumed == {Program1(<<Asg("x", Input), Asg("ys", L(<<"x">>)), Asg("g", Lambda), Chk("v", "x"),
                        [s |-> "aug", x |-> "ys", y |-> "g"], Pass>>, NoFns)}

MCPrograms == Range(Branching \o Boxes \o Calling \o Contracts)
=============================================================================

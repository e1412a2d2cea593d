---------------------------- MODULE MCDecisions ----------------------------
(****************************************************************************)
(* The policies and calls Decisions is checked on.  Four families: command  *)
(* templates against every short call; the choice of a rule by its words;   *)
(* pairs of network rules against every URL; redirects between rules.       *)
(****************************************************************************)
EXTENDS Decisions, TLC

MCDashed == {"-f", "-q", "-fq", "-o", "-z", "--"}
MCText == MCDashed \cup {"run", "push", "pull", "x", "y",
                         "ua", "uaq", "ua8", "ub", "uah", "uodd", "uc"}
MCBundle == "-fq" :> <<"-f", "-q">>
MCDefined == "plain" :> {"x", "ua", "ub"}
MCVerdict == "ok" :> {"y", "ua", "uc"}

Url(scheme, host, port, path) == [scheme |-> scheme, host |-> host, port |-> port, path |-> path]
A == <<"ex", "a">>
B == <<"ex", "b">>
C == <<"org">>
MCParts == "ua" :> Url("https", A, 0, "/p") @@ "uaq" :> Url("https", A, 0, "/q")
        @@ "ua8" :> Url("https", A, 8443, "/p") @@ "ub" :> Url("https", B, 0, "/p")
        @@ "uah" :> Url("http", A, 0, "/p") @@ "uodd" :> Url("https", A, 0, "/%2e")
        @@ "uc" :> Url("https", C, 0, "/p")
MCUnplaced == {"/%2e"}
MCNonPublic == {C}
MCMaxRedirects == 2

NoKeys == [k \in {} |-> {}]

\* A check of the world ("fresh", "clean"), and a literal checker ("ok").
Checks == {
    [name |-> "look", params |-> {"p"}, argv |-> <<Lit("look"), Lit("--"), Hole("p")>>,
     establishes |-> ("p" :> {"fresh"} @@ Cwd :> {"clean"}),
     pure |-> {}, cwd |-> {{"x", "y"}}, network |-> FALSE, writeFs |-> TRUE, writes |-> None],
    [name |-> "pair", params |-> {"p", "q"}, argv |-> <<Lit("pair"), Hole("q"), Hole("p")>>,
     establishes |-> "q" :> {"fresh"},
     pure |-> {}, cwd |-> {}, network |-> FALSE, writeFs |-> FALSE, writes |-> None],
    [name |-> "spell", params |-> {"p"}, argv |-> <<Lit("spell"), Hole("p")>>, establishes |-> "p" :> {"ok", NotOption},
     pure |-> {"ok", NotOption}, cwd |-> {}, network |-> FALSE, writeFs |-> FALSE, writes |-> None]}
Regions == {[name |-> "index", medium |-> "fs"], [name |-> "logs", medium |-> "fs"],
            [name |-> "api", medium |-> "net"],
            [name |-> "cdn", medium |-> "net"]}

Empty == [programs |-> {}, validations |-> Checks, atoms |-> {"plain"}, network |-> {},
          sources |-> {}, regions |-> Regions,
          reads |-> "fresh" :> Effects({"api"}, {}) @@ "clean" :> Effects({"index"}, {}),
          denied |-> {}, defaultAllow |-> FALSE]

Rule(name, sub, template) ==
    [name |-> name, cwd |-> {{"x"}, {"y"}}, requires |-> NoKeys, sub |-> sub, template |-> template,
     source |-> None, network |-> FALSE, writeFs |-> TRUE, writes |-> None]
OfRule(r) == [Empty EXCEPT !.programs = {r}]

-----------------------------------------------------------------------------
(* Templates.                                                               *)

Plain == Constraint({}, {}, FALSE, {"plain"})
Constraints == {AnyToken, Plain, Constraint({"x", "y"}, {}, FALSE, {}),
                Constraint({}, {"x", "-z"}, FALSE, {}), Constraint({}, {}, TRUE, {}),
                Constraint({}, {}, FALSE, {"ok"}), Constraint({"x", "y"}, {}, FALSE, {"fresh"})}

Vocab(expands) == Flagset({"-f", "-q"}, "-o" :> AnyToken, "-f" :> (Cwd :> {"clean"}), expands)
OfHole == Flagset({"-f", "-q"}, "-o" :> Plain, "-q" :> ("X" :> {"fresh"}), FALSE)

T(pieces, holes) == Some([pieces |-> <<Lit("run")>> \o pieces, holes |-> holes])
F == "F"
X == "X"
Y == "Y"
Templates ==
    UNION {{T(<<Splice(F), Hole(X)>>, F :> Flags(fs) @@ X :> Token(c)),
            T(<<Splice(F), Lit("--"), Hole(X)>>, F :> Flags(fs) @@ X :> Token(c)),
            T(<<Hole(X), Splice(F)>>, F :> Flags(fs) @@ X :> Token(c))}
             : fs \in {Vocab(TRUE), Vocab(FALSE), OfHole, AnyFlag}, c \in {AnyToken, Plain}}
    \cup UNION {{T(<<Hole(X), Splice(Y)>>, X :> Token(c) @@ Y :> Each(AnyToken, 1)),
                 T(<<Splice(Y), Hole(X)>>, X :> Token(AnyToken) @@ Y :> Each(c, 0)),
                 T(<<Hole(X), Lit("--"), Splice(Y)>>, X :> Token(AnyToken) @@ Y :> Each(c, 0))}
                  : c \in Constraints}
    \cup {T(<<Lit("-z"), Lit("--"), Hole(X)>>, X :> Token(AnyToken)),
          T(<<Lit("-z"), Splice(F), Hole(X)>>, F :> Flags(Vocab(FALSE)) @@ X :> Token(Plain))}

OneOf(ts) == Value(ts, {})
Values == {Str("x"), Str("-f"), Str("-fq"), Str("-o"), Str("-z"), OneOf({"x", "y"}),
           Value({"x", "-z", "-o"}, {NotOption}), Value({"x", "y"}, {"fresh"}), OneOf({"-f", "x"})}
Tokens == {Str("x"), Str("-f"), Str("-o"), OneOf({"x", "y"}), Value({"x", "-z"}, {NotOption})}
Seqs(S, n) == UNION {[1 .. k -> S] : k \in 0 .. n}

ExecCall(name, args, kws, cwd) ==
    [kind |-> "exec", name |-> name, args |-> args, kws |-> kws, cwd |-> cwd]
Clean == Value({"x"}, {"clean"})

ByName == {NoKeys} \cup {X :> One(v) : v \in Values \cup {Unknown}}
          \cup {F :> Many(<<Str("-o"), Unknown>>), F :> Many(<<Str("-fq")>>),
                F :> Many(<<Str("-q")>>) @@ X :> One(Str("x")),
                Y :> Elements(OneOf({"x", "y"})), Y :> Elements(Value({"y", "-f"}, {"ok"})),
                Y :> Many(<<Str("x"), Str("-z")>>) @@ X :> One(Str("y"))}

Shapes ==
    {[policies |-> {OfRule(Rule("run", <<>>, t)) : t \in Templates},
      calls |-> {ExecCall("run", args, NoKeys, cwd) :
                   args \in Seqs(Values, 2), cwd \in {Clean, OneOf({"y"})}}
                \cup {ExecCall("run", args, NoKeys, Clean) : args \in [1 .. 3 -> Tokens]}
                \cup {ExecCall("run", <<Str("-z")>> \o args, NoKeys, Clean) :
                         args \in {<<Str("--"), v>> : v \in Values} \cup Seqs(Tokens, 2)}],
     [policies |-> {OfRule([Rule("run", <<>>, t) EXCEPT !.requires = req]) :
                      t \in Templates, req \in {NoKeys, X :> {"ok"}}},
      calls |-> {ExecCall("run", args, kws, Clean) : args \in Seqs(Values, 1), kws \in ByName}]}

-----------------------------------------------------------------------------
(* Words, default-allow, and what a rule writes.                            *)

Forms == {Rule("run", sub, None) : sub \in Seqs({"push", "pull"}, 2)}
         \cup {Rule("run", <<>>, T(<<Lit("push"), Hole(X)>>, X :> Token(AnyToken)))}
Claims == {Rule("run", <<"pull">>, None),
           [Rule("run", <<"pull">>, None) EXCEPT !.writes = Some(Effects({"logs"}, {})),
                                                 !.source = Some("made")],
           [Rule("run", <<"pull">>, None) EXCEPT !.writes = Some(Effects({"api"}, {}))]}
Words ==
    [policies |-> {[Empty EXCEPT !.programs = {a, b}, !.defaultAllow = open, !.denied = denied] :
                     a \in Claims, b \in Forms, open \in BOOLEAN, denied \in {{}, {"ls"}}},
     calls |-> {ExecCall(name, args, NoKeys, cwd) :
                  name \in {"run", "ls"},
                  args \in Seqs({Str("push"), Str("pull"), OneOf({"push", "pull"})}, 2),
                  cwd \in {OneOf({"x"}), OneOf({"x", "y"})}}]

CheckCall(name, single, args, cwd) ==
    [kind |-> "check", name |-> name, single |-> single, args |-> args, cwd |-> cwd]
CheckCalls ==
    [policies |-> {Empty},
     calls |-> {CheckCall(name, TRUE, Sole :> v, cwd) :
                  name \in {"look", "pair", "spell", "ls"}, v \in Tokens,
                  cwd \in Seqs({OneOf({"x"}), OneOf({"x", "y"}), OneOf({"x", "run"}), Unknown}, 1)}
               \cup {CheckCall(name, FALSE, args, cwd) :
                  name \in {"look", "pair", "spell", "ls"},
                  args \in UNION {[S -> Tokens] : S \in SUBSET {"p", "q"}},
                  cwd \in Seqs({OneOf({"x"}), OneOf({"x", "run"})}, 1)}]

-----------------------------------------------------------------------------
(* Requests.                                                                *)

Exact(h) == [wild |-> FALSE, labels |-> h]
Below(h) == [wild |-> TRUE, labels |-> h]
Net(host, ports, methods, paths) ==
    [host |-> host, schemes |-> {"https"}, ports |-> ports, methods |-> methods, paths |-> paths,
     requires |-> NoKeys, source |-> None, writes |-> None, allowNonpublic |-> FALSE]

Get(method, url) == [kind |-> "request", method |-> method, url |-> url]
Pool == {Net(h, ports, ms, ps) :
           h \in {Exact(A), Exact(B), Below(<<"ex">>), Below(A)}, ports \in {{}, {8443}},
           ms \in {{}, {"GET"}}, ps \in {{}, {{"/p"}}, {{"/q"}}}}
Named == {Str("ua"), Str("uodd"), UrlValue({"ua", "uaq"}, {}), UrlValue({"ua", "ub"}, {"fresh"})}

Pairs == [policies |-> {[Empty EXCEPT !.network = {a, b}] : a, b \in Pool},
          calls |-> {Get("GET", u) : u \in Named}]

\* Each rule asks one atom, and says how a redirect treats it.
Asking(r) == {[r EXCEPT !.requires = req] :
                req \in {NoKeys} \cup {a :> how : a \in {"plain", "fresh", "ok"},
                                                 how \in {"default", "stop", "waive", "recheck"}}}
First == Asking([Net(Exact(A), {}, {}, {}) EXCEPT !.source = Some("made"),
                                                  !.writes = Some(Effects({"api"}, {}))])
Second == Asking([Net(Exact(B), {}, {"GET"}, {}) EXCEPT !.writes = Some(Effects({"cdn"}, {}))])
Third == {Net(Exact(C), {}, {}, {}),
          [Net(Below(<<"ex">>), {}, {"POST"}, {{"/p"}}) EXCEPT !.schemes = {"http"}]}

Redirects ==
    [policies |-> {[Empty EXCEPT !.network = {a, b, c}] : a \in First, b \in Second, c \in Third},
     calls |-> {Get(m, u) : m \in Methods,
                  u \in {Str("ua"), Value({"ua"}, {"fresh"}),
                         UrlValue({"ua", "ub"}, {"fresh", "ok", "plain"})}}]

\* A wildcard rule and an exact one that differ in the port alone, and a URL
\* that names a host of each.
MixedPorts ==
    [policies |-> {[Empty EXCEPT !.network = {
                      [Net(Below(<<"ex">>), {}, {}, {}) EXCEPT !.writes = Some(Effects({"cdn"}, {}))],
                      [Net(Exact(A), {8443}, {}, {}) EXCEPT !.writes = Some(Effects({"api"}, {}))]}]},
     calls |-> {Get("POST", UrlValue({"ua8", "ub"}, {}))}]

MCCases == Shapes \cup {Words, CheckCalls, Pairs, Redirects}
MixedCases == {MixedPorts}
=============================================================================

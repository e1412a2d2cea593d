------------------------------ MODULE MCValues ------------------------------
(****************************************************************************)
(* Values over short texts on a few characters, one of each shape the       *)
(* domain tells apart: empty, ".", "..", climbing, absolute, with a         *)
(* separator at either end, beginning with "-", differing in case.          *)
(****************************************************************************)
EXTENDS Values

a == <<"a">>
b == <<"b">>
A == <<"A">>
da == <<"-", "a">>
ab == <<"a", "/", "b">>
sa == <<"/", "a">>
as == <<"a", "/">>
wa == <<"/", "w", "/", "a">>
climb == <<"a", "/", ".", ".", "/", "b">>

MCCwd == << <<"w">> >>
MCMatches(r, s) ==
    CASE r = "word" -> s # <<>> /\ ToSet(s) \subseteq {"a", "b", "A"}
      [] r = "maybe" -> ToSet(s) \subseteq {"a", "b", "-"}
      [] r = "upper" -> s # <<>> /\ ToSet(s) \subseteq {"A"}
MCMayBegin(r, ch) ==
    CASE r = "word" -> ch \in {"a", "b", "A"}
      [] r = "maybe" -> ch \in {"a", "b", "-"}
      [] r = "upper" -> ch = "A"

\* Case is folded.
Alike == {"a", "A"}
MCSpellings(n) ==
    {m \in [DOMAIN n -> {"a", "A"} \cup ToSet(n)] :
        \A i \in DOMAIN n : m[i] = n[i] \/ {m[i], n[i]} = Alike}
MCVetted == {a, ab}
MCFileNames == {a, b, A}

Rel(cs) == Static(cs, FALSE)
Under(cs) == Splat(cs, <<>>, FALSE)
Word == Pattern("word")
Maybe == Pattern("maybe")

Lit(s) == [fact |-> Literal(s), val |-> Str(s)]
Of(f, S) == {[fact |-> f, val |-> [t |-> IF IsPath(f) THEN "path" ELSE "str", s |-> s]] : s \in S}
Odd == {<<>>, Dot, DotDot, a, A, sa, as, <<".", "/", "a">>, ab, climb, da, wa, <<"b", "/", "/", "a">>}

MCInputs ==
    {[fact |-> AsFact(Literal(s)), val |-> Str(s)] : s \in Odd}
    \cup Of(Text, Odd)
    \cup {[fact |-> Nothing, val |-> v] : v \in {Str(a), Str(DotDot), Path(a), Path(climb)}}
    \cup Of(ListDir, {a, A, da})
    \cup Of(StrFact(Word, {"vetted"}), {a})
    \cup Of(StrFact(Maybe, {}), {<<>>, a, da})
    \cup Of(StrFact(Alternation({Exact(a), Exact(ab)}), {}), {a, ab})
    \cup Of(PathFact({}), {Dot, DotDot, a, sa, ab, climb})
    \cup Of(Located(Rel(<<Named(a)>>), "str", {"vetted"}), {a})
    \cup Of(Located(Under(<<Named(a)>>), "str", {}), {a, ab})
    \cup Of(Located(Under(<<Named(a)>>), "path", {}), {a, ab})
    \cup Of(Located(Splat(<<>>, <<Matching(Word)>>, FALSE), "path", {}), {a, A, ab})
    \cup Of(Located(Static(<<Named(a)>>, TRUE), "path", {}), {sa})

MCOperands ==
    {Lit(s) : s \in {<<>>, Dot, DotDot, b, ab, sa, as}}
    \cup Of(ListDir, {b})
    \cup Of(Text, {DotDot, sa})
    \cup Of(StrFact(AnyStr, {"no-parent", "not-absolute"}), {Dot, ab})
    \cup Of(Located(Under(<<Named(b)>>), "path", {}), {b, <<"b", "/", "a">>})
    \cup Of(Located(Splat(<<>>, <<OneOf({a, b})>>, FALSE), "str", {}), {b, <<"A", "/", "a">>})
    \cup Of(Located(Rel(<<>>), "path", {}), {Dot})

Slashed == <<"/">>
MCFormats ==
    {<<X, Lit(s)>> : s \in {<<>>, Slashed, b, <<".", "b">>, sa, <<"/", ".", ".">>}}
    \cup {<<Lit(s), X>> : s \in {<<>>, Slashed, b, Dot, as, <<"-">>}}
    \cup {<<Lit(as), X, Lit(<<"/", "b">>)>>, <<X, X>>, <<X, Lit(Slashed), X>>}
    \cup {<<o, X>> : o \in Of(StrFact(Maybe, {}), {<<>>, b})}
    \cup {<<X, Lit(Slashed), o>> : o \in Of(ListDir, {b}) \cup Of(Text, {DotDot, sa})}
    \cup {<<o, X>> : o \in Of(Located(Under(<<Named(b)>>), "str", {}), {b, <<"b", "/", "a">>})}

Views == {"x", "str", "pure", "strpure", "resolve", "realpath", "normpath"}
Texts == Views \ {"strpure"}     \* views whose text is told
C(k, views, holds) == {[k |-> k, view |-> v, holds |-> holds] : v \in views}
With(cs, f, S) == {f :> s @@ c : c \in cs, s \in S}
Bases == {[base |-> Literal(a), s |-> a], [base |-> Literal(wa), s |-> wa],
          [base |-> Located(Under(<<Named(a)>>), "path", {}), s |-> ab]}
Based(cs) == {[base |-> B.base, baseval |-> B.s, baseview |-> v] @@ c :
                 c \in cs, B \in Bases, v \in {"pure", "resolve"}}
EqualTo == {[base |-> o.fact, value |-> o.val] : o \in MCOperands}

MCConditions ==
    C("sepin", Views, FALSE) \cup C("sepcount", Views, TRUE) \cup C("dotdotin", Views, FALSE)
    \cup With(C("parts", Views, FALSE), "of", {"str", "path"})
    \cup With(C("in", Texts, TRUE), "lits", {{a, ab}, {DotDot, b}})
    \cup With(C("in", Views, FALSE), "lits", {{Dot, DotDot}})
    \cup C("basename", Views, TRUE) \cup C("dirname", Views, TRUE) \cup C("name", Views, TRUE)
    \cup {c @@ e : c \in C("equals", Texts, TRUE), e \in EqualTo}
    \cup {c @@ [base |-> Literal(DotDot), value |-> Str(DotDot)] : c \in C("equals", Views, FALSE)}
    \cup Based(C("parents", Views, TRUE) \cup C("parent", Views, TRUE) \cup C("relative", Views, TRUE)
               \cup C("commonpath", Views, TRUE) \cup C("belowbase", Views, TRUE))
    \cup With(C("fullmatch", Texts, TRUE), "pattern", {Word, Maybe})
    \cup With(C("isword", Texts \ {"normpath"}, TRUE), "pattern", {Word})
    \cup With(C("isinstance", {"x", "pure"}, TRUE), "type", {"str", "path"})
    \cup C("isabs", Views, FALSE) \cup C("absolute", Views, FALSE)
    \cup With(C("pathmatch", Views, TRUE), "loc", {Under(<<Named(a)>>), Static(<<Named(a)>>, TRUE)})
    \cup With(C("starts", Texts, TRUE), "lits", {{as}, {a, b}, {sa}})
    \cup With(C("ends", Texts, TRUE), "lits", {{a}, {sa}})
    \cup With(C("head", Views, FALSE), "lits", {{Slashed}})
    \cup With(C("head", Views \ {"normpath"}, FALSE), "lits", {{<<"-">>}})
    \cup {[k |-> "or", holds |-> h, any |-> cs] : h \in BOOLEAN, cs \in {
              <<[k |-> "equals", view |-> "x", holds |-> TRUE, base |-> Literal(a), value |-> Str(a)],
                [k |-> "in", view |-> "x", holds |-> TRUE, lits |-> {b, sa}]>>,
              <<[k |-> "starts", view |-> "x", holds |-> TRUE, lits |-> {Slashed}],
                [k |-> "dotdotin", view |-> "x", holds |-> TRUE]>>}}

MCPatterns == {<<Named(b)>>, <<Matching(Word)>>, <<Named(a), Run, AnyName>>}

MCRequired ==
    {Located(Under(<<Named(a)>>), "str", {}), Located(Under(<<>>), "path", {"not-option"}),
     StrFact(Word, {}), StrFact(AnyStr, {"no-slash", "not-option"}), PathFact({"vetted"})}

MCPolicies ==
    {[read |-> {Under(<<Named(a)>>)}, write |-> {Under(<<>>)},
      noWrite |-> {Rel(<<Named(a)>>)}],
     [read |-> {Splat(<<>>, <<Named(a)>>, FALSE)}, write |-> {Under(<<Matching(Word)>>), Rel(<<AnyName>>)},
      noWrite |-> {Splat(<<Named(a)>>, <<OneOf({b})>>, FALSE)}],
     [read |-> {Static(<<Named(a)>>, TRUE)}, write |-> {Splat(<<>>, <<AnyName>>, FALSE)},
      noWrite |-> {Rel(<<Matching(Pattern("upper")), Named(b)>>)}]}

MCMaxSteps == 2

\* A located text that is concatenated is spelled as its location is
\* replayed: pathlib's own spelling, on the same anchor.
Replayed(facts, texts) ==
    \A i \in DOMAIN facts :
        facts[i].f = "located" => Canonical(texts[i]) /\ IsAbsolute(texts[i]) = facts[i].loc.absolute

\* Likewise one that is joined below another, up to extra separators.
Lexically(v, s) == v.f = "located" => ~Climbs(s) /\ IsAbsolute(s) = v.loc.absolute

\* And a splat that may be anything is not glued onto another.
Plainly(facts, texts) ==
    LET Splats(i) == facts[i].f = "located" /\ facts[i].loc.splat
    IN /\ Replayed(facts, texts)
       /\ \A i \in 2 .. Len(facts) :
             Splats(i) /\ facts[i].loc.comps = <<>> /\ ~facts[i].loc.absolute => ~Splats(i - 1)
=============================================================================

------------------------------- MODULE Values -------------------------------
(****************************************************************************)
(* One variable of a program: what the analysis knows of it, and what it    *)
(* holds when the program runs.  Each action is an operation of the subset  *)
(* the analysis has a transfer function for, applied to both.               *)
(*                                                                          *)
(* A value is a str or a pathlib.Path (t), with its text s; a path's text   *)
(* is str(p).  Path names are resolved against the sandbox root, Cwd, and   *)
(* no directory of the tree is a symbolic link.                             *)
(****************************************************************************)
EXTENDS Guards

CONSTANTS
    Inputs,        \* what x may be at first: a fact, and a value it is true of
    Operands,      \* the other operand of an operation, likewise
    Formats,       \* what is concatenated: operands, and X where x stands
    Conditions,    \* what may be asserted of x
    Patterns,      \* what x may be globbed for: components and runs
    Required,      \* the facts a function may require of its argument
    Policies,      \* read and write grants, protected locations
    Vetted,        \* the texts a pure checker accepts
    FileNames,     \* what a directory may list
    Cwd,           \* the sandbox root's own components
    Concatenated(_, _), \* the pieces, facts and texts, that are concatenated
    Joinable(_, _),     \* the arguments, a fact and a text, joined below another
    MaxSteps

ASSUME StepsAssumption == MaxSteps \in Nat

VARIABLES fact, val, steps
vars == <<fact, val, steps>>

X == [f |-> "x"]
Str(s) == [t |-> "str", s |-> s]

-----------------------------------------------------------------------------
(* Paths at run time.                                                       *)

SlashJoin(ns) == FlattenSeq([i \in DOMAIN ns |-> (IF i = 1 THEN <<>> ELSE <<Slash>>) \o ns[i]])
PathText(ns, absolute) ==
    CASE absolute -> <<Slash>> \o SlashJoin(ns)
      [] ~absolute /\ ns = <<>> -> Dot
      [] OTHER -> SlashJoin(ns)

Path(s) == [t |-> "path", s |-> PathText(Parts(s), IsAbsolute(s))]
Canonical(s) == s = PathText(Parts(s), IsAbsolute(s)) /\ ~Climbs(s)

\* ".." taken back lexically, from the root or from where a path starts.
Collapse(ns, rooted) ==
    FoldLeft(LAMBDA done, n :
                 CASE n # DotDot -> Append(done, n)
                   [] n = DotDot /\ done # <<>> /\ Last(done) # DotDot -> Front(done)
                   [] OTHER -> IF rooted THEN done ELSE Append(done, n), <<>>, ns)

\* The file a text names.
FileOf(s) == Collapse((IF IsAbsolute(s) THEN <<>> ELSE Cwd) \o Parts(s), TRUE)

NameMatches(c, n) ==
    CASE c.c = "any" -> TRUE
      [] c.c \in {"named", "oneof"} -> n \in Names(c)
      [] c.c = "matching" -> Accepts(c.regex, n)

Denotes(l, ns) ==
    LET k == Len(l.comps)
    IN /\ Len(ns) >= k /\ \A i \in 1 .. k : NameMatches(l.comps[i], ns[i])
       /\ ~l.splat => Len(ns) = k
       /\ l.leaf # <<>> => Len(ns) > k /\ NameMatches(l.leaf[1], Last(ns))

\* Is a file at a location?  A relative one lies under the sandbox root.
At(l, file) ==
    \/ l.absolute /\ Denotes(l, file)
    \/ /\ ~l.absolute /\ IsPrefix(Cwd, file)
       /\ Denotes(l, SubSeq(file, Len(Cwd) + 1, Len(file)))

\* os.path.join and pathlib: an absolute argument starts over.
Joined(s, t) ==
    CASE IsAbsolute(t) -> t
      [] ~IsAbsolute(t) /\ (s = <<>> \/ Last(s) = Slash) -> s \o t
      [] OTHER -> s \o <<Slash>> \o t

-----------------------------------------------------------------------------
(* Conditions at run time: TRUE, FALSE, or an exception.                    *)

View(view, v) ==
    CASE view = "x" -> v
      [] view = "str" -> Str(v.s)
      [] view = "pure" -> Path(v.s)
      [] view = "strpure" -> Str(Path(v.s).s)
      [] view = "resolve" -> Path(PathText(FileOf(v.s), TRUE))
      [] view = "realpath" -> Str(PathText(FileOf(v.s), TRUE))
      [] view = "normpath" -> Str(PathText(Collapse(Parts(v.s), IsAbsolute(v.s)), IsAbsolute(v.s)))

BaseText(c) == View(c.baseview, Path(c.baseval)).s

Raises(c, w) ==
    CASE c.k \in {"sepin", "sepcount", "dotdotin", "head", "starts", "ends", "isword", "fullmatch",
                  "belowbase", "pathmatch"} -> w.t = "path"
      [] c.k = "parts" -> w.t # c.of
      [] c.k \in {"absolute", "relative", "parents", "parent", "name"} -> w.t = "str"
      [] c.k = "commonpath" -> IsAbsolute(w.s) # IsAbsolute(BaseText(c))
      [] OTHER -> FALSE

Below(s, base) == IsAbsolute(s) = IsAbsolute(base) /\ IsPrefix(Parts(base), Parts(s))

True(c, w, v) ==
    CASE c.k = "sepin" -> Slash \in Chars(w.s)
      [] c.k = "sepcount" -> Slash \notin Chars(w.s)
      [] c.k = "dotdotin" -> \E i \in 1 .. Len(w.s) - 1 : SubSeq(w.s, i, i + 1) = DotDot
      [] c.k = "parts" -> Contains(Split(w.s), DotDot)
      [] c.k = "in" -> w.t = "str" /\ w.s \in c.lits
      [] c.k = "equals" -> w = c.value
      [] c.k = "basename" -> v = Str(Last(Split(w.s)))
      [] c.k = "dirname" -> Slash \notin Chars(w.s)
      [] c.k = "name" -> v = Str(IF Parts(w.s) = <<>> THEN <<>> ELSE Last(Parts(w.s)))
      [] c.k = "parents" -> Below(w.s, BaseText(c)) /\ Parts(w.s) # Parts(BaseText(c))
      [] c.k = "parent" -> /\ IsAbsolute(w.s) = IsAbsolute(BaseText(c))
                           /\ Parts(BaseText(c)) =
                                 IF Parts(w.s) = <<>> THEN <<>> ELSE Front(Parts(w.s))
      [] c.k \in {"relative", "commonpath"} -> Below(w.s, BaseText(c))
      [] c.k = "belowbase" -> IsPrefix(BaseText(c) \o <<Slash>>, w.s)
      [] c.k = "fullmatch" -> Accepts(c.pattern, w.s)
      [] c.k = "isword" -> Accepts(c.pattern, w.s)
      [] c.k = "isinstance" -> w.t = c.type
      [] c.k \in {"isabs", "absolute"} -> IsAbsolute(w.s)
      [] c.k = "pathmatch" -> /\ ~Climbs(w.s) /\ IsAbsolute(w.s) = c.loc.absolute
                              /\ Denotes(c.loc, Parts(w.s))
      [] c.k \in {"head", "starts"} -> \E p \in c.lits : IsPrefix(p, w.s)
      [] c.k = "ends" -> \E p \in c.lits : IsSuffix(p, w.s)

RECURSIVE Passes(_, _)
Passes(c, v) ==
    IF c.k = "or"
    THEN IF c.holds THEN \E i \in DOMAIN c.any : Passes(c.any[i], v)
         ELSE \A i \in DOMAIN c.any : Passes([c.any[i] EXCEPT !.holds = ~@], v)
    ELSE /\ ~Raises(c, View(c.view, v))
         /\ True(c, View(c.view, v), v) = c.holds

-----------------------------------------------------------------------------
(* The program.                                                             *)

Init ==
    /\ \E i \in Inputs : fact = i.fact /\ val = i.val
    /\ steps = 0

Goes == steps < MaxSteps /\ steps' = steps + 1
Becomes(v, w) == fact' = v /\ val' = w

\* f"{x}/..." and x + "/" + ...
Concatenate ==
    /\ Goes
    /\ \E ps \in Formats :
        LET facts == [i \in DOMAIN ps |-> IF ps[i] = X THEN fact ELSE ps[i].fact]
            texts == [i \in DOMAIN ps |-> IF ps[i] = X THEN val.s ELSE ps[i].val.s]
        IN /\ Concatenated(facts, texts)
           /\ Becomes(JoinText(facts), Str(FlattenSeq(texts)))

\* pathlib.Path(x), Path(x, y), Path(y, x)
Construct ==
    /\ Goes
    /\ \/ Becomes(PathOf(<<fact>>), Path(val.s))
       \/ \E o \in Operands : Becomes(PathOf(<<fact, o.fact>>), Path(Joined(val.s, o.val.s)))
       \/ /\ Joinable(fact, val.s)
          /\ \E o \in Operands : Becomes(PathOf(<<o.fact, fact>>), Path(Joined(o.val.s, val.s)))

\* os.path.join(x, y), os.path.join(y, x)
Join ==
    /\ Goes
    /\ \/ \E o \in Operands : Becomes(OsPathJoin(<<fact, o.fact>>), Str(Joined(val.s, o.val.s)))
       \/ /\ Joinable(fact, val.s)
          /\ \E o \in Operands : Becomes(OsPathJoin(<<o.fact, fact>>), Str(Joined(o.val.s, val.s)))

\* x / y, y / x
Divide ==
    /\ Goes
    /\ \/ /\ val.t = "path"
          /\ \E o \in Operands : Becomes(Div(fact, o.fact), Path(Joined(val.s, o.val.s)))
       \/ /\ Joinable(fact, val.s)
          /\ \E o \in {p \in Operands : p.val.t = "path"} :
                Becomes(Div(o.fact, fact), Path(Joined(o.val.s, val.s)))

ToStr == Goes /\ Becomes(AsStr(fact), Str(val.s))

\* assert C
Guard ==
    /\ Goes
    /\ \E c \in {d \in Conditions : Passes(d, val)} : Becomes(Refine(fact, c), val)

\* What a descent through a pattern finds.
RECURSIVE Found(_, _)
Found(s, pattern) ==
    LET c == Head(pattern)
        Inside(names, rest) == UNION {Found(Joined(s, n), rest) : n \in names}
    IN CASE pattern = <<>> -> {s}
         [] pattern # <<>> /\ c # Run -> Inside({n \in FileNames : NameMatches(c, n)}, Tail(pattern))
         [] OTHER -> Found(s, Tail(pattern)) \cup Inside(FileNames, Tail(pattern))

\* for x in x.iterdir() / x.glob(pattern) / x.rglob(pattern)
List ==
    /\ Goes /\ val.t = "path"
    /\ \/ \E n \in FileNames : Becomes(IterDir(fact), Path(Joined(val.s, n)))
       \/ \E g \in Patterns, deep \in BOOLEAN :
             \E s \in Found(val.s, IF deep THEN <<Run>> \o g ELSE g) : Becomes(Glob(fact, g, deep), Path(s))

\* for x in os.listdir(x); for x, _, _ in os.walk(x)
ListNames == Goes /\ \E n \in FileNames : Becomes(ListDir, Str(n))
Descend ==
    /\ Goes /\ val.s # <<>>
    /\ \E s \in Found(val.s, <<Run>>) : Becomes(Walk(fact), Str(s))

\* for x in [x, y]
Display ==
    /\ Goes
    /\ \E o \in Operands : \E v \in {val, o.val} :
          Becomes(JoinFact(AsFact(fact), AsFact(o.fact)), v)

\* f(x), where f requires a fact of its parameter
Rely == Goes /\ \E r \in {q \in Required : Entails(fact, q)} : Becomes(r, val)

Next ==
    \/ Concatenate \/ Construct \/ Join \/ Divide \/ ToStr
    \/ Guard \/ List \/ ListNames \/ Descend \/ Display \/ Rely

Spec == Init /\ [][Next]_vars

-----------------------------------------------------------------------------
(* Properties.                                                              *)

AtomTrue(a, v) ==
    CASE a = "no-slash" -> Slash \notin Chars(v.s)
      [] a = "no-parent" -> ~Climbs(v.s)
      [] a = "not-absolute" -> ~IsAbsolute(v.s)
      [] a = "not-dot-dot" -> v.s # DotDot
      [] a = "not-option" -> v.s = <<>> \/ v.s[1] # Option
      [] OTHER -> v.s \in Vetted

(* Whatever is known of a variable is true of what it holds: its type, the  *)
(* language of its text, where it points, and every atom it states or from  *)
(* which one is derived (Interpreter.interpret, apply and holds).           *)
FactHolds ==
    /\ CASE fact.f = "nothing" -> TRUE
         [] fact.f = "str" -> val.t = "str" /\ Accepts(fact.regex, val.s)
         [] fact.f = "path" -> val.t = "path"
         [] fact.f = "located" -> val.t = fact.repr /\ At(fact.loc, FileOf(val.s))
    /\ fact.f # "nothing" =>
          \A a \in BuiltIn \cup fact.atoms : Holds(a, fact) => AtomTrue(a, val)

Hits(g, file) ==     \* the file is at or below one g protects, however names fold
    LET rel == IF g.absolute THEN file ELSE SubSeq(file, Len(Cwd) + 1, Len(file))
        Spells(c, n) == \E m \in Spellings(n) : NameMatches(c, m)
    IN /\ g.absolute \/ IsPrefix(Cwd, file)
       /\ \E k \in 0 .. Len(rel) :
             LET ns == SubSeq(rel, 1, k)
             IN /\ Len(ns) >= Len(g.comps) /\ \A i \in DOMAIN g.comps : Spells(g.comps[i], ns[i])
                /\ ~g.splat => Len(ns) = Len(g.comps)
                /\ g.leaf # <<>> => Len(ns) > Len(g.comps) /\ Spells(g.leaf[1], Last(ns))

(* A sink the policy lets x reach touches what the policy grants: the file  *)
(* x names lies in a grant of its kind, so does every directory a traversal *)
(* lists below it, and a write stays off every protected location, however  *)
(* the file system folds names (Policy._evaluate, Policy.protected).        *)
SinksAreInside ==
    \A v \in {AtSink(fact)}, policy \in Policies :
        /\ SinkAllowed(policy, "read", v) => \E l \in policy.read : At(l, FileOf(val.s))
        /\ SinkAllowed(policy, "read", ListedBelow(v)) =>
              \A n \in FileNames : \E l \in policy.read : At(l, Append(FileOf(val.s), n))
        /\ SinkAllowed(policy, "write", v) =>
              /\ \E l \in policy.write : At(l, FileOf(val.s))
              /\ \A g \in policy.noWrite : ~Hits(g, FileOf(val.s))
=============================================================================

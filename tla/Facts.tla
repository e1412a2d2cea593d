------------------------------- MODULE Facts -------------------------------
(****************************************************************************)
(* The expression domain (src/certorail/analysis.py): what is known of a    *)
(* value read as text or as a path, the built-in atoms it shows, and what   *)
(* concatenation, the path constructors and the traversals make of it.      *)
(* An operand is a literal or a fact.  An optional result is a sequence of  *)
(* at most one element.                                                     *)
(****************************************************************************)
EXTENDS Locations

\* An optional result, taken further; and with a default.
Taken(o, F(_)) == IF o = <<>> THEN <<>> ELSE F(o[1])
OrElse(o, d) == IF o = <<>> THEN d ELSE o[1]

BuiltIn == {"no-slash", "no-parent", "not-absolute", "not-dot-dot", "not-option"}
PathAtoms == BuiltIn \ {"not-option"}
Carried(atoms) == atoms \ BuiltIn

Literal(s) == [f |-> "literal", text |-> s]
StrFact(p, atoms) == [f |-> "str", regex |-> p, atoms |-> atoms]
PathFact(atoms) == [f |-> "path", atoms |-> atoms]
Located(l, repr, atoms) == [f |-> "located", loc |-> l, repr |-> repr, atoms |-> atoms]
Nothing == [f |-> "nothing"]
Arrived(o, repr, unknown) == IF o = <<>> THEN unknown ELSE Located(o[1], repr, {})

Text == StrFact(AnyStr, {})
AsFact(v) == IF v.f = "literal" THEN StrFact(Exact(v.text), {}) ELSE v
RegexOf(v) == IF v.f = "str" THEN v.regex ELSE AnyStr
IsExact(v) == v.f = "literal" \/ (v.f = "str" /\ v.regex.k = "exact")
ExactOf(v) == IF v.f = "literal" THEN v.text ELSE v.regex.text
IsPath(v) == v.f = "path" \/ (v.f = "located" /\ v.repr = "path")

\* The components of a relative text without "..", unless it names nothing.
SafeExtension(s) == IF IsAbsolute(s) \/ Climbs(s) THEN <<>> ELSE Parts(s)
NoParts(s) == Parts(s) = <<>> /\ ~IsAbsolute(s)
Spelled(ns) == [i \in DOMAIN ns |-> Named(ns[i])]

-----------------------------------------------------------------------------
(* Atoms.                                                                   *)

\* Does a language alone show a built-in of each of its texts?
RECURSIVE Shows(_, _)
Shows(p, a) ==
    \/ a = "not-absolute" /\ ~MayStart(p, Slash)
    \/ a = "not-option" /\ ~MayStart(p, Option)
    \/ /\ a \in {"no-slash", "no-parent", "not-dot-dot"}
       /\ \/ p.k = "component"
          \/ p.k = "alternation" /\ \A q \in p.any : Shows(q, a)
          \/ p.k = "both" /\ \E q \in p.all : Shows(q, a)
          \/ p.k = "exact" /\ CASE a = "no-slash" -> Slash \notin Chars(p.text)
                                [] a = "no-parent" -> SafeExtension(p.text) # <<>>
                                [] a = "not-dot-dot" -> p.text # DotDot
          \/ p.k = "concat" /\ CASE a = "no-slash" -> \A q \in ToSet(p.seq) : Shows(q, a)
                                 [] a = "no-parent" -> FALSE
                                 [] a = "not-dot-dot" ->
                                      \E q \in ToSet(p.seq) :
                                          q.k = "exact" /\ Chars(q.text) \ {"."} # {}

\* As stated, as the language shows, or as other built-ins imply.
RECURSIVE TextHolds(_, _, _)
TextHolds(a, atoms, p) ==
    \/ a \in atoms
    \/ a \in BuiltIn /\ Shows(p, a)
    \/ a = "not-absolute" /\ TextHolds("no-slash", atoms, p)
    \/ a = "no-parent" /\ TextHolds("no-slash", atoms, p) /\ TextHolds("not-dot-dot", atoms, p)
    \/ a = "not-dot-dot" /\ ("no-parent" \in atoms \/ Shows(p, "no-parent"))

Holds(a, v) ==
    CASE v.f \in {"str", "path"} -> TextHolds(a, v.atoms, RegexOf(v))
      [] v.f = "located" ->
           \/ a \in v.atoms
           \/ /\ a = "not-option"
              /\ \/ v.loc.absolute
                 \/ v.loc.comps = <<>> /\ ~v.loc.splat
                 \/ /\ v.loc.comps # <<>> /\ v.loc.comps[1].c \in {"named", "oneof"}
                    /\ \A n \in Names(v.loc.comps[1]) : n[1] # Option

-----------------------------------------------------------------------------
(* The path reading.                                                        *)

\* The one component a text is shown to be.
AsComponent(v) ==
    LET p == RegexOf(v)
    IN IF \/ ~(Holds("no-slash", v) /\ Holds("no-parent", v))
          \/ Accepts(p, <<>>) \/ Accepts(p, Dot)
       THEN <<>>
       ELSE CASE p.k = "component" -> <<AnyName>>
              [] IsFinite(p) ->
                   IF \A n \in Listed(p) : SafeName(n)
                   THEN <<IF p.k = "exact" THEN Named(p.text) ELSE OneOf(Listed(p))>>
                   ELSE <<>>
              [] OTHER -> <<Matching(p)>>

EmptyText == [empty |-> TRUE]     \* the reading of "": it names nothing
LiteralLocation(s) ==
    CASE s = <<>> -> <<EmptyText>>
      [] s # <<>> /\ Climbs(s) -> <<>>
      [] OTHER -> <<Static(Spelled(Parts(s)), IsAbsolute(s))>>
LiteralStatic(s) == IF s = <<>> THEN <<>> ELSE LiteralLocation(s)

RECURSIVE LocationsJoined(_)
LocationsJoined(texts) ==
    LET s == Only(texts)
    IN IF texts = {s} THEN LiteralStatic(s)
       ELSE Taken(LiteralStatic(s),
                  LAMBDA here : Taken(LocationsJoined(texts \ {s}), LAMBDA l : JoinLoc(l, here)))

\* A text that stays below where it starts.
Descends(v) == Holds("no-parent", v) /\ Holds("not-absolute", v)

\* A text v that is not finite, below l: one component, or some way down.
LooselyBelow(l, component, v) ==
    CASE component # <<>> -> <<ExtendSingle(l, component[1])>>
      [] component = <<>> -> IF Descends(v) THEN <<SplatUnder(l)>> ELSE <<>>

Locate(v) ==
    CASE v.f = "nothing" -> <<>>
      [] v.f = "located" -> <<v>>
      [] OTHER -> Taken(IF IsFinite(RegexOf(v)) THEN LocationsJoined(Listed(RegexOf(v)))
                        ELSE LooselyBelow(Here, AsComponent(v), v),
                        LAMBDA l : <<Located(l, v.f, Carried(v.atoms))>>)

Containment(v) == Taken(Locate(v), LAMBDA w : <<w.loc>>)

\* A location extended by one more argument of a join.
Combine(l, v) ==
    LET Extended(parts) == IF parts = <<>> THEN <<>> ELSE <<ExtendStatic(l, parts)>>
    IN CASE v.f = "nothing" -> <<>>
         [] v.f = "located" -> <<Merge(l, v.loc)>>
         [] IsExact(v) -> IF NoParts(ExactOf(v)) THEN <<l>> ELSE Extended(SafeExtension(ExactOf(v)))
         [] OTHER -> LooselyBelow(l, AsComponent(v), v)

-----------------------------------------------------------------------------
(* The text reading.                                                        *)

ComponentRegex(c) ==
    CASE c.c = "any" -> AnyComponent
      [] c.c = "matching" -> c.regex
      [] OTHER -> Alternation({Exact(n) : n \in Names(c)})

LocationRegex(l) ==
    LET anchor == IF l.absolute THEN <<Exact(<<Slash>>)>> ELSE <<>>
        tokens == FlattenSeq([i \in DOMAIN l.comps |->
                      (IF i = 1 THEN <<>> ELSE <<Exact(<<Slash>>)>>) \o <<ComponentRegex(l.comps[i])>>])
        here == IF l.comps = <<>> THEN Exact(IF l.absolute THEN <<Slash>> ELSE Dot)
                ELSE Concat(anchor \o tokens)
        leaf == IF l.leaf = <<>> THEN AnyComponent ELSE ComponentRegex(l.leaf[1])
        below == Concat(anchor \o (IF l.comps = <<>> THEN <<>> ELSE tokens \o <<Exact(<<Slash>>)>>)
                               \o <<Descendants, leaf>>)
    IN CASE ~l.splat -> here
         [] l.splat /\ l.leaf # <<>> -> below
         [] OTHER -> Alternation({here, below})

AsText(v) ==
    CASE v.f = "nothing" -> Text
      [] v.f = "literal" -> AsFact(v)
      [] v.f = "str" -> v
      [] v.f = "path" -> StrFact(AnyStr, v.atoms)
      [] v.f = "located" -> StrFact(LocationRegex(v.loc), {})

\* str(x): the same value spelled as a str.
AsStr(v) ==
    CASE v.f = "located" -> [v EXCEPT !.repr = "str"]
      [] v.f = "path" -> StrFact(AnyStr, v.atoms)
      [] v.f = "str" -> v
      [] v.f = "nothing" -> Text

-----------------------------------------------------------------------------
(* Concatenation.  A reader takes the pieces from left to right: nothing    *)
(* read; at the end of a splat; past a separator; inside a component,       *)
(* gathering its text; dead, when some piece could not be placed.           *)

Dead == [at |-> "dead"]
Start == [at |-> "start"]
AfterSplat(l) == [at |-> "splat", loc |-> l]
Boundary(l) == [at |-> "boundary", loc |-> l]
Open(prefix, chunks) == [at |-> "open", prefix |-> prefix, chunks |-> chunks]

\* A component spelled as text.
Token(c) ==
    CASE c.c = "named" -> Literal(c.name)
      [] c.c = "any" -> StrFact(AnyComponent, PathAtoms)
      [] c.c = "matching" ->
           StrFact(IF Accepts(c.regex, <<>>) \/ Accepts(c.regex, Dot)
                   THEN Both({c.regex, AnyComponent}) ELSE c.regex, PathAtoms)
      [] c.c = "oneof" -> StrFact(Alternation({Exact(n) : n \in c.names}), PathAtoms)

\* The text of one component as a component.
ComponentOf(chunks) ==
    LET literals == SelectSeq(chunks, LAMBDA c : c.f = "literal")
        facts == SelectSeq(chunks, LAMBDA c : c.f # "literal")
        text == FlattenSeq([i \in DOMAIN literals |-> literals[i].text])
    IN CASE facts = <<>> -> IF SafeName(text) THEN <<Named(text)>> ELSE <<>>
         [] facts # <<>> /\ Len(chunks) = 1 -> AsComponent(chunks[1])
         [] OTHER ->
              IF /\ \A v \in ToSet(facts) : Holds("no-slash", v)
                 /\ Chars(text) \ {"."} # {}
              THEN <<Matching(Concat([i \in DOMAIN chunks |-> AsText(chunks[i]).regex]))>>
              ELSE <<>>

Close(q) ==
    LET literal == \A c \in ToSet(q.chunks) : c.f = "literal"
    IN CASE literal /\ FlattenSeq([i \in DOMAIN q.chunks |-> q.chunks[i].text]) = Dot ->
              IF q.prefix = <<>> THEN <<Here>> ELSE q.prefix
         [] ~literal /\ Len(q.chunks) = 1 ->
              IF q.prefix = <<>> THEN Containment(q.chunks[1]) ELSE Combine(q.prefix[1], q.chunks[1])
         [] OTHER -> Taken(ComponentOf(q.chunks),
                           LAMBDA c : <<IF q.prefix = <<>> THEN Static(<<c>>, FALSE)
                                        ELSE ExtendSingle(q.prefix[1], c)>>)

MayBeEmpty(chunks) == \A c \in ToSet(chunks) : c.f = "str" /\ Accepts(c.regex, <<>>)

\* Mutant: text after a splat starts a component below it.
ChunkBelow(q, c) ==
    CASE q.at = "start" -> Open(<<>>, <<c>>)
      [] q.at \in {"boundary", "splat"} -> Open(<<q.loc>>, <<c>>)
      [] q.at = "open" -> [q EXCEPT !.chunks = Append(@, c)]
      [] OTHER -> Dead

Chunk(q, c) ==
    CASE q.at = "start" -> Open(<<>>, <<c>>)
      [] q.at = "boundary" -> Open(<<q.loc>>, <<c>>)
      [] q.at = "open" -> [q EXCEPT !.chunks = Append(@, c)]
      [] OTHER -> Dead

Sep(q) ==
    LET Past(l) == IF l = <<>> THEN Dead ELSE Boundary(l[1])
    IN CASE q.at = "start" -> Boundary(Static(<<>>, TRUE))
         [] q.at = "splat" -> Boundary(q.loc)
         [] q.at = "open" ->
              IF q.prefix = <<>> /\ MayBeEmpty(q.chunks) THEN Dead ELSE Past(Close(q))
         [] OTHER -> q

ReadSplat(q) ==
    CASE q.at = "start" -> AfterSplat(Splat(<<>>, <<>>, FALSE))
      [] q.at = "boundary" -> AfterSplat(SplatUnder(q.loc))
      [] q.at = "splat" -> q
      [] OTHER -> Dead

Finish(q) ==
    CASE q.at \in {"splat", "boundary"} -> <<q.loc>>
      [] q.at = "open" -> Close(q)
      [] OTHER -> <<>>

ReadNames(q, cs) ==
    FoldLeftDomain(LAMBDA s, i : Chunk(IF i = 1 THEN s ELSE Sep(s), Token(cs[i])), q, cs)

\* A located value is replayed as the spelling of its components.
ReadBelow(q, leaf) == IF leaf = <<>> THEN ReadSplat(q) ELSE Chunk(Sep(ReadSplat(q)), Token(leaf[1]))
ReadShape(q, l) ==
    IF l.splat THEN ReadBelow(IF l.comps = <<>> THEN q ELSE Sep(q), l.leaf)
    ELSE IF l.comps = <<>> /\ ~l.absolute THEN Chunk(q, Literal(Dot)) ELSE q
Replay(q, l) == ReadShape(ReadNames(IF l.absolute THEN Sep(q) ELSE q, l.comps), l)

ReadText(q, s) ==
    LET pieces == Split(s)
        Read(r, n) == IF n = <<>> THEN r ELSE Chunk(r, Literal(n))
    IN FoldLeftDomain(LAMBDA r, i : Read(IF i = 1 THEN r ELSE Sep(r), pieces[i]), q, pieces)

Piece(q, v) ==
    CASE v.f = "nothing" -> Dead
      [] v.f = "located" -> Replay(q, v.loc)
      [] IsExact(v) -> ReadText(q, ExactOf(v))
      [] OTHER -> Chunk(q, v)

\* A concatenation that is not a join is text.
TextOfPieces(ps) ==
    LET SlashFree(v) == \/ v.f = "literal" /\ Slash \notin Chars(v.text)
                        \/ v.f \in {"str", "path"} /\ Holds("no-slash", v)
    IN StrFact(Concat([i \in DOMAIN ps |-> AsText(ps[i]).regex]),
               IF \A v \in ToSet(ps) : SlashFree(v) THEN {"no-slash"} ELSE {})

JoinText(ps) ==
    IF \A v \in ToSet(ps) : v.f = "literal"
    THEN AsFact(Literal(FlattenSeq([i \in DOMAIN ps |-> ps[i].text])))
    ELSE Arrived(Finish(FoldLeft(Piece, Start, ps)), "str", TextOfPieces(ps))

-----------------------------------------------------------------------------
(* Path constructors, traversals, displays.                                 *)

HeadLocation(v) ==
    CASE v.f = "nothing" -> <<>>
      [] IsExact(v) -> LiteralLocation(ExactOf(v))
      [] OTHER -> Containment(v)

\* pathlib.Path(a, ...) and os.path.join(a, ...): from "" on, the next
\* argument is the first; empty is what "" alone names.
Emptied(o, empty) == IF o = <<EmptyText>> THEN empty ELSE o
JoinArgs(args, empty) ==
    Emptied(FoldLeft(LAMBDA o, v : IF o = <<EmptyText>> THEN HeadLocation(v)
                                   ELSE Taken(o, LAMBDA l : Combine(l, v)),
                     <<EmptyText>>, args), empty)

PathOf(args) == Arrived(JoinArgs(args, <<Here>>), "path", PathFact({}))
OsPathJoin(args) == Arrived(JoinArgs(args, <<>>), "str", Nothing)

\* path / v
Div(v, w) == Arrived(Taken(Containment(v), LAMBDA l : Combine(l, w)), "path", Nothing)

PathLocation(v) == Taken(Locate(v), LAMBDA w : IF w.repr = "path" THEN <<w.loc>> ELSE <<>>)

IterDir(v) == Arrived(Taken(PathLocation(v), LAMBDA l : <<ExtendSingle(l, AnyName)>>), "path", Nothing)

ListDir == StrFact(AnyComponent, PathAtoms)

Walk(v) ==
    Arrived(Taken(Emptied(HeadLocation(v), <<>>), LAMBDA l : <<SplatUnder(l)>>), "str", Nothing)

\* base.glob(pattern), a pattern being components and runs; deep: rglob.
Glob(v, pattern, deep) ==
    LET Step(m, c) == IF c = Run THEN SplatUnder(m) ELSE ExtendSingle(m, c)
        Descent(l) == FoldLeft(Step, IF deep THEN SplatUnder(l) ELSE l, pattern)
    IN Arrived(Taken(PathLocation(v), LAMBDA l : <<Descent(l)>>), "path", Nothing)

\* What covers either of two values: the element of a display.
JoinFact(v, w) ==
    LET loc == JoinLoc(v.loc, w.loc)
        shared == v.atoms \cap w.atoms
    IN CASE v.f = "str" /\ w.f = "str" -> StrFact(Alternation({v.regex, w.regex}), shared)
         [] v.f = "path" /\ w.f = "path" -> PathFact(shared)
         [] v.f = "located" /\ w.f = "located" ->
              IF v.repr # w.repr \/ loc = <<>> THEN Nothing ELSE Located(loc[1], v.repr, shared)
         [] OTHER -> Nothing

-----------------------------------------------------------------------------
(* What is asked of a fact: to establish a required one, and to stand at a  *)
(* sink a policy grants.                                                    *)

Entails(v, required) ==
    LET Carries(w) == \A a \in required.atoms : Holds(a, w)
        Lies(got) == /\ got # <<>> /\ got[1].repr = required.repr
                     /\ LocationLe(got[1].loc, required.loc) /\ Carries(got[1])
    IN CASE v.f = "nothing" -> FALSE
         [] v.f # "nothing" /\ required.f = "located" -> Lies(Locate(v))
         [] v.f # "nothing" /\ required.f = "str" ->
              \/ v.f = "str" /\ LangWithin(v.regex, required.regex) /\ Carries(v)
              \/ /\ v.f = "located" /\ v.repr = "str"
                 /\ required.regex = AnyStr /\ Carries(v)
         [] v.f # "nothing" /\ required.f = "path" -> IsPath(v) /\ Carries(v)

\* What a sink records of its path; what a traversal that descends lists.
AtSink(v) == OrElse(Locate(AsFact(v)), AsFact(v))
ListedBelow(v) == IF v.f = "located" THEN [v EXCEPT !.loc = SplatUnder(@)] ELSE v

Protected(policy, l) == \E g \in policy.noWrite : Overlaps(l, g)

SinkAllowed(policy, kind, v) ==
    LET granted == IF kind = "write" THEN policy.write ELSE policy.read
    IN /\ v.f = "located"
       /\ \E l \in granted : LocationLe(v.loc, l)
       /\ ~(kind = "write" /\ Protected(policy, v.loc))
=============================================================================

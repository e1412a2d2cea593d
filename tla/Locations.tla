----------------------------- MODULE Locations -----------------------------
(****************************************************************************)
(* Languages of texts, and locations (src/certorail/analysis.py and         *)
(* footprints.py), with the three questions asked of two locations: is one  *)
(* within the other, what covers both, and may they name one path.          *)
(*                                                                          *)
(* A text is a sequence of characters.  A pattern of re is opaque: Matches  *)
(* is fullmatch and MayBegin what its parse tree says of a first character. *)
(* URL readings are left out.                                               *)
(****************************************************************************)
EXTENDS Integers, Sequences, FiniteSets, SequencesExt

CONSTANTS
    Matches(_, _),    \* does a pattern fullmatch a text?
    MayBegin(_, _),   \* may a text it fullmatches begin with a character?
    Spellings(_)      \* the names a file system may take for a name

Slash == "/"
Dot == <<".">>
DotDot == <<".", ".">>
Option == "-"
Chars(s) == ToSet(s)

\* The pieces of s between separators.
Split(s) ==
    LET cuts == {i \in DOMAIN s : s[i] = Slash} \cup {0, Len(s) + 1}
        At(i) == CHOOSE c \in cuts : Cardinality({d \in cuts : d < c}) = i - 1
    IN [i \in 1 .. Cardinality(cuts) - 1 |-> SubSeq(s, At(i) + 1, At(i + 1) - 1)]

\* A text as PurePath reads it.
Parts(s) == SelectSeq(Split(s), LAMBDA n : n # <<>> /\ n # Dot)
IsAbsolute(s) == s # <<>> /\ s[1] = Slash
SafeName(s) == s \notin {<<>>, Dot, DotDot} /\ Slash \notin Chars(s)
Climbs(s) == Contains(Parts(s), DotDot)

-----------------------------------------------------------------------------
(* Languages of texts.                                                      *)

AnyStr == [k |-> "any"]
AnyComponent == [k |-> "component"]
Exact(s) == [k |-> "exact", text |-> s]
Pattern(r) == [k |-> "pattern", name |-> r]
Descendants == [k |-> "descendants"]      \* names, each with a separator after it

RECURSIVE Accepts(_, _)
Accepts(p, s) ==
    CASE p.k = "any" -> TRUE
      [] p.k = "component" -> SafeName(s)
      [] p.k = "exact" -> s = p.text
      [] p.k = "pattern" -> Matches(p.name, s)
      [] p.k = "descendants" ->
           s = <<>> \/ (Last(s) = Slash /\ \A n \in ToSet(Split(Front(s))) : SafeName(n))
      [] p.k = "alternation" -> \E q \in p.any : Accepts(q, s)
      [] p.k = "both" -> \A q \in p.all : Accepts(q, s)
      [] p.k = "concat" ->
           IF p.seq = <<>> THEN s = <<>>
           ELSE \E i \in 0 .. Len(s) :
                  /\ Accepts(p.seq[1], SubSeq(s, 1, i))
                  /\ Accepts([p EXCEPT !.seq = Tail(@)], SubSeq(s, i + 1, Len(s)))

\* Concatenation flattens, and fuses literals and wildcards that touch.
RECURSIVE Fused(_, _)
Fused(done, ps) ==
    IF ps = <<>> THEN done
    ELSE LET p == Head(ps)
             last == done[Len(done)]
         IN CASE p.k = "concat" -> Fused(done, p.seq \o Tail(ps))
              [] p.k = "exact" /\ done # <<>> /\ last.k = "exact" ->
                   Fused([done EXCEPT ![Len(done)] = Exact(last.text \o p.text)], Tail(ps))
              [] p = AnyStr /\ done # <<>> /\ last = AnyStr -> Fused(done, Tail(ps))
              [] OTHER -> Fused(Append(done, p), Tail(ps))
Concat(ps) == LET flat == Fused(<<>>, ps)
              IN IF Len(flat) = 1 THEN flat[1] ELSE [k |-> "concat", seq |-> flat]

Only(S) == CHOOSE x \in S : TRUE
Alternation(ps) ==
    LET flat == UNION {IF p.k = "alternation" THEN p.any ELSE {p} : p \in ps}
    IN CASE AnyStr \in flat -> AnyStr
         [] AnyStr \notin flat /\ Cardinality(flat) = 1 -> Only(flat)
         [] OTHER -> [k |-> "alternation", any |-> flat]

IsFinite(p) == p.k = "exact" \/ (p.k = "alternation" /\ \A q \in p.any : q.k = "exact")
Listed(p) == IF p.k = "exact" THEN {p.text} ELSE {q.text : q \in p.any}

\* The meet: a finite part is resolved against the rest, the others are kept.
Both(ps) ==
    LET flat == UNION {IF p.k = "both" THEN p.all ELSE {p} : p \in ps} \ {AnyStr}
        finite == {p \in flat : IsFinite(p)}
        texts == Listed(Only(finite))
        kept == {s \in texts : \A q \in flat \ {Only(finite)} : Accepts(q, s)}
    IN CASE finite # {} -> Alternation({Exact(s) : s \in IF kept = {} THEN texts ELSE kept})
         [] finite = {} /\ flat = {} -> AnyStr
         [] finite = {} /\ Cardinality(flat) = 1 -> Only(flat)
         [] OTHER -> [k |-> "both", all |-> flat]

\* Is the language of specific shown to lie within that of general?
RECURSIVE LangWithin(_, _)
LangWithin(specific, general) ==
    \/ specific = general \/ general = AnyStr
    \/ /\ general.k = "both"
       /\ \A g \in general.all : LangWithin(specific, g)
    \/ /\ general.k # "both"
       /\ CASE specific.k = "exact" -> Accepts(general, specific.text)
            [] specific.k = "alternation" -> \A b \in specific.any : LangWithin(b, general)
            [] specific.k = "both" -> \E q \in specific.all : LangWithin(q, general)
            [] OTHER -> general.k = "alternation" /\ \E b \in general.any : LangWithin(specific, b)

\* May a text of p begin with ch?
RECURSIVE MayStart(_, _)
MayStart(p, ch) ==
    CASE p.k = "any" -> TRUE
      [] p.k \in {"component", "descendants"} -> ch # Slash
      [] p.k = "exact" -> p.text # <<>> /\ p.text[1] = ch
      [] p.k = "pattern" -> MayBegin(p.name, ch)
      [] p.k = "alternation" -> \E q \in p.any : MayStart(q, ch)
      [] p.k = "both" -> \A q \in p.all : MayStart(q, ch)
      [] p.k = "concat" ->
           \E i \in DOMAIN p.seq : /\ MayStart(p.seq[i], ch)
                                   /\ \A j \in 1 .. i - 1 : Accepts(p.seq[j], <<>>)

-----------------------------------------------------------------------------
(* Locations: components, then nothing (exactly there), or a splat, with or *)
(* without a last component below it.                                       *)

AnyName == [c |-> "any"]
Named(n) == [c |-> "named", name |-> n]
OneOf(ns) == [c |-> "oneof", names |-> ns]
Matching(p) == [c |-> "matching", regex |-> p]

Static(cs, absolute) == [comps |-> cs, splat |-> FALSE, leaf |-> <<>>, absolute |-> absolute]
Splat(cs, leaf, absolute) == [comps |-> cs, splat |-> TRUE, leaf |-> leaf, absolute |-> absolute]
Here == Static(<<>>, FALSE)

ExtendSingle(l, c) ==
    IF l.splat THEN Splat(l.comps, <<c>>, l.absolute) ELSE Static(Append(l.comps, c), l.absolute)

ExtendStatic(l, ns) ==
    IF l.splat THEN Splat(l.comps, <<Named(ns[Len(ns)])>>, l.absolute)
    ELSE Static(l.comps \o [i \in DOMAIN ns |-> Named(ns[i])], l.absolute)

SplatUnder(l) ==
    CASE ~l.splat -> Splat(l.comps, <<>>, l.absolute)
      [] l.splat /\ l.leaf = <<>> -> l
      [] OTHER -> Splat(l.comps, <<AnyName>>, l.absolute)

\* Joined with o below; an absolute o discards the left side.
Merge(l, o) ==
    CASE o.absolute -> o
      [] ~o.absolute /\ ~l.splat -> [o EXCEPT !.comps = l.comps \o @, !.absolute = l.absolute]
      [] ~o.absolute /\ l.splat /\ ~o.splat ->
           IF o.comps = <<>> THEN l ELSE Splat(l.comps, <<o.comps[Len(o.comps)]>>, l.absolute)
      [] OTHER ->
           Splat(l.comps,
                 IF o.leaf # <<>> THEN o.leaf
                 ELSE IF l.leaf # <<>> \/ o.comps # <<>> THEN <<AnyName>> ELSE <<>>,
                 l.absolute)

\* One spelling per meaning: a finite language is a name or a choice of names.
Normal(c) ==
    CASE c.c = "matching" /\ c.regex \in {AnyStr, AnyComponent} -> AnyName
      [] c.c = "matching" /\ c.regex \notin {AnyStr, AnyComponent} /\ IsFinite(c.regex) ->
           IF \A n \in Listed(c.regex) : SafeName(n)
           THEN IF Cardinality(Listed(c.regex)) = 1 THEN Named(Only(Listed(c.regex)))
                ELSE OneOf(Listed(c.regex))
           ELSE c
      [] c.c = "oneof" /\ Cardinality(c.names) = 1 -> Named(Only(c.names))
      [] OTHER -> c

Names(c) == IF c.c = "named" THEN {c.name} ELSE c.names

\* Is every name specific denotes shown to satisfy general?
Includes(g, s) ==
    \/ g = s \/ g = AnyName
    \/ /\ g.c = "oneof" /\ s.c \in {"named", "oneof"} /\ Names(s) \subseteq g.names
    \/ /\ g.c = "matching" /\ s.c \in {"named", "oneof"}
       /\ \A n \in Names(s) : Accepts(g.regex, n)
    \/ g.c = "matching" /\ s.c = "matching" /\ LangWithin(s.regex, g.regex)
Subsumes(general, specific) == Includes(Normal(general), Normal(specific))

\* Is every path of a one of r?
LocationLe(a, r) ==
    LET n == Len(r.comps)
        Under == Len(a.comps) >= n /\ \A i \in 1 .. n : Subsumes(r.comps[i], a.comps[i])
    IN /\ a.absolute = r.absolute
       /\ CASE ~a.splat /\ ~r.splat -> Len(a.comps) = n /\ Under
            [] ~a.splat /\ r.splat ->
                 /\ Under
                 /\ \/ r.leaf = <<>>
                    \/ Len(a.comps) > n /\ Subsumes(r.leaf[1], a.comps[Len(a.comps)])
            [] a.splat /\ ~r.splat -> FALSE
            [] OTHER ->
                 /\ Under
                 /\ r.leaf = <<>> \/ (a.leaf # <<>> /\ Subsumes(r.leaf[1], a.leaf[1]))

JoinComponent(c, d) ==
    LET Lang(x) == IF x.c = "matching" THEN x.regex ELSE Alternation({Exact(n) : n \in Names(x)})
    IN IF AnyName \in {c, d} THEN AnyName
       ELSE IF Subsumes(c, d) THEN c
       ELSE IF Subsumes(d, c) THEN d
       ELSE IF "matching" \in {c.c, d.c} THEN Matching(Alternation({Lang(c), Lang(d)}))
       ELSE OneOf(Names(c) \cup Names(d))

Smaller(m, n) == IF m < n THEN m ELSE n
JoinPrefix(cs, ds) ==
    [i \in 1 .. Smaller(Len(cs), Len(ds)) |-> JoinComponent(cs[i], ds[i])]

\* A splat s and an exact location e.
Widened(s, e) ==
    Splat(JoinPrefix(s.comps, e.comps),
          IF Len(e.comps) <= Len(s.comps) \/ s.leaf = <<>> THEN <<>>
          ELSE <<JoinComponent(s.leaf[1], Last(e.comps))>>, s.absolute)

\* A location covering both, by their shapes; <<>> when the anchors differ.
JoinLoc(l, r) ==
    LET a == l.absolute
    IN CASE l.absolute # r.absolute -> <<>>
         [] l.absolute = r.absolute /\ l.splat /\ r.splat ->
              <<Splat(JoinPrefix(l.comps, r.comps),
                      IF <<>> \in {l.leaf, r.leaf} THEN <<>>
                      ELSE <<JoinComponent(l.leaf[1], r.leaf[1])>>, a)>>
         [] l.absolute = r.absolute /\ l.splat # r.splat ->
              <<IF l.splat THEN Widened(l, r) ELSE Widened(r, l)>>
         [] OTHER ->
              CASE Len(l.comps) = Len(r.comps) -> <<Static(JoinPrefix(l.comps, r.comps), a)>>
                [] Len(l.comps) # Len(r.comps) /\ <<>> \in {l.comps, r.comps} ->
                     <<Splat(<<>>, <<>>, a)>>
                [] OTHER -> <<Splat(JoinPrefix(Front(l.comps), Front(r.comps)),
                                    <<JoinComponent(Last(l.comps), Last(r.comps))>>, a)>>

-----------------------------------------------------------------------------
(* Footprints: may a write at w name a path at or below one of g?  Names    *)
(* are compared as the file system may fold them.                           *)

Run == [c |-> "run"]      \* any number of components
Items(l) == l.comps \o (IF l.splat THEN <<Run>> ELSE <<>>) \o l.leaf

\* Mutant: names are compared as they are spelled.
FoldsNothing(n, m) == n = m

Folds(n, m) == Spellings(n) \cap Spellings(m) # {}

ShareName(x, y) ==
    LET May(p, ns) == \E n \in ns : \E s \in Spellings(n) : Accepts(p, s)
    IN CASE x.c = "any" \/ y.c = "any" -> TRUE
         [] x.c = "matching" /\ y.c = "matching" -> TRUE
         [] x.c = "matching" /\ y.c \in {"named", "oneof"} -> May(x.regex, Names(y))
         [] x.c \in {"named", "oneof"} /\ y.c = "matching" -> May(y.regex, Names(x))
         [] OTHER -> \E n \in Names(x) : \E m \in Names(y) : Folds(n, m)
Compatible(c, d) == ShareName(Normal(c), Normal(d))

RECURSIVE Meet(_, _)
Meet(xs, ys) ==
    \/ xs = <<>> /\ ys = <<>>
    \/ xs # <<>> /\ xs[1] = Run /\ (Meet(Tail(xs), ys) \/ (ys # <<>> /\ Meet(xs, Tail(ys))))
    \/ ys # <<>> /\ ys[1] = Run /\ (Meet(xs, Tail(ys)) \/ (xs # <<>> /\ Meet(Tail(xs), ys)))
    \/ /\ xs # <<>> /\ ys # <<>> /\ Run \notin {xs[1], ys[1]}
       /\ Compatible(xs[1], ys[1]) /\ Meet(Tail(xs), Tail(ys))

Overlaps(w, g) == w.absolute = g.absolute /\ Meet(Items(w), Append(Items(g), Run))
=============================================================================

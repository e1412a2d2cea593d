------------------------------- MODULE Guards -------------------------------
(****************************************************************************)
(* Validation guards (src/certorail/guards.py): what a condition, asserted  *)
(* of a variable x, establishes of x, and how that refines what is known.   *)
(*                                                                          *)
(* A condition is a record: its kind k, the view through which it looks at  *)
(* x, its polarity holds, and its operand, if any: literals lits, a         *)
(* pattern, a character ch, a base (a literal or a fact, and the base's     *)
(* view), a location.  Alternatives are the field any.                      *)
(****************************************************************************)
EXTENDS Facts

\* A refinement: every field is a conjunct.  When gated, the location is
\* to be trusted only of a value without "..".
NoRefinement == [type |-> "any", atoms |-> {}, regex |-> <<>>, within |-> <<>>, gated |-> FALSE]
Atoms(as) == [NoRefinement EXCEPT !.atoms = as]
OfText(p) == [NoRefinement EXCEPT !.type = "str", !.regex = <<p>>]
OfType(t) == [NoRefinement EXCEPT !.type = t]
Within(l) == [NoRefinement EXCEPT !.within = <<SplatUnder(l)>>, !.gated = TRUE]
BareName == Atoms({"no-slash", "not-absolute"})

-----------------------------------------------------------------------------
(* Applying a refinement.                                                   *)

\* The more precise of two locations that both hold.
Prefer(cur, new) ==
    CASE cur = <<>> -> new
      [] cur # <<>> /\ new = <<>> -> cur
      [] OTHER ->
           IF cur[1].splat /\ (~new[1].splat \/ Len(new[1].comps) > Len(cur[1].comps))
           THEN new ELSE cur

MeetRegex(p, new) == IF new = <<>> THEN p ELSE Both({p, new[1]})

\* A text or a path, placed when the refinement places it.
Placed(v, r) ==
    IF r.within # <<>> /\ (r.gated => Holds("no-parent", v))
    THEN Located(Prefer(Containment(v), r.within)[1], v.f, Carried(v.atoms))
    ELSE v

\* What is known is refined, unless the types clash.
Narrowed(known, r) ==
    LET clash == r.type = (IF IsPath(known) THEN "str" ELSE "path")
    IN CASE known.f = "nothing" \/ clash -> known
         [] known.f = "located" /\ ~clash ->
              IF r.within # <<>> /\ ~r.gated
              THEN [known EXCEPT !.loc = Prefer(<<@>>, r.within)[1]] ELSE known
         [] OTHER ->
              Placed(IF known.f = "str"
                     THEN StrFact(MeetRegex(known.regex, r.regex), known.atoms \cup r.atoms)
                     ELSE PathFact(known.atoms \cup r.atoms), r)

Apply(v, r) ==
    Narrowed(CASE v.f # "nothing" \/ r.type = "any" -> v
               [] v.f = "nothing" /\ r.type = "str" -> Text
               [] v.f = "nothing" /\ r.type = "path" -> PathFact({}), r)

-----------------------------------------------------------------------------
(* Views: str(x), PurePath(x), str(PurePath(x)), Path(x).resolve(),         *)
(* os.path.realpath(x), os.path.normpath(x).                                *)

Viewed(view) == view # "x"
Normalizing(view) == view \in {"pure", "strpure", "resolve"}
Resolving(view) == view \in {"resolve", "realpath"}
Collapsing(view) == view = "normpath"

\* Mutant: a normalized text has the separators of the text it was made from.
DiscountTypes(view, r) ==
    IF Resolving(view) THEN [NoRefinement EXCEPT !.within = r.within]
    ELSE IF Viewed(view) THEN [r EXCEPT !.type = "any"] ELSE r

\* A refinement of the view, as one of the variable behind it.
Discount(view, r) ==
    LET typeless == IF Viewed(view) THEN [r EXCEPT !.type = "any"] ELSE r
        normal == IF Normalizing(view) THEN [typeless EXCEPT !.atoms = @ \ {"no-slash"}] ELSE typeless
        collapsed == IF Collapsing(view)
                     THEN [normal EXCEPT !.atoms = @ \ {"no-slash", "no-parent", "not-dot-dot"},
                                         !.regex = <<>>]
                     ELSE normal
    IN IF Resolving(view)
       THEN [collapsed EXCEPT !.atoms = {}, !.regex = <<>>, !.gated = FALSE] ELSE collapsed

\* Is the view known to be a path object, to be text?
PathObject(c, v) == c.view \in {"pure", "resolve"} \/ (c.view = "x" /\ IsPath(v))
TextObject(c, v) == \/ c.view \in {"str", "strpure", "realpath", "normpath"}
                    \/ c.view = "x" /\ v.f # "nothing" /\ ~IsPath(v)

\* The location an operand names.
BaseLocation(b) ==
    CASE b.f = "literal" -> LiteralStatic(b.text)
      [] b.f = "located" -> <<b.loc>>
      [] OTHER -> <<>>

-----------------------------------------------------------------------------
(* Recognizing a condition.                                                 *)

AnyOf(texts) == Alternation({Exact(s) : s \in texts})

\* x == E: whatever is known of E is known of x.
FromFact(b) ==
    CASE b.f = "literal" -> OfText(Exact(b.text))
      [] b.f = "str" -> [NoRefinement EXCEPT !.type = "str", !.atoms = b.atoms,
                                             !.regex = IF b.regex = AnyStr THEN <<>> ELSE <<b.regex>>]
      [] b.f = "path" -> [NoRefinement EXCEPT !.type = "path", !.atoms = b.atoms]
      [] b.f = "located" -> [NoRefinement EXCEPT !.type = b.repr, !.within = <<b.loc>>]

\* x.startswith(prefix): the text begins so; with a last "/", x is below.
StartsWith(lits) ==
    LET prefix == Only(lits)
        loc == IF Cardinality(lits) = 1 /\ prefix # <<>> /\ Last(prefix) = Slash
               THEN LiteralStatic(prefix) ELSE <<>>
    IN <<OfText(Concat(<<AnyOf(lits), AnyStr>>))>> \o (IF loc = <<>> THEN <<>> ELSE <<Within(loc[1])>>)

Affirmed(c, v) ==
    LET base == BaseLocation(c.base)
    IN CASE c.k = "sepcount" -> <<Atoms({"no-slash"})>>
         [] c.k = "in" -> <<OfText(AnyOf(c.lits))>>
         [] c.k = "equals" ->
              IF c.base.f = "nothing" \/ (c.base.f = "literal" /\ PathObject(c, v)) THEN <<>>
              ELSE <<FromFact(c.base)>>
         [] c.k \in {"basename", "dirname", "name"} -> <<BareName>>
         [] c.k \in {"parents", "parent", "commonpath", "belowbase"} ->
              IF base = <<>> THEN <<>> ELSE <<Within(base[1])>>
         [] c.k = "relative" ->
              IF base = <<>> \/ TextObject(c, v) THEN <<>>
              ELSE <<[Within(base[1]) EXCEPT !.type = "path"]>>
         [] c.k = "fullmatch" -> <<OfText(c.pattern)>>
         [] c.k = "isinstance" -> <<OfType(c.type)>>
         [] c.k = "pathmatch" ->
              IF Collapsing(c.view) THEN <<>>
              ELSE <<[NoRefinement EXCEPT !.type = "str", !.within = <<c.loc>>]>>
         [] c.k = "starts" /\ ~PathObject(c, v) -> StartsWith(c.lits)
         [] c.k = "ends" /\ ~PathObject(c, v) -> <<OfText(Concat(<<AnyStr, AnyOf(c.lits)>>))>>
         [] c.k = "isword" /\ ~PathObject(c, v) -> <<[OfText(c.pattern) EXCEPT !.atoms = BuiltIn]>>
         [] OTHER -> <<>>

DeniedOfText(c) ==
    CASE c.k = "sepin" -> <<Atoms({"no-slash"})>>
      [] c.k = "dotdotin" -> <<Atoms({"no-parent"})>>
      [] c.k = "in" /\ DotDot \in c.lits -> <<Atoms({"not-dot-dot"})>>
      [] c.k = "equals" /\ c.base = Literal(DotDot) -> <<Atoms({"not-dot-dot"})>>
      [] c.k \in {"head", "starts"} /\ c.lits = {<<Slash>>} -> <<Atoms({"not-absolute"})>>
      [] c.k \in {"head", "starts"} /\ c.lits = {<<Option>>} -> <<Atoms({"not-option"})>>
      [] OTHER -> <<>>

Denied(c, v) ==
    CASE c.k = "parts" -> <<Atoms({"no-parent"})>>
      [] c.k = "isabs" -> <<Atoms({"not-absolute"})>>
      [] c.k = "absolute" -> IF TextObject(c, v) THEN <<>> ELSE <<Atoms({"not-absolute"})>>
      [] c.k \notin {"parts", "isabs", "absolute"} /\ PathObject(c, v) -> <<>>
      [] OTHER -> DeniedOfText(c)

\* Alternatives that each only name texts.
RECURSIVE Recognize(_, _)
Recognize(c, v) ==
    LET found == IF c.holds THEN Affirmed(c, v) ELSE Denied(c, v)
        guards == [i \in DOMAIN c.any |-> Recognize(c.any[i], v)]
        Pure(g) == /\ Len(g) = 1 /\ g[1].regex # <<>> /\ IsFinite(g[1].regex[1])
                   /\ g[1] = [OfText(g[1].regex[1]) EXCEPT !.type = g[1].type]
    IN CASE c.k # "or" ->
              SelectSeq([i \in DOMAIN found |-> Discount(c.view, found[i])], LAMBDA r : r # NoRefinement)
         [] c.k = "or" /\ c.holds ->
              IF \A g \in ToSet(guards) : Pure(g)
              THEN <<OfText(Alternation({g[1].regex[1] : g \in ToSet(guards)}))>> ELSE <<>>
         [] c.k = "or" /\ ~c.holds ->
              FlattenSeq([i \in DOMAIN c.any |-> Recognize([c.any[i] EXCEPT !.holds = ~@], v)])

Refine(v, c) == FoldLeft(Apply, v, Recognize(c, v))
=============================================================================

------------------------------ MODULE Template ------------------------------
(****************************************************************************)
(* Command templates: the shape of a permitted command line                 *)
(* (src/certorail/templates.py, and the constructors of policy.py that      *)
(* build one).  A template is a sequence of literal words and holes; it     *)
(* binds like a Python call, each hole is a requirement on the value bound  *)
(* to it, and the broker, not the program, composes the argv.               *)
(*                                                                          *)
(* The same binding and the same checks run twice: over the values the      *)
(* analysis knows, and over the strings the broker is handed.  A value is   *)
(* therefore the set of texts it may be; a string is a value of one text.   *)
(* Regexes and located paths are the sets of texts they admit.              *)
(****************************************************************************)
EXTENDS Integers, Sequences, FiniteSets

CONSTANTS
    Text,        \* the tokens a command line is made of
    Dashed,      \* those that begin with "-"
    Bundle,      \* "-lr" to <<"-l", "-r">>: the bundles of short flags
    Defined,     \* an atom defined by a regex, to the texts that match
    Verdict      \* a pure atom a literal checker decides, to the texts it accepts

ASSUME TextAssumption == /\ Dashed \subseteq Text
                         /\ DOMAIN Bundle \subseteq Dashed
                         /\ \A t \in DOMAIN Bundle : Bundle[t] \in Seq(Dashed)

NotOption == "not-option"
\* A built-in atom cannot be defined again (policy.py: atom).
ASSUME DefinedAssumption == NotOption \notin DOMAIN Defined
Cwd == "cwd"
EndOfOptions == "--"
Reserved == {Cwd}

-----------------------------------------------------------------------------
(* Values.                                                                  *)

\* One token as the analysis sees it: the texts it may be, the atoms it
\* carries, and how it is read: as text (or a path, whose text its location
\* gives), as a URL (whose text is given up), or not at all.
Value(texts, atoms) == [texts |-> texts, atoms |-> atoms, read |-> "text"]
UrlValue(texts, atoms) == [texts |-> texts, atoms |-> atoms, read |-> "url"]
Unknown == [texts |-> Text, atoms |-> {}, read |-> "nothing"]
Str(t) == Value({t}, {})

IsKnown(v) == v.read = "text" /\ \E t \in v.texts : v.texts = {t}
KnownText(v) == CHOOSE t \in v.texts : TRUE
Reads(v, w) == IsKnown(v) /\ KnownText(v) = w

\* "not-option" is stated of the value or shown by its text.
MayStartWithDash(v) ==
    NotOption \notin v.atoms /\ (v.read = "text" => v.texts \cap Dashed # {})

\* The atoms of required that v does not carry: stated, shown by its text, or
\* decided by a literal checker on exactly known text.  voc: the defined and
\* the checkable atoms of the policy.
Missing(v, required, voc) ==
    IF v.read = "nothing" THEN required
    ELSE {a \in required \ v.atoms :
            ~ CASE a = NotOption -> ~MayStartWithDash(v)
                [] a \in voc.defined -> v.read = "text" /\ v.texts \subseteq Defined[a]
                [] a \in voc.checkable \ voc.defined ->
                     IsKnown(v) /\ KnownText(v) \in Verdict[a]
                [] OTHER -> FALSE}

\* The atoms that are properties of the text, with what they mean.
Meaning == [a \in {NotOption} \cup DOMAIN Defined \cup DOMAIN Verdict |->
              CASE a = NotOption -> Text \ Dashed
                [] a \in DOMAIN Defined -> Defined[a]
                [] OTHER -> Verdict[a]]

\* What a value may turn out to be when the program runs.
Instances(v) ==
    {t \in v.texts : \A a \in v.atoms \cap DOMAIN Meaning : t \in Meaning[a]}

-----------------------------------------------------------------------------
(* What a template is made of.                                              *)

Lit(w) == [hole |-> FALSE, name |-> w, variadic |-> FALSE]
Hole(n) == [hole |-> TRUE, name |-> n, variadic |-> FALSE]
Splice(n) == [hole |-> TRUE, name |-> n, variadic |-> TRUE]

\* A requirement on one token.  within: the paths it must lie among; matches:
\* the texts it must be one of; either is {} when nothing is asked.
Constraint(within, matches, literal, atoms) ==
    [within |-> within, matches |-> matches, literal |-> literal,
     atoms |-> atoms, any |-> FALSE]
AnyToken == [within |-> {}, matches |-> {}, literal |-> FALSE, atoms |-> {}, any |-> TRUE]

Asks(c) == c.within # {} \/ c.matches # {} \/ c.literal \/ c.atoms # {}
ConstraintOk(c) == /\ c.any = ~Asks(c)
                   /\ c.within = {} \/ c.matches = {}

\* Demanding atoms of a constraint that admitted anything leaves them alone.
Demanded(c, atoms) ==
    IF c.any THEN Constraint({}, {}, FALSE, atoms)
    ELSE [c EXCEPT !.atoms = @ \cup atoms]

\* A flag vocabulary: bare flags; valued ones with the constraint on the
\* value; what each flag demands of the cwd or of a hole; the holes a named
\* vocabulary reaches; any: the open vocabulary.
Flagset(bare, valued, requires, expands) ==
    [bare |-> bare, valued |-> valued, requires |-> requires, holes |-> {},
     expands |-> expands, any |-> FALSE]
AnyFlag == [bare |-> {}, valued |-> <<>>, requires |-> <<>>, holes |-> {},
            expands |-> FALSE, any |-> TRUE]

FlagNames(fs) == fs.bare \cup DOMAIN fs.valued

FlagsetOk(fs) ==
    IF fs.any
    THEN FlagNames(fs) = {} /\ DOMAIN fs.requires = {} /\ fs.holes = {} /\ ~fs.expands
    ELSE /\ FlagNames(fs) # {}
         /\ FlagNames(fs) \subseteq Dashed
         /\ fs.bare \cap DOMAIN fs.valued = {}
         /\ fs.expands => FlagNames(fs) \cap DOMAIN Bundle = {}
         /\ fs.holes \cap Reserved = {}
         /\ DOMAIN fs.requires \subseteq FlagNames(fs)
         /\ \A f \in DOMAIN fs.requires : \A t \in DOMAIN fs.requires[f] :
                t = Cwd \/ fs.holes = {} \/ t \in fs.holes

\* What the flags present demand of target.
DemandsOf(fs, present, target) ==
    UNION {fs.requires[f][target] :
             f \in {g \in present \cap DOMAIN fs.requires : target \in DOMAIN fs.requires[g]}}

Token(c) == [kind |-> "token", c |-> c, min |-> 0]
Each(c, min) == [kind |-> "each", c |-> c, min |-> min]
Flags(fs) == [kind |-> "flags", fs |-> fs]
IsHole(h) == \/ h.kind = "token" /\ h = Token(h.c)
             \/ h.kind = "each" /\ h = Each(h.c, h.min) /\ h.min \in Nat
             \/ h.kind = "flags" /\ h = Flags(h.fs)
HoldsTokens(h) == h.kind \in {"token", "each"}

Refs(t) == SelectSeq(t.pieces, LAMBDA p : p.hole)

\* The names of the holes a flags hole's demands reach.
Reached(fs) == fs.holes \cup (UNION {DOMAIN fs.requires[f] : f \in DOMAIN fs.requires} \ {Cwd})

TemplateOk(t) ==
    LET refs == Refs(t)
        names == {t.pieces[i].name : i \in {j \in DOMAIN t.pieces : t.pieces[j].hole}}
    IN /\ t.pieces # <<>> /\ ~t.pieces[1].hole
       /\ Cardinality(names) = Len(refs)
       /\ names = DOMAIN t.holes
       /\ names \cap Reserved = {}
       /\ \A i \in DOMAIN refs :
            refs[i].variadic = (t.holes[refs[i].name].kind \in {"each", "flags"})
       /\ \A n \in names :
            IF t.holes[n].kind = "flags"
            THEN /\ FlagsetOk(t.holes[n].fs)
                 /\ \A r \in Reached(t.holes[n].fs) : r \in names /\ HoldsTokens(t.holes[r])
            ELSE ConstraintOk(t.holes[n].c)

\* The literal prefix, program included: what selects the template.
LeadingWords(t) ==
    LET n == CHOOSE k \in 0 .. Len(t.pieces) :
               /\ \A i \in 1 .. k : ~t.pieces[i].hole
               /\ k = Len(t.pieces) \/ t.pieces[k + 1].hole
    IN [i \in 1 .. n |-> t.pieces[i].name]

\* A positional tail bound to this hole ends by itself: its elements are
\* flags of a closed vocabulary, and their values.
Terminable(t, n) == t.holes[n].kind = "flags" /\ ~t.holes[n].fs.any

IsLastPiece(t, p) == p = t.pieces[Len(t.pieces)]

\* From the first splice whose end nothing marks onward, holes are bound by
\* name.
KeywordOnly(t) ==
    LET refs == Refs(t)
        open == {i \in DOMAIN refs : /\ refs[i].variadic
                                     /\ ~IsLastPiece(t, refs[i])
                                     /\ ~Terminable(t, refs[i].name)}
    IN {refs[i].name : i \in {j \in DOMAIN refs : \E k \in open : k <= j}}

\* Mutant: a "--" anywhere in the template exempts every hole.
DashAnywhere(t, n) == \E i \in DOMAIN t.pieces : t.pieces[i] = Lit(EndOfOptions)

\* A literal "--" earlier in the template.
DashExempt(t, n) ==
    \E i \in DOMAIN t.pieces :
      /\ t.pieces[i] = Lit(EndOfOptions)
      /\ \A j \in 1 .. i : t.pieces[j].name # n \/ ~t.pieces[j].hole

MatchesLeading(words, args) ==
    /\ Len(args) >= Len(words)
    /\ \A i \in DOMAIN words : Reads(args[i], words[i])

-----------------------------------------------------------------------------
(* Flags.                                                                   *)

Declared(fs, w) == w \in FlagNames(fs)

Expandable(fs, w) == fs.expands /\ w \in DOMAIN Bundle

\* The flag words a text in flag position stands for; <<>> when it is none.
WordsOf(fs, w) ==
    IF Declared(fs, w) THEN <<w>>
    ELSE IF Expandable(fs, w) /\ \A i \in DOMAIN Bundle[w] : Bundle[w][i] \in fs.bare
         THEN Bundle[w]
         ELSE <<>>

AsValues(ws) == [i \in DOMAIN ws |-> Str(ws[i])]

\* Is es[i] a valued flag with its value after it?
WithValue(fs, es, i) == i < Len(es) /\ IsKnown(es[i]) /\ KnownText(es[i]) \in DOMAIN fs.valued

\* es with every bundle replaced by its letters, and whether all expand.
ExpandBundles(fs, es) ==
    LET from[i \in 1 .. Len(es) + 2] ==
          IF i > Len(es) THEN [ok |-> TRUE, es |-> <<>>]
          ELSE LET w == KnownText(es[i])
                   bundle == IsKnown(es[i]) /\ ~Declared(fs, w) /\ Expandable(fs, w)
                   here == IF WithValue(fs, es, i) THEN <<es[i], es[i + 1]>>
                           ELSE IF bundle THEN AsValues(WordsOf(fs, w))
                           ELSE <<es[i]>>
                   rest == from[IF WithValue(fs, es, i) THEN i + 2 ELSE i + 1]
               IN IF bundle /\ WordsOf(fs, w) = <<>> THEN [ok |-> FALSE, es |-> <<>>]
                  ELSE [ok |-> rest.ok, es |-> here \o rest.es]
    IN IF fs.any \/ ~fs.expands THEN [ok |-> TRUE, es |-> es] ELSE from[1]

\* The head of the positionals a flags hole that is not last takes: flags and
\* their values, up to the first positional shown not to be an option.  One
\* that could be either is an error, never a guess.
FlagHead(fs, ps) ==
    LET from[i \in 1 .. Len(ps) + 2] ==
          LET v == ps[i]
              flag == IsKnown(v) /\ KnownText(v) \in Dashed
              words == WordsOf(fs, KnownText(v))
              here == (IF Len(words) > 1 THEN AsValues(words) ELSE <<v>>)
                      \o (IF WithValue(fs, ps, i) THEN <<ps[i + 1]>> ELSE <<>>)
              rest == from[IF WithValue(fs, ps, i) THEN i + 2 ELSE i + 1]
          IN CASE i > Len(ps) -> [ok |-> TRUE, taken |-> <<>>, left |-> <<>>]
               [] i <= Len(ps) /\ flag /\ words # <<>> ->
                    [rest EXCEPT !.taken = here \o @]
               [] i <= Len(ps) /\ ~flag /\ ~MayStartWithDash(v) ->
                    [ok |-> TRUE, taken |-> <<>>, left |-> SubSeq(ps, i, Len(ps))]
               [] OTHER -> [ok |-> FALSE, taken |-> <<>>, left |-> <<>>]
    IN from[1]

-----------------------------------------------------------------------------
(* Binding: a template is a signature.                                      *)

One(v) == [kind |-> "one", es |-> <<v>>]
Many(es) == [kind |-> "many", es |-> es]
Elements(v) == [kind |-> "elements", es |-> <<v>>]    \* a container: any number of v

Put(f, k, x) == [n \in DOMAIN f \cup {k} |-> IF n = k THEN x ELSE f[n]]
NoBinding == [n \in {} |-> Many(<<>>)]

\* Positionals fill the holes in template order.
Positionally(t, args) ==
    LET refs == Refs(t)
        step[i \in 0 .. Len(refs)] ==
          IF i = 0
          THEN [ok |-> TRUE, to |-> NoBinding,
                ps |-> SubSeq(args, Len(LeadingWords(t)), Len(args))]
          ELSE LET s == step[i - 1]
                   n == refs[i].name
                   head == FlagHead(t.holes[n].fs, s.ps)
               IN IF n \in KeywordOnly(t) \/ s.ps = <<>> \/ ~s.ok THEN s
                  ELSE IF ~refs[i].variadic
                  THEN [s EXCEPT !.to = Put(@, n, One(Head(s.ps))), !.ps = Tail(@)]
                  ELSE IF IsLastPiece(t, refs[i])
                  THEN [s EXCEPT !.to = Put(@, n, Many(s.ps)), !.ps = <<>>]
                  ELSE IF ~head.ok THEN [s EXCEPT !.ok = FALSE]
                  ELSE IF head.taken = <<>> THEN s
                  ELSE [s EXCEPT !.to = Put(@, n, Many(head.taken)), !.ps = head.left]
    IN step[Len(refs)]

\* What the positionals and the keywords give, by hole.
Given(pos, kws) == [n \in DOMAIN pos.to \cup DOMAIN kws |->
                      IF n \in DOMAIN pos.to THEN pos.to[n] ELSE kws[n]]

\* An unbound splice is empty; a display of flags may spell bundles.
Filled(t, kws, pos, given) ==
    LET Variadic(n) == t.holes[n].kind \in {"each", "flags"}
        whole == [n \in DOMAIN t.holes |-> IF n \in DOMAIN given THEN given[n] ELSE Many(<<>>)]
        Spelled(n) == t.holes[n].kind = "flags" /\ whole[n].kind = "many"
        expanded == [n \in DOMAIN whole |->
                       IF Spelled(n) THEN ExpandBundles(t.holes[n].fs, whole[n].es)
                       ELSE [ok |-> TRUE, es |-> whole[n].es]]
    IN [ok |-> /\ pos.ok /\ pos.ps = <<>>
               /\ DOMAIN kws \subseteq DOMAIN t.holes \ DOMAIN pos.to
               /\ \A n \in DOMAIN kws : Variadic(n) = (kws[n].kind # "one")
               /\ \A n \in DOMAIN t.holes : Variadic(n) \/ n \in DOMAIN given
               /\ \A n \in DOMAIN expanded : expanded[n].ok,
        to |-> [n \in DOMAIN whole |-> [whole[n] EXCEPT !.es = expanded[n].es]]]

\* Positionals first; keywords fill the rest by name.
Bind(t, args, kws) ==
    LET With(pos) == Filled(t, kws, pos, Given(pos, kws))
    IN With(Positionally(t, args))

-----------------------------------------------------------------------------
(* Checking what was bound.  Lacks(v, atoms) is the caller's reading of the *)
(* atoms v does not carry.                                                  *)

Satisfies(c, v, Lacks(_, _)) ==
    \/ c.any
    \/ /\ v.read # "nothing"
       /\ c.within # {} => v.read = "text" /\ v.texts \subseteq c.within
       /\ c.matches # {} => v.read = "text" /\ v.texts \subseteq c.matches
       /\ c.literal => IsKnown(v)
       /\ Lacks(v, c.atoms) = {}

\* A flags list read left to right against its vocabulary.
FlagsOk(fs, es, Lacks(_, _)) ==
    LET from[i \in 1 .. Len(es) + 2] ==
          IF i > Len(es) THEN i = Len(es) + 1
          ELSE /\ IsKnown(es[i])
               /\ LET w == KnownText(es[i])
                  IN \/ w \in fs.bare /\ from[i + 1]
                     \/ /\ w \in DOMAIN fs.valued /\ i < Len(es)
                        /\ Satisfies(fs.valued[w], es[i + 1], Lacks)
                        /\ from[i + 2]
    IN fs.any \/ from[1]

OptionShaped(v, Lacks(_, _)) == Lacks(v, {NotOption}) # {}

\* The flags a well-formed list names.
PresentFlags(fs, es) ==
    LET from[i \in 1 .. Len(es) + 2] ==
          IF i > Len(es) THEN {}
          ELSE {KnownText(es[i])}
               \cup from[IF KnownText(es[i]) \in fs.bare THEN i + 1 ELSE i + 2]
    IN from[1]

HoleOk(t, to, n, Lacks(_, _)) ==
    LET h == t.holes[n]
        Fits(v) == /\ Satisfies(h.c, v, Lacks)
                   /\ DashExempt(t, n) \/ ~OptionShaped(v, Lacks)
    IN IF h.kind = "flags"
       THEN to[n].kind = "many" /\ FlagsOk(h.fs, to[n].es, Lacks)
       ELSE /\ \A i \in DOMAIN to[n].es : Fits(to[n].es[i])
            /\ to[n].kind = "many" => Len(to[n].es) >= h.min

\* What the flags present demand of the cwd and of other holes is carried.
DemandsMet(t, to, cwd, Lacks(_, _)) ==
    \A n \in {m \in DOMAIN t.holes : t.holes[m].kind = "flags" /\ ~t.holes[m].fs.any} :
      LET fs == t.holes[n].fs
          present == PresentFlags(fs, to[n].es)
      IN /\ Lacks(cwd, DemandsOf(fs, present, Cwd)) = {}
         /\ \A m \in Reached(fs) : \A i \in DOMAIN to[m].es :
              Lacks(to[m].es[i], DemandsOf(fs, present, m)) = {}

HolesOk(t, to, cwd, Lacks(_, _)) ==
    /\ \A n \in DOMAIN t.holes : HoleOk(t, to, n, Lacks)
    /\ DemandsMet(t, to, cwd, Lacks)

\* The argv: words as themselves, holes as their strings.
Instantiate(t, to) ==
    LET from[i \in 1 .. Len(t.pieces) + 1] ==
          IF i > Len(t.pieces) THEN <<>>
          ELSE (IF t.pieces[i].hole
                THEN LET es == to[t.pieces[i].name].es
                     IN [k \in DOMAIN es |-> KnownText(es[k])]
                ELSE <<t.pieces[i].name>>) \o from[i + 1]
    IN from[1]
=============================================================================

------------------------------- MODULE Policy -------------------------------
(****************************************************************************)
(* A policy and its decisions (src/certorail/policy.py): what the           *)
(* constructors and Policy.allow refuse, which rule governs a call, what    *)
(* the static check asks of the values at a site, what the broker asks      *)
(* again of the strings, and what an effect under a rule writes.            *)
(*                                                                          *)
(* A location is the set of paths it admits; a host is its labels, the top  *)
(* one first; a URL is a token of Text whose parts Parts gives.             *)
(****************************************************************************)
EXTENDS Template

CONSTANTS Parts,      \* a URL to its scheme, host, port (0: none given) and path
          Unplaced    \* the URL paths that have no location: their decoding differs

IsSeq(s) == s \in Seq({s[i] : i \in DOMAIN s})

ASSUME PartsAssumption == /\ DOMAIN Parts \subseteq Text
                          /\ \A t \in DOMAIN Parts : IsSeq(Parts[t].host)

None == <<>>
Some(x) == <<x>>

-----------------------------------------------------------------------------
(* Effects: regions, and whole media (src/certorail/effects.py).            *)

Media == {"fs", "net"}
Effects(regions, media) == [regions |-> regions, media |-> media]
Nothing == Effects({}, {})
Everything == Effects({}, Media)
Whole(media) == Effects({}, media)
IsEmpty(e) == e = Nothing
IsEffects(e) == e = Effects(e.regions, e.media) /\ e.media \subseteq Media

\* Do two sets of state meet?  A region meets itself and its whole medium.
Meets(e, f, mediumOf) ==
    \/ e.regions \cap f.regions # {}
    \/ e.media \cap f.media # {}
    \/ \E r \in e.regions : mediumOf[r] \in f.media
    \/ \E r \in f.regions : mediumOf[r] \in e.media

Permitted(grant) == (IF grant.writeFs THEN {"fs"} ELSE {})
                    \cup (IF grant.network THEN {"net"} ELSE {})

\* What a grant writes: its declaration, else all of the media it reaches.
WriteSet(grant) == IF grant.writes = None THEN Whole(Permitted(grant)) ELSE grant.writes[1]

-----------------------------------------------------------------------------
(* Exec rules.  A draft of a rule is what a document says; requires maps    *)
(* cwd and hole names to the atoms demanded of them.                        *)

\* What a rule has.
IsProgram(d) ==
    /\ DOMAIN d = {"name", "cwd", "requires", "sub", "template", "source", "network",
                   "writeFs", "writes"}
    /\ IsSeq(d.sub)
    /\ d.source # None => d.source = Some(d.source[1])
    /\ d.template # None =>
         /\ DOMAIN d.template[1] = {"pieces", "holes"} /\ IsSeq(d.template[1].pieces)
         /\ IsFiniteSet(DOMAIN d.template[1].holes)
         /\ \A n \in DOMAIN d.template[1].holes : IsHole(d.template[1].holes[n])

\* The hole demands folded into the holes' own constraints.
ShapedHole(d, n, h) ==
    IF n \in DOMAIN d.requires /\ HoldsTokens(h)
    THEN [h EXCEPT !.c = Demanded(@, d.requires[n])] ELSE h
Shaped(d) ==
    [d.template[1] EXCEPT !.holes = [n \in DOMAIN @ |-> ShapedHole(d, n, @[n])]]

\* A rule that says what it writes must know what the tool is told to do.
KnowsItsOptions(t) ==
    \A n \in DOMAIN t.holes :
      IF t.holes[n].kind = "flags" THEN ~t.holes[n].fs.any
      ELSE t.holes[n].c.any => DashExempt(t, n)

ProgramOk(d) ==
    LET demands == DOMAIN d.requires \ {Cwd}
    IN /\ d.cwd # {}
       /\ IF d.template = None THEN demands = {}
          ELSE /\ d.sub = <<>>
               /\ \A n \in demands : /\ n \in DOMAIN d.template[1].holes
                                     /\ HoldsTokens(d.template[1].holes[n])
               /\ TemplateOk(Shaped(d))
               /\ d.template[1].pieces[1] = Lit(d.name)
               /\ d.writes # None => KnowsItsOptions(Shaped(d))

Program(d) == [d EXCEPT !.template = IF @ = None THEN None ELSE Some(Shaped(d)),
                        !.requires = IF Cwd \in DOMAIN @ THEN @[Cwd] ELSE {}]

RuleWords(r) == IF r.template = None THEN <<r.name>> \o r.sub ELSE LeadingWords(r.template[1])

-----------------------------------------------------------------------------
(* Checks.  establishes: a parameter, or cwd, to the atoms a success gives. *)

Established(v) == UNION {v.establishes[s] : s \in DOMAIN v.establishes}

ValidationOk(v) ==
    /\ Cwd \notin v.params
    /\ v.argv # <<>> /\ ~v.argv[1].hole
    /\ \A i \in DOMAIN v.argv : v.argv[i].hole => v.argv[i].name \in v.params
    /\ DOMAIN v.establishes \subseteq v.params \cup {Cwd}
    /\ \A s \in DOMAIN v.establishes : v.establishes[s] # {}
    /\ v.pure \subseteq Established(v)
    /\ NotOption \in Established(v) => NotOption \in v.pure
    /\ v.cwd = {} => Cwd \notin DOMAIN v.establishes

\* The input through which v can decide atom a on a literal, if there is one:
\* v writes nothing, a is pure, and v has a single input.
LiteralSlots(v, a) ==
    IF ~IsEmpty(WriteSet(v)) \/ a \notin v.pure \/ Cardinality(v.params) > 1 THEN {}
    ELSE {s \in DOMAIN v.establishes :
            /\ a \in v.establishes[s]
            /\ s = Cwd => v.params = {}}

-----------------------------------------------------------------------------
(* Network rules.                                                           *)

DefaultPort(scheme) == IF scheme = "https" THEN 443 ELSE 80

EndsWith(h, suffix) == Len(h) > Len(suffix) /\ SubSeq(h, 1, Len(suffix)) = suffix

\* An exact host, or (wild) every name below a suffix and not the suffix.
HostMatches(p, h) == IF p.wild THEN EndsWith(h, p.labels) ELSE h = p.labels

\* Mutant: a wildcard and an exact host are taken for different hosts.
HostsOverlapByKind(p, q) ==
    /\ p.wild = q.wild
    /\ p.labels = q.labels \/ (p.wild /\ (EndsWith(p.labels, q.labels) \/ EndsWith(q.labels, p.labels)))

HostsOverlap(p, q) ==
    CASE p.wild /\ q.wild -> \/ p.labels = q.labels
                             \/ EndsWith(p.labels, q.labels)
                             \/ EndsWith(q.labels, p.labels)
      [] p.wild /\ ~q.wild -> EndsWith(q.labels, p.labels)
      [] ~p.wild /\ q.wild -> EndsWith(p.labels, q.labels)
      [] OTHER -> p.labels = q.labels

PortsFor(r, scheme) == IF r.ports = {} THEN {DefaultPort(scheme)} ELSE r.ports
Endpoints(r) == UNION {{<<s, p>> : p \in PortsFor(r, s)} : s \in r.schemes}

\* May one request match both rules?
NetworksOverlap(a, b) ==
    /\ HostsOverlap(a.host, b.host)
    /\ Endpoints(a) \cap Endpoints(b) # {}
    /\ a.methods = {} \/ b.methods = {} \/ a.methods \cap b.methods # {}
    /\ \/ a.paths = {} \/ b.paths = {}
       \/ \E p \in a.paths : \E q \in b.paths : p \cap q # {}

MatchesEndpoint(r, scheme, host, port, method) ==
    /\ HostMatches(r.host, host)
    /\ scheme \in r.schemes
    /\ port \in PortsFor(r, scheme)
    /\ r.methods = {} \/ method \in r.methods

\* paths: what the URL's path may be, {} when it is not proven.
PathPermitted(r, paths) ==
    r.paths = {} \/ (paths # {} /\ \E p \in r.paths : paths \subseteq p)

NetworkOk(r) == r.host.labels # <<>> /\ r.schemes # {} /\ r.schemes \subseteq {"http", "https"}

\* What a rule has, and what it may say of an atom at a redirect.
Treatments == {"recheck", "stop", "waive", "default"}
IsNetworkRule(r) ==
    /\ DOMAIN r = {"host", "schemes", "ports", "methods", "paths", "requires",
                   "allowNonpublic", "source", "writes"}
    /\ IsSeq(r.host.labels) /\ r.host.wild \in BOOLEAN
    /\ r.source # None => r.source = Some(r.source[1])
    /\ \A a \in DOMAIN r.requires : r.requires[a] \in Treatments

\* What a request under r may change at the other end.
RequestWrites(r) ==
    CASE r.writes # None -> r.writes[1]
      [] r.writes = None /\ r.methods # {} /\ r.methods \subseteq {"GET", "HEAD"} -> Nothing
      [] OTHER -> Whole({"net"})

-----------------------------------------------------------------------------
(* Policy.allow: what one policy may not say.                               *)

\* A policy as a document says it.
IsPolicy(p) ==
    /\ DOMAIN p = {"programs", "validations", "atoms", "network", "sources", "regions",
                   "reads", "denied", "defaultAllow"}
    /\ \A d \in p.programs : IsProgram(d)
    /\ IsFiniteSet(p.network) /\ \A r \in p.network : IsNetworkRule(r)
    /\ \A r \in p.regions : r.medium \in Media
    /\ \A a \in DOMAIN p.reads : IsEffects(p.reads[a])

SourceAtoms(p) ==
    {r.source[1] : r \in {x \in p.programs \cup p.network : x.source # None}} \cup p.sources

DefinedAtoms(p) == p.atoms
PureAtoms(p) == UNION {v.pure : v \in p.validations} \cup DefinedAtoms(p) \cup {NotOption}
MediumOf(p) == [r \in {x.name : x \in p.regions} |->
                  (CHOOSE x \in p.regions : x.name = r).medium]

\* Only extraction gives a source atom.
SourcesApart(p) ==
    /\ SourceAtoms(p) \cap (DefinedAtoms(p) \cup {NotOption}) = {}
    /\ \A v \in p.validations : Established(v) \cap SourceAtoms(p) = {}

Prefix(a, b) == Len(a) <= Len(b) /\ SubSeq(b, 1, Len(a)) = a

\* One exec, one rule: the rules of a program are prefix-free.
FormsApart(p) ==
    \A a, b \in p.programs :
      a # b /\ a.name = b.name => ~Prefix(RuleWords(a), RuleWords(b))

\* One request, one rule.
RulesApart(p) == \A a, b \in p.network : a # b => ~NetworksOverlap(a, b)

\* An atom is pure everywhere or nowhere.
KindsAgree(p) ==
    \A v \in p.validations : \A a \in Established(v) :
      a \in DefinedAtoms(p) \cup {NotOption} \/ (a \in PureAtoms(p)) = (a \in v.pure)

WithinMedia(p, e, media) ==
    /\ \A r \in e.regions : r \in DOMAIN MediumOf(p) /\ MediumOf(p)[r] \in media
    /\ e.media \subseteq media

ClaimsWithinMedia(p) ==
    /\ \A g \in p.programs \cup p.validations :
         g.writes # None => WithinMedia(p, g.writes[1], Permitted(g))
    /\ \A r \in p.network : r.writes # None => WithinMedia(p, r.writes[1], {"net"})

Environmental(p) ==
    UNION {Established(v) : v \in p.validations} \ (PureAtoms(p) \cup SourceAtoms(p))

\* A read claim is about an environmental atom and names declared state.
ReadsDeclared(p) ==
    /\ DOMAIN p.reads \subseteq Environmental(p)
    /\ \A a \in DOMAIN p.reads : /\ ~IsEmpty(p.reads[a])
                                 /\ p.reads[a].regions \subseteq DOMAIN MediumOf(p)

Checkable(p) ==
    UNION {{a \in Established(v) \ {NotOption} : LiteralSlots(v, a) # {}} : v \in p.validations}
Recheckable(p) == DefinedAtoms(p) \cup {NotOption} \cup Checkable(p)

\* Only what the text shows can be re-checked on a hop.
RechecksAreTextual(p) ==
    \A r \in p.network : \A a \in DOMAIN r.requires :
      r.requires[a] = "recheck" => a \in Recheckable(p)

NamesUnique(p) ==
    /\ \A v, w \in p.validations : v.name = w.name => v = w
    /\ \A r, s \in p.regions : r.name = s.name => r = s

Allowed(p) == /\ \A d \in p.programs : ProgramOk(d)
              /\ \A v \in p.validations : ValidationOk(v)
              /\ \A r \in p.network : NetworkOk(r)
              /\ NamesUnique(p) /\ SourcesApart(p) /\ FormsApart(p) /\ RulesApart(p)
              /\ KindsAgree(p) /\ ClaimsWithinMedia(p) /\ ReadsDeclared(p)
              /\ RechecksAreTextual(p)

\* The policy Policy.allow returns: an undeclared treatment at a redirect is
\* a re-check when the text can show the atom, a stop when it cannot.
Resolved(p) ==
    [p EXCEPT !.programs = {Program(d) : d \in @},
              !.network = {[r EXCEPT !.requires = [a \in DOMAIN @ |->
                              IF @[a] # "default" THEN @[a]
                              ELSE IF a \in Recheckable(p) THEN "recheck" ELSE "stop"]] : r \in @}]

-----------------------------------------------------------------------------
(* What the analysis knows of a policy, and what state an atom reads.       *)

Vocabulary(p) == [defined |-> DefinedAtoms(p), checkable |-> Checkable(p)]
DecidableFromText(p) == {NotOption} \cup DefinedAtoms(p) \cup Checkable(p)

ReadSet(p, a) == IF a \in DOMAIN p.reads THEN p.reads[a] ELSE Everything

\* Does an effect kill atom a?
Kills(p, e, a) ==
    /\ ~IsEmpty(e)
    /\ a \notin PureAtoms(p) \cup SourceAtoms(p)
    /\ Meets(e, ReadSet(p, a), MediumOf(p))

Governed(p, name) == name \in p.denied \/ \E r \in p.programs : r.name = name

\* The rule a program nobody governs runs under, when it is let through.
Ungoverned(name) ==
    [name |-> name, cwd |-> {Text}, requires |-> {}, sub |-> <<>>, template |-> None,
     source |-> None, network |-> TRUE, writeFs |-> TRUE, writes |-> None]

LetThrough(p, name) == p.defaultAllow /\ ~Governed(p, name)

\* The rules whose leading words begin the arguments.
Selected(p, name, args) ==
    {r \in p.programs : r.name = name /\ MatchesLeading(Tail(RuleWords(r)), args)}

-----------------------------------------------------------------------------
(* The static check of a site (Policy.evaluate).  Every reading of a value  *)
(* is the analysis': a missing atom is one no known text shows.             *)

InOne(v, locations) == v.read = "text" /\ \E l \in locations : v.texts \subseteq l

CwdOk(p, r, cwd) == InOne(cwd, r.cwd) /\ Missing(cwd, r.requires, Vocabulary(p)) = {}

ExecAccepted(p, c) ==
    LET Lacks(v, atoms) == Missing(v, atoms, Vocabulary(p))
        Binds(t, b) == b.ok /\ HolesOk(t, b.to, c.cwd, Lacks)
        Fits(r) == /\ CwdOk(p, r, c.cwd)
                   /\ IF r.template = None
                      THEN DOMAIN c.kws = {} /\ Len(c.args) = Len(RuleWords(r)) - 1
                      ELSE Binds(r.template[1], Bind(r.template[1], c.args, c.kws))
    IN /\ c.cwd.read = "text"
       /\ IF \E r \in p.programs : r.name = c.name
          THEN \E r \in Selected(p, c.name, c.args) : Fits(r)
          ELSE LetThrough(p, c.name) /\ DOMAIN c.kws = {}

\* The reading of a URL value as a URL: what its parts may be.
Lifted(v) == {Parts[t] : t \in v.texts}
SchemeOf(v) == (CHOOSE u \in Lifted(v) : TRUE).scheme
SchemeKnown(v) ==
    /\ v.read \in {"text", "url"}
    /\ \A u, w \in Lifted(v) : u.scheme = w.scheme
    /\ SchemeOf(v) \in {"http", "https"}
PathsOf(v) == LET ps == {u.path : u \in Lifted(v)}
              IN IF ps \cap Unplaced # {} THEN {} ELSE ps
PortOf(u) == IF u.port = 0 THEN DefaultPort(u.scheme) ELSE u.port

Candidates(p, c, u) ==
    {r \in p.network : MatchesEndpoint(r, u.scheme, u.host, PortOf(u), c.method)}

RequestAccepted(p, c) ==
    /\ SchemeKnown(c.url)
    /\ \A u \in Lifted(c.url) :
         \E r \in Candidates(p, c, u) :
           /\ PathPermitted(r, PathsOf(c.url))
           /\ Missing(c.url, DOMAIN r.requires, Vocabulary(p)) = {}

\* The rules governing the requests a URL may make; {} when one has none.
GoverningRules(p, c) ==
    LET At(u) == {r \in Candidates(p, c, u) : PathPermitted(r, PathsOf(c.url))}
    IN IF SchemeKnown(c.url) /\ \A u \in Lifted(c.url) : Cardinality(At(u)) = 1
       THEN UNION {At(u) : u \in Lifted(c.url)} ELSE {}

\* A response is a source's when every governing rule names that source.
NetworkSources(p, c) ==
    LET named == {r.source : r \in GoverningRules(p, c)}
    IN IF Cardinality(named) = 1 THEN {s[1] : s \in named \ {None}} ELSE {}

\* A check of the one-value form names a check of one parameter; the other
\* names every parameter.  Only a check that cares where it runs needs a cwd.
Sole == "value"
Declaring(p, name) == {v \in p.validations : v.name = name}
BindsCheck(v, c) == IF c.single THEN Cardinality(v.params) = 1 ELSE DOMAIN c.args = v.params
CheckAccepted(p, c) ==
    \E v \in Declaring(p, c.name) :
      BindsCheck(v, c) /\ (v.cwd # {} => c.cwd # None /\ InOne(c.cwd[1], v.cwd))

-----------------------------------------------------------------------------
(* What the analysis takes a call to write (enforcement.py).                *)

\* Mutant: what the program's rules declare, whatever their words.
ExecWritesByName(p, c) ==
    LET rules == {r \in p.programs : r.name = c.name /\ r.writes # None}
    IN IF rules = {} THEN Everything ELSE WriteSet(CHOOSE r \in rules : TRUE)

ExecWrites(p, c) ==
    LET rules == Selected(p, c.name, c.args)
    IN IF rules = {} THEN Everything ELSE WriteSet(CHOOSE r \in rules : TRUE)

ExecSources(p, c) ==
    LET rules == {r \in Selected(p, c.name, c.args) : r.source # None}
    IN {r.source[1] : r \in rules}

\* Every rule whose host admits every host the URL may name, together.
NetworkWrites(p, c) ==
    LET hosts == {u.host : u \in Lifted(c.url)}
        covers == {r \in p.network : /\ \A h \in hosts : HostMatches(r.host, h)
                                     /\ r.methods = {} \/ c.method \in r.methods}
        written == {RequestWrites(r) : r \in covers}
    IN IF covers = {} THEN Everything
       ELSE Effects(UNION {e.regions : e \in written}, UNION {e.media : e \in written})

-----------------------------------------------------------------------------
(* The broker's re-check of strings, and the command it spawns.             *)

Refused == [ok |-> FALSE]
Command(argv, rule) == [ok |-> TRUE, argv |-> argv, rule |-> rule]

Texts(vs) == [i \in DOMAIN vs |-> KnownText(vs[i])]

ExecCommand(p, name, args, kws, cwd) ==
    LET rules == Selected(p, name, args)
        rule == CHOOSE r \in rules : TRUE
        Lacks(v, atoms) == Missing(v, atoms \cap DecidableFromText(p), Vocabulary(p))
        Filling(t, b) == IF b.ok /\ HolesOk(t, b.to, cwd, Lacks)
                         THEN Command(Instantiate(t, b.to), rule) ELSE Refused
        words == <<name>> \o Texts(args)
    IN CASE ~\E r \in p.programs : r.name = name ->
              IF LetThrough(p, name) /\ DOMAIN kws = {} THEN Command(words, Ungoverned(name))
              ELSE Refused
         [] (\E r \in p.programs : r.name = name)
            /\ (rules = {} \/ ~InOne(cwd, rule.cwd)) -> Refused
         [] OTHER ->
              IF rule.template = None
              THEN IF DOMAIN kws = {} THEN Command(words, rule) ELSE Refused
              ELSE Filling(rule.template[1], Bind(rule.template[1], args, kws))

\* A check is re-checked whole: its name, its parameters and its cwd.
RunCheck(p, c, given, cwd) ==
    LET vs == Declaring(p, c.name)
        v == CHOOSE w \in vs : TRUE
        Bound(slot) == KnownText(given[IF c.single THEN Sole ELSE slot])
    IN IF \/ vs = {}
          \/ ~BindsCheck(v, c)
          \/ v.cwd # {} /\ (cwd = None \/ ~InOne(cwd[1], v.cwd))
       THEN Refused
       ELSE Command([i \in DOMAIN v.argv |-> IF v.argv[i].hole THEN Bound(v.argv[i].name)
                                                              ELSE v.argv[i].name], v)

\* Mutant: a stop meets the request the program named as well.
RuleRefusesAlways(p, r, t, initial) ==
    \/ \E a \in DOMAIN r.requires : r.requires[a] = "stop"
    \/ Missing(Str(t), {a \in DOMAIN r.requires : r.requires[a] = "recheck"}, Vocabulary(p)) # {}

\* Why a rule that matches a URL may still refuse it: a hop meets the stops,
\* and everything that is re-checked is asked of the URL's text.
RuleRefuses(p, r, t, initial) ==
    \/ ~initial /\ \E a \in DOMAIN r.requires : r.requires[a] = "stop"
    \/ Missing(Str(t), {a \in DOMAIN r.requires : r.requires[a] = "recheck"}, Vocabulary(p)) # {}

\* The rules under which the broker sends method to t.
Admitting(p, method, t, initial) ==
    {r \in p.network : /\ MatchesEndpoint(r, Parts[t].scheme, Parts[t].host, PortOf(Parts[t]), method)
                       /\ PathPermitted(r, {Parts[t].path} \ Unplaced)
                       /\ ~RuleRefuses(p, r, t, initial)}
=============================================================================

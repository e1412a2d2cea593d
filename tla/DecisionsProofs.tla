-------------------------- MODULE DecisionsProofs --------------------------
(***************************************************************************)
(* Proofs about Decisions, for any tokens, URLs, hosts, policies and calls *)
(* and any number of redirects: in a policy that loads no request and no   *)
(* words are governed by two rules; every hop of a redirect is held to the *)
(* rule that admits it; what the analysis accepts, the broker does not     *)
(* refuse; the rule a call runs under is the one it foresees; and no       *)
(* token is taken for an option.                                           *)
(***************************************************************************)
EXTENDS Decisions, FiniteSetTheorems, SequenceTheorems, WellFoundedInduction, TLAPS

----------------------------------------------------------------------------
(* Sequences.                                                               *)

\* A set in which any two members are equal has at most one.
LEMMA AtMostOne ==
    ASSUME NEW S, \A x, y \in S : x = y
    PROVE  Cardinality(S) <= 1
<1>1. CASE S = {}
  BY <1>1, FS_EmptySet
<1>2. CASE S # {}
  <2>1. PICK x : x \in S
    BY <1>2
  <2>2. S = {x}
    BY <2>1
  <2>. QED
    BY <2>2, FS_Singleton
<1>. QED
  BY <1>1, <1>2

LEMMA SeqFacts ==
    ASSUME NEW s, IsSeq(s)
    PROVE  Len(s) \in Nat /\ DOMAIN s = 1 .. Len(s)
BY DEF IsSeq

\* s is the beginning of t when it is no longer and agrees with it.
LEMMA Beginning ==
    ASSUME NEW s, NEW t, IsSeq(s), IsSeq(t), Len(s) <= Len(t),
           \A i \in 1 .. Len(s) : s[i] = t[i]
    PROVE  SubSeq(t, 1, Len(s)) = s
<1>. DEFINE A == {s[i] : i \in DOMAIN s} B == {t[i] : i \in DOMAIN t}
<1>1. s \in Seq(A \cup B) /\ t \in Seq(A \cup B)
  <2>1. A \subseteq A \cup B /\ B \subseteq A \cup B
    OBVIOUS
  <2>2. s \in Seq(A) /\ t \in Seq(B)
    BY DEF IsSeq
  <2>. HIDE DEF A, B
  <2>. QED
    BY <2>1, <2>2, SeqMonotonic
<1>. HIDE DEF A, B
<1>2. Len(s) \in Nat /\ Len(t) \in Nat
  BY <1>1
<1>3. /\ SubSeq(t, 1, Len(s)) \in Seq(A \cup B)
      /\ Len(SubSeq(t, 1, Len(s))) = Len(s)
      /\ \A i \in 1 .. Len(s) : SubSeq(t, 1, Len(s))[i] = t[i]
  BY <1>1, <1>2
<1>. QED
  BY <1>1, <1>2, <1>3, SeqEqual

\* Two beginnings of one sequence are comparable.
LEMMA BeginningsCompare ==
    ASSUME NEW s, NEW t, NEW h, IsSeq(s), IsSeq(t), IsSeq(h),
           EndsWith(h, s), EndsWith(h, t)
    PROVE  s = t \/ EndsWith(s, t) \/ EndsWith(t, s)
<1>1. /\ Len(s) \in Nat /\ Len(t) \in Nat /\ Len(h) \in Nat
      /\ DOMAIN s = 1 .. Len(s) /\ DOMAIN t = 1 .. Len(t)
  BY SeqFacts
<1>2. /\ \A i \in 1 .. Len(s) : s[i] = h[i]
      /\ \A i \in 1 .. Len(t) : t[i] = h[i]
  <2>1. h \in Seq({h[i] : i \in DOMAIN h})
    BY DEF IsSeq
  <2>2. ASSUME NEW n \in Nat, n < Len(h) PROVE \A i \in 1 .. n : SubSeq(h, 1, n)[i] = h[i]
    BY <2>1, <2>2, <1>1
  <2>. QED
    BY <1>1, <2>2 DEF EndsWith
<1>3. CASE Len(s) < Len(t)
  BY <1>1, <1>2, <1>3, Beginning DEF EndsWith
<1>4. CASE Len(t) < Len(s)
  BY <1>1, <1>2, <1>4, Beginning DEF EndsWith
<1>5. CASE Len(s) = Len(t)
  <2>1. s \in Seq({s[i] : i \in DOMAIN s}) /\ t \in Seq({t[i] : i \in DOMAIN t})
    BY DEF IsSeq
  <2>2. SubSeq(t, 1, Len(s)) = s /\ SubSeq(s, 1, Len(t)) = t
    BY <1>1, <1>2, <1>5, Beginning
  <2>3. SubSeq(t, 1, Len(t)) = t
    BY <1>1, Beginning
  <2>. QED
    BY <2>2, <2>3, <1>5
<1>6. Len(s) < Len(t) \/ Len(t) < Len(s) \/ Len(s) = Len(t)
  <2>1. Len(s) \in Nat /\ Len(t) \in Nat
    BY <1>1
  <2>. QED
    BY <2>1
<1>. QED
  BY <1>3, <1>4, <1>5, <1>6, Zenon

----------------------------------------------------------------------------
(* What loading leaves of a policy.                                         *)

Written == UNION {x.policies : x \in Cases}

LEMMA WrittenIsAPolicy ==
    ASSUME NEW w \in Written
    PROVE  /\ IsPolicy(w)
           /\ DefinedAtoms(w) \subseteq DOMAIN Defined
           /\ Checkable(w) \ DefinedAtoms(w) \subseteq DOMAIN Verdict \ DOMAIN Defined
BY CasesAssumption DEF Written

\* A network rule with its treatments settled.
Settled(r, p) ==
    [r EXCEPT !.requires = [a \in DOMAIN @ |->
        IF @[a] # "default" THEN @[a] ELSE IF a \in Recheckable(p) THEN "recheck" ELSE "stop"]]

LEMMA LoadedRules ==
    ASSUME NEW w \in Written
    PROVE  /\ Resolved(w).network = {Settled(r, w) : r \in w.network}
           /\ Resolved(w).programs = {Program(d) : d \in w.programs}
           /\ Vocabulary(Resolved(w)) = Vocabulary(w)
<1>1. DOMAIN w = {"programs", "validations", "atoms", "network", "sources", "regions",
                  "reads", "denied", "defaultAllow"}
  BY WrittenIsAPolicy DEF IsPolicy
<1>2. /\ Resolved(w).network = {Settled(r, w) : r \in w.network}
      /\ Resolved(w).programs = {Program(d) : d \in w.programs}
      /\ Resolved(w).validations = w.validations
      /\ Resolved(w).atoms = w.atoms
  BY <1>1 DEF Resolved, Settled
<1>. QED
  BY <1>2 DEF Vocabulary, DefinedAtoms, Checkable

\* Settling a rule changes what it says of redirects and nothing else.
LEMMA SettledRule ==
    ASSUME NEW w \in Written, NEW r \in w.network
    PROVE  /\ Settled(r, w).host = r.host /\ Settled(r, w).schemes = r.schemes
           /\ Settled(r, w).ports = r.ports /\ Settled(r, w).methods = r.methods
           /\ Settled(r, w).paths = r.paths
           /\ \A a \in DOMAIN Settled(r, w).requires :
                Settled(r, w).requires[a] \in {"recheck", "stop", "waive"}
<1>1. IsNetworkRule(r)
  BY WrittenIsAPolicy DEF IsPolicy
<1>. QED
  BY <1>1 DEF Settled, IsNetworkRule, Treatments

----------------------------------------------------------------------------
(* One request, one rule.                                                   *)

\* One host can only match hosts that overlap.
LEMMA HostsThatMatchOverlap ==
    ASSUME NEW p, NEW q, NEW h, IsSeq(p.labels), IsSeq(q.labels), IsSeq(h),
           p.wild \in BOOLEAN, q.wild \in BOOLEAN, HostMatches(p, h), HostMatches(q, h)
    PROVE  HostsOverlap(p, q)
<1>1. CASE p.wild /\ q.wild
  <2>1. EndsWith(h, p.labels) /\ EndsWith(h, q.labels)
    BY <1>1 DEF HostMatches
  <2>. QED
    BY <1>1, <2>1, BeginningsCompare DEF HostsOverlap
<1>2. CASE p.wild /\ ~q.wild
  BY <1>2 DEF HostsOverlap, HostMatches
<1>3. CASE ~p.wild /\ q.wild
  BY <1>3 DEF HostsOverlap, HostMatches
<1>4. CASE ~p.wild /\ ~q.wild
  BY <1>4 DEF HostsOverlap, HostMatches
<1>. QED
  BY <1>1, <1>2, <1>3, <1>4

\* Does r match a request of method m to the URL of parts u?
RuleOfRequest(r, u, m) ==
    /\ MatchesEndpoint(r, u.scheme, u.host, PortOf(u), m)
    /\ PathPermitted(r, {u.path} \ Unplaced)

\* Rules that match one request overlap.
LEMMA RulesThatMatchOverlap ==
    ASSUME NEW r, NEW s, NEW t \in Urls, NEW m, IsNetworkRule(r), IsNetworkRule(s),
           RuleOfRequest(r, Parts[t], m), RuleOfRequest(s, Parts[t], m)
    PROVE  NetworksOverlap(r, s)
<1>. DEFINE u == Parts[t]
<1>1. HostsOverlap(r.host, s.host)
  <2>1. IsSeq(u.host)
    BY PartsAssumption DEF Urls
  <2>2. HostMatches(r.host, u.host) /\ HostMatches(s.host, u.host)
    BY DEF RuleOfRequest, MatchesEndpoint
  <2>. HIDE DEF u
  <2>. QED
    BY <2>1, <2>2, HostsThatMatchOverlap DEF IsNetworkRule
<1>2. Endpoints(r) \cap Endpoints(s) # {}
  <2>1. /\ u.scheme \in r.schemes /\ PortOf(u) \in PortsFor(r, u.scheme)
        /\ u.scheme \in s.schemes /\ PortOf(u) \in PortsFor(s, u.scheme)
    BY DEF RuleOfRequest, MatchesEndpoint
  <2>. HIDE DEF u
  <2>2. <<u.scheme, PortOf(u)>> \in Endpoints(r) /\ <<u.scheme, PortOf(u)>> \in Endpoints(s)
    BY <2>1 DEF Endpoints
  <2>. QED
    BY <2>2
<1>3. r.methods = {} \/ s.methods = {} \/ r.methods \cap s.methods # {}
  BY DEF RuleOfRequest, MatchesEndpoint
<1>4. r.paths = {} \/ s.paths = {} \/ \E p \in r.paths : \E q \in s.paths : p \cap q # {}
  BY DEF RuleOfRequest, PathPermitted
<1>. QED
  BY <1>1, <1>2, <1>3, <1>4 DEF NetworksOverlap

\* In a policy that was not refused, one request matches one rule.
LEMMA OneRuleOfRequest ==
    ASSUME NEW w \in Written, Allowed(w), NEW t \in Urls, NEW m,
           NEW r \in Resolved(w).network, NEW s \in Resolved(w).network,
           RuleOfRequest(r, Parts[t], m), RuleOfRequest(s, Parts[t], m)
    PROVE  r = s
<1>1. PICK a \in w.network : r = Settled(a, w)
  BY LoadedRules
<1>2. PICK b \in w.network : s = Settled(b, w)
  BY LoadedRules
<1>3. RuleOfRequest(a, Parts[t], m) /\ RuleOfRequest(b, Parts[t], m)
  BY <1>1, <1>2, SettledRule
     DEF RuleOfRequest, MatchesEndpoint, PortsFor, PathPermitted
<1>4. IsNetworkRule(a) /\ IsNetworkRule(b)
  BY WrittenIsAPolicy DEF IsPolicy
<1>5. NetworksOverlap(a, b)
  BY <1>3, <1>4, RulesThatMatchOverlap
<1>6. a = b
  BY <1>5 DEF Allowed, RulesApart
<1>. QED
  BY <1>1, <1>2, <1>6

----------------------------------------------------------------------------
(* One command, one rule.                                                   *)

\* Every nonempty set of naturals has a least element.
LEMMA LeastExists ==
    ASSUME NEW T, T \subseteq Nat, T # {}
    PROVE  \E x \in T : \A y \in T : x <= y
<1>1. PICK x \in T : \A y \in T : ~(<<y, x>> \in OpToRel(<, Nat))
  BY NatLessThanWellFounded, WFMin, Zenon
<1>2. ASSUME NEW y \in T PROVE x <= y
  <2>1. <<y, x>> \notin OpToRel(<, Nat)
    BY <1>1
  <2>2. ~(y < x)
    BY <2>1 DEF OpToRel
  <2>. QED
    BY <2>2
<1>. QED
  BY <1>2

\* A template leads with its program, in words that make a sequence.
LEMMA LeadingWordsFacts ==
    ASSUME NEW t, IsSeq(t.pieces), t.pieces # <<>>, ~t.pieces[1].hole
    PROVE  /\ IsSeq(LeadingWords(t)) /\ Len(LeadingWords(t)) \in Nat \ {0}
           /\ LeadingWords(t)[1] = t.pieces[1].name
<1>. DEFINE Ends(k) == k = Len(t.pieces) \/ t.pieces[k + 1].hole
            Leads(k) == /\ \A i \in 1 .. k : ~t.pieces[i].hole
                        /\ Ends(k)
            T == {k \in 0 .. Len(t.pieces) : Ends(k)}
            n == CHOOSE k \in 0 .. Len(t.pieces) : Leads(k)
<1>1. Len(t.pieces) \in Nat \ {0}
  BY DEF IsSeq
<1>2. \E k \in 0 .. Len(t.pieces) : Leads(k)
  <2>1. T \subseteq Nat /\ Len(t.pieces) \in T
    BY <1>1
  <2>2. PICK k \in T : \A j \in T : k <= j
    BY <2>1, LeastExists
  <2>3. ASSUME NEW i \in 1 .. k PROVE ~t.pieces[i].hole
    <3>1. i - 1 \in 0 .. Len(t.pieces) /\ ~(k <= i - 1) /\ i - 1 + 1 = i
      BY <1>1, <2>2, <2>3
    <3>2. ~Ends(i - 1)
      BY <3>1, <2>2
    <3>. QED
      BY <3>1, <3>2
  <2>. QED
    BY <2>2, <2>3
<1>3. n \in 0 .. Len(t.pieces) /\ Leads(n)
  BY <1>2
<1>4. LeadingWords(t) = [i \in 1 .. n |-> t.pieces[i].name]
  BY DEF LeadingWords
<1>. HIDE DEF n
<1>5. n \in Nat \ {0}
  BY <1>1, <1>3
<1>6. LeadingWords(t) \in Seq({t.pieces[i].name : i \in 1 .. n})
  BY <1>4, <1>5
<1>. QED
  BY <1>4, <1>5, <1>6 DEF IsSeq

\* The words of a template are those of its pieces.
WordsOfPieces(ps) ==
    LET n == CHOOSE k \in 0 .. Len(ps) :
               /\ \A i \in 1 .. k : ~ps[i].hole
               /\ k = Len(ps) \/ ps[k + 1].hole
    IN [i \in 1 .. n |-> ps[i].name]

LEMMA LeadingWordsOfPieces == \A t : LeadingWords(t) = WordsOfPieces(t.pieces)
BY DEF LeadingWords, WordsOfPieces

\* Loading leaves the words of a rule alone; they are a sequence that starts
\* with the rule's name.
LEMMA WordsOfARule ==
    ASSUME NEW d, IsProgram(d), ProgramOk(d)
    PROVE  /\ RuleWords(Program(d)) = RuleWords(d) /\ Program(d).name = d.name
           /\ IsSeq(RuleWords(d)) /\ Len(RuleWords(d)) \in Nat \ {0}
           /\ RuleWords(d)[1] = d.name
<1>1. Program(d).name = d.name /\ Program(d).sub = d.sub
      /\ Program(d).template = IF d.template = None THEN None ELSE Some(Shaped(d))
  BY DEF Program, IsProgram
<1>2. CASE d.template = None
  <2>1. RuleWords(Program(d)) = <<d.name>> \o d.sub /\ RuleWords(d) = <<d.name>> \o d.sub
    BY <1>1, <1>2 DEF RuleWords
  <2>. DEFINE S == {d.sub[i] : i \in DOMAIN d.sub} \cup {d.name}
  <2>2. d.sub \in Seq(S) /\ <<d.name>> \in Seq(S)
    <3>1. d.sub \in Seq({d.sub[i] : i \in DOMAIN d.sub})
      BY DEF IsProgram, IsSeq
    <3>2. {d.sub[i] : i \in DOMAIN d.sub} \subseteq S /\ d.name \in S
      OBVIOUS
    <3>. HIDE DEF S
    <3>. QED
      BY <3>1, <3>2, SeqMonotonic
  <2>. HIDE DEF S
  <2>3. /\ <<d.name>> \o d.sub \in Seq(S)
        /\ Len(<<d.name>> \o d.sub) = 1 + Len(d.sub)
        /\ (<<d.name>> \o d.sub)[1] = d.name
    BY <2>2
  <2>4. IsSeq(<<d.name>> \o d.sub)
    BY <2>3, SeqOfRange DEF IsSeq, Range
  <2>. QED
    BY <1>1, <2>1, <2>2, <2>3, <2>4
<1>3. CASE d.template # None
  <2>. DEFINE t == d.template[1]
  <2>1. Shaped(d).pieces = t.pieces
    BY <1>3 DEF Shaped, IsProgram
  <2>2. RuleWords(Program(d)) = LeadingWords(Shaped(d)) /\ RuleWords(d) = LeadingWords(t)
    BY <1>1, <1>3 DEF RuleWords, None, Some
  <2>3. RuleWords(Program(d)) = RuleWords(d)
    BY <2>1, <2>2, LeadingWordsOfPieces
  <2>4. t.pieces # <<>> /\ ~t.pieces[1].hole /\ t.pieces[1] = Lit(d.name)
    BY <1>3, <2>1 DEF ProgramOk, TemplateOk
  <2>5. t.pieces[1].name = d.name
    BY <2>4 DEF Lit
  <2>6. IsSeq(t.pieces)
    BY <1>3 DEF IsProgram
  <2>. QED
    BY <1>1, <2>2, <2>3, <2>4, <2>5, <2>6, LeadingWordsFacts
<1>. QED
  BY <1>2, <1>3

\* Words that the same arguments spell, after the same first one, are
\* comparable.
LEMMA SpelledWordsCompare ==
    ASSUME NEW v, NEW w, NEW args, IsSeq(v), IsSeq(w), v # <<>>, w # <<>>, v[1] = w[1],
           MatchesLeading(Tail(v), args), MatchesLeading(Tail(w), args)
    PROVE  Prefix(v, w) \/ Prefix(w, v)
<1>1. ASSUME NEW s, IsSeq(s), s # <<>>, MatchesLeading(Tail(s), args)
      PROVE  \A i \in 2 .. Len(s) : s[i] = KnownText(args[i - 1])
  <2>1. s \in Seq({s[i] : i \in DOMAIN s})
    BY <1>1 DEF IsSeq
  <2>2. /\ Len(s) \in Nat /\ DOMAIN Tail(s) = 1 .. Len(s) - 1
        /\ \A i \in 1 .. Len(s) - 1 : Tail(s)[i] = s[i + 1]
    BY <1>1, <2>1
  <2>3. ASSUME NEW i \in 2 .. Len(s) PROVE s[i] = KnownText(args[i - 1])
    <3>1. i - 1 \in 1 .. Len(s) - 1 /\ i - 1 + 1 = i
      BY <2>2
    <3>2. Tail(s)[i - 1] = s[i]
      BY <2>2, <3>1
    <3>. QED
      BY <1>1, <2>2, <3>1, <3>2 DEF MatchesLeading, Reads
  <2>. QED
    BY <2>3
<1>2. /\ \A i \in 2 .. Len(v) : v[i] = KnownText(args[i - 1])
      /\ \A i \in 2 .. Len(w) : w[i] = KnownText(args[i - 1])
  BY <1>1
<1>3. Len(v) \in Nat /\ Len(w) \in Nat
  BY SeqFacts
<1>4. \A i \in 1 .. Len(v) : i <= Len(w) => v[i] = w[i]
  BY <1>2, <1>3
<1>5. CASE Len(v) <= Len(w)
  <2>1. \A i \in 1 .. Len(v) : v[i] = w[i]
    BY <1>3, <1>4, <1>5
  <2>. QED
    BY <1>5, <2>1, Beginning DEF Prefix
<1>6. CASE Len(w) <= Len(v)
  <2>1. \A i \in 1 .. Len(w) : w[i] = v[i]
    BY <1>3, <1>4, <1>6
  <2>. QED
    BY <1>6, <2>1, Beginning DEF Prefix
<1>. QED
  BY <1>3, <1>5, <1>6

\* In a policy that was not refused, one command line selects one rule.
LEMMA OneRuleOfCommand ==
    ASSUME NEW w \in Written, Allowed(w), NEW name, NEW args,
           NEW r \in Selected(Resolved(w), name, args), NEW s \in Selected(Resolved(w), name, args)
    PROVE  r = s
<1>1. /\ r \in Resolved(w).programs /\ r.name = name /\ MatchesLeading(Tail(RuleWords(r)), args)
      /\ s \in Resolved(w).programs /\ s.name = name /\ MatchesLeading(Tail(RuleWords(s)), args)
  BY DEF Selected
<1>2. PICK a \in w.programs : r = Program(a)
  BY <1>1, LoadedRules
<1>3. PICK b \in w.programs : s = Program(b)
  BY <1>1, LoadedRules
<1>4. IsProgram(a) /\ IsProgram(b) /\ ProgramOk(a) /\ ProgramOk(b)
  BY WrittenIsAPolicy DEF IsPolicy, Allowed
<1>5. /\ RuleWords(r) = RuleWords(a) /\ a.name = name
      /\ IsSeq(RuleWords(a)) /\ RuleWords(a) # <<>> /\ RuleWords(a)[1] = name
  BY <1>1, <1>2, <1>4, WordsOfARule
<1>6. /\ RuleWords(s) = RuleWords(b) /\ b.name = name
      /\ IsSeq(RuleWords(b)) /\ RuleWords(b) # <<>> /\ RuleWords(b)[1] = name
  BY <1>1, <1>3, <1>4, WordsOfARule
<1>7. Prefix(RuleWords(a), RuleWords(b)) \/ Prefix(RuleWords(b), RuleWords(a))
  BY <1>1, <1>5, <1>6, SpelledWordsCompare
<1>8. a = b
  BY <1>5, <1>6, <1>7 DEF Allowed, FormsApart
<1>. QED
  BY <1>2, <1>3, <1>8

----------------------------------------------------------------------------
(* The policy of a run.                                                     *)

\* The policy is as a document says it until it is loaded, and the loaded
\* form of one that was not refused after.
PolicyLoaded ==
    /\ stage = "written" => policy \in Written
    /\ stage \notin {"written", "not a policy"} =>
         \E w \in Written : Allowed(w) /\ policy = Resolved(w)

LEMMA LoadedInit == Init => PolicyLoaded
BY DEF Init, PolicyLoaded, Written

LEMMA LoadedNext ==
    ASSUME PolicyLoaded, [Next]_vars
    PROVE  PolicyLoaded'
<1>1. CASE Load
  BY <1>1 DEF PolicyLoaded, Load
<1>2. CASE Decide
  BY <1>2 DEF PolicyLoaded, Decide
<1>3. CASE Exec
  BY <1>3 DEF PolicyLoaded, Exec
<1>4. CASE Check
  BY <1>4 DEF PolicyLoaded, Check
<1>5. CASE Request
  BY <1>5 DEF PolicyLoaded, Request
<1>6. CASE Hop
  BY <1>6 DEF PolicyLoaded, Hop
<1>7. CASE Answer
  BY <1>7 DEF PolicyLoaded, Answer
<1>8. CASE Redirect
  BY <1>8 DEF PolicyLoaded, Redirect
<1>9. CASE UNCHANGED vars
  BY <1>9 DEF PolicyLoaded, vars
<1>. QED
  BY <1>1, <1>2, <1>3, <1>4, <1>5, <1>6, <1>7, <1>8, <1>9 DEF Next

THEOREM LoadedPolicy == Spec => []PolicyLoaded
<1>1. Init => PolicyLoaded
  BY LoadedInit
<1>2. PolicyLoaded /\ [Next]_vars => PolicyLoaded'
  BY LoadedNext
<1>. QED
  BY <1>1, <1>2, PTL DEF Spec

\* In a policy that loads, no request and no words are governed by two rules
\* (policy.py: the overlap and the prefix refusals of allow).
THEOREM OneRule == Spec => []OneRuleGoverns
<1>1. PolicyLoaded => OneRuleGoverns
  <2>. SUFFICES ASSUME PolicyLoaded, stage \notin {"written", "not a policy"}
                PROVE  /\ \A t \in Urls : \A m \in Methods :
                            Cardinality({r \in Candidates(policy, [method |-> m], Parts[t]) :
                                           PathPermitted(r, {Parts[t].path} \ Unplaced)}) <= 1
                       /\ \A args \in ArgStrings(call.args) :
                            Cardinality(Selected(policy, call.name, args)) <= 1
    BY DEF OneRuleGoverns
  <2>1. PICK w \in Written : Allowed(w) /\ policy = Resolved(w)
    BY DEF PolicyLoaded
  <2>2. ASSUME NEW t \in Urls, NEW m \in Methods
        PROVE  Cardinality({r \in Candidates(policy, [method |-> m], Parts[t]) :
                              PathPermitted(r, {Parts[t].path} \ Unplaced)}) <= 1
    <3>. DEFINE S == {r \in Candidates(policy, [method |-> m], Parts[t]) :
                        PathPermitted(r, {Parts[t].path} \ Unplaced)}
    <3>1. ASSUME NEW r \in S PROVE r \in Resolved(w).network /\ RuleOfRequest(r, Parts[t], m)
      BY <2>1 DEF Candidates, RuleOfRequest
    <3>2. \A r, s \in S : r = s
      <4>. HIDE DEF S
      <4>. QED
        BY <2>1, <3>1, OneRuleOfRequest
    <3>. HIDE DEF S
    <3>3. Cardinality(S) <= 1
      BY <3>2, AtMostOne
    <3>. QED
      BY <3>3 DEF S
  <2>3. ASSUME NEW args PROVE Cardinality(Selected(policy, call.name, args)) <= 1
    <3>1. \A r, s \in Selected(policy, call.name, args) : r = s
      BY <2>1, OneRuleOfCommand
    <3>. QED
      BY <3>1, AtMostOne
  <2>. QED
    BY <2>2, <2>3
<1>. QED
  BY <1>1, LoadedPolicy, PTL

----------------------------------------------------------------------------
(* Redirects.                                                               *)

\* Does a value show atom a, by its text?
Shows(v, a, voc) ==
    CASE a = NotOption -> ~MayStartWithDash(v)
      [] a \in voc.defined -> v.read = "text" /\ v.texts \subseteq Defined[a]
      [] a \in voc.checkable \ voc.defined -> IsKnown(v) /\ KnownText(v) \in Verdict[a]
      [] OTHER -> FALSE

LEMMA NothingMissing ==
    ASSUME NEW v, NEW R, NEW voc, v.read # "nothing", Missing(v, R, voc) = {}, NEW a \in R, a \notin v.atoms
    PROVE  Shows(v, a, voc)
<1>1. Missing(v, R, voc) = {b \in R \ v.atoms : ~Shows(v, b, voc)}
  BY DEF Missing, Shows
<1>. QED
  BY <1>1

\* A hop under a rule shows in its URL every atom the rule does not waive.
LEMMA HopShowsItsAtoms ==
    ASSUME NEW w \in Written, NEW m, NEW t \in Urls,
           NEW r \in Admitting(Resolved(w), m, t, FALSE), NEW a \in DOMAIN r.requires
    PROVE  r.requires[a] = "waive" \/ (a \in DOMAIN Meaning /\ t \in Meaning[a])
<1>1. r \in Resolved(w).network /\ ~RuleRefuses(Resolved(w), r, t, FALSE)
  BY DEF Admitting
<1>2. r.requires[a] \in {"recheck", "waive"}
  <2>1. PICK s \in w.network : r = Settled(s, w)
    BY <1>1, LoadedRules
  <2>2. r.requires[a] \in {"recheck", "stop", "waive"}
    BY <2>1, SettledRule
  <2>3. r.requires[a] # "stop"
    BY <1>1 DEF RuleRefuses
  <2>. QED
    BY <2>2, <2>3
<1>3. CASE r.requires[a] = "recheck"
  <2>. DEFINE R == {b \in DOMAIN r.requires : r.requires[b] = "recheck"}
              voc == Vocabulary(w)
  <2>1. a \in R /\ Missing(Str(t), R, voc) = {}
    BY <1>1, <1>3, LoadedRules DEF RuleRefuses
  <2>. HIDE DEF R
  <2>2. /\ Str(t).atoms = {} /\ Str(t).read = "text" /\ Str(t).texts = {t}
        /\ KnownText(Str(t)) = t
    BY DEF Str, Value, KnownText
  <2>3. \/ a = NotOption /\ ~MayStartWithDash(Str(t))
        \/ a # NotOption /\ a \in voc.defined /\ t \in Defined[a]
        \/ a # NotOption /\ a \in voc.checkable \ voc.defined /\ t \in Verdict[a]
    <3>1. Shows(Str(t), a, voc)
      BY <2>1, <2>2, NothingMissing
    <3>2. CASE a = NotOption
      <4>1. a \notin voc.defined
        BY <3>2, DefinedAssumption, WrittenIsAPolicy DEF Vocabulary
      <4>. QED
        BY <3>1, <3>2, <4>1 DEF Shows, Vocabulary, Checkable
    <3>3. CASE a # NotOption
      BY <2>2, <3>1, <3>3 DEF Shows
    <3>. QED
      BY <3>2, <3>3
  <2>4. /\ voc.defined \subseteq DOMAIN Defined
        /\ voc.checkable \ voc.defined \subseteq DOMAIN Verdict \ DOMAIN Defined
    BY WrittenIsAPolicy DEF Vocabulary
  <2>. HIDE DEF voc
  <2>5. CASE a = NotOption
    <3>1. t \in Text \ Dashed
      BY <2>2, <2>3, <2>5, PartsAssumption DEF MayStartWithDash, Urls
    <3>. QED
      BY <2>5, <3>1, DefinedAssumption DEF Meaning
  <2>6. CASE a # NotOption /\ a \in voc.defined
    BY <2>3, <2>4, <2>6 DEF Meaning
  <2>7. CASE a # NotOption /\ a \notin voc.defined
    BY <2>3, <2>4, <2>7 DEF Meaning
  <2>. QED
    BY <2>5, <2>6, <2>7
<1>. QED
  BY <1>2, <1>3

\* What a request that was sent owes to the rule it was sent under.
HeldToItsRule(h, first, isHop) ==
    /\ isHop => \A a \in DOMAIN h.rule.requires :
         \/ h.rule.requires[a] = "waive"
         \/ a \in DOMAIN Meaning /\ h.url \in Meaning[a]
    /\ HostMatches(h.rule.host, Parts[h.url].host)
    /\ h.credentials => Origin(h.url) = Origin(first.url)
    /\ ~h.rule.allowNonpublic => Parts[h.url].host \notin NonPublic

\* Until the call asks, nothing was sent; after the first request, what it
\* asks for is a URL of a redirect.
HopInv ==
    /\ IsSeq(sent)
    /\ stage \in {"written", "not a policy", "loaded", "accepted"} => sent = <<>>
    /\ stage = "sent" => sent # <<>>
    /\ stage = "asking" /\ sent # <<>> => current.url \in Urls
    /\ \A i \in DOMAIN sent : HeldToItsRule(sent[i], sent[1], i > 1)

LEMMA HopInit == Init => HopInv
<1>. SUFFICES ASSUME Init PROVE HopInv
  OBVIOUS
<1>1. sent = <<>> /\ stage = "written"
  BY DEF Init
<1>2. IsSeq(sent) /\ DOMAIN sent = {}
  BY <1>1 DEF IsSeq
<1>. QED
  BY <1>1, <1>2 DEF HopInv

\* A request that is sent is held to the rule that admits it.
LEMMA HopHolds ==
    ASSUME PolicyLoaded, HopInv, Hop
    PROVE  HopInv'
<1>. DEFINE rules == Admitting(policy, current.method, current.url, sent = <<>>)
            rule == CHOOSE r \in rules : TRUE
            h == [url |-> current.url, method |-> current.method, rule |-> rule,
                  credentials |-> Origin(current.url) = FirstOrigin]
<1>1. stage = "asking" /\ UNCHANGED <<policy, call, command, current>>
  BY DEF Hop
<1>2. CASE rules = {}
  <2>1. stage' = "refused" /\ sent' = sent
    BY <1>2 DEF Hop
  <2>. QED
    BY <2>1 DEF HopInv
<1>3. CASE rules # {} /\ ~rule.allowNonpublic /\ Parts[current.url].host \in NonPublic
  <2>1. stage' = "screened" /\ sent' = sent
    BY <1>3 DEF Hop
  <2>. QED
    BY <2>1 DEF HopInv
<1>4. CASE rules # {} /\ ~(~rule.allowNonpublic /\ Parts[current.url].host \in NonPublic)
  <2>1. stage' = "sent" /\ sent' = Append(sent, h)
    BY <1>4 DEF Hop
  <2>2. PICK w \in Written : policy = Resolved(w)
    BY <1>1 DEF PolicyLoaded
  <2>3. rule \in Admitting(Resolved(w), current.method, current.url, sent = <<>>)
    BY <1>4, <2>2
  <2>4. /\ h.url = current.url /\ h.rule = rule
        /\ h.credentials = (Origin(current.url) = FirstOrigin)
    OBVIOUS
  <2>5. /\ HostMatches(rule.host, Parts[current.url].host)
        /\ ~rule.allowNonpublic => Parts[current.url].host \notin NonPublic
    BY <1>4, <2>3 DEF Admitting, MatchesEndpoint
  <2>. HIDE DEF rules, rule, h
  <2>6. /\ Len(sent) \in Nat /\ DOMAIN sent = 1 .. Len(sent)
        /\ IsSeq(sent') /\ DOMAIN sent' = 1 .. Len(sent) + 1
        /\ \A i \in 1 .. Len(sent) : sent'[i] = sent[i]
        /\ sent'[Len(sent) + 1] = h
    <3>. DEFINE S == {sent[i] : i \in DOMAIN sent} \cup {h}
    <3>1. sent \in Seq(S) /\ h \in S
      <4>1. sent \in Seq({sent[i] : i \in DOMAIN sent})
        BY DEF HopInv, IsSeq
      <4>2. {sent[i] : i \in DOMAIN sent} \subseteq S /\ h \in S
        OBVIOUS
      <4>. HIDE DEF S
      <4>. QED
        BY <4>1, <4>2, SeqMonotonic
    <3>. HIDE DEF S
    <3>2. sent' \in Seq(S)
      BY <2>1, <3>1
    <3>3. IsSeq(sent')
      BY <3>2, SeqOfRange DEF IsSeq, Range
    <3>. QED
      BY <2>1, <3>1, <3>3
  <2>7. CASE sent = <<>>
    <3>1. Len(sent) = 0 /\ h.credentials => Origin(h.url) = Origin(sent'[1].url)
      BY <2>4, <2>6, <2>7
    <3>2. HeldToItsRule(sent'[1], sent'[1], FALSE)
      BY <2>4, <2>5, <2>6, <2>7 DEF HeldToItsRule
    <3>3. \A i \in DOMAIN sent' : i = 1
      BY <2>6, <2>7
    <3>4. ASSUME NEW i \in DOMAIN sent' PROVE HeldToItsRule(sent'[i], sent'[1], i > 1)
      <4>1. i = 1 /\ (i > 1) = FALSE
        BY <3>3
      <4>. QED
        BY <3>2, <4>1
    <3>5. sent' # <<>>
      BY <2>6
    <3>. QED
      BY <2>1, <2>6, <3>4, <3>5 DEF HopInv
  <2>8. CASE sent # <<>>
    <3>1. Len(sent) \in Nat \ {0} /\ sent'[1] = sent[1]
      <4>1. sent \in Seq({sent[i] : i \in DOMAIN sent})
        BY DEF HopInv, IsSeq
      <4>2. Len(sent) \in Nat \ {0}
        BY <2>8, <4>1
      <4>. QED
        BY <2>6, <4>2
    <3>2. current.url \in Urls /\ rule \in Admitting(Resolved(w), current.method, current.url, FALSE)
      BY <1>1, <2>3, <2>8 DEF HopInv
    <3>3. \A a \in DOMAIN rule.requires :
             rule.requires[a] = "waive" \/ (a \in DOMAIN Meaning /\ current.url \in Meaning[a])
      BY <3>2, HopShowsItsAtoms
    <3>4. h.credentials => Origin(h.url) = Origin(sent[1].url)
      BY <2>4, <2>8 DEF FirstOrigin
    <3>5. HeldToItsRule(h, sent'[1], TRUE)
      BY <2>4, <2>5, <3>1, <3>3, <3>4 DEF HeldToItsRule
    <3>6. ASSUME NEW i \in DOMAIN sent' PROVE HeldToItsRule(sent'[i], sent'[1], i > 1)
      <4>1. CASE i \in 1 .. Len(sent)
        BY <2>6, <3>1, <4>1 DEF HopInv
      <4>2. CASE i = Len(sent) + 1
        <5>1. (i > 1) = TRUE
          BY <3>1, <4>2
        <5>. QED
          BY <2>6, <3>5, <4>2, <5>1
      <4>. QED
        BY <2>6, <4>1, <4>2
    <3>7. sent' # <<>>
      BY <2>6
    <3>. QED
      BY <2>1, <2>6, <3>6, <3>7 DEF HopInv
  <2>. QED
    BY <2>7, <2>8
<1>. QED
  BY <1>2, <1>3, <1>4

LEMMA HopNext ==
    ASSUME PolicyLoaded, HopInv, [Next]_vars
    PROVE  HopInv'
<1>1. CASE Load
  BY <1>1 DEF HopInv, Load
<1>2. CASE Decide
  BY <1>2 DEF HopInv, Decide
<1>3. CASE Exec
  BY <1>3 DEF HopInv, Exec
<1>4. CASE Check
  BY <1>4 DEF HopInv, Check
<1>5. CASE Request
  BY <1>5 DEF HopInv, Request
<1>6. CASE Hop
  BY <1>6, HopHolds
<1>7. CASE Answer
  BY <1>7 DEF HopInv, Answer
<1>8. CASE Redirect
  <2>1. PICK t \in Urls, status \in {"moved", "see other", "kept"} :
          current' = [url |-> t,
                      method |-> IF \/ status = "see other"
                                    \/ status = "moved" /\ current.method # "GET"
                                 THEN "GET" ELSE current.method]
    BY <1>8 DEF Redirect
  <2>3. current'.url \in Urls
    BY <2>1
  <2>2. sent' = sent /\ stage' \in {"asking", "too many redirects"}
    BY <1>8 DEF Redirect
  <2>. QED
    BY <2>2, <2>3 DEF HopInv
<1>9. CASE UNCHANGED vars
  BY <1>9 DEF HopInv, vars
<1>. QED
  BY <1>1, <1>2, <1>3, <1>4, <1>5, <1>6, <1>7, <1>8, <1>9 DEF Next

\* Every hop is held to the rule that admits it as if the program had named
\* it, and the credentials reach the first origin alone (broker.py:
\* _rule_refusal and _execute).
THEOREM HopsHeld == Spec => []HopsReauthorized
<1>1. Init => HopInv
  BY HopInit
<1>2. PolicyLoaded /\ HopInv /\ [Next]_vars => HopInv'
  BY HopNext
<1>3. HopInv => HopsReauthorized
  BY DEF HopInv, HopsReauthorized, HeldToItsRule
<1>. QED
  BY <1>1, <1>2, <1>3, LoadedPolicy, PTL DEF Spec

----------------------------------------------------------------------------
(* A request the analysis accepts is one the broker admits.                 *)

Calls == UNION {x.calls : x \in Cases}

LEMMA CallFacts ==
    ASSUME NEW c \in Calls
    PROVE  /\ c.kind = "exec" => IsSeq(c.args)
           /\ c.kind = "request" /\ c.url.read # "nothing" => c.url.texts \subseteq Urls
BY CasesAssumption DEF Calls, Urls

\* The built-in atom, the defined ones and the checkable ones are apart.
LEMMA ShowsByKind ==
    ASSUME NEW v, NEW voc, NotOption \notin voc.defined, NotOption \notin voc.checkable
    PROVE  /\ Shows(v, NotOption, voc) <=> ~MayStartWithDash(v)
           /\ \A a \in voc.defined :
                Shows(v, a, voc) <=> (v.read = "text" /\ v.texts \subseteq Defined[a])
           /\ \A a \in voc.checkable \ voc.defined :
                Shows(v, a, voc) <=> (IsKnown(v) /\ KnownText(v) \in Verdict[a])
<1>1. Shows(v, NotOption, voc) <=> ~MayStartWithDash(v)
  BY DEF Shows
<1>2. ASSUME NEW a \in voc.defined
      PROVE  Shows(v, a, voc) <=> (v.read = "text" /\ v.texts \subseteq Defined[a])
  <2>1. a # NotOption
    BY <1>2
  <2>. QED
    BY <1>2, <2>1 DEF Shows
<1>3. ASSUME NEW a \in voc.checkable \ voc.defined
      PROVE  Shows(v, a, voc) <=> (IsKnown(v) /\ KnownText(v) \in Verdict[a])
  <2>1. a # NotOption
    BY <1>3
  <2>. QED
    BY <1>3, <2>1 DEF Shows
<1>. QED
  BY <1>1, <1>2, <1>3

\* What a value carries of the textual atoms, every string it may be shows.
LEMMA InstancesShow ==
    ASSUME NEW w \in Written, NEW v, NEW t \in Instances(v), v.read # "nothing",
           NEW a \in Recheckable(w), a \in v.atoms \/ Shows(v, a, Vocabulary(w))
    PROVE  Shows(Str(t), a, Vocabulary(w))
<1>. DEFINE voc == Vocabulary(w)
<1>1. /\ Str(t).atoms = {} /\ Str(t).read = "text" /\ Str(t).texts = {t}
      /\ KnownText(Str(t)) = t /\ IsKnown(Str(t))
  BY DEF Str, Value, KnownText, IsKnown
<1>2. t \in v.texts /\ \A b \in v.atoms \cap DOMAIN Meaning : t \in Meaning[b]
  BY DEF Instances
<1>3. /\ voc.defined \subseteq DOMAIN Defined /\ NotOption \notin voc.defined
      /\ voc.checkable \ voc.defined \subseteq DOMAIN Verdict \ DOMAIN Defined
      /\ a = NotOption \/ a \in voc.defined \/ a \in voc.checkable
  BY WrittenIsAPolicy, DefinedAssumption DEF Vocabulary, Recheckable
<1>4. NotOption \notin voc.checkable
  BY DEF Vocabulary, Checkable
<1>5. a \in v.atoms \/ Shows(v, a, voc)
  OBVIOUS
<1>. SUFFICES Shows(Str(t), a, voc)
  OBVIOUS
<1>. HIDE DEF voc
<1>6. CASE a = NotOption
  <2>1. t \notin Dashed
    <3>1. CASE a \in v.atoms
      BY <1>2, <1>6, <3>1, DefinedAssumption DEF Meaning
    <3>2. CASE a \notin v.atoms
      <4>1. ~MayStartWithDash(v)
        BY <1>3, <1>4, <1>5, <1>6, <3>2, ShowsByKind
      <4>. QED
        BY <1>2, <1>6, <3>2, <4>1 DEF MayStartWithDash
    <3>. QED
      BY <3>1, <3>2
  <2>2. ~MayStartWithDash(Str(t))
    BY <1>1, <2>1 DEF MayStartWithDash
  <2>. QED
    BY <1>3, <1>4, <1>6, <2>2, ShowsByKind
<1>7. CASE a # NotOption /\ a \in voc.defined
  <2>1. t \in Defined[a]
    <3>1. CASE a \in v.atoms
      BY <1>2, <1>3, <1>7, <3>1 DEF Meaning
    <3>2. CASE a \notin v.atoms
      BY <1>2, <1>3, <1>4, <1>5, <1>7, <3>2, ShowsByKind
    <3>. QED
      BY <3>1, <3>2
  <2>2. Str(t).read = "text" /\ Str(t).texts \subseteq Defined[a]
    BY <1>1, <2>1
  <2>. QED
    BY <1>3, <1>4, <1>7, <2>2, ShowsByKind
<1>8. CASE a # NotOption /\ a \in voc.checkable \ voc.defined
  <2>1. t \in Verdict[a]
    <3>1. CASE a \in v.atoms
      BY <1>2, <1>3, <1>8, <3>1 DEF Meaning
    <3>2. CASE a \notin v.atoms
      <4>1. IsKnown(v) /\ KnownText(v) \in Verdict[a]
        BY <1>3, <1>4, <1>5, <1>8, <3>2, ShowsByKind
      <4>2. KnownText(v) = t
        BY <1>2, <4>1 DEF IsKnown, KnownText
      <4>. QED
        BY <4>1, <4>2
    <3>. QED
      BY <3>1, <3>2
  <2>2. IsKnown(Str(t)) /\ KnownText(Str(t)) \in Verdict[a]
    BY <1>1, <2>1
  <2>. QED
    BY <1>3, <1>4, <1>8, <2>2, ShowsByKind
<1>. QED
  BY <1>3, <1>6, <1>7, <1>8

\* What permits all paths of a value permits the path of each of its texts.
LEMMA PathOfAText ==
    ASSUME NEW r, NEW v, NEW t \in v.texts, PathPermitted(r, PathsOf(v))
    PROVE  PathPermitted(r, {Parts[t].path} \ Unplaced)
<1>1. CASE r.paths = {}
  BY <1>1 DEF PathPermitted
<1>2. CASE r.paths # {}
  <2>1. PathsOf(v) # {} /\ \E p \in r.paths : PathsOf(v) \subseteq p
    BY <1>2 DEF PathPermitted
  <2>2. Parts[t].path \in PathsOf(v) /\ Parts[t].path \notin Unplaced
    BY <2>1 DEF PathsOf, Lifted
  <2>. QED
    BY <1>2, <2>1, <2>2 DEF PathPermitted
<1>. QED
  BY <1>1, <1>2

LEMMA AcceptedIsAdmitted ==
    ASSUME NEW w \in Written, Allowed(w), NEW c \in Calls,
           RequestAccepted(Resolved(w), c), NEW t \in Instances(c.url)
    PROVE  Admitting(Resolved(w), c.method, t, TRUE) # {}
<1>1. c.url.read # "nothing" /\ t \in c.url.texts
  BY DEF RequestAccepted, SchemeKnown, Instances
<1>2. Parts[t] \in Lifted(c.url)
  BY <1>1 DEF Lifted
<1>3. PICK r \in Candidates(Resolved(w), c, Parts[t]) :
        /\ PathPermitted(r, PathsOf(c.url))
        /\ Missing(c.url, DOMAIN r.requires, Vocabulary(Resolved(w))) = {}
  BY <1>2 DEF RequestAccepted
<1>4. r \in Resolved(w).network
  BY DEF Candidates
<1>5. PathPermitted(r, {Parts[t].path} \ Unplaced)
  BY <1>1, <1>3, PathOfAText
<1>. DEFINE R == {a \in DOMAIN r.requires : r.requires[a] = "recheck"}
<1>6. ASSUME NEW a \in R PROVE Shows(Str(t), a, Vocabulary(w))
  <2>1. a \in c.url.atoms \/ Shows(c.url, a, Vocabulary(w))
    BY <1>1, <1>3, LoadedRules, NothingMissing
  <2>2. a \in Recheckable(w)
    <3>1. PICK s \in w.network : r = Settled(s, w)
      BY <1>4, LoadedRules
    <3>2. a \in DOMAIN s.requires /\ (s.requires[a] = "recheck" \/ a \in Recheckable(w))
      <4>1. IsNetworkRule(s)
        BY WrittenIsAPolicy DEF IsPolicy
      <4>. QED
        BY <3>1, <4>1 DEF Settled, IsNetworkRule
    <3>. QED
      BY <3>2 DEF Allowed, RechecksAreTextual
  <2>. QED
    BY <1>1, <2>1, <2>2, InstancesShow
<1>7. Missing(Str(t), R, Vocabulary(w)) = {}
  <2>1. Str(t).read # "nothing"
    BY DEF Str, Value
  <2>. HIDE DEF R
  <2>2. Missing(Str(t), R, Vocabulary(w)) =
          {b \in R \ Str(t).atoms : ~Shows(Str(t), b, Vocabulary(w))}
    BY <2>1 DEF Missing, Shows
  <2>. QED
    BY <1>6, <2>2
<1>8. ~RuleRefuses(Resolved(w), r, t, TRUE)
  BY <1>7, LoadedRules DEF RuleRefuses
<1>9. MatchesEndpoint(r, Parts[t].scheme, Parts[t].host, PortOf(Parts[t]), c.method)
  BY DEF Candidates
<1>. QED
  BY <1>4, <1>5, <1>8, <1>9 DEF Admitting

----------------------------------------------------------------------------
(* The rule a command is composed under.                                    *)

\* Words that known values spell, every string of theirs spells.
LEMMA StringsSpell ==
    ASSUME NEW words, NEW vs, IsSeq(vs), NEW args \in ArgStrings(vs), IsSeq(words),
           MatchesLeading(words, vs)
    PROVE  MatchesLeading(words, args)
<1>1. /\ Len(vs) \in Nat /\ DOMAIN vs = 1 .. Len(vs) /\ Len(words) \in Nat
      /\ DOMAIN words = 1 .. Len(words)
  BY SeqFacts
<1>2. /\ args \in [DOMAIN vs -> UNION {Strings(vs[i]) : i \in DOMAIN vs}]
      /\ \A i \in DOMAIN args : args[i] \in Strings(vs[i])
  BY DEF ArgStrings
<1>3. Len(args) = Len(vs) /\ DOMAIN args = 1 .. Len(vs)
  BY <1>1, <1>2
<1>4. Len(vs) >= Len(words) /\ \A i \in DOMAIN words : Reads(vs[i], words[i])
  BY DEF MatchesLeading
<1>5. ASSUME NEW i \in DOMAIN words PROVE Reads(args[i], words[i])
  <2>1. i \in DOMAIN args
    BY <1>1, <1>3, <1>4
  <2>2. PICK t \in Instances(vs[i]) : args[i] = Str(t)
    BY <1>2, <2>1 DEF Strings
  <2>3. Reads(vs[i], words[i])
    BY <1>4
  <2>4. t \in vs[i].texts
    BY <2>2 DEF Instances
  <2>5. words[i] = t
    BY <2>3, <2>4 DEF Reads, IsKnown, KnownText
  <2>6. IsKnown(Str(t)) /\ KnownText(Str(t)) = t
    BY DEF Str, Value, IsKnown, KnownText
  <2>. QED
    BY <2>2, <2>5, <2>6 DEF Reads
<1>. QED
  BY <1>3, <1>4, <1>5 DEF MatchesLeading

\* A command is composed under a rule its strings select, or under no rule,
\* when the policy lets an ungoverned program through.
LEMMA RuleOfCommand ==
    ASSUME NEW p, NEW name, NEW args, NEW kws, NEW cwd,
           ExecCommand(p, name, args, kws, cwd).ok
    PROVE  LET rule == ExecCommand(p, name, args, kws, cwd).rule
           IN \/ rule \in Selected(p, name, args)
              \/ (~\E r \in p.programs : r.name = name) /\ rule = Ungoverned(name)
BY DEF ExecCommand, Command, Refused

----------------------------------------------------------------------------
(* Effects and sources.                                                     *)

LEMMA LoadedEffects ==
    ASSUME NEW w \in Written
    PROVE  /\ Resolved(w).reads = w.reads
           /\ MediumOf(Resolved(w)) = MediumOf(w)
           /\ \A r \in DOMAIN MediumOf(w) : MediumOf(w)[r] \in Media
<1>1. DOMAIN w = {"programs", "validations", "atoms", "network", "sources", "regions",
                  "reads", "denied", "defaultAllow"}
      /\ \A r \in w.regions : r.medium \in Media
  BY WrittenIsAPolicy DEF IsPolicy
<1>2. Resolved(w).reads = w.reads /\ Resolved(w).regions = w.regions
  BY <1>1 DEF Resolved
<1>3. MediumOf(Resolved(w)) = MediumOf(w)
  BY <1>2 DEF MediumOf
<1>4. \A r \in DOMAIN MediumOf(w) : MediumOf(w)[r] \in Media
  BY <1>1 DEF MediumOf
<1>. QED
  BY <1>2, <1>3, <1>4

\* Nothing an atom may depend on escapes an unknown effect.
LEMMA EverythingCovers ==
    ASSUME NEW w \in Written, Allowed(w), NEW f, NEW a, Kills(Resolved(w), f, a)
    PROVE  Kills(Resolved(w), Everything, a)
<1>. DEFINE g == ReadSet(Resolved(w), a)
            medium == MediumOf(Resolved(w))
<1>1. Everything.regions = {} /\ Everything.media = {"fs", "net"} /\ ~IsEmpty(Everything)
  BY DEF Everything, Effects, Media, IsEmpty, Nothing
<1>2. Meets(Everything, g, medium)
  <2>1. CASE a \notin DOMAIN w.reads
    <3>1. g = Everything
      BY <2>1, LoadedEffects DEF ReadSet
    <3>. QED
      BY <1>1, <3>1 DEF Meets
  <2>2. CASE a \in DOMAIN w.reads
    <3>1. g = w.reads[a]
      BY <2>2, LoadedEffects DEF ReadSet
    <3>2. /\ ~IsEmpty(w.reads[a]) /\ w.reads[a].regions \subseteq DOMAIN MediumOf(w)
          /\ IsEffects(w.reads[a])
      BY <2>2, WrittenIsAPolicy DEF Allowed, ReadsDeclared, IsPolicy
    <3>3. w.reads[a].regions # {} \/ w.reads[a].media # {}
      BY <3>2 DEF IsEffects, IsEmpty, Nothing
    <3>4. CASE w.reads[a].media # {}
      BY <1>1, <3>1, <3>2, <3>4 DEF Meets, IsEffects, Media
    <3>5. CASE w.reads[a].regions # {}
      <4>1. PICK r \in w.reads[a].regions : medium[r] \in Media
        BY <3>2, <3>5, LoadedEffects
      <4>. QED
        BY <1>1, <3>1, <4>1 DEF Meets, Media
    <3>. QED
      BY <3>3, <3>4, <3>5
  <2>. QED
    BY <2>1, <2>2
<1>. QED
  BY <1>1, <1>2 DEF Kills

\* What the parts of an effect kill, the effect kills.
LEMMA UnionCovers ==
    ASSUME NEW p, NEW E, NEW f \in E, NEW a, Kills(p, f, a)
    PROVE  Kills(p, Effects(UNION {e.regions : e \in E}, UNION {e.media : e \in E}), a)
<1>. DEFINE u == Effects(UNION {e.regions : e \in E}, UNION {e.media : e \in E})
<1>1. f.regions \subseteq u.regions /\ f.media \subseteq u.media
  BY DEF Effects
<1>2. u # Nothing
  <2>1. Nothing.regions = {} /\ Nothing.media = {}
    BY DEF Nothing, Effects
  <2>. HIDE DEF u
  <2>2. f.regions # {} \/ f.media # {}
    BY DEF Kills, Meets
  <2>. QED
    BY <1>1, <2>1, <2>2
<1>3. Meets(f, ReadSet(p, a), MediumOf(p)) /\ a \notin PureAtoms(p) \cup SourceAtoms(p)
  BY DEF Kills
<1>. HIDE DEF u
<1>4. Meets(u, ReadSet(p, a), MediumOf(p))
  BY <1>1, <1>3 DEF Meets
<1>5. Kills(p, u, a)
  BY <1>2, <1>3, <1>4 DEF Kills, IsEmpty
<1>. QED
  BY <1>5 DEF u

\* The rules that the known words of a call select, its strings select.
LEMMA StringsSelect ==
    ASSUME NEW w \in Written, Allowed(w), NEW name, NEW vs, IsSeq(vs), NEW args \in ArgStrings(vs),
           NEW r \in Selected(Resolved(w), name, vs)
    PROVE  r \in Selected(Resolved(w), name, args)
<1>1. r \in Resolved(w).programs /\ r.name = name /\ MatchesLeading(Tail(RuleWords(r)), vs)
  BY DEF Selected
<1>2. PICK d \in w.programs : r = Program(d)
  BY <1>1, LoadedRules
<1>3. IsProgram(d) /\ ProgramOk(d)
  BY WrittenIsAPolicy DEF IsPolicy, Allowed
<1>4. IsSeq(RuleWords(r)) /\ Len(RuleWords(r)) \in Nat \ {0}
  BY <1>2, <1>3, WordsOfARule
<1>5. IsSeq(Tail(RuleWords(r)))
  <2>. DEFINE ws == RuleWords(r)
  <2>1. ws \in Seq({ws[i] : i \in DOMAIN ws}) /\ ws # <<>>
    BY <1>4 DEF IsSeq
  <2>. HIDE DEF ws
  <2>2. Tail(ws) \in Seq({ws[i] : i \in DOMAIN ws})
    BY <2>1
  <2>3. IsSeq(Tail(ws))
    BY <2>2, SeqOfRange DEF IsSeq, Range
  <2>. QED
    BY <2>3 DEF ws
<1>. QED
  BY <1>1, <1>5, StringsSpell DEF Selected

\* The rule the analysis takes a command to run under is the one it runs under.
LEMMA SelectedIsRun ==
    ASSUME NEW w \in Written, Allowed(w), NEW name, NEW vs, IsSeq(vs), NEW args \in ArgStrings(vs),
           NEW rule, NEW r \in Selected(Resolved(w), name, vs),
           \/ rule \in Selected(Resolved(w), name, args)
           \/ ~\E d \in Resolved(w).programs : d.name = name
    PROVE  r = rule
<1>1. r \in Resolved(w).programs /\ r.name = name
  BY DEF Selected
<1>2. rule \in Selected(Resolved(w), name, args)
  BY <1>1
<1>. QED
  BY <1>2, StringsSelect, OneRuleOfCommand

\* Sources have the shape of a rule's.
LEMMA SourceShape ==
    ASSUME NEW w \in Written
    PROVE  /\ \A r \in Resolved(w).programs : r.source # None => r.source = Some(r.source[1])
           /\ \A r \in Resolved(w).network : r.source # None => r.source = Some(r.source[1])
<1>1. ASSUME NEW r \in Resolved(w).programs PROVE r.source # None => r.source = Some(r.source[1])
  <2>1. PICK d \in w.programs : r = Program(d)
    BY LoadedRules
  <2>2. IsProgram(d)
    BY WrittenIsAPolicy DEF IsPolicy
  <2>3. r.source = d.source
    BY <2>1, <2>2 DEF Program, IsProgram
  <2>. QED
    BY <2>2, <2>3 DEF IsProgram
<1>2. ASSUME NEW r \in Resolved(w).network PROVE r.source # None => r.source = Some(r.source[1])
  <2>1. PICK s \in w.network : r = Settled(s, w)
    BY LoadedRules
  <2>2. IsNetworkRule(s)
    BY WrittenIsAPolicy DEF IsPolicy
  <2>3. r.source = s.source
    BY <2>1, <2>2 DEF Settled, IsNetworkRule
  <2>. QED
    BY <2>2, <2>3 DEF IsNetworkRule
<1>. QED
  BY <1>1, <1>2

\* The images of a finite set are finitely many.
LEMMA SourcesAreFinite ==
    ASSUME NEW S, IsFiniteSet(S)
    PROVE  IsFiniteSet({r.source : r \in S})
<1>. DEFINE f == [r \in S |-> r.source]
<1>1. f \in Surjection(S, {r.source : r \in S})
  BY DEF Surjection
<1>. HIDE DEF f
<1>. QED
  BY <1>1, FS_Surjection

\* A source the analysis tags a response with is the source of the rule that
\* the request is sent under.
LEMMA SourceOfTheRule ==
    ASSUME NEW w \in Written, Allowed(w), NEW c \in Calls, c.kind = "request",
           NEW t \in Instances(c.url), NEW rule \in Admitting(Resolved(w), c.method, t, TRUE),
           NEW s \in NetworkSources(Resolved(w), c)
    PROVE  rule.source = Some(s)
<1>. DEFINE p == Resolved(w)
            At(u) == {r \in Candidates(p, c, u) : PathPermitted(r, PathsOf(c.url))}
            named == {r.source : r \in GoverningRules(p, c)}
<1>1. Cardinality(named) = 1 /\ s \in {x[1] : x \in named \ {None}}
  BY DEF NetworkSources
<1>2. \A u \in Lifted(c.url) : \A r \in At(u) : r \in p.network
  BY DEF Candidates
<1>3. GoverningRules(p, c) \subseteq p.network
  BY <1>2 DEF GoverningRules
<1>4. IsFiniteSet(p.network)
  <2>1. IsFiniteSet(w.network)
    BY WrittenIsAPolicy DEF IsPolicy
  <2>. DEFINE f == [r \in w.network |-> Settled(r, w)]
  <2>2. p.network = {Settled(r, w) : r \in w.network}
    BY LoadedRules
  <2>. HIDE DEF p
  <2>3. f \in Surjection(w.network, p.network)
    BY <2>2 DEF Surjection
  <2>. HIDE DEF f
  <2>. QED
    BY <2>1, <2>3, FS_Surjection
<1>5. IsFiniteSet(GoverningRules(p, c))
  BY <1>3, <1>4, FS_Subset
<1>6. PICK x : named = {x}
  BY <1>1, <1>5, SourcesAreFinite, FS_Singleton
<1>7. /\ SchemeKnown(c.url) /\ \A u \in Lifted(c.url) : Cardinality(At(u)) = 1
      /\ GoverningRules(p, c) = UNION {At(u) : u \in Lifted(c.url)}
  <2>1. GoverningRules(p, c) # {}
    BY <1>6
  <2>. QED
    BY <2>1 DEF GoverningRules
<1>8. t \in c.url.texts /\ Parts[t] \in Lifted(c.url) /\ t \in Urls
  BY <1>7, CallFacts DEF Instances, Lifted, SchemeKnown
<1>9. At(Parts[t]) # {}
  BY <1>7, <1>8, FS_EmptySet
<1>10. PICK r : r \in At(Parts[t])
  BY <1>9
<1>11. r = rule
  <2>1. r \in p.network /\ RuleOfRequest(r, Parts[t], c.method)
    BY <1>8, <1>10, PathOfAText DEF Candidates, RuleOfRequest
  <2>2. rule \in p.network /\ RuleOfRequest(rule, Parts[t], c.method)
    BY DEF Admitting, RuleOfRequest
  <2>. QED
    BY <1>8, <2>1, <2>2, OneRuleOfRequest
<1>12. rule \in GoverningRules(p, c)
  BY <1>7, <1>8, <1>10, <1>11
<1>13. rule.source = x /\ x # None /\ s = x[1]
  BY <1>1, <1>6, <1>12
<1>14. rule \in p.network
  BY <1>3, <1>12
<1>. QED
  BY <1>13, <1>14, SourceShape

\* A request to the one host its URL may name is among the rules whose writes
\* the analysis takes together.
LEMMA WritesOfTheRule ==
    ASSUME NEW w \in Written, NEW c \in Calls, NEW t \in Instances(c.url),
           NEW rule \in Admitting(Resolved(w), c.method, t, TRUE),
           \A u, v \in Lifted(c.url) : u.host = v.host,
           NEW a, Kills(Resolved(w), RequestWrites(rule), a)
    PROVE  Kills(Resolved(w), NetworkWrites(Resolved(w), c), a)
<1>. DEFINE p == Resolved(w)
            hosts == {u.host : u \in Lifted(c.url)}
            covers == {r \in p.network : /\ \A h \in hosts : HostMatches(r.host, h)
                                         /\ r.methods = {} \/ c.method \in r.methods}
            written == {RequestWrites(r) : r \in covers}
<1>1. Parts[t] \in Lifted(c.url)
  BY DEF Instances, Lifted
<1>2. /\ rule \in p.network /\ HostMatches(rule.host, Parts[t].host)
      /\ rule.methods = {} \/ c.method \in rule.methods
  BY DEF Admitting, MatchesEndpoint
<1>3. \A h \in hosts : h = Parts[t].host
  BY <1>1
<1>4. rule \in covers
  BY <1>2, <1>3
<1>5. RequestWrites(rule) \in written
  BY <1>4
<1>6. NetworkWrites(p, c) = Effects(UNION {e.regions : e \in written}, UNION {e.media : e \in written})
  BY <1>4 DEF NetworkWrites
<1>. HIDE DEF written, p
<1>7. Kills(p, RequestWrites(rule), a)
  BY DEF p
<1>8. Kills(p, NetworkWrites(p, c), a)
  BY <1>5, <1>6, <1>7, UnionCovers
<1>. QED
  BY <1>8 DEF p

----------------------------------------------------------------------------
(* Sequences, taken apart and put together.                                 *)

LEMMA IsASequence ==
    ASSUME NEW A, NEW s \in Seq(A)
    PROVE  IsSeq(s)
BY SeqOfRange DEF IsSeq, Range

\* Two sequences have their elements in one set.
LEMMA OneRange ==
    ASSUME NEW s, NEW t, IsSeq(s), IsSeq(t)
    PROVE  \E A : s \in Seq(A) /\ t \in Seq(A)
<1>. DEFINE A == {s[i] : i \in DOMAIN s} B == {t[i] : i \in DOMAIN t}
<1>1. A \subseteq A \cup B /\ B \subseteq A \cup B
  OBVIOUS
<1>2. s \in Seq(A) /\ t \in Seq(B)
  BY DEF IsSeq
<1>. HIDE DEF A, B
<1>. QED
  BY <1>1, <1>2, SeqMonotonic

LEMMA ConcatFacts ==
    ASSUME NEW s, NEW t, IsSeq(s), IsSeq(t)
    PROVE  /\ IsSeq(s \o t) /\ Len(s \o t) = Len(s) + Len(t)
           /\ \A i \in 1 .. Len(s) : (s \o t)[i] = s[i]
           /\ \A i \in 1 .. Len(t) : (s \o t)[Len(s) + i] = t[i]
<1>1. PICK A : s \in Seq(A) /\ t \in Seq(A)
  BY OneRange
<1>2. s \o t \in Seq(A) /\ Len(s) \in Nat /\ Len(t) \in Nat
  BY <1>1
<1>3. IsSeq(s \o t)
  BY <1>2, IsASequence
<1>. QED
  BY <1>1, <1>2, <1>3

LEMMA TailFacts ==
    ASSUME NEW s, IsSeq(s), s # <<>>
    PROVE  /\ IsSeq(Tail(s)) /\ Len(Tail(s)) = Len(s) - 1 /\ Len(s) \in Nat \ {0}
           /\ Head(s) = s[1]
           /\ \A i \in 1 .. Len(s) - 1 : Tail(s)[i] = s[i + 1]
<1>1. PICK A : s \in Seq(A)
  BY DEF IsSeq
<1>2. Tail(s) \in Seq(A)
  BY <1>1
<1>3. IsSeq(Tail(s))
  BY <1>2, IsASequence
<1>. QED
  BY <1>1, <1>2, <1>3

LEMMA RestFacts ==
    ASSUME NEW s, IsSeq(s), NEW k \in Nat \ {0}, k <= Len(s) + 1
    PROVE  /\ IsSeq(SubSeq(s, k, Len(s))) /\ Len(SubSeq(s, k, Len(s))) = Len(s) - k + 1
           /\ \A i \in 1 .. Len(s) - k + 1 : SubSeq(s, k, Len(s))[i] = s[k + i - 1]
<1>1. PICK A : s \in Seq(A)
  BY DEF IsSeq
<1>2. SubSeq(s, k, Len(s)) \in Seq(A)
  BY <1>1
<1>3. Len(s) \in Nat
  BY <1>1
<1>4. IsSeq(SubSeq(s, k, Len(s)))
  BY <1>2, IsASequence
<1>. QED
  BY <1>1, <1>2, <1>3, <1>4

LEMMA EmptyFacts ==
    /\ IsSeq(<<>>) /\ Len(<<>>) = 0
    /\ \A s : IsSeq(s) => (s = <<>> <=> Len(s) = 0)
<1>1. <<>> \in Seq({}) /\ Len(<<>>) = 0
  OBVIOUS
<1>2. ASSUME NEW s, IsSeq(s) PROVE s = <<>> <=> Len(s) = 0
  <2>1. PICK A : s \in Seq(A)
    BY <1>2 DEF IsSeq
  <2>. QED
    BY <2>1, EmptySeq
<1>. QED
  BY <1>1, <1>2, IsASequence

LEMMA ShortFacts ==
    /\ \A a : IsSeq(<<a>>) /\ Len(<<a>>) = 1 /\ <<a>>[1] = a
    /\ \A a, b : IsSeq(<<a, b>>) /\ Len(<<a, b>>) = 2 /\ <<a, b>>[1] = a /\ <<a, b>>[2] = b
<1>1. ASSUME NEW a PROVE IsSeq(<<a>>) /\ Len(<<a>>) = 1 /\ <<a>>[1] = a
  <2>1. <<a>> \in Seq({a})
    OBVIOUS
  <2>. QED
    BY <2>1, IsASequence
<1>2. ASSUME NEW a, NEW b
      PROVE  IsSeq(<<a, b>>) /\ Len(<<a, b>>) = 2 /\ <<a, b>>[1] = a /\ <<a, b>>[2] = b
  <2>1. <<a, b>> \in Seq({a, b})
    OBVIOUS
  <2>. QED
    BY <2>1, IsASequence
<1>. QED
  BY <1>1, <1>2

----------------------------------------------------------------------------
(* The strings that values turn out to be.                                  *)

LEMMA StringFacts ==
    ASSUME NEW v, NEW s \in Strings(v)
    PROVE  /\ IsKnown(s) /\ s.read = "text" /\ s.atoms = {} /\ s.texts = {KnownText(s)}
           /\ s = Str(KnownText(s)) /\ KnownText(s) \in Instances(v)
           /\ IsKnown(v) => KnownText(s) = KnownText(v)
<1>1. PICK t \in Instances(v) : s = Str(t)
  BY DEF Strings
<1>2. s.read = "text" /\ s.atoms = {} /\ s.texts = {t}
  BY <1>1 DEF Str, Value
<1>3. KnownText(s) = t /\ IsKnown(s)
  BY <1>2 DEF KnownText, IsKnown
<1>4. IsKnown(v) => KnownText(v) = t
  BY <1>1 DEF Instances, KnownText, IsKnown
<1>. QED
  BY <1>1, <1>2, <1>3, <1>4

\* A value shown not to be an option turns out not to be one.
LEMMA NoDash ==
    ASSUME NEW v, NEW s \in Strings(v), ~MayStartWithDash(v)
    PROVE  ~MayStartWithDash(s) /\ KnownText(s) \notin Dashed
<1>1. KnownText(s) \in Instances(v) /\ s.read = "text" /\ s.texts = {KnownText(s)}
  BY StringFacts
<1>2. KnownText(s) \notin Dashed
  <2>1. CASE NotOption \in v.atoms
    <3>1. NotOption \in v.atoms \cap DOMAIN Meaning /\ Meaning[NotOption] = Text \ Dashed
      BY <2>1, DefinedAssumption DEF Meaning
    <3>. QED
      BY <1>1, <3>1 DEF Instances
  <2>2. CASE NotOption \notin v.atoms
    BY <1>1, <2>2 DEF Instances, MayStartWithDash
  <2>. QED
    BY <2>1, <2>2
<1>. QED
  BY <1>1, <1>2 DEF MayStartWithDash

\* ss are the strings that the values vs turn out to be.
Strung(vs, ss) ==
    /\ IsSeq(vs) /\ IsSeq(ss) /\ Len(ss) = Len(vs)
    /\ \A i \in 1 .. Len(vs) : ss[i] \in Strings(vs[i])

LEMMA StrungConcat ==
    ASSUME NEW vs, NEW ss, NEW ws, NEW rs, Strung(vs, ss), Strung(ws, rs)
    PROVE  Strung(vs \o ws, ss \o rs)
<1>1. /\ IsSeq(vs) /\ IsSeq(ss) /\ Len(ss) = Len(vs)
      /\ \A i \in 1 .. Len(vs) : ss[i] \in Strings(vs[i])
      /\ IsSeq(ws) /\ IsSeq(rs) /\ Len(rs) = Len(ws)
      /\ \A i \in 1 .. Len(ws) : rs[i] \in Strings(ws[i])
  BY DEF Strung
<1>2. Len(vs) \in Nat /\ Len(ws) \in Nat
  BY <1>1, SeqFacts
<1>3. /\ IsSeq(vs \o ws) /\ Len(vs \o ws) = Len(vs) + Len(ws)
      /\ IsSeq(ss \o rs) /\ Len(ss \o rs) = Len(vs) + Len(ws)
      /\ \A i \in 1 .. Len(vs) : (vs \o ws)[i] = vs[i] /\ (ss \o rs)[i] = ss[i]
      /\ \A i \in 1 .. Len(ws) : (vs \o ws)[Len(vs) + i] = ws[i] /\ (ss \o rs)[Len(vs) + i] = rs[i]
  BY <1>1, ConcatFacts
<1>4. ASSUME NEW i \in 1 .. Len(vs) + Len(ws) PROVE (ss \o rs)[i] \in Strings((vs \o ws)[i])
  <2>1. CASE i <= Len(vs)
    BY <1>1, <1>2, <1>3, <2>1
  <2>2. CASE ~(i <= Len(vs))
    <3>1. PICK j \in 1 .. Len(ws) : i = Len(vs) + j
      <4>1. i - Len(vs) \in 1 .. Len(ws) /\ i = Len(vs) + (i - Len(vs))
        BY <1>2, <2>2
      <4>. QED
        BY <4>1
    <3>. QED
      BY <1>1, <1>3, <3>1
  <2>. QED
    BY <2>1, <2>2
<1>. QED
  BY <1>3, <1>4 DEF Strung

LEMMA StrungRest ==
    ASSUME NEW vs, NEW ss, Strung(vs, ss), NEW k \in Nat \ {0}, k <= Len(vs) + 1
    PROVE  Strung(SubSeq(vs, k, Len(vs)), SubSeq(ss, k, Len(ss)))
<1>1. /\ IsSeq(vs) /\ IsSeq(ss) /\ Len(ss) = Len(vs) /\ Len(vs) \in Nat
      /\ \A i \in 1 .. Len(vs) : ss[i] \in Strings(vs[i])
  BY SeqFacts DEF Strung
<1>2. /\ IsSeq(SubSeq(vs, k, Len(vs))) /\ Len(SubSeq(vs, k, Len(vs))) = Len(vs) - k + 1
      /\ \A i \in 1 .. Len(vs) - k + 1 : SubSeq(vs, k, Len(vs))[i] = vs[k + i - 1]
  BY <1>1, RestFacts
<1>3. /\ IsSeq(SubSeq(ss, k, Len(ss))) /\ Len(SubSeq(ss, k, Len(ss))) = Len(ss) - k + 1
      /\ \A i \in 1 .. Len(ss) - k + 1 : SubSeq(ss, k, Len(ss))[i] = ss[k + i - 1]
  BY <1>1, RestFacts
<1>4. \A i \in 1 .. Len(vs) - k + 1 : k + i - 1 \in 1 .. Len(vs)
  BY <1>1
<1>. QED
  BY <1>1, <1>2, <1>3, <1>4 DEF Strung

LEMMA StrungTail ==
    ASSUME NEW vs, NEW ss, Strung(vs, ss), vs # <<>>
    PROVE  /\ ss # <<>> /\ Head(ss) \in Strings(Head(vs))
           /\ Strung(Tail(vs), Tail(ss))
<1>1. /\ IsSeq(vs) /\ IsSeq(ss) /\ Len(ss) = Len(vs) /\ Len(vs) \in Nat
      /\ \A i \in 1 .. Len(vs) : ss[i] \in Strings(vs[i])
  BY SeqFacts DEF Strung
<1>2. ss # <<>>
  BY <1>1, EmptyFacts
<1>3. /\ IsSeq(Tail(vs)) /\ Len(Tail(vs)) = Len(vs) - 1 /\ Len(vs) # 0
      /\ Head(vs) = vs[1]
      /\ \A i \in 1 .. Len(vs) - 1 : Tail(vs)[i] = vs[i + 1]
  BY <1>1, TailFacts
<1>4. /\ IsSeq(Tail(ss)) /\ Len(Tail(ss)) = Len(ss) - 1
      /\ Head(ss) = ss[1]
      /\ \A i \in 1 .. Len(ss) - 1 : Tail(ss)[i] = ss[i + 1]
  BY <1>1, <1>2, TailFacts
<1>5. 1 \in 1 .. Len(vs) /\ \A i \in 1 .. Len(vs) - 1 : i + 1 \in 1 .. Len(vs)
  BY <1>1, <1>3
<1>. QED
  BY <1>1, <1>2, <1>3, <1>4, <1>5 DEF Strung

LEMMA StrungShort ==
    /\ Strung(<<>>, <<>>)
    /\ \A v, s : s \in Strings(v) => Strung(<<v>>, <<s>>)
    /\ \A v, w, s, r : s \in Strings(v) /\ r \in Strings(w) => Strung(<<v, w>>, <<s, r>>)
<1>1. Strung(<<>>, <<>>)
  BY EmptyFacts DEF Strung
<1>2. ASSUME NEW v, NEW s \in Strings(v) PROVE Strung(<<v>>, <<s>>)
  BY ShortFacts DEF Strung
<1>3. ASSUME NEW v, NEW w, NEW s \in Strings(v), NEW r \in Strings(w) PROVE Strung(<<v, w>>, <<s, r>>)
  BY ShortFacts DEF Strung
<1>. QED
  BY <1>1, <1>2, <1>3

\* A string turns out to be itself.
LEMMA StringOfItself ==
    ASSUME NEW t
    PROVE  /\ Str(t) \in Strings(Str(t)) /\ IsKnown(Str(t)) /\ KnownText(Str(t)) = t
<1>1. Str(t).texts = {t} /\ Str(t).atoms = {} /\ Str(t).read = "text"
  BY DEF Str, Value
<1>2. t \in Instances(Str(t))
  BY <1>1 DEF Instances
<1>. QED
  BY <1>1, <1>2 DEF Strings, IsKnown, KnownText

LEMMA StrungWords ==
    ASSUME NEW ws, IsSeq(ws)
    PROVE  Strung(AsValues(ws), AsValues(ws))
<1>1. Len(ws) \in Nat /\ DOMAIN ws = 1 .. Len(ws)
  BY SeqFacts
<1>2. AsValues(ws) = [i \in 1 .. Len(ws) |-> Str(ws[i])]
  BY <1>1 DEF AsValues
<1>3. AsValues(ws) \in Seq({Str(ws[i]) : i \in 1 .. Len(ws)})
  BY <1>1, <1>2
<1>4. Len(AsValues(ws)) = Len(ws)
  BY <1>1, <1>2
<1>. QED
  BY <1>2, <1>3, <1>4, IsASequence, StringOfItself DEF Strung

----------------------------------------------------------------------------
(* Recursion along a list.                                                  *)

\* What holds of a place when it holds of every later one holds of all.
LEMMA Backward ==
    ASSUME NEW n \in Nat, NEW S, \A k \in 1 .. n : (\A j \in k + 1 .. n : j \in S) => k \in S
    PROVE  \A k \in 1 .. n : k \in S
<1>. DEFINE T == {m \in 0 .. n - 1 : n - m \notin S}
<1>1. CASE T = {}
  <2>1. ASSUME NEW k \in 1 .. n PROVE k \in S
    <3>1. n - k \in 0 .. n - 1 /\ n - (n - k) = k
      OBVIOUS
    <3>. QED
      BY <1>1, <3>1
  <2>. QED
    BY <2>1
<1>2. CASE T # {}
  <2>1. T \subseteq Nat
    OBVIOUS
  <2>2. PICK m \in T : \A x \in T : m <= x
    <3>. HIDE DEF T
    <3>. QED
      BY <1>2, <2>1, LeastExists
  <2>3. n - m \in 1 .. n /\ n - m \notin S
    OBVIOUS
  <2>4. ASSUME NEW j \in (n - m) + 1 .. n PROVE j \in S
    <3>1. n - j \in 0 .. n - 1 /\ n - j < m /\ n - (n - j) = j
      OBVIOUS
    <3>2. n - j \notin T
      BY <2>2, <3>1
    <3>. QED
      BY <3>1, <3>2
  <2>. QED
    BY <2>3, <2>4
<1>. QED
  BY <1>1, <1>2

LEMMA Forward ==
    ASSUME NEW n \in Nat, NEW S, 0 \in S, \A k \in 1 .. n : k - 1 \in S => k \in S
    PROVE  n \in S
<1>. DEFINE R == {k \in 1 .. n + 1 : n - k + 1 \in S => n \in S}
<1>1. ASSUME NEW k \in 1 .. n + 1, \A j \in 1 .. n + 1 : j < k => j \in R PROVE k \in R
  <2>1. CASE k = 1
    BY <2>1
  <2>2. CASE k > 1
    <3>1. k - 1 \in R /\ n - (k - 1) + 1 \in 1 .. n
      BY <1>1, <2>2
    <3>2. n - k + 1 \in S => n - (k - 1) + 1 \in S
      <4>1. (n - (k - 1) + 1) - 1 = n - k + 1
        OBVIOUS
      <4>. QED
        BY <3>1, <4>1
    <3>. QED
      BY <3>1, <3>2
  <2>. QED
    BY <2>1, <2>2
<1>2. n + 1 \in R
  <2>. DEFINE T == {k \in 1 .. n + 1 : k \notin R}
  <2>. HIDE DEF R
  <2>1. SUFFICES ASSUME T # {} PROVE FALSE
    OBVIOUS
  <2>2. T \subseteq Nat
    OBVIOUS
  <2>3. PICK m \in T : \A x \in T : m <= x
    <3>. HIDE DEF T
    <3>. QED
      BY <2>1, <2>2, LeastExists
  <2>4. ASSUME NEW j \in 1 .. n + 1, j < m PROVE j \in R
    BY <2>3, <2>4
  <2>. QED
    BY <1>1, <2>3, <2>4
<1>3. n - (n + 1) + 1 = 0
  OBVIOUS
<1>. QED
  BY <1>2, <1>3

\* The reading of a list of flags against its vocabulary: what is asked of the
\* value of a flag is left to sat.
ReadAt(es, n, fs, sat, f, i) ==
    IF i > n THEN i = n + 1
    ELSE /\ IsKnown(es[i])
         /\ \/ KnownText(es[i]) \in fs.bare /\ f[i + 1]
            \/ KnownText(es[i]) \in DOMAIN fs.valued /\ i < n /\ sat[i] /\ f[i + 2]

IsReading(f, es, n, fs, sat) == f = [i \in 1 .. n + 2 |-> ReadAt(es, n, fs, sat, f, i)]

LEMMA ReadingExists ==
    ASSUME NEW es, NEW n \in Nat, NEW fs, NEW sat
    PROVE  \E f : IsReading(f, es, n, fs, sat)
<1>. DEFINE At(f, i) == ReadAt(es, n, fs, sat, f, i)
            S == {k \in 1 .. n + 2 : \E f : \A i \in k .. n + 2 : f[i] = At(f, i)}
<1>1. ASSUME NEW i \in 1 .. n + 2, NEW f, NEW g, i <= n => f[i + 1] = g[i + 1] /\ f[i + 2] = g[i + 2]
      PROVE  At(f, i) = At(g, i)
  <2>1. CASE i > n
    BY <2>1, Zenon DEF ReadAt
  <2>2. CASE ~(i > n)
    <3>1. f[i + 1] = g[i + 1] /\ f[i + 2] = g[i + 2]
      BY <1>1, <2>2
    <3>. QED
      BY <2>2, <3>1, Zenon DEF ReadAt
  <2>. QED
    BY <2>1, <2>2
<1>. HIDE DEF At
<1>2. ASSUME NEW k \in 1 .. n + 2, \A j \in k + 1 .. n + 2 : j \in S PROVE k \in S
  <2>1. PICK f : \A i \in k + 1 .. n + 2 : f[i] = At(f, i)
    <3>1. CASE k < n + 2
      <4>1. k + 1 \in k + 1 .. n + 2
        BY <3>1
      <4>. QED
        BY <1>2, <4>1
    <3>2. CASE ~(k < n + 2)
      BY <3>2
    <3>. QED
      BY <3>1, <3>2
  <2>. DEFINE g == [i \in k .. n + 2 |-> IF i = k THEN At(f, i) ELSE f[i]]
  <2>2. \A i \in k + 1 .. n + 2 : g[i] = f[i]
    OBVIOUS
  <2>3. ASSUME NEW i \in k .. n + 2 PROVE At(f, i) = At(g, i)
    <3>1. i <= n => i + 1 \in k + 1 .. n + 2 /\ i + 2 \in k + 1 .. n + 2
      OBVIOUS
    <3>2. i <= n => f[i + 1] = g[i + 1] /\ f[i + 2] = g[i + 2]
      BY <2>2, <3>1
    <3>. HIDE DEF g
    <3>. QED
      BY <1>1, <3>2
  <2>4. ASSUME NEW i \in k .. n + 2 PROVE g[i] = At(f, i)
    BY <2>1
  <2>5. \A i \in k .. n + 2 : g[i] = At(g, i)
    BY <2>3, <2>4
  <2>. HIDE DEF g
  <2>. QED
    BY <2>5
<1>3. 1 \in S
  <2>. HIDE DEF S
  <2>. QED
    BY <1>2, Backward
<1>4. PICK f : \A i \in 1 .. n + 2 : f[i] = At(f, i)
  BY <1>3
<1>. DEFINE g == [i \in 1 .. n + 2 |-> f[i]]
<1>5. ASSUME NEW i \in 1 .. n + 2 PROVE g[i] = At(g, i)
  <2>1. i <= n => f[i + 1] = g[i + 1] /\ f[i + 2] = g[i + 2]
    OBVIOUS
  <2>2. g[i] = f[i]
    OBVIOUS
  <2>. HIDE DEF g
  <2>. QED
    BY <1>1, <1>4, <2>1, <2>2
<1>6. g = [i \in 1 .. n + 2 |-> At(g, i)]
  BY <1>5
<1>. HIDE DEF g
<1>. QED
  BY <1>6 DEF At, IsReading

----------------------------------------------------------------------------
(* What the analysis finds of a value, the broker finds of its strings.     *)

\* The atoms that the analysis does not find, and those the broker does not.
Lacking(w, v, atoms) == Missing(v, atoms, Vocabulary(Resolved(w)))
Unshown(w, v, atoms) ==
    Missing(v, atoms \cap DecidableFromText(Resolved(w)), Vocabulary(Resolved(w)))

LEMMA NothingUnshown ==
    ASSUME NEW w \in Written, NEW v, NEW s \in Strings(v), NEW atoms, Lacking(w, v, atoms) = {}
    PROVE  Unshown(w, s, atoms) = {}
<1>. DEFINE D == DecidableFromText(Resolved(w))
<1>1. /\ s.read = "text" /\ s.atoms = {} /\ s = Str(KnownText(s)) /\ KnownText(s) \in Instances(v)
  BY StringFacts
<1>2. Vocabulary(Resolved(w)) = Vocabulary(w) /\ D = Recheckable(w)
  <2>1. Vocabulary(Resolved(w)) = Vocabulary(w)
    BY LoadedRules
  <2>2. DefinedAtoms(Resolved(w)) = DefinedAtoms(w) /\ Checkable(Resolved(w)) = Checkable(w)
    BY <2>1 DEF Vocabulary
  <2>. QED
    BY <2>1, <2>2 DEF DecidableFromText, Recheckable
<1>3. CASE v.read = "nothing"
  BY <1>1, <1>3 DEF Lacking, Unshown, Missing
<1>4. CASE v.read # "nothing"
  <2>1. ASSUME NEW a \in atoms \cap D PROVE Shows(s, a, Vocabulary(w))
    <3>1. a \in v.atoms \/ Shows(v, a, Vocabulary(w))
      BY <1>2, <1>4, NothingMissing DEF Lacking
    <3>. QED
      BY <1>1, <1>2, <1>4, <3>1, InstancesShow
  <2>. HIDE DEF D
  <2>2. Missing(s, atoms \cap D, Vocabulary(w)) =
          {b \in (atoms \cap D) \ s.atoms : ~Shows(s, b, Vocabulary(w))}
    BY <1>1 DEF Missing, Shows
  <2>. QED
    BY <1>2, <2>1, <2>2 DEF Unshown, D
<1>. QED
  BY <1>3, <1>4

\* The two readings of a constraint, of a token and of its place.
Allows(w, c, v) == Satisfies(c, v, LAMBDA u, atoms : Lacking(w, u, atoms))
Admits(w, c, v) == Satisfies(c, v, LAMBDA u, atoms : Unshown(w, u, atoms))

LEMMA AllowedIsAdmitted ==
    ASSUME NEW w \in Written, NEW v, NEW s \in Strings(v), NEW c, Allows(w, c, v)
    PROVE  Admits(w, c, s)
<1>1. /\ s.read = "text" /\ s.texts = {KnownText(s)} /\ IsKnown(s) /\ KnownText(s) \in v.texts
  BY StringFacts DEF Instances
<1>2. CASE c.any
  BY <1>2, Zenon DEF Admits, Satisfies
<1>3. CASE ~c.any
  <2>1. /\ c.within # {} => v.read = "text" /\ v.texts \subseteq c.within
        /\ c.matches # {} => v.read = "text" /\ v.texts \subseteq c.matches
        /\ Lacking(w, v, c.atoms) = {}
    BY <1>3, Zenon DEF Allows, Satisfies
  <2>2. Unshown(w, s, c.atoms) = {}
    BY <2>1, NothingUnshown
  <2>3. /\ s.read # "nothing"
        /\ c.within # {} => s.read = "text" /\ s.texts \subseteq c.within
        /\ c.matches # {} => s.read = "text" /\ s.texts \subseteq c.matches
    BY <1>1, <2>1
  <2>. QED
    BY <1>1, <2>2, <2>3, Zenon DEF Admits, Satisfies
<1>. QED
  BY <1>2, <1>3

\* The two readings of a list of flags.
FlagsKnown(w, fs, es) == FlagsOk(fs, es, LAMBDA u, atoms : Lacking(w, u, atoms))
FlagsShown(w, fs, es) == FlagsOk(fs, es, LAMBDA u, atoms : Unshown(w, u, atoms))
ValuesKnown(w, fs, es) == [i \in 1 .. Len(es) |-> Allows(w, fs.valued[KnownText(es[i])], es[i + 1])]
ValuesShown(w, fs, es) == [i \in 1 .. Len(es) |-> Admits(w, fs.valued[KnownText(es[i])], es[i + 1])]

KnownReading(f, w, fs, es) ==
    /\ \A i \in 1 .. Len(es) + 2 : f[i] = ReadAt(es, Len(es), fs, ValuesKnown(w, fs, es), f, i)
    /\ FlagsKnown(w, fs, es) <=> fs.any \/ f[1]

LEMMA FlagsKnownRead ==
    ASSUME NEW w, NEW fs, NEW es, IsSeq(es)
    PROVE  \E f : KnownReading(f, w, fs, es)
<1>. DEFINE n == Len(es)
            At(f, i) ==
                IF i > n THEN i = n + 1
                ELSE /\ IsKnown(es[i])
                     /\ LET u == KnownText(es[i])
                        IN \/ u \in fs.bare /\ f[i + 1]
                           \/ /\ u \in DOMAIN fs.valued /\ i < n
                              /\ Allows(w, fs.valued[u], es[i + 1])
                              /\ f[i + 2]
            from == CHOOSE f : f = [i \in 1 .. n + 2 |-> At(f, i)]
<1>1. FlagsKnown(w, fs, es) <=> fs.any \/ from[1]
  BY Zenon DEF FlagsKnown, FlagsOk, Allows
<1>2. n \in Nat
  BY SeqFacts
<1>3. ASSUME NEW f, NEW i \in 1 .. n + 2 PROVE At(f, i) = ReadAt(es, n, fs, ValuesKnown(w, fs, es), f, i)
  <2>1. i <= n => ValuesKnown(w, fs, es)[i] = Allows(w, fs.valued[KnownText(es[i])], es[i + 1])
    BY <1>2 DEF ValuesKnown
  <2>2. CASE i > n
    BY <2>2, Zenon DEF ReadAt
  <2>3. CASE ~(i > n)
    <3>1. ValuesKnown(w, fs, es)[i] = Allows(w, fs.valued[KnownText(es[i])], es[i + 1])
      BY <1>2, <2>1, <2>3
    <3>. QED
      BY <2>3, <3>1, Zenon DEF ReadAt
  <2>. QED
    BY <2>2, <2>3
<1>. HIDE DEF At
<1>4. from = [i \in 1 .. n + 2 |-> At(from, i)]
  <2>1. PICK f : IsReading(f, es, n, fs, ValuesKnown(w, fs, es))
    BY <1>2, ReadingExists, Zenon
  <2>2. f = [i \in 1 .. n + 2 |-> At(f, i)]
    BY <1>3, <2>1 DEF IsReading
  <2>. QED
    BY <2>2
<1>5. \A i \in 1 .. n + 2 : from[i] = ReadAt(es, n, fs, ValuesKnown(w, fs, es), from, i)
  <2>1. \A i \in 1 .. n + 2 : from[i] = At(from, i)
    BY <1>4
  <2>. HIDE DEF from
  <2>. QED
    BY <1>3, <2>1
<1>. HIDE DEF from
<1>. QED
  BY <1>1, <1>5 DEF KnownReading

ShownReading(f, w, fs, es) ==
    /\ \A i \in 1 .. Len(es) + 2 : f[i] = ReadAt(es, Len(es), fs, ValuesShown(w, fs, es), f, i)
    /\ FlagsShown(w, fs, es) <=> fs.any \/ f[1]

LEMMA FlagsShownRead ==
    ASSUME NEW w, NEW fs, NEW es, IsSeq(es)
    PROVE  \E f : ShownReading(f, w, fs, es)
<1>. DEFINE n == Len(es)
            At(f, i) ==
                IF i > n THEN i = n + 1
                ELSE /\ IsKnown(es[i])
                     /\ LET u == KnownText(es[i])
                        IN \/ u \in fs.bare /\ f[i + 1]
                           \/ /\ u \in DOMAIN fs.valued /\ i < n
                              /\ Admits(w, fs.valued[u], es[i + 1])
                              /\ f[i + 2]
            from == CHOOSE f : f = [i \in 1 .. n + 2 |-> At(f, i)]
<1>1. FlagsShown(w, fs, es) <=> fs.any \/ from[1]
  BY Zenon DEF FlagsShown, FlagsOk, Admits
<1>2. n \in Nat
  BY SeqFacts
<1>3. ASSUME NEW f, NEW i \in 1 .. n + 2 PROVE At(f, i) = ReadAt(es, n, fs, ValuesShown(w, fs, es), f, i)
  <2>1. i <= n => ValuesShown(w, fs, es)[i] = Admits(w, fs.valued[KnownText(es[i])], es[i + 1])
    BY <1>2 DEF ValuesShown
  <2>2. CASE i > n
    BY <2>2, Zenon DEF ReadAt
  <2>3. CASE ~(i > n)
    <3>1. ValuesShown(w, fs, es)[i] = Admits(w, fs.valued[KnownText(es[i])], es[i + 1])
      BY <1>2, <2>1, <2>3
    <3>. QED
      BY <2>3, <3>1, Zenon DEF ReadAt
  <2>. QED
    BY <2>2, <2>3
<1>. HIDE DEF At
<1>4. from = [i \in 1 .. n + 2 |-> At(from, i)]
  <2>1. PICK f : IsReading(f, es, n, fs, ValuesShown(w, fs, es))
    BY <1>2, ReadingExists, Zenon
  <2>2. f = [i \in 1 .. n + 2 |-> At(f, i)]
    BY <1>3, <2>1 DEF IsReading
  <2>. QED
    BY <2>2
<1>5. \A i \in 1 .. n + 2 : from[i] = ReadAt(es, n, fs, ValuesShown(w, fs, es), from, i)
  <2>1. \A i \in 1 .. n + 2 : from[i] = At(from, i)
    BY <1>4
  <2>. HIDE DEF from
  <2>. QED
    BY <1>3, <2>1
<1>. HIDE DEF from
<1>. QED
  BY <1>1, <1>5 DEF ShownReading


LEMMA FlagsKnownAreShown ==
    ASSUME NEW w \in Written, NEW fs, NEW vs, NEW ss, Strung(vs, ss), FlagsKnown(w, fs, vs)
    PROVE  FlagsShown(w, fs, ss)
<1>. DEFINE n == Len(vs)
<1>1. /\ IsSeq(vs) /\ IsSeq(ss) /\ Len(ss) = n /\ n \in Nat
      /\ \A i \in 1 .. n : ss[i] \in Strings(vs[i])
  BY SeqFacts DEF Strung
<1>2. PICK f : KnownReading(f, w, fs, vs)
  BY <1>1, FlagsKnownRead
<1>3. PICK g : ShownReading(g, w, fs, ss)
  BY <1>1, FlagsShownRead
<1>. HIDE DEF n
<1>6. /\ \A i \in 1 .. n + 2 : f[i] = ReadAt(vs, n, fs, ValuesKnown(w, fs, vs), f, i)
      /\ FlagsKnown(w, fs, vs) <=> fs.any \/ f[1]
  BY <1>2, Zenon DEF KnownReading, n
<1>7. /\ \A i \in 1 .. n + 2 : g[i] = ReadAt(ss, n, fs, ValuesShown(w, fs, ss), g, i)
      /\ FlagsShown(w, fs, ss) <=> fs.any \/ g[1]
  <2>1. /\ \A i \in 1 .. Len(ss) + 2 : g[i] = ReadAt(ss, Len(ss), fs, ValuesShown(w, fs, ss), g, i)
        /\ FlagsShown(w, fs, ss) <=> fs.any \/ g[1]
    BY <1>3, Zenon DEF ShownReading
  <2>2. Len(ss) = n
    BY <1>1
  <2>. QED
    BY <2>1, <2>2, Zenon
<1>. DEFINE S == {i \in 1 .. n + 2 : f[i] => g[i]}
<1>4. ASSUME NEW i \in 1 .. n + 2, \A j \in i + 1 .. n + 2 : j \in S PROVE i \in S
  <2>1. f[i] = ReadAt(vs, n, fs, ValuesKnown(w, fs, vs), f, i) /\ g[i] = ReadAt(ss, n, fs, ValuesShown(w, fs, ss), g, i)
    BY <1>6, <1>7
  <2>2. CASE i > n
    <3>1. f[i] = g[i]
      BY <2>1, <2>2, Zenon DEF ReadAt
    <3>. QED
      BY <3>1
  <2>3. CASE ~(i > n)
    <3>. SUFFICES ASSUME f[i] PROVE g[i]
      OBVIOUS
    <3>1. i \in 1 .. n /\ i + 1 \in i + 1 .. n + 2 /\ i + 2 \in i + 1 .. n + 2
      BY <1>1, <2>3
    <3>2. /\ IsKnown(vs[i])
          /\ \/ KnownText(vs[i]) \in fs.bare /\ f[i + 1]
             \/ KnownText(vs[i]) \in DOMAIN fs.valued /\ i < n /\ ValuesKnown(w, fs, vs)[i] /\ f[i + 2]
      BY <2>1, <2>3, Zenon DEF ReadAt
    <3>3. IsKnown(ss[i]) /\ KnownText(ss[i]) = KnownText(vs[i])
      BY <1>1, <3>1, <3>2, StringFacts
    <3>4. (f[i + 1] => g[i + 1]) /\ (f[i + 2] => g[i + 2])
      BY <1>4, <3>1
    <3>5. i < n /\ ValuesKnown(w, fs, vs)[i] => ValuesShown(w, fs, ss)[i]
      <4>1. SUFFICES ASSUME i < n, ValuesKnown(w, fs, vs)[i] PROVE ValuesShown(w, fs, ss)[i]
        OBVIOUS
      <4>2. i + 1 \in 1 .. n
        BY <1>1, <3>1, <4>1
      <4>3. Allows(w, fs.valued[KnownText(vs[i])], vs[i + 1])
        BY <3>1, <4>1 DEF ValuesKnown, n
      <4>4. ss[i + 1] \in Strings(vs[i + 1])
        BY <1>1, <4>2
      <4>5. Admits(w, fs.valued[KnownText(ss[i])], ss[i + 1])
        BY <3>3, <4>3, <4>4, AllowedIsAdmitted
      <4>. QED
        BY <1>1, <3>1, <4>5 DEF ValuesShown
    <3>6. /\ IsKnown(ss[i])
          /\ \/ KnownText(ss[i]) \in fs.bare /\ g[i + 1]
             \/ KnownText(ss[i]) \in DOMAIN fs.valued /\ i < n /\ ValuesShown(w, fs, ss)[i] /\ g[i + 2]
      BY <3>2, <3>3, <3>4, <3>5, Zenon
    <3>. QED
      BY <2>1, <2>3, <3>6, Zenon DEF ReadAt
  <2>. QED
    BY <2>2, <2>3
<1>5. 1 \in S
  <2>1. n + 2 \in Nat /\ 1 \in 1 .. n + 2
    BY <1>1
  <2>. HIDE DEF S
  <2>. QED
    BY <1>4, <2>1, Backward
<1>. QED
  BY <1>5, <1>6, <1>7

----------------------------------------------------------------------------
(* The flags present.                                                       *)

PresentAt(fs, es, f, i) ==
    IF i > Len(es) THEN {}
    ELSE {KnownText(es[i])} \cup f[IF KnownText(es[i]) \in fs.bare THEN i + 1 ELSE i + 2]
IsPresence(f, fs, es) ==
    /\ \A i \in 1 .. Len(es) + 2 : f[i] = PresentAt(fs, es, f, i)
    /\ PresentFlags(fs, es) = f[1]

LEMMA PresenceExists ==
    ASSUME NEW fs, NEW es, IsSeq(es)
    PROVE  \E f : IsPresence(f, fs, es)
<1>. DEFINE n == Len(es)
            At(f, i) == PresentAt(fs, es, f, i)
            from == CHOOSE f : f = [i \in 1 .. n + 2 |-> At(f, i)]
            S == {k \in 1 .. n + 2 : \E f : \A i \in k .. n + 2 : f[i] = At(f, i)}
<1>1. PresentFlags(fs, es) = from[1]
  BY Zenon DEF PresentFlags, PresentAt
<1>2. n \in Nat
  BY SeqFacts
<1>3. ASSUME NEW i \in 1 .. n + 2, NEW f, NEW g, i <= n => f[i + 1] = g[i + 1] /\ f[i + 2] = g[i + 2]
      PROVE  At(f, i) = At(g, i)
  <2>1. CASE i > n
    BY <2>1, Zenon DEF PresentAt
  <2>2. CASE ~(i > n)
    <3>1. f[i + 1] = g[i + 1] /\ f[i + 2] = g[i + 2]
      BY <1>2, <1>3, <2>2
    <3>2. f[IF KnownText(es[i]) \in fs.bare THEN i + 1 ELSE i + 2] = g[IF KnownText(es[i]) \in fs.bare THEN i + 1 ELSE i + 2]
      BY <3>1
    <3>. QED
      BY <2>2, <3>2, Zenon DEF PresentAt
  <2>. QED
    BY <2>1, <2>2
<1>. HIDE DEF At, n
<1>4. ASSUME NEW k \in 1 .. n + 2, \A j \in k + 1 .. n + 2 : j \in S PROVE k \in S
  <2>1. PICK f : \A i \in k + 1 .. n + 2 : f[i] = At(f, i)
    <3>1. CASE k < n + 2
      <4>1. k + 1 \in k + 1 .. n + 2
        BY <1>2, <3>1
      <4>. QED
        BY <1>4, <4>1
    <3>2. CASE ~(k < n + 2)
      BY <1>2, <3>2
    <3>. QED
      BY <3>1, <3>2
  <2>. DEFINE g == [i \in k .. n + 2 |-> IF i = k THEN At(f, i) ELSE f[i]]
  <2>2. \A i \in k + 1 .. n + 2 : g[i] = f[i]
    BY <1>2
  <2>3. ASSUME NEW i \in k .. n + 2 PROVE At(f, i) = At(g, i)
    <3>1. i <= n => i + 1 \in k + 1 .. n + 2 /\ i + 2 \in k + 1 .. n + 2
      BY <1>2
    <3>2. (i <= n => f[i + 1] = g[i + 1] /\ f[i + 2] = g[i + 2]) /\ i \in 1 .. n + 2
      BY <1>2, <2>2, <3>1
    <3>. HIDE DEF g
    <3>. QED
      BY <1>3, <3>2
  <2>4. ASSUME NEW i \in k .. n + 2 PROVE g[i] = At(f, i)
    BY <1>2, <2>1
  <2>5. \A i \in k .. n + 2 : g[i] = At(g, i)
    BY <2>3, <2>4
  <2>. HIDE DEF g
  <2>. QED
    BY <2>5
<1>5. 1 \in S
  <2>1. n + 2 \in Nat /\ 1 \in 1 .. n + 2
    BY <1>2
  <2>. HIDE DEF S
  <2>. QED
    BY <1>4, <2>1, Backward
<1>6. PICK f : \A i \in 1 .. n + 2 : f[i] = At(f, i)
  BY <1>5
<1>. DEFINE g == [i \in 1 .. n + 2 |-> f[i]]
<1>7. ASSUME NEW i \in 1 .. n + 2 PROVE g[i] = At(g, i)
  <2>1. (i <= n => f[i + 1] = g[i + 1] /\ f[i + 2] = g[i + 2]) /\ g[i] = f[i]
    BY <1>2
  <2>. HIDE DEF g
  <2>. QED
    BY <1>3, <1>6, <2>1
<1>8. g = [i \in 1 .. n + 2 |-> At(g, i)]
  BY <1>7
<1>9. from = [i \in 1 .. n + 2 |-> At(from, i)]
  <2>. HIDE DEF g
  <2>. QED
    BY <1>8
<1>10. \A i \in 1 .. n + 2 : from[i] = At(from, i)
  BY <1>9
<1>. HIDE DEF from
<1>. QED
  BY <1>1, <1>10 DEF IsPresence, At, n


\* A list of flags that the analysis reads names the flags its strings name.
LEMMA PresentFlagsAgree ==
    ASSUME NEW w \in Written, NEW fs, ~fs.any, fs.bare \cap DOMAIN fs.valued = {},
           NEW vs, NEW ss, Strung(vs, ss), FlagsKnown(w, fs, vs)
    PROVE  PresentFlags(fs, ss) = PresentFlags(fs, vs)
<1>. DEFINE n == Len(vs)
<1>1. /\ IsSeq(vs) /\ IsSeq(ss) /\ Len(ss) = n /\ n \in Nat
      /\ \A i \in 1 .. n : ss[i] \in Strings(vs[i])
  BY SeqFacts DEF Strung
<1>2. PICK f : KnownReading(f, w, fs, vs)
  BY <1>1, FlagsKnownRead
<1>3. PICK p : IsPresence(p, fs, vs)
  BY <1>1, PresenceExists
<1>4. PICK q : IsPresence(q, fs, ss)
  BY <1>1, PresenceExists
<1>. HIDE DEF n
<1>5. (\A i \in 1 .. n + 2 : f[i] = ReadAt(vs, n, fs, ValuesKnown(w, fs, vs), f, i)) /\ f[1]
  BY <1>2, Zenon DEF KnownReading, n
<1>6. (\A i \in 1 .. n + 2 : p[i] = PresentAt(fs, vs, p, i)) /\ PresentFlags(fs, vs) = p[1]
  BY <1>3, Zenon DEF IsPresence, n
<1>7. (\A i \in 1 .. n + 2 : q[i] = PresentAt(fs, ss, q, i)) /\ PresentFlags(fs, ss) = q[1]
  BY <1>1, <1>4 DEF IsPresence
<1>. DEFINE S == {i \in 1 .. n + 2 : f[i] => p[i] = q[i]}
<1>8. ASSUME NEW i \in 1 .. n + 2, \A j \in i + 1 .. n + 2 : j \in S PROVE i \in S
  <2>1. p[i] = PresentAt(fs, vs, p, i) /\ q[i] = PresentAt(fs, ss, q, i)
        /\ f[i] = ReadAt(vs, n, fs, ValuesKnown(w, fs, vs), f, i)
    BY <1>5, <1>6, <1>7
  <2>2. CASE i > n
    BY <1>1, <2>1, <2>2 DEF PresentAt, n
  <2>3. CASE ~(i > n)
    <3>. SUFFICES ASSUME f[i] PROVE p[i] = q[i]
      OBVIOUS
    <3>1. i \in 1 .. n /\ i + 1 \in i + 1 .. n + 2 /\ i + 2 \in i + 1 .. n + 2
      BY <1>1, <2>3
    <3>2. /\ IsKnown(vs[i])
          /\ \/ KnownText(vs[i]) \in fs.bare /\ f[i + 1]
             \/ KnownText(vs[i]) \in DOMAIN fs.valued /\ f[i + 2]
      BY <2>1, <2>3, Zenon DEF ReadAt
    <3>3. KnownText(ss[i]) = KnownText(vs[i])
      BY <1>1, <3>1, <3>2, StringFacts
    <3>4. (f[i + 1] => p[i + 1] = q[i + 1]) /\ (f[i + 2] => p[i + 2] = q[i + 2])
      BY <1>8, <3>1
    <3>5. KnownText(vs[i]) \in DOMAIN fs.valued => KnownText(vs[i]) \notin fs.bare
      OBVIOUS
    <3>6. p[IF KnownText(vs[i]) \in fs.bare THEN i + 1 ELSE i + 2]
            = q[IF KnownText(ss[i]) \in fs.bare THEN i + 1 ELSE i + 2]
      BY <3>2, <3>3, <3>4, <3>5, Zenon
    <3>7. ~(i > Len(vs)) /\ ~(i > Len(ss))
      BY <1>1, <2>3 DEF n
    <3>. QED
      BY <2>1, <3>3, <3>6, <3>7, Zenon DEF PresentAt
  <2>. QED
    BY <2>2, <2>3
<1>9. 1 \in S
  <2>1. n + 2 \in Nat /\ 1 \in 1 .. n + 2
    BY <1>1
  <2>. HIDE DEF S
  <2>. QED
    BY <1>8, <2>1, Backward
<1>. QED
  BY <1>5, <1>6, <1>7, <1>9

----------------------------------------------------------------------------
(* The head of the positionals that a flags hole takes.                     *)

HeadOf(ok, taken, left) == [ok |-> ok, taken |-> taken, left |-> left]
IsFlagWord(v) == IsKnown(v) /\ KnownText(v) \in Dashed
WordsFor(fs, v) == WordsOf(fs, KnownText(v))
TakenAt(fs, es, i) ==
    (IF Len(WordsFor(fs, es[i])) > 1 THEN AsValues(WordsFor(fs, es[i])) ELSE <<es[i]>>)
      \o (IF WithValue(fs, es, i) THEN <<es[i + 1]>> ELSE <<>>)
NextOf(fs, es, i) == IF WithValue(fs, es, i) THEN i + 2 ELSE i + 1
Extended(rest, here) == [rest EXCEPT !.taken = here \o @]
HeadAt(fs, es, f, i) ==
    CASE i > Len(es) -> HeadOf(TRUE, <<>>, <<>>)
      [] i <= Len(es) /\ IsFlagWord(es[i]) /\ WordsFor(fs, es[i]) # <<>> ->
           Extended(f[NextOf(fs, es, i)], TakenAt(fs, es, i))
      [] i <= Len(es) /\ ~IsFlagWord(es[i]) /\ ~MayStartWithDash(es[i]) ->
           HeadOf(TRUE, <<>>, SubSeq(es, i, Len(es)))
      [] OTHER -> HeadOf(FALSE, <<>>, <<>>)
IsHead(f, fs, es) ==
    /\ \A i \in 1 .. Len(es) + 2 : f[i] = HeadAt(fs, es, f, i)
    /\ FlagHead(fs, es) = f[1]

LEMMA HeadEnds ==
    ASSUME NEW fs, NEW es, NEW f, NEW i, i > Len(es), ~(i <= Len(es))
    PROVE  HeadAt(fs, es, f, i) = HeadOf(TRUE, <<>>, <<>>)
BY DEF HeadAt

LEMMA HeadGoesOn ==
    ASSUME NEW fs, NEW es, NEW f, NEW i, ~(i > Len(es)), i <= Len(es),
           IsFlagWord(es[i]), WordsFor(fs, es[i]) # <<>>
    PROVE  HeadAt(fs, es, f, i) = Extended(f[NextOf(fs, es, i)], TakenAt(fs, es, i))
BY DEF HeadAt

LEMMA HeadStops ==
    ASSUME NEW fs, NEW es, NEW f, NEW i, ~(i > Len(es)), i <= Len(es),
           ~IsFlagWord(es[i]), ~MayStartWithDash(es[i])
    PROVE  HeadAt(fs, es, f, i) = HeadOf(TRUE, <<>>, SubSeq(es, i, Len(es)))
BY DEF HeadAt

LEMMA HeadFails ==
    ASSUME NEW fs, NEW es, NEW f, NEW i, ~(i > Len(es)),
           ~(IsFlagWord(es[i]) /\ WordsFor(fs, es[i]) # <<>>),
           ~(~IsFlagWord(es[i]) /\ ~MayStartWithDash(es[i]))
    PROVE  HeadAt(fs, es, f, i) = HeadOf(FALSE, <<>>, <<>>)
BY DEF HeadAt

LEMMA HeadExists ==
    ASSUME NEW fs, NEW es, IsSeq(es)
    PROVE  \E f : IsHead(f, fs, es)
<1>. DEFINE n == Len(es)
            At(f, i) == HeadAt(fs, es, f, i)
            from == CHOOSE f : f = [i \in 1 .. n + 2 |-> At(f, i)]
            S == {k \in 1 .. n + 2 : \E f : \A i \in k .. n + 2 : f[i] = At(f, i)}
<1>1. FlagHead(fs, es) = from[1]
  BY Zenon DEF FlagHead, HeadAt, HeadOf, IsFlagWord, WordsFor, TakenAt, NextOf, Extended
<1>2. n \in Nat
  BY SeqFacts
<1>3. ASSUME NEW i \in 1 .. n + 2, NEW f, NEW g, i <= n => f[i + 1] = g[i + 1] /\ f[i + 2] = g[i + 2]
      PROVE  At(f, i) = At(g, i)
  <2>1. CASE i > n
    <3>1. i > Len(es) /\ ~(i <= Len(es))
      BY <1>2, <2>1
    <3>. QED
      BY <3>1, HeadEnds
  <2>2. CASE ~(i > n)
    <3>1. f[i + 1] = g[i + 1] /\ f[i + 2] = g[i + 2]
      BY <1>2, <1>3, <2>2
    <3>2. f[NextOf(fs, es, i)] = g[NextOf(fs, es, i)]
      BY <3>1 DEF NextOf
    <3>. QED
      BY <2>2, <3>2, Zenon DEF HeadAt
  <2>. QED
    BY <2>1, <2>2
<1>. HIDE DEF At, n
<1>4. ASSUME NEW k \in 1 .. n + 2, \A j \in k + 1 .. n + 2 : j \in S PROVE k \in S
  <2>1. PICK f : \A i \in k + 1 .. n + 2 : f[i] = At(f, i)
    <3>1. CASE k < n + 2
      <4>1. k + 1 \in k + 1 .. n + 2
        BY <1>2, <3>1
      <4>. QED
        BY <1>4, <4>1
    <3>2. CASE ~(k < n + 2)
      BY <1>2, <3>2
    <3>. QED
      BY <3>1, <3>2
  <2>. DEFINE g == [i \in k .. n + 2 |-> IF i = k THEN At(f, i) ELSE f[i]]
  <2>2. \A i \in k + 1 .. n + 2 : g[i] = f[i]
    BY <1>2
  <2>3. ASSUME NEW i \in k .. n + 2 PROVE At(f, i) = At(g, i)
    <3>1. i <= n => i + 1 \in k + 1 .. n + 2 /\ i + 2 \in k + 1 .. n + 2
      BY <1>2
    <3>2. (i <= n => f[i + 1] = g[i + 1] /\ f[i + 2] = g[i + 2]) /\ i \in 1 .. n + 2
      BY <1>2, <2>2, <3>1
    <3>. HIDE DEF g
    <3>. QED
      BY <1>3, <3>2
  <2>4. ASSUME NEW i \in k .. n + 2 PROVE g[i] = At(f, i)
    BY <1>2, <2>1
  <2>5. \A i \in k .. n + 2 : g[i] = At(g, i)
    BY <2>3, <2>4
  <2>. HIDE DEF g
  <2>. QED
    BY <2>5
<1>5. 1 \in S
  <2>1. n + 2 \in Nat /\ 1 \in 1 .. n + 2
    BY <1>2
  <2>. HIDE DEF S
  <2>. QED
    BY <1>4, <2>1, Backward
<1>6. PICK f : \A i \in 1 .. n + 2 : f[i] = At(f, i)
  BY <1>5
<1>. DEFINE g == [i \in 1 .. n + 2 |-> f[i]]
<1>7. ASSUME NEW i \in 1 .. n + 2 PROVE g[i] = At(g, i)
  <2>1. (i <= n => f[i + 1] = g[i + 1] /\ f[i + 2] = g[i + 2]) /\ g[i] = f[i]
    BY <1>2
  <2>. HIDE DEF g
  <2>. QED
    BY <1>3, <1>6, <2>1
<1>8. g = [i \in 1 .. n + 2 |-> At(g, i)]
  BY <1>7
<1>9. from = [i \in 1 .. n + 2 |-> At(from, i)]
  <2>. HIDE DEF g
  <2>. QED
    BY <1>8
<1>10. \A i \in 1 .. n + 2 : from[i] = At(from, i)
  BY <1>9
<1>. HIDE DEF from
<1>. QED
  BY <1>1, <1>10 DEF IsHead, At, n


\* A word in flag position stands for a sequence of words.
LEMMA WordsMakeASequence ==
    ASSUME NEW fs, NEW t
    PROVE  IsSeq(WordsOf(fs, t))
<1>1. CASE Declared(fs, t)
  BY <1>1, ShortFacts DEF WordsOf
<1>2. CASE ~Declared(fs, t) /\ t \in DOMAIN Bundle
  <2>1. IsSeq(Bundle[t])
    BY <1>2, TextAssumption, IsASequence
  <2>. QED
    BY <1>2, <2>1, EmptyFacts DEF WordsOf
<1>3. CASE ~Declared(fs, t) /\ t \notin DOMAIN Bundle
  BY <1>3, EmptyFacts DEF WordsOf, Expandable
<1>. QED
  BY <1>1, <1>2, <1>3

HeadFields == {"ok", "taken", "left"}
\* The head that the analysis takes turns out to be the one the broker takes.
HeadsAgree(a, c) ==
    /\ DOMAIN a = HeadFields /\ DOMAIN c = HeadFields
    /\ a.ok => c.ok /\ Strung(a.taken, c.taken) /\ Strung(a.left, c.left)

LEMMA AgreeingHeads ==
    /\ \A t, s, l, m : Strung(t, s) /\ Strung(l, m) => HeadsAgree(HeadOf(TRUE, t, l), HeadOf(TRUE, s, m))
    /\ \A t, l, c : DOMAIN c = HeadFields => HeadsAgree(HeadOf(FALSE, t, l), c)
    /\ \A k, t, l : DOMAIN HeadOf(k, t, l) = HeadFields
BY DEF HeadOf, HeadsAgree, HeadFields

LEMMA HeadStep ==
    ASSUME NEW fs, NEW vs, NEW ss, Strung(vs, ss), NEW f, NEW g, NEW i \in 1 .. Len(vs) + 2,
           \A j \in i + 1 .. Len(vs) + 2 : HeadsAgree(f[j], g[j])
    PROVE  HeadsAgree(HeadAt(fs, vs, f, i), HeadAt(fs, ss, g, i))
<1>. DEFINE n == Len(vs)
            a == HeadAt(fs, vs, f, i)
            c == HeadAt(fs, ss, g, i)
            next == NextOf(fs, vs, i)
            goes == IsFlagWord(vs[i]) /\ WordsFor(fs, vs[i]) # <<>>
            stops == ~IsFlagWord(vs[i]) /\ ~MayStartWithDash(vs[i])
<1>1. /\ IsSeq(vs) /\ IsSeq(ss) /\ Len(ss) = n /\ n \in Nat
      /\ \A k \in 1 .. n : ss[k] \in Strings(vs[k])
  BY SeqFacts DEF Strung
<1>. HIDE DEF a, c, goes, stops
<1>2. CASE i > n
  <2>1. i > Len(vs) /\ ~(i <= Len(vs)) /\ i > Len(ss) /\ ~(i <= Len(ss))
    BY <1>1, <1>2
  <2>2. a = HeadOf(TRUE, <<>>, <<>>) /\ c = HeadOf(TRUE, <<>>, <<>>)
    BY <2>1, HeadEnds DEF a, c
  <2>. QED
    BY <2>2, StrungShort, AgreeingHeads DEF a, c
<1>3. ASSUME ~(i > n)
      PROVE  ~(i > Len(vs)) /\ i <= Len(vs) /\ ~(i > Len(ss)) /\ i <= Len(ss) /\ i \in 1 .. n
  BY <1>1, <1>3
<1>4. CASE ~(i > n) /\ goes
  <2>1. IsFlagWord(vs[i]) /\ WordsFor(fs, vs[i]) # <<>>
    BY <1>4 DEF goes
  <2>2. ss[i] \in Strings(vs[i]) /\ IsKnown(ss[i]) /\ KnownText(ss[i]) = KnownText(vs[i])
    BY <1>1, <1>3, <1>4, <2>1, StringFacts DEF IsFlagWord
  <2>3. WithValue(fs, ss, i) <=> WithValue(fs, vs, i)
    BY <1>1, <2>1, <2>2 DEF WithValue, IsFlagWord
  <2>4. WordsFor(fs, ss[i]) = WordsFor(fs, vs[i]) /\ NextOf(fs, ss, i) = next
    BY <2>2, <2>3 DEF WordsFor, NextOf
  <2>5. Strung(TakenAt(fs, vs, i), TakenAt(fs, ss, i))
    <3>. DEFINE words == WordsFor(fs, vs[i])
    <3>1. IsSeq(words)
      BY WordsMakeASequence DEF WordsFor
    <3>2. Strung(IF Len(words) > 1 THEN AsValues(words) ELSE <<vs[i]>>,
                 IF Len(words) > 1 THEN AsValues(words) ELSE <<ss[i]>>)
      <4>. HIDE DEF words
      <4>. QED
        BY <2>2, <3>1, StrungWords, StrungShort
    <3>3. WithValue(fs, vs, i) => ss[i + 1] \in Strings(vs[i + 1])
      BY <1>1 DEF WithValue
    <3>4. Strung(IF WithValue(fs, vs, i) THEN <<vs[i + 1]>> ELSE <<>>,
                 IF WithValue(fs, ss, i) THEN <<ss[i + 1]>> ELSE <<>>)
      BY <2>3, <3>3, StrungShort
    <3>5. Strung((IF Len(words) > 1 THEN AsValues(words) ELSE <<vs[i]>>)
                   \o (IF WithValue(fs, vs, i) THEN <<vs[i + 1]>> ELSE <<>>),
                 (IF Len(words) > 1 THEN AsValues(words) ELSE <<ss[i]>>)
                   \o (IF WithValue(fs, ss, i) THEN <<ss[i + 1]>> ELSE <<>>))
      BY <3>2, <3>4, StrungConcat
    <3>. QED
      BY <2>4, <3>5, Zenon DEF TakenAt
  <2>6. a = Extended(f[next], TakenAt(fs, vs, i))
    BY <1>3, <1>4, <2>1, HeadGoesOn DEF a
  <2>7. c = Extended(g[next], TakenAt(fs, ss, i))
    <3>1. IsFlagWord(ss[i]) /\ WordsFor(fs, ss[i]) # <<>>
      BY <2>1, <2>2, <2>4 DEF IsFlagWord
    <3>. QED
      BY <1>3, <1>4, <2>4, <3>1, HeadGoesOn DEF c
  <2>8. HeadsAgree(f[next], g[next])
    <3>1. next \in i + 1 .. n + 2
      BY <1>1, <1>3, <1>4 DEF NextOf
    <3>. QED
      BY <3>1
  <2>. HIDE DEF next
  <2>9. DOMAIN a = HeadFields /\ a.ok = f[next].ok /\ a.left = f[next].left
        /\ a.taken = TakenAt(fs, vs, i) \o f[next].taken
    BY <2>6, <2>8 DEF HeadsAgree, HeadFields, Extended
  <2>10. DOMAIN c = HeadFields /\ c.ok = g[next].ok /\ c.left = g[next].left
        /\ c.taken = TakenAt(fs, ss, i) \o g[next].taken
    BY <2>7, <2>8 DEF HeadsAgree, HeadFields, Extended
  <2>11. a.ok => c.ok /\ Strung(a.taken, c.taken) /\ Strung(a.left, c.left)
    BY <2>5, <2>8, <2>9, <2>10, StrungConcat DEF HeadsAgree
  <2>. QED
    BY <2>9, <2>10, <2>11 DEF HeadsAgree, a, c
<1>5. CASE ~(i > n) /\ stops
  <2>1. ~MayStartWithDash(ss[i]) /\ KnownText(ss[i]) \notin Dashed
    BY <1>1, <1>3, <1>5, NoDash DEF stops
  <2>2. ~IsFlagWord(vs[i]) /\ ~MayStartWithDash(vs[i]) /\ ~IsFlagWord(ss[i])
    BY <1>5, <2>1 DEF stops, IsFlagWord
  <2>3. a = HeadOf(TRUE, <<>>, SubSeq(vs, i, Len(vs))) /\ c = HeadOf(TRUE, <<>>, SubSeq(ss, i, Len(ss)))
    BY <1>3, <1>5, <2>1, <2>2, HeadStops DEF a, c
  <2>4. Strung(SubSeq(vs, i, Len(vs)), SubSeq(ss, i, Len(ss)))
    <3>1. i \in Nat \ {0} /\ i <= Len(vs) + 1
      BY <1>1, <1>3, <1>5
    <3>. QED
      BY <3>1, StrungRest
  <2>. QED
    BY <2>3, <2>4, StrungShort, AgreeingHeads DEF a, c
<1>6. CASE ~(i > n) /\ ~goes /\ ~stops
  <2>1. a = HeadOf(FALSE, <<>>, <<>>)
    BY <1>3, <1>6, HeadFails DEF a, goes, stops
  <2>2. DOMAIN c = HeadFields
    <3>1. CASE IsFlagWord(ss[i]) /\ WordsFor(fs, ss[i]) # <<>>
      <4>. DEFINE m == NextOf(fs, ss, i)
      <4>1. m \in i + 1 .. n + 2
        BY <1>1, <1>3, <1>6 DEF NextOf
      <4>2. c = Extended(g[m], TakenAt(fs, ss, i))
        BY <1>3, <1>6, <3>1, HeadGoesOn DEF c
      <4>3. HeadsAgree(f[m], g[m])
        BY <4>1
      <4>. HIDE DEF m
      <4>. QED
        BY <4>2, <4>3 DEF HeadsAgree, Extended
    <3>2. CASE ~IsFlagWord(ss[i]) /\ ~MayStartWithDash(ss[i])
      BY <1>3, <1>6, <3>2, HeadStops, AgreeingHeads DEF c
    <3>3. CASE ~(IsFlagWord(ss[i]) /\ WordsFor(fs, ss[i]) # <<>>)
               /\ ~(~IsFlagWord(ss[i]) /\ ~MayStartWithDash(ss[i]))
      BY <1>3, <1>6, <3>3, HeadFails, AgreeingHeads DEF c
    <3>. QED
      BY <3>1, <3>2, <3>3
  <2>. QED
    BY <2>1, <2>2, AgreeingHeads DEF a, c
<1>. QED
  BY <1>2, <1>4, <1>5, <1>6

LEMMA FlagHeadsAgree ==
    ASSUME NEW fs, NEW vs, NEW ss, Strung(vs, ss)
    PROVE  HeadsAgree(FlagHead(fs, vs), FlagHead(fs, ss))
<1>. DEFINE n == Len(vs)
<1>1. /\ IsSeq(vs) /\ IsSeq(ss) /\ Len(ss) = n /\ n \in Nat
  BY SeqFacts DEF Strung
<1>2. PICK f : IsHead(f, fs, vs)
  BY <1>1, HeadExists
<1>3. PICK g : IsHead(g, fs, ss)
  BY <1>1, HeadExists
<1>4. (\A i \in 1 .. n + 2 : f[i] = HeadAt(fs, vs, f, i)) /\ FlagHead(fs, vs) = f[1]
  BY <1>2, Zenon DEF IsHead
<1>5. (\A i \in 1 .. n + 2 : g[i] = HeadAt(fs, ss, g, i)) /\ FlagHead(fs, ss) = g[1]
  <2>. HIDE DEF n
  <2>. QED
    BY <1>1, <1>3 DEF IsHead
<1>. DEFINE S == {i \in 1 .. n + 2 : HeadsAgree(f[i], g[i])}
<1>6. ASSUME NEW i \in 1 .. n + 2, \A j \in i + 1 .. n + 2 : j \in S PROVE i \in S
  <2>1. \A j \in i + 1 .. n + 2 : HeadsAgree(f[j], g[j])
    BY <1>6
  <2>. HIDE DEF S
  <2>2. HeadsAgree(HeadAt(fs, vs, f, i), HeadAt(fs, ss, g, i))
    BY <2>1, HeadStep
  <2>. QED
    BY <1>4, <1>5, <2>2 DEF S
<1>7. 1 \in S
  <2>1. n + 2 \in Nat /\ 1 \in 1 .. n + 2
    BY <1>1
  <2>. HIDE DEF S, n
  <2>. QED
    BY <1>6, <2>1, Backward
<1>. QED
  BY <1>4, <1>5, <1>7

----------------------------------------------------------------------------
(* Bundles.                                                                 *)

ExpandOf(ok, es) == [ok |-> ok, es |-> es]
IsBundle(fs, v) == IsKnown(v) /\ ~Declared(fs, KnownText(v)) /\ Expandable(fs, KnownText(v))
HereAt(fs, es, i) ==
    IF WithValue(fs, es, i) THEN <<es[i], es[i + 1]>>
    ELSE IF IsBundle(fs, es[i]) THEN AsValues(WordsFor(fs, es[i]))
    ELSE <<es[i]>>
ExpandAt(fs, es, f, i) ==
    IF i > Len(es) THEN ExpandOf(TRUE, <<>>)
    ELSE IF IsBundle(fs, es[i]) /\ WordsFor(fs, es[i]) = <<>> THEN ExpandOf(FALSE, <<>>)
    ELSE ExpandOf(f[NextOf(fs, es, i)].ok, HereAt(fs, es, i) \o f[NextOf(fs, es, i)].es)
IsExpansion(f, fs, es) ==
    /\ \A i \in 1 .. Len(es) + 2 : f[i] = ExpandAt(fs, es, f, i)
    /\ ExpandBundles(fs, es) = IF fs.any \/ ~fs.expands THEN ExpandOf(TRUE, es) ELSE f[1]

LEMMA ExpansionExists ==
    ASSUME NEW fs, NEW es, IsSeq(es)
    PROVE  \E f : IsExpansion(f, fs, es)
<1>. DEFINE n == Len(es)
            At(f, i) == ExpandAt(fs, es, f, i)
            from == CHOOSE f : f = [i \in 1 .. n + 2 |-> At(f, i)]
            S == {k \in 1 .. n + 2 : \E f : \A i \in k .. n + 2 : f[i] = At(f, i)}
<1>1. ExpandBundles(fs, es) = IF fs.any \/ ~fs.expands THEN ExpandOf(TRUE, es) ELSE from[1]
  BY Zenon DEF ExpandBundles, ExpandAt, ExpandOf, IsBundle, HereAt, NextOf, WordsFor
<1>2. n \in Nat
  BY SeqFacts
<1>3. ASSUME NEW i \in 1 .. n + 2, NEW f, NEW g, i <= n => f[i + 1] = g[i + 1] /\ f[i + 2] = g[i + 2]
      PROVE  At(f, i) = At(g, i)
  <2>1. CASE i > n
    BY <2>1, Zenon DEF ExpandAt
  <2>2. CASE ~(i > n)
    <3>1. f[i + 1] = g[i + 1] /\ f[i + 2] = g[i + 2]
      BY <1>2, <1>3, <2>2
    <3>2. f[NextOf(fs, es, i)] = g[NextOf(fs, es, i)]
      BY <3>1 DEF NextOf
    <3>. QED
      BY <2>2, <3>2, Zenon DEF ExpandAt
  <2>. QED
    BY <2>1, <2>2
<1>. HIDE DEF At, n
<1>4. ASSUME NEW k \in 1 .. n + 2, \A j \in k + 1 .. n + 2 : j \in S PROVE k \in S
  <2>1. PICK f : \A i \in k + 1 .. n + 2 : f[i] = At(f, i)
    <3>1. CASE k < n + 2
      <4>1. k + 1 \in k + 1 .. n + 2
        BY <1>2, <3>1
      <4>. QED
        BY <1>4, <4>1
    <3>2. CASE ~(k < n + 2)
      BY <1>2, <3>2
    <3>. QED
      BY <3>1, <3>2
  <2>. DEFINE g == [i \in k .. n + 2 |-> IF i = k THEN At(f, i) ELSE f[i]]
  <2>2. \A i \in k + 1 .. n + 2 : g[i] = f[i]
    BY <1>2
  <2>3. ASSUME NEW i \in k .. n + 2 PROVE At(f, i) = At(g, i)
    <3>1. i <= n => i + 1 \in k + 1 .. n + 2 /\ i + 2 \in k + 1 .. n + 2
      BY <1>2
    <3>2. (i <= n => f[i + 1] = g[i + 1] /\ f[i + 2] = g[i + 2]) /\ i \in 1 .. n + 2
      BY <1>2, <2>2, <3>1
    <3>. HIDE DEF g
    <3>. QED
      BY <1>3, <3>2
  <2>4. ASSUME NEW i \in k .. n + 2 PROVE g[i] = At(f, i)
    BY <1>2, <2>1
  <2>5. \A i \in k .. n + 2 : g[i] = At(g, i)
    BY <2>3, <2>4
  <2>. HIDE DEF g
  <2>. QED
    BY <2>5
<1>5. 1 \in S
  <2>1. n + 2 \in Nat /\ 1 \in 1 .. n + 2
    BY <1>2
  <2>. HIDE DEF S
  <2>. QED
    BY <1>4, <2>1, Backward
<1>6. PICK f : \A i \in 1 .. n + 2 : f[i] = At(f, i)
  BY <1>5
<1>. DEFINE g == [i \in 1 .. n + 2 |-> f[i]]
<1>7. ASSUME NEW i \in 1 .. n + 2 PROVE g[i] = At(g, i)
  <2>1. (i <= n => f[i + 1] = g[i + 1] /\ f[i + 2] = g[i + 2]) /\ g[i] = f[i]
    BY <1>2
  <2>. HIDE DEF g
  <2>. QED
    BY <1>3, <1>6, <2>1
<1>8. g = [i \in 1 .. n + 2 |-> At(g, i)]
  BY <1>7
<1>9. from = [i \in 1 .. n + 2 |-> At(from, i)]
  <2>. HIDE DEF g
  <2>. QED
    BY <1>8
<1>10. \A i \in 1 .. n + 2 : from[i] = At(from, i)
  BY <1>9
<1>. HIDE DEF from
<1>. QED
  BY <1>1, <1>10 DEF IsExpansion, At, n

\* E ends in s, after k others.
EndsIn(E, k, s) == Len(E) = k + Len(s) /\ \A j \in 1 .. Len(s) : E[k + j] = s[j]

LEMMA EndsInTheRest ==
    ASSUME NEW E, NEW k \in Nat, NEW h, NEW s, IsSeq(h), IsSeq(s), EndsIn(E, k, h \o s)
    PROVE  /\ \A j \in 1 .. Len(h) : E[k + j] = h[j]
           /\ EndsIn(E, k + Len(h), s)
<1>1. Len(h) \in Nat /\ Len(s) \in Nat
  BY SeqFacts
<1>2. /\ Len(h \o s) = Len(h) + Len(s)
      /\ \A i \in 1 .. Len(h) : (h \o s)[i] = h[i]
      /\ \A i \in 1 .. Len(s) : (h \o s)[Len(h) + i] = s[i]
  BY ConcatFacts
<1>3. Len(E) = k + (Len(h) + Len(s)) /\ \A j \in 1 .. Len(h) + Len(s) : E[k + j] = (h \o s)[j]
  BY <1>2 DEF EndsIn
<1>4. ASSUME NEW j \in 1 .. Len(h) PROVE E[k + j] = h[j]
  BY <1>1, <1>2, <1>3
<1>5. ASSUME NEW j \in 1 .. Len(s) PROVE E[(k + Len(h)) + j] = s[j]
  <2>1. Len(h) + j \in 1 .. Len(h) + Len(s) /\ (k + Len(h)) + j = k + (Len(h) + j)
    BY <1>1
  <2>. QED
    BY <1>2, <1>3, <2>1
<1>. QED
  BY <1>1, <1>3, <1>4, <1>5 DEF EndsIn

\* A list that the analysis reads: at each flag a known word.
ReadThrough(r, w, fs, E) ==
    \A m \in 1 .. Len(E) + 2 : r[m] = ReadAt(E, Len(E), fs, ValuesKnown(w, fs, E), r, m)

LEMMA ReadOn ==
    ASSUME NEW w, NEW fs, NEW E, IsSeq(E), NEW r, ReadThrough(r, w, fs, E), NEW m \in 1 .. Len(E), r[m]
    PROVE  /\ IsKnown(E[m])
           /\ \/ KnownText(E[m]) \in fs.bare /\ r[m + 1]
              \/ KnownText(E[m]) \in DOMAIN fs.valued /\ m < Len(E) /\ r[m + 2]
<1>1. Len(E) \in Nat
  BY SeqFacts
<1>2. ~(m > Len(E)) /\ m \in 1 .. Len(E) + 2
  BY <1>1
<1>3. r[m] = ReadAt(E, Len(E), fs, ValuesKnown(w, fs, E), r, m)
  BY <1>2, Zenon DEF ReadThrough
<1>. QED
  BY <1>2, <1>3, Zenon DEF ReadAt

\* Past a row of bare flags the reading goes on.
LEMMA ReadPast ==
    ASSUME NEW w, NEW fs, fs.bare \cap DOMAIN fs.valued = {}, NEW E, IsSeq(E), NEW r, ReadThrough(r, w, fs, E),
           NEW k \in Nat, NEW l \in Nat, k + l <= Len(E), r[k + 1],
           \A j \in 1 .. l : IsKnown(E[k + j]) => KnownText(E[k + j]) \in fs.bare
    PROVE  r[k + l + 1]
<1>1. Len(E) \in Nat
  BY SeqFacts
<1>. DEFINE S == {j \in 0 .. l : r[k + j + 1]}
<1>2. 0 \in S
  <2>1. k + 0 + 1 = k + 1
    OBVIOUS
  <2>. QED
    BY <2>1
<1>3. ASSUME NEW j \in 1 .. l, j - 1 \in S PROVE j \in S
  <2>1. k + (j - 1) + 1 = k + j /\ k + j \in 1 .. Len(E) /\ (k + j) + 1 = k + j + 1
    BY <1>1
  <2>2. r[k + j]
    BY <1>3, <2>1
  <2>3. KnownText(E[k + j]) \in fs.bare /\ r[(k + j) + 1]
    BY <2>1, <2>2, ReadOn
  <2>. QED
    BY <2>1, <2>3
<1>4. l \in S
  <2>. HIDE DEF S
  <2>. QED
    BY <1>2, <1>3, Forward
<1>. QED
  BY <1>4

LEMMA HereIsASequence ==
    ASSUME NEW fs, NEW es, NEW i
    PROVE  IsSeq(HereAt(fs, es, i))
<1>1. IsSeq(AsValues(WordsFor(fs, es[i])))
  BY WordsMakeASequence, StrungWords DEF WordsFor, Strung
<1>. QED
  BY <1>1, ShortFacts DEF HereAt

LEMMA ExpandedOk ==
    ASSUME NEW k, NEW s, NEW x, x = ExpandOf(k, s), x.ok
    PROVE  k
BY DEF ExpandOf

LEMMA ExpandCases ==
    ASSUME NEW fs, NEW es, NEW f, NEW i
    PROVE  /\ i > Len(es) => ExpandAt(fs, es, f, i) = ExpandOf(TRUE, <<>>)
           /\ ~(i > Len(es)) /\ (IsBundle(fs, es[i]) /\ WordsFor(fs, es[i]) = <<>>) =>
                ExpandAt(fs, es, f, i) = ExpandOf(FALSE, <<>>)
           /\ ~(i > Len(es)) /\ ~(IsBundle(fs, es[i]) /\ WordsFor(fs, es[i]) = <<>>) =>
                ExpandAt(fs, es, f, i) =
                  ExpandOf(f[NextOf(fs, es, i)].ok, HereAt(fs, es, i) \o f[NextOf(fs, es, i)].es)
BY Zenon DEF ExpandAt

LEMMA ExpansionsAreSequences ==
    ASSUME NEW fs, NEW es, IsSeq(es), NEW f,
           \A i \in 1 .. Len(es) + 2 : f[i] = ExpandAt(fs, es, f, i)
    PROVE  \A i \in 1 .. Len(es) + 2 : IsSeq(f[i].es)
<1>. DEFINE n == Len(es)
            S == {i \in 1 .. n + 2 : IsSeq(f[i].es)}
<1>1. n \in Nat
  BY SeqFacts
<1>2. ASSUME NEW i \in 1 .. n + 2, \A j \in i + 1 .. n + 2 : j \in S PROVE i \in S
  <2>1. f[i] = ExpandAt(fs, es, f, i)
    OBVIOUS
  <2>2. CASE i > n \/ (IsBundle(fs, es[i]) /\ WordsFor(fs, es[i]) = <<>>)
    <3>1. f[i].es = <<>>
      BY <2>1, <2>2, ExpandCases DEF ExpandOf
    <3>. QED
      BY <3>1, EmptyFacts
  <2>3. CASE ~(i > n) /\ ~(IsBundle(fs, es[i]) /\ WordsFor(fs, es[i]) = <<>>)
    <3>1. f[i].es = HereAt(fs, es, i) \o f[NextOf(fs, es, i)].es
      <4>1. f[i] = ExpandOf(f[NextOf(fs, es, i)].ok, HereAt(fs, es, i) \o f[NextOf(fs, es, i)].es)
        BY <2>1, <2>3, ExpandCases
      <4>. QED
        BY <4>1 DEF ExpandOf
    <3>2. NextOf(fs, es, i) \in i + 1 .. n + 2
      BY <1>1, <2>3 DEF NextOf
    <3>3. IsSeq(f[NextOf(fs, es, i)].es)
      BY <1>2, <3>2
    <3>4. IsSeq(HereAt(fs, es, i) \o f[NextOf(fs, es, i)].es)
      BY <3>3, HereIsASequence, ConcatFacts
    <3>. QED
      BY <3>1, <3>4, Zenon
  <2>. QED
    BY <2>2, <2>3
<1>3. \A i \in 1 .. n + 2 : i \in S
  <2>1. n + 2 \in Nat
    BY <1>1
  <2>. HIDE DEF S, n
  <2>. QED
    BY <1>2, <2>1, Backward
<1>. QED
  BY <1>3

\* One step of the expansion of what the analysis reads, and of its strings.
LEMMA ExpandStep ==
    ASSUME NEW w, NEW fs, fs.bare \cap DOMAIN fs.valued = {}, NEW vs, NEW ss, Strung(vs, ss),
           NEW E, IsSeq(E), NEW r, ReadThrough(r, w, fs, E),
           NEW i \in 1 .. Len(vs), NEW f, NEW g,
           ~(IsBundle(fs, vs[i]) /\ WordsFor(fs, vs[i]) = <<>>),
           NEW s, IsSeq(s), i = Len(vs) => s = <<>>,
           NEW k \in Nat, EndsIn(E, k, HereAt(fs, vs, i) \o s), r[k + 1]
    PROVE  /\ r[k + Len(HereAt(fs, vs, i)) + 1] /\ EndsIn(E, k + Len(HereAt(fs, vs, i)), s)
           /\ NextOf(fs, ss, i) = NextOf(fs, vs, i)
           /\ ~(IsBundle(fs, ss[i]) /\ WordsFor(fs, ss[i]) = <<>>)
           /\ Strung(HereAt(fs, vs, i), HereAt(fs, ss, i))
<1>. DEFINE here == HereAt(fs, vs, i)
            v == vs[i]
            words == WordsFor(fs, v)
<1>1. /\ IsSeq(vs) /\ IsSeq(ss) /\ Len(ss) = Len(vs) /\ Len(vs) \in Nat
      /\ \A j \in 1 .. Len(vs) : ss[j] \in Strings(vs[j])
  BY SeqFacts DEF Strung
<1>2. /\ IsSeq(here) /\ Len(here) \in Nat /\ Len(s) \in Nat /\ Len(E) \in Nat
      /\ \A j \in 1 .. Len(here) : E[k + j] = here[j]
      /\ EndsIn(E, k + Len(here), s)
      /\ Len(E) = k + Len(here) + Len(s)
  <2>1. IsSeq(here)
    BY HereIsASequence
  <2>2. Len(here) \in Nat /\ Len(s) \in Nat /\ Len(E) \in Nat
    BY <2>1, SeqFacts
  <2>. HIDE DEF here
  <2>3. EndsIn(E, k, here \o s)
    BY DEF here
  <2>4. (\A j \in 1 .. Len(here) : E[k + j] = here[j]) /\ EndsIn(E, k + Len(here), s)
    BY <2>1, <2>3, EndsInTheRest
  <2>. QED
    BY <2>1, <2>2, <2>4 DEF EndsIn
<1>3. IsSeq(words)
  BY WordsMakeASequence DEF WordsFor
<1>4. \A j : j \in 1 .. Len(words) => AsValues(words)[j] = Str(words[j])
  BY <1>3, SeqFacts DEF AsValues
<1>5. Len(AsValues(words)) = Len(words) /\ Len(words) \in Nat
  <2>. HIDE DEF words
  <2>. QED
    BY <1>3, SeqFacts, StrungWords DEF Strung, AsValues
<1>6. IsKnown(v) /\ r[k + Len(here) + 1]
  <2>1. CASE WithValue(fs, vs, i)
    <3>1. here = <<v, vs[i + 1]>>
      BY <2>1 DEF HereAt
    <3>2. Len(here) = 2 /\ here[1] = v
      BY <3>1, ShortFacts
    <3>3. E[k + 1] = v /\ k + 1 \in 1 .. Len(E)
      BY <1>2, <3>2
    <3>4. IsKnown(v) /\ KnownText(v) \in DOMAIN fs.valued
      BY <2>1 DEF WithValue
    <3>5. r[(k + 1) + 2]
      BY <3>3, <3>4, ReadOn
    <3>6. k + Len(here) + 1 = (k + 1) + 2
      BY <3>2
    <3>. QED
      BY <3>4, <3>5, <3>6
  <2>2. CASE ~WithValue(fs, vs, i) /\ IsBundle(fs, v)
    <3>1. here = AsValues(words) /\ IsKnown(v) /\ words # <<>>
      BY <2>2 DEF HereAt, IsBundle
    <3>2. \A j \in 1 .. Len(words) : words[j] \in fs.bare
      <4>1. words = Bundle[KnownText(v)] /\ \A j \in DOMAIN words : words[j] \in fs.bare
        BY <2>2, <3>1 DEF WordsFor, WordsOf, IsBundle
      <4>. QED
        BY <1>3, <4>1, SeqFacts
    <3>3. ASSUME NEW j \in 1 .. Len(here) PROVE KnownText(E[k + j]) \in fs.bare
      <4>1. j \in 1 .. Len(words) /\ E[k + j] = AsValues(words)[j]
        BY <1>2, <1>5, <3>1
      <4>2. E[k + j] = Str(words[j])
        BY <1>4, <4>1
      <4>3. KnownText(E[k + j]) = words[j]
        BY <4>2, StringOfItself
      <4>. QED
        BY <3>2, <4>1, <4>3
    <3>. HIDE DEF here
    <3>4. k + Len(here) <= Len(E)
      BY <1>2
    <3>. QED
      BY <1>2, <3>1, <3>3, <3>4, ReadPast
  <2>3. CASE ~WithValue(fs, vs, i) /\ ~IsBundle(fs, v)
    <3>1. here = <<v>>
      BY <2>3 DEF HereAt
    <3>2. Len(here) = 1 /\ here[1] = v
      BY <3>1, ShortFacts
    <3>3. E[k + 1] = v /\ k + 1 \in 1 .. Len(E)
      BY <1>2, <3>2
    <3>4. /\ IsKnown(v)
          /\ \/ r[(k + 1) + 1]
             \/ KnownText(v) \in DOMAIN fs.valued /\ k + 1 < Len(E)
      BY <3>3, ReadOn
    <3>5. ~(KnownText(v) \in DOMAIN fs.valued /\ k + 1 < Len(E))
      <4>. SUFFICES ASSUME KnownText(v) \in DOMAIN fs.valued, k + 1 < Len(E) PROVE FALSE
        OBVIOUS
      <4>1. i = Len(vs)
        BY <1>1, <2>3, <3>4 DEF WithValue
      <4>2. Len(s) = 0
        BY <4>1, EmptyFacts
      <4>. QED
        BY <1>2, <3>2, <4>2
    <3>6. k + Len(here) + 1 = (k + 1) + 1
      BY <3>2
    <3>. QED
      BY <3>4, <3>5, <3>6
  <2>. QED
    BY <2>1, <2>2, <2>3
<1>7. ss[i] \in Strings(v) /\ IsKnown(ss[i]) /\ KnownText(ss[i]) = KnownText(v)
  BY <1>1, <1>6, StringFacts
<1>8. /\ WithValue(fs, ss, i) <=> WithValue(fs, vs, i)
      /\ IsBundle(fs, ss[i]) <=> IsBundle(fs, v)
      /\ WordsFor(fs, ss[i]) = words
  BY <1>1, <1>6, <1>7 DEF WithValue, IsBundle, WordsFor
<1>9. NextOf(fs, ss, i) = NextOf(fs, vs, i)
  BY <1>8 DEF NextOf
<1>10. Strung(here, HereAt(fs, ss, i))
  <2>1. WithValue(fs, vs, i) => ss[i + 1] \in Strings(vs[i + 1])
    BY <1>1 DEF WithValue
  <2>2. Strung(AsValues(words), AsValues(words))
    BY <1>3, StrungWords
  <2>3. CASE WithValue(fs, vs, i)
    <3>1. here = <<v, vs[i + 1]>> /\ HereAt(fs, ss, i) = <<ss[i], ss[i + 1]>>
      BY <1>8, <2>3, Zenon DEF HereAt
    <3>. HIDE DEF here
    <3>. QED
      BY <1>7, <2>1, <2>3, <3>1, StrungShort
  <2>4. CASE ~WithValue(fs, vs, i) /\ IsBundle(fs, v)
    <3>1. here = AsValues(words) /\ HereAt(fs, ss, i) = AsValues(words)
      BY <1>8, <2>4, Zenon DEF HereAt
    <3>. QED
      BY <2>2, <3>1, Zenon
  <2>5. CASE ~WithValue(fs, vs, i) /\ ~IsBundle(fs, v)
    <3>1. here = <<v>> /\ HereAt(fs, ss, i) = <<ss[i]>>
      BY <1>8, <2>5, Zenon DEF HereAt
    <3>. HIDE DEF here
    <3>. QED
      BY <1>7, <3>1, StrungShort
  <2>. QED
    BY <2>3, <2>4, <2>5
<1>. QED
  BY <1>2, <1>6, <1>8, <1>9, <1>10

\* What the analysis reads once the bundles are expanded, it expands as the
\* broker expands the strings.
LEMMA ExpansionsAgree ==
    ASSUME NEW w \in Written, NEW fs, fs.bare \cap DOMAIN fs.valued = {},
           NEW vs, NEW ss, Strung(vs, ss),
           ExpandBundles(fs, vs).ok, FlagsKnown(w, fs, ExpandBundles(fs, vs).es)
    PROVE  /\ ExpandBundles(fs, ss).ok
           /\ Strung(ExpandBundles(fs, vs).es, ExpandBundles(fs, ss).es)
<1>. DEFINE n == Len(vs)
            E == ExpandBundles(fs, vs).es
<1>1. /\ IsSeq(vs) /\ IsSeq(ss) /\ Len(ss) = n /\ n \in Nat
  BY SeqFacts DEF Strung
<1>2. PICK f : IsExpansion(f, fs, vs)
  BY <1>1, ExpansionExists
<1>3. PICK g : IsExpansion(g, fs, ss)
  BY <1>1, ExpansionExists
<1>4. CASE fs.any \/ ~fs.expands
  <2>1. ExpandBundles(fs, vs) = ExpandOf(TRUE, vs) /\ ExpandBundles(fs, ss) = ExpandOf(TRUE, ss)
    BY <1>2, <1>3, <1>4, Zenon DEF IsExpansion
  <2>. QED
    BY <2>1 DEF ExpandOf
<1>5. CASE ~(fs.any \/ ~fs.expands)
  <2>1. (\A i \in 1 .. n + 2 : f[i] = ExpandAt(fs, vs, f, i)) /\ ExpandBundles(fs, vs) = f[1]
    BY <1>2, <1>5, Zenon DEF IsExpansion
  <2>2. (\A i \in 1 .. Len(ss) + 2 : g[i] = ExpandAt(fs, ss, g, i)) /\ ExpandBundles(fs, ss) = g[1]
    BY <1>3, <1>5, Zenon DEF IsExpansion
  <2>3. \A i \in 1 .. n + 2 : g[i] = ExpandAt(fs, ss, g, i)
    <3>. HIDE DEF n
    <3>. QED
      BY <1>1, <2>2
  <2>4. \A i \in 1 .. n + 2 : IsSeq(f[i].es)
    BY <1>1, <2>1, ExpansionsAreSequences
  <2>5. IsSeq(E)
    BY <1>1, <2>1, <2>4
  <2>6. PICK r : KnownReading(r, w, fs, E)
    BY <2>5, FlagsKnownRead
  <2>7. ReadThrough(r, w, fs, E) /\ r[1]
    BY <1>5, <2>6, Zenon DEF KnownReading, ReadThrough
  <2>. HIDE DEF n
  <2>. DEFINE Agree(i) == \A k \in Nat : f[i].ok /\ EndsIn(E, k, f[i].es) /\ r[k + 1] =>
                            g[i].ok /\ Strung(f[i].es, g[i].es)
              S == {i \in 1 .. n + 2 : Agree(i)}
  <2>. HIDE DEF E
  <2>8. ASSUME NEW i \in 1 .. n + 2, \A j \in i + 1 .. n + 2 : j \in S PROVE i \in S
    <3>. SUFFICES ASSUME NEW k \in Nat, f[i].ok, EndsIn(E, k, f[i].es), r[k + 1]
                  PROVE  g[i].ok /\ Strung(f[i].es, g[i].es)
      OBVIOUS
    <3>1. f[i] = ExpandAt(fs, vs, f, i) /\ g[i] = ExpandAt(fs, ss, g, i)
      BY <2>1, <2>3
    <3>2. CASE i > n
      <4>1. i > Len(vs) /\ i > Len(ss)
        BY <1>1, <3>2 DEF n
      <4>2. f[i] = ExpandOf(TRUE, <<>>) /\ g[i] = ExpandOf(TRUE, <<>>)
        BY <3>1, <4>1, ExpandCases, Zenon
      <4>. QED
        BY <4>2, StrungShort DEF ExpandOf
    <3>3. CASE ~(i > n)
      <4>. DEFINE here == HereAt(fs, vs, i)
                  next == NextOf(fs, vs, i)
                  s == f[next].es
      <4>1. ~(i > Len(vs)) /\ ~(i > Len(ss)) /\ i \in 1 .. Len(vs)
        BY <1>1, <3>3 DEF n
      <4>2. ~(IsBundle(fs, vs[i]) /\ WordsFor(fs, vs[i]) = <<>>)
        <5>. SUFFICES ASSUME IsBundle(fs, vs[i]) /\ WordsFor(fs, vs[i]) = <<>> PROVE FALSE
          OBVIOUS
        <5>1. f[i] = ExpandOf(FALSE, <<>>)
          BY <3>1, <4>1, ExpandCases
        <5>. QED
          BY <5>1 DEF ExpandOf
      <4>3. f[i] = ExpandOf(f[next].ok, here \o s)
        BY <3>1, <4>1, <4>2, ExpandCases
      <4>4. next \in i + 1 .. n + 2
        BY <1>1, <3>3 DEF NextOf
      <4>5. IsSeq(s)
        BY <2>4, <4>4
      <4>6. i = Len(vs) => s = <<>>
        <5>. SUFFICES ASSUME i = Len(vs) PROVE s = <<>>
          OBVIOUS
        <5>1. next > Len(vs)
          BY <1>1, <4>4 DEF n
        <5>2. f[next] = ExpandAt(fs, vs, f, next)
          BY <2>1, <4>4
        <5>3. f[next] = ExpandOf(TRUE, <<>>)
          BY <5>1, <5>2, ExpandCases, Zenon
        <5>. QED
          BY <5>3 DEF ExpandOf
      <4>7. f[next].ok /\ f[i].es = here \o s
        <5>1. f[i].es = here \o s
          BY <4>3 DEF ExpandOf
        <5>2. f[next].ok
          BY <4>3, ExpandedOk
        <5>. QED
          BY <5>1, <5>2
      <4>8. EndsIn(E, k, here \o s)
        BY <4>7
      <4>9. Agree(next)
        BY <2>8, <4>4
      <4>. HIDE DEF s, Agree, S
      <4>10. /\ r[k + Len(here) + 1] /\ EndsIn(E, k + Len(here), s)
             /\ NextOf(fs, ss, i) = next
             /\ ~(IsBundle(fs, ss[i]) /\ WordsFor(fs, ss[i]) = <<>>)
             /\ Strung(here, HereAt(fs, ss, i))
        BY <2>5, <2>7, <4>1, <4>2, <4>5, <4>6, <4>8, ExpandStep
      <4>11. Len(here) \in Nat
        BY HereIsASequence, SeqFacts
      <4>. HIDE DEF here, next
      <4>12. g[next].ok /\ Strung(s, g[next].es)
        <5>1. k + Len(here) \in Nat
          BY <4>11
        <5>. QED
          BY <4>7, <4>9, <4>10, <5>1 DEF Agree, s
      <4>13. g[i] = ExpandOf(g[next].ok, HereAt(fs, ss, i) \o g[next].es)
        BY <3>1, <4>1, <4>10, ExpandCases
      <4>14. g[i].ok = g[next].ok /\ g[i].es = HereAt(fs, ss, i) \o g[next].es
        BY <4>13 DEF ExpandOf
      <4>15. Strung(here \o s, HereAt(fs, ss, i) \o g[next].es)
        BY <4>10, <4>12, StrungConcat
      <4>. QED
        BY <4>7, <4>12, <4>14, <4>15
    <3>. QED
      BY <3>2, <3>3
  <2>9. 1 \in S
    <3>1. n + 2 \in Nat /\ 1 \in 1 .. n + 2
      BY <1>1
    <3>. HIDE DEF S
    <3>. QED
      BY <2>8, <3>1, Backward
  <2>10. EndsIn(E, 0, f[1].es) /\ r[0 + 1]
    <3>1. f[1].es = E /\ Len(E) \in Nat
      BY <2>1, <2>5, SeqFacts DEF E
    <3>2. \A j \in 1 .. Len(E) : 0 + j = j
      BY <3>1
    <3>. QED
      BY <2>7, <3>1, <3>2 DEF EndsIn
  <2>. QED
    BY <2>1, <2>2, <2>9, <2>10
<1>. QED
  BY <1>4, <1>5

----------------------------------------------------------------------------
(* Positionals and keywords.                                                *)

\* What the binding of a hole turns out to be: a container, some elements.
Fields == {"kind", "es"}
Turns(b, c) ==
    /\ DOMAIN b = Fields /\ DOMAIN c = Fields
    /\ c.kind = IF b.kind = "elements" THEN "many" ELSE b.kind
    /\ IF b.kind = "elements"
       THEN 1 \in DOMAIN b.es /\ IsSeq(c.es) /\ \A i \in DOMAIN c.es : c.es[i] \in Strings(b.es[1])
       ELSE Strung(b.es, c.es)
\* What the bindings of some holes turn out to be.
TurnsAll(f, g) == DOMAIN g = DOMAIN f /\ \A n \in DOMAIN f : Turns(f[n], g[n])

LEMMA TurnsTo ==
    /\ \A v, s : s \in Strings(v) => Turns(One(v), One(s))
    /\ \A vs, ss : Strung(vs, ss) => Turns(Many(vs), Many(ss))
BY StrungShort DEF Turns, One, Many, Fields

LEMMA PutTurns ==
    ASSUME NEW f, NEW g, TurnsAll(f, g), NEW n, NEW x, NEW y, Turns(x, y)
    PROVE  TurnsAll(Put(f, n, x), Put(g, n, y))
<1>1. DOMAIN g = DOMAIN f /\ \A m \in DOMAIN f : Turns(f[m], g[m])
  BY DEF TurnsAll
<1>2. DOMAIN Put(f, n, x) = DOMAIN f \cup {n} /\ DOMAIN Put(g, n, y) = DOMAIN f \cup {n}
  BY <1>1 DEF Put
<1>3. ASSUME NEW m \in DOMAIN f \cup {n} PROVE Turns(Put(f, n, x)[m], Put(g, n, y)[m])
  <2>1. CASE m = n
    <3>1. Put(f, n, x)[m] = x /\ Put(g, n, y)[m] = y
      BY <1>1, <2>1 DEF Put
    <3>. QED
      BY <3>1
  <2>2. CASE m # n
    <3>1. Put(f, n, x)[m] = f[m] /\ Put(g, n, y)[m] = g[m]
      BY <1>1, <2>2 DEF Put
    <3>. QED
      BY <1>1, <2>2, <3>1
  <2>. QED
    BY <2>1, <2>2
<1>. QED
  BY <1>2, <1>3, Zenon DEF TurnsAll

\* Positionals give no container.
Placed(f) == \A n \in DOMAIN f : f[n].kind # "elements"

LEMMA PutPlaced ==
    ASSUME NEW f, Placed(f), NEW n
    PROVE  /\ \A v : Placed(Put(f, n, One(v)))
           /\ \A es : Placed(Put(f, n, Many(es)))
BY DEF Placed, Put, One, Many

PosFields == {"ok", "to", "ps"}
\* What the positionals bind on the way: the broker's turn out of the analysis'.
PositionsAgree(a, c) ==
    /\ DOMAIN a = PosFields /\ DOMAIN c = PosFields
    /\ a.ok => c.ok /\ TurnsAll(a.to, c.to) /\ Placed(a.to) /\ Strung(a.ps, c.ps)

\* What one hole takes of the positionals that are left.
Shifted(s, n) == [s EXCEPT !.to = Put(@, n, One(Head(s.ps))), !.ps = Tail(@)]
Rebound(s, n, es, left) == [s EXCEPT !.to = Put(@, n, Many(es)), !.ps = left]
Unbound(s) == [s EXCEPT !.ok = FALSE]
BindAt(t, s, p) ==
    LET n == p.name
        head == FlagHead(t.holes[n].fs, s.ps)
    IN IF n \in KeywordOnly(t) \/ s.ps = <<>> \/ ~s.ok THEN s
       ELSE IF ~p.variadic THEN Shifted(s, n)
       ELSE IF IsLastPiece(t, p) THEN Rebound(s, n, s.ps, <<>>)
       ELSE IF ~head.ok THEN Unbound(s)
       ELSE IF head.taken = <<>> THEN s
       ELSE Rebound(s, n, head.taken, head.left)
Begun(t, args) ==
    [ok |-> TRUE, to |-> NoBinding, ps |-> SubSeq(args, Len(LeadingWords(t)), Len(args))]

LEMMA ShiftedFields ==
    ASSUME NEW s, DOMAIN s = PosFields, NEW n
    PROVE  /\ DOMAIN Shifted(s, n) = PosFields /\ (Shifted(s, n).ok <=> s.ok)
           /\ Shifted(s, n).to = Put(s.to, n, One(Head(s.ps))) /\ Shifted(s, n).ps = Tail(s.ps)
BY DEF PosFields, Shifted

LEMMA ReboundFields ==
    ASSUME NEW s, DOMAIN s = PosFields, NEW n, NEW es, NEW left
    PROVE  /\ DOMAIN Rebound(s, n, es, left) = PosFields /\ (Rebound(s, n, es, left).ok <=> s.ok)
           /\ Rebound(s, n, es, left).to = Put(s.to, n, Many(es)) /\ Rebound(s, n, es, left).ps = left
BY DEF PosFields, Rebound

LEMMA UnboundFields ==
    ASSUME NEW s, DOMAIN s = PosFields
    PROVE  DOMAIN Unbound(s) = PosFields /\ ~Unbound(s).ok
BY DEF PosFields, Unbound

LEMMA BindFields ==
    ASSUME NEW t, NEW p, NEW s, DOMAIN s = PosFields
    PROVE  DOMAIN BindAt(t, s, p) = PosFields
<1>. DEFINE n == p.name
            head == FlagHead(t.holes[n].fs, s.ps)
<1>1. BindAt(t, s, p) \in {s, Shifted(s, n), Rebound(s, n, s.ps, <<>>), Unbound(s),
                           Rebound(s, n, head.taken, head.left)}
  BY DEF BindAt
<1>. HIDE DEF head, n
<1>. QED
  BY <1>1, ShiftedFields, ReboundFields, UnboundFields

LEMMA BindStep ==
    ASSUME NEW t, NEW p, NEW a, NEW c, PositionsAgree(a, c)
    PROVE  PositionsAgree(BindAt(t, a, p), BindAt(t, c, p))
<1>. DEFINE n == p.name
            fs == t.holes[n].fs
            ha == FlagHead(fs, a.ps)
            hc == FlagHead(fs, c.ps)
<1>1. DOMAIN a = PosFields /\ DOMAIN c = PosFields
  BY DEF PositionsAgree
<1>2. DOMAIN BindAt(t, c, p) = PosFields
  BY <1>1, BindFields
<1>3. CASE ~a.ok
  <2>1. BindAt(t, a, p) = a
    BY <1>3, Zenon DEF BindAt
  <2>. QED
    BY <1>1, <1>2, <1>3, <2>1 DEF PositionsAgree
<1>4. CASE a.ok
  <2>1. c.ok /\ TurnsAll(a.to, c.to) /\ Placed(a.to) /\ Strung(a.ps, c.ps)
    BY <1>4 DEF PositionsAgree
  <2>2. a.ps = <<>> <=> c.ps = <<>>
    BY <2>1, EmptyFacts DEF Strung
  <2>3. CASE n \in KeywordOnly(t) \/ a.ps = <<>>
    <3>1. BindAt(t, a, p) = a /\ BindAt(t, c, p) = c
      BY <2>2, <2>3, Zenon DEF BindAt
    <3>. QED
      BY <3>1
  <2>4. CASE ~(n \in KeywordOnly(t) \/ a.ps = <<>>)
    <3>0. ~(n \in KeywordOnly(t) \/ a.ps = <<>> \/ ~a.ok) /\ ~(n \in KeywordOnly(t) \/ c.ps = <<>> \/ ~c.ok)
      BY <1>4, <2>1, <2>2, <2>4
    <3>1. CASE ~p.variadic
      <4>1. BindAt(t, a, p) = Shifted(a, n) /\ BindAt(t, c, p) = Shifted(c, n)
        BY <3>0, <3>1, Zenon DEF BindAt
      <4>2. Turns(One(Head(a.ps)), One(Head(c.ps))) /\ Strung(Tail(a.ps), Tail(c.ps))
        BY <2>1, <2>4, StrungTail, TurnsTo
      <4>3. TurnsAll(Put(a.to, n, One(Head(a.ps))), Put(c.to, n, One(Head(c.ps))))
            /\ Placed(Put(a.to, n, One(Head(a.ps))))
        BY <2>1, <4>2, PutTurns, PutPlaced
      <4>. QED
        BY <1>1, <2>1, <4>1, <4>2, <4>3, ShiftedFields DEF PositionsAgree
    <3>2. CASE p.variadic /\ IsLastPiece(t, p)
      <4>1. /\ BindAt(t, a, p) = Rebound(a, n, a.ps, <<>>)
            /\ BindAt(t, c, p) = Rebound(c, n, c.ps, <<>>)
        BY <3>0, <3>2, Zenon DEF BindAt
      <4>2. Turns(Many(a.ps), Many(c.ps)) /\ Strung(<<>>, <<>>)
        BY <2>1, TurnsTo, StrungShort
      <4>3. TurnsAll(Put(a.to, n, Many(a.ps)), Put(c.to, n, Many(c.ps)))
            /\ Placed(Put(a.to, n, Many(a.ps)))
        BY <2>1, <4>2, PutTurns, PutPlaced
      <4>. QED
        BY <1>1, <2>1, <4>1, <4>2, <4>3, ReboundFields DEF PositionsAgree
    <3>3. CASE p.variadic /\ ~IsLastPiece(t, p)
      <4>1. HeadsAgree(ha, hc)
        BY <2>1, FlagHeadsAgree
      <4>2. CASE ~ha.ok
        <5>1. BindAt(t, a, p) = Unbound(a)
          BY <3>0, <3>3, <4>2, Zenon DEF BindAt
        <5>2. DOMAIN BindAt(t, a, p) = PosFields /\ ~BindAt(t, a, p).ok
          BY <1>1, <5>1, UnboundFields
        <5>. QED
          BY <1>2, <5>2 DEF PositionsAgree
      <4>3. CASE ha.ok
        <5>1. hc.ok /\ Strung(ha.taken, hc.taken) /\ Strung(ha.left, hc.left)
          BY <4>1, <4>3 DEF HeadsAgree
        <5>2. ha.taken = <<>> <=> hc.taken = <<>>
          BY <5>1, EmptyFacts DEF Strung
        <5>3. CASE ha.taken = <<>>
          <6>1. BindAt(t, a, p) = a /\ BindAt(t, c, p) = c
            BY <3>0, <3>3, <4>3, <5>1, <5>2, <5>3, Zenon DEF BindAt
          <6>. QED
            BY <6>1
        <5>4. CASE ha.taken # <<>>
          <6>1. /\ BindAt(t, a, p) = Rebound(a, n, ha.taken, ha.left)
                /\ BindAt(t, c, p) = Rebound(c, n, hc.taken, hc.left)
            BY <3>0, <3>3, <4>3, <5>1, <5>2, <5>4, Zenon DEF BindAt
          <6>2. Turns(Many(ha.taken), Many(hc.taken))
            BY <5>1, TurnsTo
          <6>3. TurnsAll(Put(a.to, n, Many(ha.taken)), Put(c.to, n, Many(hc.taken)))
                /\ Placed(Put(a.to, n, Many(ha.taken)))
            BY <2>1, <6>2, PutTurns, PutPlaced
          <6>. HIDE DEF ha, hc, n
          <6>. QED
            BY <1>1, <2>1, <5>1, <6>1, <6>3, ReboundFields DEF PositionsAgree
        <5>. QED
          BY <5>3, <5>4
      <4>. QED
        BY <4>2, <4>3
    <3>. QED
      BY <3>1, <3>2, <3>3
  <2>. QED
    BY <2>3, <2>4
<1>. QED
  BY <1>3, <1>4

IsBound(f, t, args) ==
    /\ f[0] = Begun(t, args)
    /\ \A i \in 1 .. Len(Refs(t)) : f[i] = BindAt(t, f[i - 1], Refs(t)[i])
    /\ Positionally(t, args) = f[Len(Refs(t))]

LEMMA BindingExists ==
    ASSUME NEW t, Len(Refs(t)) \in Nat, NEW args
    PROVE  \E f : IsBound(f, t, args)
<1>. DEFINE n == Len(Refs(t))
            At(f, i) == IF i = 0 THEN Begun(t, args) ELSE BindAt(t, f[i - 1], Refs(t)[i])
            step == CHOOSE f : f = [i \in 0 .. n |-> At(f, i)]
            S == {k \in 0 .. n : \E f : \A i \in 0 .. k : f[i] = At(f, i)}
<1>1. Positionally(t, args) = step[n]
  BY Zenon DEF Positionally, BindAt, Begun, Shifted, Rebound, Unbound
<1>2. n \in Nat
  OBVIOUS
<1>3. ASSUME NEW i \in 0 .. n, NEW f, NEW g, i > 0 => f[i - 1] = g[i - 1]
      PROVE  At(f, i) = At(g, i)
  <2>1. CASE i = 0
    BY <2>1
  <2>2. CASE i # 0
    <3>1. f[i - 1] = g[i - 1]
      BY <1>2, <1>3, <2>2
    <3>. QED
      BY <2>2, <3>1, Zenon
  <2>. QED
    BY <2>1, <2>2
<1>. HIDE DEF At, n
<1>4. 0 \in S
  <2>. DEFINE f == [i \in 0 .. 0 |-> At(<<>>, i)]
  <2>1. \A i \in 0 .. 0 : i = 0 /\ f[i] = At(<<>>, i) /\ i \in 0 .. n
    BY <1>2
  <2>2. \A i \in 0 .. 0 : At(<<>>, i) = At(f, i)
    BY <1>3, <2>1
  <2>3. \A i \in 0 .. 0 : f[i] = At(f, i)
    BY <2>1, <2>2
  <2>4. 0 \in 0 .. n
    BY <1>2
  <2>. HIDE DEF f
  <2>. QED
    BY <2>3, <2>4
<1>5. ASSUME NEW k \in 1 .. n, k - 1 \in S PROVE k \in S
  <2>1. PICK f : \A i \in 0 .. k - 1 : f[i] = At(f, i)
    BY <1>5
  <2>. DEFINE g == [i \in 0 .. k |-> IF i = k THEN At(f, i) ELSE f[i]]
  <2>2. \A i \in 0 .. k - 1 : g[i] = f[i]
    BY <1>2
  <2>3. ASSUME NEW i \in 0 .. k PROVE At(f, i) = At(g, i)
    <3>1. i > 0 => i - 1 \in 0 .. k - 1
      BY <1>2
    <3>2. (i > 0 => f[i - 1] = g[i - 1]) /\ i \in 0 .. n
      BY <1>2, <2>2, <3>1
    <3>. HIDE DEF g
    <3>. QED
      BY <1>3, <3>2
  <2>4. ASSUME NEW i \in 0 .. k PROVE g[i] = At(f, i)
    BY <1>2, <2>1
  <2>5. \A i \in 0 .. k : g[i] = At(g, i)
    BY <2>3, <2>4
  <2>6. k \in 0 .. n
    BY <1>2
  <2>. HIDE DEF g
  <2>. QED
    BY <2>5, <2>6
<1>6. n \in S
  <2>. HIDE DEF S
  <2>. QED
    BY <1>2, <1>4, <1>5, Forward
<1>7. PICK f : \A i \in 0 .. n : f[i] = At(f, i)
  BY <1>6
<1>. DEFINE g == [i \in 0 .. n |-> f[i]]
<1>8. ASSUME NEW i \in 0 .. n PROVE g[i] = At(g, i)
  <2>1. (i > 0 => f[i - 1] = g[i - 1]) /\ g[i] = f[i]
    BY <1>2
  <2>. HIDE DEF g
  <2>. QED
    BY <1>3, <1>7, <2>1
<1>9. g = [i \in 0 .. n |-> At(g, i)]
  BY <1>8
<1>10. step = [i \in 0 .. n |-> At(step, i)]
  <2>. HIDE DEF g
  <2>. QED
    BY <1>9
<1>11. \A i \in 0 .. n : step[i] = At(step, i)
  BY <1>10
<1>. HIDE DEF step
<1>12. step[0] = Begun(t, args)
  <2>1. 0 \in 0 .. n
    BY <1>2
  <2>. QED
    BY <1>11, <2>1 DEF At
<1>13. \A i \in 1 .. n : step[i] = BindAt(t, step[i - 1], Refs(t)[i])
  <2>1. \A i \in 1 .. n : i \in 0 .. n /\ i # 0
    BY <1>2
  <2>. QED
    BY <1>11, <2>1 DEF At
<1>. QED
  BY <1>1, <1>12, <1>13 DEF IsBound, n

\* What the analysis binds to the positionals turns out to be what the broker
\* binds to theirs.
LEMMA PositionalsAgree ==
    ASSUME NEW t, Len(Refs(t)) \in Nat, Len(LeadingWords(t)) \in Nat \ {0},
           NEW vs, NEW ss, Strung(vs, ss), Len(LeadingWords(t)) <= Len(vs) + 1
    PROVE  PositionsAgree(Positionally(t, vs), Positionally(t, ss))
<1>. DEFINE n == Len(Refs(t))
<1>1. PICK f : IsBound(f, t, vs)
  BY BindingExists
<1>2. PICK g : IsBound(g, t, ss)
  BY BindingExists
<1>. DEFINE S == {i \in 0 .. n : PositionsAgree(f[i], g[i])}
<1>3. 0 \in S
  <2>1. Strung(SubSeq(vs, Len(LeadingWords(t)), Len(vs)), SubSeq(ss, Len(LeadingWords(t)), Len(ss)))
    BY StrungRest
  <2>2. TurnsAll(NoBinding, NoBinding) /\ Placed(NoBinding)
    BY DEF TurnsAll, Placed, NoBinding
  <2>3. PositionsAgree(Begun(t, vs), Begun(t, ss))
    BY <2>1, <2>2 DEF PositionsAgree, Begun, PosFields
  <2>4. f[0] = Begun(t, vs) /\ g[0] = Begun(t, ss)
    BY <1>1, <1>2 DEF IsBound
  <2>. QED
    BY <2>3, <2>4
<1>4. ASSUME NEW k \in 1 .. n, k - 1 \in S PROVE k \in S
  <2>1. f[k] = BindAt(t, f[k - 1], Refs(t)[k]) /\ g[k] = BindAt(t, g[k - 1], Refs(t)[k])
    BY <1>1, <1>2 DEF IsBound
  <2>2. k \in 0 .. n
    OBVIOUS
  <2>. QED
    BY <1>4, <2>1, <2>2, BindStep
<1>5. n \in S
  <2>. HIDE DEF S
  <2>. QED
    BY <1>3, <1>4, Forward
<1>. QED
  BY <1>1, <1>2, <1>5 DEF IsBound

LEMMA StringsStrung ==
    ASSUME NEW vs, IsSeq(vs), NEW ss, DOMAIN ss = DOMAIN vs, ss = [i \in DOMAIN ss |-> ss[i]],
           \A i \in DOMAIN ss : ss[i] \in Strings(vs[i])
    PROVE  Strung(vs, ss)
<1>1. Len(vs) \in Nat /\ DOMAIN vs = 1 .. Len(vs)
  BY SeqFacts
<1>. DEFINE A == {ss[i] : i \in DOMAIN ss}
            l == Len(vs)
<1>2. ss \in [1 .. l -> A]
  BY <1>1
<1>3. ss \in Seq(A) /\ Len(ss) = l
  <2>. HIDE DEF A, l
  <2>1. l \in Nat
    BY <1>1 DEF l
  <2>. QED
    BY <1>2, <2>1
<1>. QED
  BY <1>1, <1>3 DEF Strung, IsSeq

LEMMA ArgumentsStrung ==
    ASSUME NEW vs, IsSeq(vs), NEW ss \in ArgStrings(vs)
    PROVE  Strung(vs, ss)
<1>1. DOMAIN ss = DOMAIN vs /\ ss = [i \in DOMAIN ss |-> ss[i]] /\ \A i \in DOMAIN ss : ss[i] \in Strings(vs[i])
  <2>. DEFINE A == UNION {Strings(vs[i]) : i \in DOMAIN vs}
  <2>1. ss \in [DOMAIN vs -> A] /\ \A i \in DOMAIN ss : ss[i] \in Strings(vs[i])
    BY DEF ArgStrings
  <2>. HIDE DEF A
  <2>. QED
    BY <2>1
<1>. QED
  BY <1>1, StringsStrung

LEMMA DisplayTurns ==
    ASSUME NEW b, IsBinding(b), NEW c \in Displays(b)
    PROVE  Turns(b, c)
<1>1. CASE b = One(b.es[1])
  <2>1. b.kind = "one"
    BY <1>1 DEF One
  <2>2. Displays(b) = {One(v) : v \in Strings(b.es[1])}
    BY <2>1 DEF Displays
  <2>3. PICK v \in Strings(b.es[1]) : c = One(v)
    BY <2>2
  <2>. QED
    BY <1>1, <2>3, TurnsTo
<1>2. CASE b = Many(b.es) /\ IsSeq(b.es)
  <2>. DEFINE vs == b.es
  <2>1. b.kind = "many"
    BY <1>2 DEF Many
  <2>2. Displays(b) = {Many(es) : es \in ArgStrings(vs)}
    BY <2>1 DEF Displays, ArgStrings
  <2>3. PICK es \in ArgStrings(vs) : c = Many(es)
    BY <2>2
  <2>4. Strung(vs, es)
    BY <1>2, ArgumentsStrung
  <2>. QED
    BY <1>2, <2>3, <2>4, TurnsTo
<1>3. CASE b = Elements(b.es[1])
  <2>. DEFINE A == Strings(b.es[1])
  <2>1. b.kind = "elements" /\ DOMAIN b = Fields /\ 1 \in DOMAIN b.es
    BY <1>3 DEF Elements, Fields
  <2>2. Displays(b) = {Many(es) : es \in UNION {[1 .. n -> A] : n \in 0 .. 2}}
    BY <2>1 DEF Displays
  <2>3. PICK n \in 0 .. 2 : \E es \in [1 .. n -> A] : c = Many(es)
    <3>. HIDE DEF A
    <3>. QED
      BY <2>2
  <2>. HIDE DEF A
  <2>4. PICK es \in [1 .. n -> A] : c = Many(es)
    BY <2>3
  <2>5. IsSeq(es) /\ \A i \in DOMAIN es : es[i] \in A
    <3>1. es \in Seq(A)
      OBVIOUS
    <3>. QED
      BY <3>1, IsASequence
  <2>6. c.kind = "many" /\ c.es = es /\ DOMAIN c = Fields
    BY <2>4 DEF Many, Fields
  <2>. QED
    BY <2>1, <2>5, <2>6 DEF Turns, A
<1>. QED
  BY <1>1, <1>2, <1>3 DEF IsBinding

LEMMA KeywordsTurn ==
    ASSUME NEW kws, \A n \in DOMAIN kws : IsBinding(kws[n]), NEW kc \in KwStrings(kws)
    PROVE  TurnsAll(kws, kc)
<1>. DEFINE A == UNION {Displays(kws[n]) : n \in DOMAIN kws}
<1>1. kc \in [DOMAIN kws -> A] /\ \A n \in DOMAIN kc : kc[n] \in Displays(kws[n])
  BY DEF KwStrings
<1>. HIDE DEF A
<1>2. DOMAIN kc = DOMAIN kws /\ \A n \in DOMAIN kws : kc[n] \in Displays(kws[n])
  BY <1>1
<1>3. ASSUME NEW n \in DOMAIN kws PROVE Turns(kws[n], kc[n])
  BY <1>2, DisplayTurns
<1>. QED
  BY <1>2, <1>3 DEF TurnsAll

----------------------------------------------------------------------------
(* What is bound to the holes.                                              *)

TakesMany(t, n) == t.holes[n].kind \in {"each", "flags"}
\* What each hole is given, and what is left of it with the bundles spelt out.
Held(t, given) == [n \in DOMAIN t.holes |-> IF n \in DOMAIN given THEN given[n] ELSE Many(<<>>)]
Spelt(h, b) ==
    IF h.kind = "flags" /\ b.kind = "many" THEN ExpandBundles(h.fs, b.es) ELSE ExpandOf(TRUE, b.es)
Respelt(b, es) == [b EXCEPT !.es = es]

Fills(t, kws, pos, given) ==
    /\ pos.ok /\ pos.ps = <<>>
    /\ DOMAIN kws \subseteq DOMAIN t.holes \ DOMAIN pos.to
    /\ \A n \in DOMAIN kws : TakesMany(t, n) = (kws[n].kind # "one")
    /\ \A n \in DOMAIN t.holes : TakesMany(t, n) \/ n \in DOMAIN given
    /\ \A n \in DOMAIN t.holes : Spelt(t.holes[n], Held(t, given)[n]).ok

LEMMA FilledFacts ==
    ASSUME NEW t, NEW kws, NEW pos, NEW given
    PROVE  /\ Filled(t, kws, pos, given).ok <=> Fills(t, kws, pos, given)
           /\ DOMAIN Filled(t, kws, pos, given).to = DOMAIN t.holes
           /\ \A n \in DOMAIN t.holes :
                Filled(t, kws, pos, given).to[n] =
                  Respelt(Held(t, given)[n], Spelt(t.holes[n], Held(t, given)[n]).es)
<1>. DEFINE whole == Held(t, given)
            expanded == [n \in DOMAIN whole |-> Spelt(t.holes[n], whole[n])]
            ok == /\ pos.ok /\ pos.ps = <<>>
                  /\ DOMAIN kws \subseteq DOMAIN t.holes \ DOMAIN pos.to
                  /\ \A n \in DOMAIN kws : TakesMany(t, n) = (kws[n].kind # "one")
                  /\ \A n \in DOMAIN t.holes : TakesMany(t, n) \/ n \in DOMAIN given
                  /\ \A n \in DOMAIN expanded : expanded[n].ok
            to == [n \in DOMAIN whole |-> Respelt(whole[n], expanded[n].es)]
<1>1. Filled(t, kws, pos, given) = [ok |-> ok, to |-> to]
  BY Zenon DEF Filled, Held, Spelt, ExpandOf, Respelt, TakesMany
<1>2. DOMAIN whole = DOMAIN t.holes
  BY DEF Held
<1>3. DOMAIN expanded = DOMAIN t.holes /\ \A n \in DOMAIN t.holes : expanded[n] = Spelt(t.holes[n], whole[n])
  BY <1>2
<1>4. DOMAIN to = DOMAIN t.holes /\ \A n \in DOMAIN t.holes : to[n] = Respelt(whole[n], expanded[n].es)
  BY <1>2
<1>. HIDE DEF whole, expanded
<1>5. ok <=> Fills(t, kws, pos, given)
  BY <1>3 DEF Fills, whole
<1>. HIDE DEF ok, to
<1>6. (Filled(t, kws, pos, given).ok <=> ok) /\ Filled(t, kws, pos, given).to = to
  BY <1>1
<1>. QED
  BY <1>3, <1>4, <1>5, <1>6 DEF whole

LEMMA HeldTurns ==
    ASSUME NEW t, NEW pa, NEW pc, PositionsAgree(pa, pc), pa.ok, NEW ka, NEW kc, TurnsAll(ka, kc)
    PROVE  /\ DOMAIN Given(pc, kc) = DOMAIN Given(pa, ka)
           /\ TurnsAll(Held(t, Given(pa, ka)), Held(t, Given(pc, kc)))
<1>1. DOMAIN pc.to = DOMAIN pa.to /\ DOMAIN kc = DOMAIN ka
  BY DEF PositionsAgree, TurnsAll
<1>2. /\ \A n \in DOMAIN pa.to : Turns(pa.to[n], pc.to[n])
      /\ \A n \in DOMAIN ka : Turns(ka[n], kc[n])
  BY DEF PositionsAgree, TurnsAll
<1>. DEFINE ga == Given(pa, ka)
            gc == Given(pc, kc)
<1>3. DOMAIN ga = DOMAIN pa.to \cup DOMAIN ka /\ DOMAIN gc = DOMAIN pa.to \cup DOMAIN ka
  BY <1>1 DEF Given
<1>4. ASSUME NEW n \in DOMAIN ga PROVE Turns(ga[n], gc[n])
  <2>1. ga[n] = (IF n \in DOMAIN pa.to THEN pa.to[n] ELSE ka[n])
    BY <1>3 DEF Given
  <2>2. gc[n] = (IF n \in DOMAIN pa.to THEN pc.to[n] ELSE kc[n])
    BY <1>1, <1>3 DEF Given
  <2>. HIDE DEF ga, gc
  <2>. QED
    BY <1>2, <1>3, <2>1, <2>2
<1>. HIDE DEF ga, gc
<1>5. Turns(Many(<<>>), Many(<<>>))
  BY StrungShort, TurnsTo
<1>6. ASSUME NEW n \in DOMAIN t.holes PROVE Turns(Held(t, ga)[n], Held(t, gc)[n])
  BY <1>3, <1>4, <1>5 DEF Held
<1>7. DOMAIN Held(t, ga) = DOMAIN t.holes /\ DOMAIN Held(t, gc) = DOMAIN t.holes
  BY DEF Held
<1>8. TurnsAll(Held(t, ga), Held(t, gc))
  BY <1>6, <1>7 DEF TurnsAll
<1>. QED
  BY <1>3, <1>8 DEF ga, gc

LEMMA RespeltFields ==
    ASSUME NEW b, DOMAIN b = Fields, NEW es
    PROVE  DOMAIN Respelt(b, es) = Fields /\ Respelt(b, es).kind = b.kind /\ Respelt(b, es).es = es
BY DEF Respelt, Fields

\* The words of a flags hole, its bundles spelt out, turn out to be the
\* broker's.
LEMMA SpeltTurns ==
    ASSUME NEW w \in Written, NEW h, NEW b, NEW c, Turns(b, c), Spelt(h, b).ok,
           h.kind = "flags" => /\ h.fs.bare \cap DOMAIN h.fs.valued = {} /\ b.kind = "many"
                               /\ FlagsKnown(w, h.fs, Spelt(h, b).es)
    PROVE  /\ Spelt(h, c).ok
           /\ Turns(Respelt(b, Spelt(h, b).es), Respelt(c, Spelt(h, c).es))
<1>1. DOMAIN b = Fields /\ DOMAIN c = Fields
  BY DEF Turns
<1>2. CASE h.kind = "flags"
  <2>1. b.kind = "many" /\ c.kind = "many" /\ Strung(b.es, c.es)
    BY <1>2 DEF Turns
  <2>2. Spelt(h, b) = ExpandBundles(h.fs, b.es) /\ Spelt(h, c) = ExpandBundles(h.fs, c.es)
    BY <1>2, <2>1, Zenon DEF Spelt
  <2>3. Spelt(h, c).ok /\ Strung(Spelt(h, b).es, Spelt(h, c).es)
    BY <1>2, <2>1, <2>2, ExpansionsAgree
  <2>4. Respelt(b, Spelt(h, b).es).kind = "many" /\ Respelt(c, Spelt(h, c).es).kind = "many"
    BY <1>1, <2>1, RespeltFields
  <2>. QED
    BY <1>1, <2>3, <2>4, RespeltFields DEF Turns
<1>3. CASE h.kind # "flags"
  <2>1. Spelt(h, b) = ExpandOf(TRUE, b.es) /\ Spelt(h, c) = ExpandOf(TRUE, c.es)
    BY <1>3, Zenon DEF Spelt
  <2>2. Spelt(h, b).es = b.es /\ Spelt(h, c).es = c.es /\ Spelt(h, c).ok
    BY <2>1 DEF ExpandOf
  <2>. QED
    BY <1>1, <2>2, RespeltFields DEF Turns
<1>. QED
  BY <1>2, <1>3

\* No flag of a vocabulary is both bare and valued.
FlagsTellApart(t) ==
    \A n \in DOMAIN t.holes : t.holes[n].kind = "flags" =>
      t.holes[n].fs.bare \cap DOMAIN t.holes[n].fs.valued = {}
\* What is bound to the flags holes is what the analysis reads.
SpelledRight(w, t, to) ==
    \A n \in DOMAIN t.holes : t.holes[n].kind = "flags" =>
      to[n].kind = "many" /\ FlagsKnown(w, t.holes[n].fs, to[n].es)

\* What the analysis binds to the holes turns out to be what the broker binds.
LEMMA FilledTurns ==
    ASSUME NEW w \in Written, NEW t,
           FlagsTellApart(t),
           NEW pa, NEW pc, PositionsAgree(pa, pc), NEW ka, NEW kc, TurnsAll(ka, kc),
           NEW a, a = Filled(t, ka, pa, Given(pa, ka)), a.ok,
           NEW c, c = Filled(t, kc, pc, Given(pc, kc)), SpelledRight(w, t, a.to)
    PROVE  c.ok /\ TurnsAll(a.to, c.to)
<1>0. \A n \in DOMAIN t.holes : t.holes[n].kind = "flags" =>
        a.to[n].kind = "many" /\ FlagsKnown(w, t.holes[n].fs, a.to[n].es)
  BY DEF SpelledRight
<1>. DEFINE ga == Given(pa, ka)
            gc == Given(pc, kc)
            ha == Held(t, ga)
            hc == Held(t, gc)
<1>1. /\ Fills(t, ka, pa, ga) /\ DOMAIN a.to = DOMAIN t.holes /\ DOMAIN c.to = DOMAIN t.holes
      /\ c.ok <=> Fills(t, kc, pc, gc)
  BY FilledFacts
<1>2. /\ \A n \in DOMAIN t.holes : a.to[n] = Respelt(ha[n], Spelt(t.holes[n], ha[n]).es)
      /\ \A n \in DOMAIN t.holes : c.to[n] = Respelt(hc[n], Spelt(t.holes[n], hc[n]).es)
  BY FilledFacts
<1>. HIDE DEF ga, gc
<1>3. pa.ok /\ pa.ps = <<>>
  BY <1>1 DEF Fills
<1>4. DOMAIN gc = DOMAIN ga /\ TurnsAll(ha, hc) /\ DOMAIN ha = DOMAIN t.holes
  <2>1. DOMAIN gc = DOMAIN ga /\ TurnsAll(ha, hc)
    BY <1>3, HeldTurns DEF ga, gc
  <2>2. DOMAIN ha = DOMAIN t.holes
    BY DEF Held
  <2>. QED
    BY <2>1, <2>2
<1>. HIDE DEF ha, hc
<1>5. pc.ok /\ pc.ps = <<>> /\ DOMAIN pc.to = DOMAIN pa.to
  <2>1. pc.ok /\ TurnsAll(pa.to, pc.to) /\ Strung(pa.ps, pc.ps)
    BY <1>3 DEF PositionsAgree
  <2>. QED
    BY <1>3, <2>1, EmptyFacts DEF Strung, TurnsAll
<1>6. ASSUME NEW n \in DOMAIN t.holes
      PROVE  Spelt(t.holes[n], hc[n]).ok /\ Turns(a.to[n], c.to[n])
  <2>1. Turns(ha[n], hc[n]) /\ DOMAIN ha[n] = Fields
    BY <1>4 DEF TurnsAll, Turns
  <2>2. Spelt(t.holes[n], ha[n]).ok
    BY <1>1 DEF Fills, ha
  <2>3. a.to[n].kind = ha[n].kind /\ a.to[n].es = Spelt(t.holes[n], ha[n]).es
    BY <1>2, <2>1, RespeltFields
  <2>. QED
    BY <1>0, <1>2, <2>1, <2>2, <2>3, SpeltTurns DEF FlagsTellApart
<1>7. DOMAIN kc = DOMAIN ka /\ \A n \in DOMAIN ka : kc[n].kind = "one" <=> ka[n].kind = "one"
  BY DEF TurnsAll, Turns
<1>8. Fills(t, kc, pc, gc)
  <2>1. DOMAIN kc \subseteq DOMAIN t.holes \ DOMAIN pc.to
    BY <1>1, <1>5, <1>7 DEF Fills
  <2>2. \A n \in DOMAIN ka : TakesMany(t, n) = (ka[n].kind # "one")
    BY <1>1 DEF Fills
  <2>3. ASSUME NEW n \in DOMAIN kc PROVE TakesMany(t, n) = (kc[n].kind # "one")
    BY <1>7, <2>2 DEF TakesMany
  <2>4. \A n \in DOMAIN t.holes : TakesMany(t, n) \/ n \in DOMAIN gc
    BY <1>1, <1>4 DEF Fills
  <2>5. \A n \in DOMAIN t.holes : Spelt(t.holes[n], Held(t, gc)[n]).ok
    BY <1>6 DEF hc
  <2>. QED
    BY <1>5, <2>1, <2>3, <2>4, <2>5, Zenon DEF Fills
<1>. QED
  BY <1>1, <1>6, <1>8 DEF TurnsAll

----------------------------------------------------------------------------
(* What is asked of what is bound.                                          *)

\* The two readings of the holes.
HolesKnown(w, t, to, cwd) == HolesOk(t, to, cwd, LAMBDA u, atoms : Lacking(w, u, atoms))
HolesShown(w, t, to, cwd) == HolesOk(t, to, cwd, LAMBDA u, atoms : Unshown(w, u, atoms))
HoleKnown(w, t, to, n) == HoleOk(t, to, n, LAMBDA u, atoms : Lacking(w, u, atoms))
HoleShown(w, t, to, n) == HoleOk(t, to, n, LAMBDA u, atoms : Unshown(w, u, atoms))
DemandsKnown(w, t, to, cwd) == DemandsMet(t, to, cwd, LAMBDA u, atoms : Lacking(w, u, atoms))
DemandsShown(w, t, to, cwd) == DemandsMet(t, to, cwd, LAMBDA u, atoms : Unshown(w, u, atoms))
FitKnown(w, t, n, v) == Allows(w, t.holes[n].c, v) /\ (DashExempt(t, n) \/ Lacking(w, v, {NotOption}) = {})
FitShown(w, t, n, v) == Admits(w, t.holes[n].c, v) /\ (DashExempt(t, n) \/ Unshown(w, v, {NotOption}) = {})

LEMMA HolesRead ==
    ASSUME NEW w, NEW t, NEW to, NEW cwd
    PROVE  /\ HolesKnown(w, t, to, cwd) <=>
                /\ \A n \in DOMAIN t.holes : HoleKnown(w, t, to, n)
                /\ DemandsKnown(w, t, to, cwd)
           /\ HolesShown(w, t, to, cwd) <=>
                /\ \A n \in DOMAIN t.holes : HoleShown(w, t, to, n)
                /\ DemandsShown(w, t, to, cwd)
BY DEF HolesKnown, HolesShown, HolesOk, HoleKnown, HoleShown, DemandsKnown, DemandsShown

LEMMA HoleRead ==
    ASSUME NEW w, NEW t, NEW to, NEW n
    PROVE  /\ HoleKnown(w, t, to, n) <=>
                IF t.holes[n].kind = "flags"
                THEN to[n].kind = "many" /\ FlagsKnown(w, t.holes[n].fs, to[n].es)
                ELSE /\ \A i \in DOMAIN to[n].es : FitKnown(w, t, n, to[n].es[i])
                     /\ to[n].kind = "many" => Len(to[n].es) >= t.holes[n].min
           /\ HoleShown(w, t, to, n) <=>
                IF t.holes[n].kind = "flags"
                THEN to[n].kind = "many" /\ FlagsShown(w, t.holes[n].fs, to[n].es)
                ELSE /\ \A i \in DOMAIN to[n].es : FitShown(w, t, n, to[n].es[i])
                     /\ to[n].kind = "many" => Len(to[n].es) >= t.holes[n].min
BY DEF HoleKnown, HoleShown, HoleOk, OptionShaped, FitKnown, FitShown, FlagsKnown, FlagsShown, Allows, Admits

LEMMA DemandsRead ==
    ASSUME NEW w, NEW t, NEW to, NEW cwd
    PROVE  /\ DemandsKnown(w, t, to, cwd) <=>
                \A n \in {m \in DOMAIN t.holes : t.holes[m].kind = "flags" /\ ~t.holes[m].fs.any} :
                  /\ Lacking(w, cwd, DemandsOf(t.holes[n].fs, PresentFlags(t.holes[n].fs, to[n].es), Cwd)) = {}
                  /\ \A m \in Reached(t.holes[n].fs) : \A i \in DOMAIN to[m].es :
                       Lacking(w, to[m].es[i], DemandsOf(t.holes[n].fs, PresentFlags(t.holes[n].fs, to[n].es), m)) = {}
           /\ DemandsShown(w, t, to, cwd) <=>
                \A n \in {m \in DOMAIN t.holes : t.holes[m].kind = "flags" /\ ~t.holes[m].fs.any} :
                  /\ Unshown(w, cwd, DemandsOf(t.holes[n].fs, PresentFlags(t.holes[n].fs, to[n].es), Cwd)) = {}
                  /\ \A m \in Reached(t.holes[n].fs) : \A i \in DOMAIN to[m].es :
                       Unshown(w, to[m].es[i], DemandsOf(t.holes[n].fs, PresentFlags(t.holes[n].fs, to[n].es), m)) = {}
BY DEF DemandsKnown, DemandsShown, DemandsMet

LEMMA TurnsOf ==
    ASSUME NEW b, NEW c, Turns(b, c), NEW i \in DOMAIN c.es
    PROVE  \E j \in DOMAIN b.es : c.es[i] \in Strings(b.es[j])
<1>1. CASE b.kind = "elements"
  BY <1>1 DEF Turns
<1>2. CASE b.kind # "elements"
  <2>1. Strung(b.es, c.es)
    BY <1>2 DEF Turns
  <2>2. DOMAIN c.es = 1 .. Len(b.es) /\ DOMAIN b.es = 1 .. Len(b.es)
    BY <2>1, SeqFacts DEF Strung
  <2>. QED
    BY <2>1, <2>2 DEF Strung
<1>. QED
  BY <1>1, <1>2

\* What the analysis lets into a hole the broker lets in.
LEMMA HoleAgrees ==
    ASSUME NEW w \in Written, NEW t, NEW a, NEW c, NEW n, Turns(a[n], c[n]), HoleKnown(w, t, a, n),
           a[n].kind = "elements" /\ t.holes[n].kind # "flags" => t.holes[n].min = 0
    PROVE  HoleShown(w, t, c, n)
<1>1. CASE t.holes[n].kind = "flags"
  <2>1. a[n].kind = "many" /\ FlagsKnown(w, t.holes[n].fs, a[n].es)
    BY <1>1, HoleRead
  <2>2. c[n].kind = "many" /\ Strung(a[n].es, c[n].es)
    BY <2>1 DEF Turns
  <2>3. FlagsShown(w, t.holes[n].fs, c[n].es)
    BY <2>1, <2>2, FlagsKnownAreShown
  <2>. QED
    BY <1>1, <2>2, <2>3, HoleRead
<1>2. CASE t.holes[n].kind # "flags"
  <2>1. /\ \A i \in DOMAIN a[n].es : FitKnown(w, t, n, a[n].es[i])
        /\ a[n].kind = "many" => Len(a[n].es) >= t.holes[n].min
    BY <1>2, HoleRead
  <2>2. ASSUME NEW i \in DOMAIN c[n].es PROVE FitShown(w, t, n, c[n].es[i])
    <3>1. PICK j \in DOMAIN a[n].es : c[n].es[i] \in Strings(a[n].es[j])
      BY TurnsOf
    <3>2. FitKnown(w, t, n, a[n].es[j])
      BY <2>1
    <3>. QED
      BY <3>1, <3>2, AllowedIsAdmitted, NothingUnshown DEF FitKnown, FitShown
  <2>3. ASSUME c[n].kind = "many" PROVE Len(c[n].es) >= t.holes[n].min
    <3>1. CASE a[n].kind = "elements"
      <4>1. IsSeq(c[n].es) /\ t.holes[n].min = 0
        BY <1>2, <3>1 DEF Turns
      <4>. QED
        BY <4>1, SeqFacts
    <3>2. CASE a[n].kind # "elements"
      <4>1. a[n].kind = "many" /\ Len(c[n].es) = Len(a[n].es)
        BY <2>3, <3>2 DEF Turns, Strung
      <4>. QED
        BY <2>1, <4>1
    <3>. QED
      BY <3>1, <3>2
  <2>. QED
    BY <1>2, <2>2, <2>3, HoleRead
<1>. QED
  BY <1>1, <1>2

\* What the flags demand, as far as the analysis finds it, the broker finds.
LEMMA DemandsAgree ==
    ASSUME NEW w \in Written, NEW t, NEW a, NEW c, DOMAIN a = DOMAIN t.holes, TurnsAll(a, c),
           \A n \in DOMAIN t.holes : HoleKnown(w, t, a, n),
           \A n \in DOMAIN t.holes : t.holes[n].kind = "flags" =>
             /\ t.holes[n].fs.bare \cap DOMAIN t.holes[n].fs.valued = {}
             /\ Reached(t.holes[n].fs) \subseteq DOMAIN t.holes,
           NEW cwd, NEW s \in Strings(cwd), DemandsKnown(w, t, a, cwd)
    PROVE  DemandsShown(w, t, c, s)
<1>1. ASSUME NEW n \in DOMAIN t.holes, t.holes[n].kind = "flags", ~t.holes[n].fs.any
      PROVE  /\ Unshown(w, s, DemandsOf(t.holes[n].fs, PresentFlags(t.holes[n].fs, c[n].es), Cwd)) = {}
             /\ \A m \in Reached(t.holes[n].fs) : \A i \in DOMAIN c[m].es :
                  Unshown(w, c[m].es[i], DemandsOf(t.holes[n].fs, PresentFlags(t.holes[n].fs, c[n].es), m)) = {}
  <2>. DEFINE fs == t.holes[n].fs
              present == PresentFlags(fs, a[n].es)
  <2>1. a[n].kind = "many" /\ FlagsKnown(w, fs, a[n].es)
    BY <1>1, HoleRead
  <2>2. Turns(a[n], c[n])
    BY <1>1 DEF TurnsAll
  <2>3. Strung(a[n].es, c[n].es)
    BY <2>1, <2>2 DEF Turns
  <2>4. PresentFlags(fs, c[n].es) = present
    BY <1>1, <2>1, <2>3, PresentFlagsAgree
  <2>5. /\ Lacking(w, cwd, DemandsOf(fs, present, Cwd)) = {}
        /\ \A m \in Reached(fs) : \A i \in DOMAIN a[m].es : Lacking(w, a[m].es[i], DemandsOf(fs, present, m)) = {}
    BY <1>1, DemandsRead
  <2>. HIDE DEF present
  <2>6. Unshown(w, s, DemandsOf(fs, present, Cwd)) = {}
    BY <2>5, NothingUnshown
  <2>7. ASSUME NEW m \in Reached(fs), NEW i \in DOMAIN c[m].es
        PROVE  Unshown(w, c[m].es[i], DemandsOf(fs, present, m)) = {}
    <3>1. Turns(a[m], c[m])
      BY <1>1 DEF TurnsAll
    <3>2. PICK j \in DOMAIN a[m].es : c[m].es[i] \in Strings(a[m].es[j])
      BY <3>1, TurnsOf
    <3>. QED
      BY <2>5, <3>2, NothingUnshown
  <2>. QED
    BY <2>4, <2>6, <2>7
<1>. QED
  BY <1>1, DemandsRead

LEMMA HeldKind ==
    ASSUME NEW t, NEW pos, Placed(pos.to), NEW kws, NEW n \in DOMAIN t.holes,
           Held(t, Given(pos, kws))[n].kind = "elements"
    PROVE  n \in DOMAIN kws /\ kws[n].kind = "elements"
<1>1. Held(t, Given(pos, kws))[n] = IF n \in DOMAIN Given(pos, kws) THEN Given(pos, kws)[n] ELSE Many(<<>>)
  BY DEF Held
<1>2. Many(<<>>).kind # "elements"
  BY DEF Many
<1>3. n \in DOMAIN pos.to \cup DOMAIN kws
  BY <1>1, <1>2 DEF Given
<1>4. Held(t, Given(pos, kws))[n] = IF n \in DOMAIN pos.to THEN pos.to[n] ELSE kws[n]
  BY <1>1, <1>3 DEF Given
<1>. QED
  BY <1>3, <1>4 DEF Placed

\* What a template that loads is like.
LEMMA TemplateFacts ==
    ASSUME NEW w \in Written, Allowed(w), NEW r \in Resolved(w).programs, r.template # None,
           NEW t, t = r.template[1]
    PROVE  /\ IsSeq(t.pieces) /\ t.pieces # <<>> /\ ~t.pieces[1].hole
           /\ \A i \in DOMAIN t.pieces : t.pieces[i].hole => t.pieces[i].name \in DOMAIN t.holes
           /\ Len(Refs(t)) \in Nat
           /\ IsSeq(RuleWords(r)) /\ RuleWords(r) = LeadingWords(t) /\ Len(LeadingWords(t)) \in Nat \ {0}
           /\ \A n \in DOMAIN t.holes : t.holes[n].kind = "flags" =>
                /\ t.holes[n].fs.bare \cap DOMAIN t.holes[n].fs.valued = {}
                /\ Reached(t.holes[n].fs) \subseteq DOMAIN t.holes
                /\ FlagsetOk(t.holes[n].fs)
           /\ \A n \in DOMAIN t.holes : t.holes[n].kind = "each" => t.holes[n].min \in Nat
<1>1. PICK d \in w.programs : r = Program(d)
  BY LoadedRules
<1>2. IsProgram(d) /\ ProgramOk(d)
  BY WrittenIsAPolicy DEF IsPolicy, Allowed
<1>3. r.template = IF d.template = None THEN None ELSE Some(Shaped(d))
  BY <1>1, <1>2 DEF Program, IsProgram
<1>4. d.template # None /\ t = Shaped(d)
  BY <1>3 DEF Some
<1>5. RuleWords(r) = LeadingWords(t) /\ IsSeq(RuleWords(r)) /\ Len(RuleWords(r)) \in Nat \ {0}
  <2>1. RuleWords(r) = LeadingWords(t)
    BY Zenon DEF RuleWords
  <2>. QED
    BY <1>1, <1>2, <2>1, WordsOfARule
<1>. DEFINE u == d.template[1]
<1>6. /\ DOMAIN u = {"pieces", "holes"} /\ IsFiniteSet(DOMAIN u.holes)
      /\ \A n \in DOMAIN u.holes : IsHole(u.holes[n])
  BY <1>2, <1>4 DEF IsProgram
<1>7. DOMAIN t.holes = DOMAIN u.holes
  BY <1>4, <1>6 DEF Shaped
<1>8. ASSUME NEW n \in DOMAIN u.holes PROVE t.holes[n] = ShapedHole(d, n, u.holes[n])
  BY <1>4, <1>6 DEF Shaped
<1>9. DOMAIN t.holes = DOMAIN u.holes /\ \A n \in DOMAIN t.holes : t.holes[n] = ShapedHole(d, n, u.holes[n])
  BY <1>7, <1>8
<1>10. ASSUME NEW n \in DOMAIN t.holes, t.holes[n].kind = "each" PROVE t.holes[n].min \in Nat
  <2>. DEFINE h == u.holes[n]
  <2>1. IsHole(h) /\ t.holes[n] = ShapedHole(d, n, h)
    BY <1>6, <1>9
  <2>. HIDE DEF h
  <2>2. CASE h = Token(h.c)
    <3>1. h.kind = "token" /\ DOMAIN h = {"kind", "c", "min"}
      BY <2>2 DEF Token
    <3>2. t.holes[n].kind = "token"
      BY <2>1, <3>1 DEF ShapedHole
    <3>. QED
      BY <1>10, <3>2
  <2>3. CASE h = Each(h.c, h.min) /\ h.min \in Nat
    <3>1. DOMAIN h = {"kind", "c", "min"}
      BY <2>3 DEF Each
    <3>2. t.holes[n].min = h.min
      BY <2>1, <3>1 DEF ShapedHole
    <3>. QED
      BY <2>3, <3>2
  <2>4. CASE h = Flags(h.fs)
    <3>1. h.kind = "flags"
      BY <2>4 DEF Flags
    <3>2. t.holes[n] = h
      BY <2>1, <3>1 DEF ShapedHole, HoldsTokens
    <3>. QED
      BY <1>10, <3>1, <3>2
  <2>. QED
    BY <2>1, <2>2, <2>3, <2>4 DEF IsHole
<1>11. TemplateOk(t)
  BY <1>2, <1>4 DEF ProgramOk
<1>. DEFINE refs == Refs(t)
            names == {t.pieces[i].name : i \in {j \in DOMAIN t.pieces : t.pieces[j].hole}}
<1>12. Cardinality(names) = Len(refs) /\ names = DOMAIN t.holes
  BY <1>11 DEF TemplateOk
<1>13. Len(Refs(t)) \in Nat
  <2>. HIDE DEF refs, names
  <2>1. IsFiniteSet(names)
    BY <1>6, <1>9, <1>12
  <2>2. Cardinality(names) \in Nat
    BY <2>1, FS_CardinalityType
  <2>. QED
    BY <1>12, <2>2 DEF refs
<1>14. ASSUME NEW n \in DOMAIN t.holes, t.holes[n].kind = "flags"
       PROVE  /\ FlagsetOk(t.holes[n].fs)
              /\ \A m \in Reached(t.holes[n].fs) : m \in DOMAIN t.holes
  <2>. HIDE DEF refs
  <2>1. \A m \in names :
          IF t.holes[m].kind = "flags"
          THEN /\ FlagsetOk(t.holes[m].fs)
               /\ \A q \in Reached(t.holes[m].fs) : q \in names /\ HoldsTokens(t.holes[q])
          ELSE ConstraintOk(t.holes[m].c)
    BY <1>11, Zenon DEF TemplateOk, refs
  <2>. HIDE DEF names
  <2>. QED
    BY <1>12, <1>14, <2>1
<1>15. ASSUME NEW n \in DOMAIN t.holes, t.holes[n].kind = "flags"
       PROVE  t.holes[n].fs.bare \cap DOMAIN t.holes[n].fs.valued = {}
  BY <1>14, <1>15 DEF FlagsetOk, FlagNames
<1>16. IsSeq(t.pieces) /\ t.pieces # <<>> /\ ~t.pieces[1].hole
  <2>1. t.pieces = u.pieces /\ IsSeq(u.pieces)
    BY <1>2, <1>4, <1>6 DEF IsProgram, Shaped
  <2>. QED
    BY <1>11, <2>1 DEF TemplateOk
<1>17. ASSUME NEW i \in DOMAIN t.pieces, t.pieces[i].hole PROVE t.pieces[i].name \in DOMAIN t.holes
  BY <1>12, <1>17
<1>. QED
  BY <1>5, <1>10, <1>13, <1>14, <1>15, <1>16, <1>17

LEMMA BindIsFilled ==
    ASSUME NEW t, NEW args, NEW kws
    PROVE  Bind(t, args, kws) = Filled(t, kws, Positionally(t, args), Given(Positionally(t, args), kws))
BY Zenon DEF Bind

\* A command line that the analysis binds and finds right, the broker binds to
\* what its values turn out to be.
LEMMA BoundTurns ==
    ASSUME NEW w \in Written, Allowed(w), NEW r \in Resolved(w).programs, r.template # None,
           NEW t, t = r.template[1],
           NEW vs, NEW ss, Strung(vs, ss), Len(LeadingWords(t)) <= Len(vs) + 1,
           NEW ka, NEW kc, TurnsAll(ka, kc),
           Bind(t, vs, ka).ok, NEW cwd, HolesKnown(w, t, Bind(t, vs, ka).to, cwd)
    PROVE  /\ Bind(t, ss, kc).ok
           /\ TurnsAll(Bind(t, vs, ka).to, Bind(t, ss, kc).to)
           /\ DOMAIN Bind(t, vs, ka).to = DOMAIN t.holes
<1>. DEFINE a == Bind(t, vs, ka)
            c == Bind(t, ss, kc)
            pa == Positionally(t, vs)
            pc == Positionally(t, ss)
<1>0. /\ Len(Refs(t)) \in Nat /\ Len(LeadingWords(t)) \in Nat \ {0}
      /\ \A n \in DOMAIN t.holes : t.holes[n].kind = "flags" =>
           /\ t.holes[n].fs.bare \cap DOMAIN t.holes[n].fs.valued = {}
           /\ Reached(t.holes[n].fs) \subseteq DOMAIN t.holes
      /\ \A n \in DOMAIN t.holes : t.holes[n].kind = "each" => t.holes[n].min \in Nat
  BY TemplateFacts
<1>1. PositionsAgree(pa, pc)
  BY <1>0, PositionalsAgree
<1>2. a = Filled(t, ka, pa, Given(pa, ka)) /\ c = Filled(t, kc, pc, Given(pc, kc))
  BY BindIsFilled
<1>. SUFFICES ASSUME a.ok, HolesKnown(w, t, a.to, cwd)
              PROVE  c.ok /\ TurnsAll(a.to, c.to) /\ DOMAIN a.to = DOMAIN t.holes
  OBVIOUS
<1>. HIDE DEF pa, pc, a, c
<1>3. (\A n \in DOMAIN t.holes : HoleKnown(w, t, a.to, n)) /\ DemandsKnown(w, t, a.to, cwd)
  BY HolesRead
<1>4. \A n \in DOMAIN t.holes : t.holes[n].kind = "flags" =>
        a.to[n].kind = "many" /\ FlagsKnown(w, t.holes[n].fs, a.to[n].es)
  BY <1>3, HoleRead
<1>5. c.ok /\ TurnsAll(a.to, c.to)
  <2>1. FlagsTellApart(t) /\ SpelledRight(w, t, a.to)
    BY <1>0, <1>4 DEF FlagsTellApart, SpelledRight
  <2>. QED
    BY <1>1, <1>2, <2>1, FilledTurns
<1>. QED
  BY <1>2, <1>5, FilledFacts

\* Nor does it refuse it, whatever the strings; a container may fall short.
LEMMA BoundRuns ==
    ASSUME NEW w \in Written, Allowed(w), NEW r \in Resolved(w).programs, r.template # None,
           NEW t, t = r.template[1],
           NEW vs, NEW ss, Strung(vs, ss), Len(LeadingWords(t)) <= Len(vs) + 1,
           NEW ka, NEW kc, TurnsAll(ka, kc),
           NEW a, a = Bind(t, vs, ka), a.ok, NEW c, c = Bind(t, ss, kc),
           NEW cwd, NEW s \in Strings(cwd), HolesKnown(w, t, a.to, cwd),
           \A n \in DOMAIN ka \cap DOMAIN t.holes :
             ka[n].kind = "elements" /\ t.holes[n].kind = "each" => ~(t.holes[n].min > 0)
    PROVE  c.ok /\ HolesShown(w, t, c.to, s)
<1>. DEFINE pa == Positionally(t, vs)
            pc == Positionally(t, ss)
<1>0. /\ Len(Refs(t)) \in Nat /\ Len(LeadingWords(t)) \in Nat \ {0}
      /\ \A n \in DOMAIN t.holes : t.holes[n].kind = "flags" =>
           /\ t.holes[n].fs.bare \cap DOMAIN t.holes[n].fs.valued = {}
           /\ Reached(t.holes[n].fs) \subseteq DOMAIN t.holes
      /\ \A n \in DOMAIN t.holes : t.holes[n].kind = "each" => t.holes[n].min \in Nat
  BY TemplateFacts
<1>1. PositionsAgree(pa, pc)
  BY <1>0, PositionalsAgree
<1>2. a = Filled(t, ka, pa, Given(pa, ka)) /\ c = Filled(t, kc, pc, Given(pc, kc))
  BY BindIsFilled
<1>. HIDE DEF pa, pc
<1>3. (\A n \in DOMAIN t.holes : HoleKnown(w, t, a.to, n)) /\ DemandsKnown(w, t, a.to, cwd)
  BY HolesRead
<1>5. c.ok /\ TurnsAll(a.to, c.to)
  BY BoundTurns
<1>6. /\ Fills(t, ka, pa, Given(pa, ka)) /\ DOMAIN a.to = DOMAIN t.holes
      /\ \A n \in DOMAIN t.holes :
           a.to[n] = Respelt(Held(t, Given(pa, ka))[n], Spelt(t.holes[n], Held(t, Given(pa, ka))[n]).es)
  BY <1>2, FilledFacts
<1>7. ASSUME NEW n \in DOMAIN t.holes, a.to[n].kind = "elements", t.holes[n].kind # "flags"
      PROVE  t.holes[n].min = 0
  <2>. DEFINE b == Held(t, Given(pa, ka))[n]
  <2>1. Placed(pa.to) /\ pa.ok
    BY <1>1, <1>6 DEF PositionsAgree, Fills
  <2>2. DOMAIN b = Fields
    <3>1. TurnsAll(Held(t, Given(pa, ka)), Held(t, Given(pc, kc)))
      BY <1>1, <2>1, HeldTurns
    <3>2. n \in DOMAIN Held(t, Given(pa, ka))
      BY DEF Held
    <3>. QED
      BY <3>1, <3>2 DEF TurnsAll, Turns
  <2>3. b.kind = "elements"
    BY <1>6, <1>7, <2>2, RespeltFields
  <2>4. n \in DOMAIN ka /\ ka[n].kind = "elements"
    BY <2>1, <2>3, HeldKind
  <2>5. t.holes[n].kind = "each"
    BY <1>6, <1>7, <2>4 DEF Fills, TakesMany
  <2>6. ~(t.holes[n].min > 0) /\ t.holes[n].min \in Nat
    BY <1>0, <2>4, <2>5
  <2>. QED
    BY <2>6
<1>8. ASSUME NEW n \in DOMAIN t.holes PROVE HoleShown(w, t, c.to, n)
  <2>1. Turns(a.to[n], c.to[n])
    BY <1>5, <1>6 DEF TurnsAll
  <2>. QED
    BY <1>3, <1>7, <2>1, HoleAgrees
<1>9. DemandsShown(w, t, c.to, s)
  BY <1>0, <1>3, <1>5, <1>6, DemandsAgree
<1>. QED
  BY <1>5, <1>8, <1>9, HolesRead

----------------------------------------------------------------------------
(* A command or a check that the analysis accepts runs.                     *)

LEMMA StaysInside ==
    ASSUME NEW v, NEW s \in Strings(v), NEW locations, InOne(v, locations)
    PROVE  InOne(s, locations)
<1>1. s.read = "text" /\ s.texts = {KnownText(s)} /\ KnownText(s) \in Instances(v)
  BY StringFacts
<1>2. PICK l \in locations : v.texts \subseteq l
  BY DEF InOne
<1>3. s.texts \subseteq l
  BY <1>1, <1>2 DEF Instances
<1>. QED
  BY <1>1, <1>3 DEF InOne

\* What the analysis found of an exec it accepted.
LEMMA AcceptedExec ==
    ASSUME NEW w, NEW c, ExecAccepted(Resolved(w), c)
    PROVE  IF \E r \in Resolved(w).programs : r.name = c.name
           THEN \E r \in Selected(Resolved(w), c.name, c.args) :
                  /\ InOne(c.cwd, r.cwd)
                  /\ r.template = None => DOMAIN c.kws = {}
                  /\ r.template # None =>
                       /\ Bind(r.template[1], c.args, c.kws).ok
                       /\ HolesKnown(w, r.template[1], Bind(r.template[1], c.args, c.kws).to, c.cwd)
           ELSE LetThrough(Resolved(w), c.name) /\ DOMAIN c.kws = {}
BY DEF ExecAccepted, CwdOk, HolesKnown, HolesOk, HoleOk, DemandsMet, OptionShaped, FlagsOk, Satisfies, Lacking

\* What the broker asks of an exec before it spawns it.
LEMMA ExecRuns ==
    ASSUME NEW w, NEW name, NEW args, NEW kws, NEW cwd,
           \E r \in Resolved(w).programs : r.name = name,
           NEW r, r \in Selected(Resolved(w), name, args),
           \A q \in Selected(Resolved(w), name, args) : q = r,
           InOne(cwd, r.cwd), r.template = None => DOMAIN kws = {},
           r.template # None =>
             /\ Bind(r.template[1], args, kws).ok
             /\ HolesShown(w, r.template[1], Bind(r.template[1], args, kws).to, cwd)
    PROVE  ExecCommand(Resolved(w), name, args, kws, cwd).ok
<1>. DEFINE rules == Selected(Resolved(w), name, args)
            rule == CHOOSE q \in rules : TRUE
<1>1. rules # {} /\ rule = r
  <2>. HIDE DEF rules
  <2>1. r \in rules /\ \A q \in rules : q = r
    BY DEF rules
  <2>. QED
    BY <2>1
<1>. DEFINE words == <<name>> \o Texts(args)
<1>2. ~((\E q \in Resolved(w).programs : q.name = name) /\ (rules = {} \/ ~InOne(cwd, rule.cwd)))
  <2>. HIDE DEF rule, rules
  <2>. QED
    BY <1>1
<1>3. ExecCommand(Resolved(w), name, args, kws, cwd) =
        IF rule.template = None
        THEN IF DOMAIN kws = {} THEN Command(words, rule) ELSE Refused
        ELSE IF Bind(rule.template[1], args, kws).ok
                /\ HolesShown(w, rule.template[1], Bind(rule.template[1], args, kws).to, cwd)
             THEN Command(Instantiate(rule.template[1], Bind(rule.template[1], args, kws).to), rule)
             ELSE Refused
  BY <1>2, Zenon DEF ExecCommand, HolesShown, Unshown
<1>. HIDE DEF rule, rules
<1>. QED
  BY <1>1, <1>3 DEF Command

\* The rule asks for more elements than a container may hold.
LacksElements(r, kws) ==
    /\ r.template # None
    /\ \E n \in DOMAIN kws \cap DOMAIN r.template[1].holes :
         /\ kws[n].kind = "elements"
         /\ r.template[1].holes[n].kind = "each" /\ r.template[1].holes[n].min > 0

LEMMA AcceptedExecRuns ==
    ASSUME NEW w \in Written, Allowed(w), NEW c \in Calls, c.kind = "exec",
           ExecAccepted(Resolved(w), c),
           \A r \in Selected(Resolved(w), c.name, c.args) : ~LacksElements(r, c.kws),
           NEW args \in ArgStrings(c.args), NEW kws \in KwStrings(c.kws), NEW cwd \in Strings(c.cwd)
    PROVE  ExecCommand(Resolved(w), c.name, args, kws, cwd).ok
<1>1. IsSeq(c.args) /\ \A n \in DOMAIN c.kws : IsBinding(c.kws[n])
  BY CasesAssumption DEF Calls
<1>2. Strung(c.args, args) /\ TurnsAll(c.kws, kws)
  BY <1>1, ArgumentsStrung, KeywordsTurn
<1>3. DOMAIN kws = DOMAIN c.kws
  BY <1>2 DEF TurnsAll
<1>4. CASE ~\E r \in Resolved(w).programs : r.name = c.name
  <2>1. LetThrough(Resolved(w), c.name) /\ DOMAIN kws = {}
    BY <1>3, <1>4, AcceptedExec
  <2>. QED
    BY <1>4, <2>1 DEF ExecCommand, Command
<1>5. CASE \E r \in Resolved(w).programs : r.name = c.name
  <2>1. PICK r \in Selected(Resolved(w), c.name, c.args) :
          /\ InOne(c.cwd, r.cwd)
          /\ r.template = None => DOMAIN c.kws = {}
          /\ r.template # None =>
               /\ Bind(r.template[1], c.args, c.kws).ok
               /\ HolesKnown(w, r.template[1], Bind(r.template[1], c.args, c.kws).to, c.cwd)
    BY <1>5, AcceptedExec
  <2>2. r \in Selected(Resolved(w), c.name, args)
    BY <1>1, StringsSelect
  <2>3. \A q \in Selected(Resolved(w), c.name, args) : q = r
    BY <2>2, OneRuleOfCommand
  <2>4. InOne(cwd, r.cwd)
    BY <2>1, StaysInside
  <2>5. r.template = None => DOMAIN kws = {}
    BY <1>3, <2>1
  <2>6. ASSUME r.template # None
        PROVE  /\ Bind(r.template[1], args, kws).ok
               /\ HolesShown(w, r.template[1], Bind(r.template[1], args, kws).to, cwd)
    <3>. DEFINE t == r.template[1]
    <3>1. r \in Resolved(w).programs /\ MatchesLeading(Tail(RuleWords(r)), c.args)
      BY <2>1 DEF Selected
    <3>2. IsSeq(RuleWords(r)) /\ RuleWords(r) = LeadingWords(t) /\ Len(LeadingWords(t)) \in Nat \ {0}
      BY <2>6, <3>1, TemplateFacts
    <3>3. Len(LeadingWords(t)) <= Len(c.args) + 1
      <4>1. RuleWords(r) # <<>> /\ Len(c.args) \in Nat
        BY <1>1, <3>2, EmptyFacts, SeqFacts
      <4>2. Len(Tail(RuleWords(r))) = Len(RuleWords(r)) - 1
        BY <3>2, <4>1, TailFacts
      <4>. QED
        BY <3>1, <3>2, <4>1, <4>2 DEF MatchesLeading
    <3>4. \A n \in DOMAIN c.kws \cap DOMAIN t.holes :
            c.kws[n].kind = "elements" /\ t.holes[n].kind = "each" => ~(t.holes[n].min > 0)
      BY <2>1, <2>6 DEF LacksElements
    <3>5. Bind(t, c.args, c.kws).ok /\ HolesKnown(w, t, Bind(t, c.args, c.kws).to, c.cwd)
      BY <2>1, <2>6
    <3>. HIDE DEF t
    <3>. DEFINE a == Bind(t, c.args, c.kws)
                b == Bind(t, args, kws)
    <3>6. t = r.template[1]
      BY DEF t
    <3>7. b.ok /\ HolesShown(w, t, b.to, cwd)
      <4>1. a = Bind(t, c.args, c.kws) /\ b = Bind(t, args, kws) /\ a.ok /\ HolesKnown(w, t, a.to, c.cwd)
        BY <3>5
      <4>. HIDE DEF a, b
      <4>. QED
        BY <1>2, <2>6, <3>1, <3>3, <3>4, <3>6, <4>1, BoundRuns
    <3>. QED
      BY <3>6, <3>7
  <2>. QED
    BY <1>5, <2>2, <2>3, <2>4, <2>5, <2>6, ExecRuns
<1>. QED
  BY <1>4, <1>5

\* A check that the analysis accepts runs under its declaration.
LEMMA AcceptedCheckRuns ==
    ASSUME NEW w \in Written, Allowed(w), NEW c \in Calls, c.kind = "check",
           CheckAccepted(Resolved(w), c), NEW given, NEW cwd \in ArgStrings(c.cwd)
    PROVE  RunCheck(Resolved(w), c, given, cwd).ok
<1>. DEFINE vs == Declaring(Resolved(w), c.name)
            v == CHOOSE q \in vs : TRUE
<1>1. DOMAIN w = {"programs", "validations", "atoms", "network", "sources", "regions",
                  "reads", "denied", "defaultAllow"}
  BY WrittenIsAPolicy DEF IsPolicy
<1>2. Resolved(w).validations = w.validations
  BY <1>1 DEF Resolved
<1>3. PICK q \in vs : BindsCheck(q, c) /\ (q.cwd # {} => c.cwd # None /\ InOne(c.cwd[1], q.cwd))
  BY DEF CheckAccepted
<1>4. \A p \in vs : p = q
  BY <1>2 DEF Declaring, Allowed, NamesUnique
<1>5. v = q /\ vs # {}
  <2>. HIDE DEF vs
  <2>. QED
    BY <1>3, <1>4
<1>6. Strung(c.cwd, cwd)
  <2>1. IsSeq(c.cwd)
    BY CasesAssumption DEF Calls
  <2>. QED
    BY <2>1, ArgumentsStrung
<1>7. ASSUME q.cwd # {} PROVE cwd # None /\ InOne(cwd[1], q.cwd)
  <2>1. c.cwd # None /\ InOne(c.cwd[1], q.cwd)
    BY <1>3, <1>7
  <2>2. cwd # <<>> /\ cwd[1] \in Strings(c.cwd[1])
    <3>1. c.cwd # <<>> /\ IsSeq(c.cwd) /\ IsSeq(cwd) /\ Len(cwd) = Len(c.cwd) /\ Len(c.cwd) \in Nat
      BY <1>6, <2>1, SeqFacts DEF Strung, None
    <3>2. Len(c.cwd) # 0 /\ cwd # <<>>
      BY <3>1, EmptyFacts
    <3>. QED
      BY <1>6, <3>1, <3>2 DEF Strung
  <2>. QED
    BY <2>1, <2>2, StaysInside DEF None
<1>. HIDE DEF vs, v
<1>. QED
  BY <1>3, <1>5, <1>7 DEF RunCheck, Command, vs, v

----------------------------------------------------------------------------
(* The call of a run.                                                       *)

\* A composed command: of strings of the call, under a rule they select.
Composed ==
    /\ call.kind = "exec"
    /\ \E args \in ArgStrings(call.args) :
         \/ command.rule \in Selected(policy, call.name, args)
         \/ /\ ~\E r \in policy.programs : r.name = call.name
            /\ command.rule = Ungoverned(call.name)

\* The first request: of a string of the call, under a rule that admits it.
FirstSent ==
    /\ call.kind = "request"
    /\ sent[1].url \in Instances(call.url)
    /\ sent[1].rule \in Admitting(policy, call.method, sent[1].url, TRUE)

CallInv ==
    /\ call \in Calls
    /\ stage = "accepted" => Accepted
    /\ stage = "asking" /\ sent = <<>> =>
         /\ call.kind = "request" /\ Accepted
         /\ current.url \in Instances(call.url) /\ current.method = call.method
    /\ sent # <<>> => FirstSent
    /\ stage = "refused" => sent # <<>> \/ MayFallShort
    /\ stage = "spawned" => Composed

LEMMA CallInit == Init => CallInv
BY DEF Init, CallInv, Calls

LEMMA CallHop ==
    ASSUME PolicyLoaded, HopInv, CallInv, Hop
    PROVE  CallInv'
<1>. DEFINE rules == Admitting(policy, current.method, current.url, sent = <<>>)
            rule == CHOOSE r \in rules : TRUE
            h == [url |-> current.url, method |-> current.method, rule |-> rule,
                  credentials |-> Origin(current.url) = FirstOrigin]
<1>1. /\ stage = "asking" /\ policy' = policy /\ call' = call /\ command' = command
      /\ current' = current
  BY DEF Hop
<1>2. PICK w \in Written : Allowed(w) /\ policy = Resolved(w)
  BY <1>1 DEF PolicyLoaded
<1>3. CASE rules = {}
  <2>1. stage' = "refused" /\ sent' = sent
    BY <1>3 DEF Hop
  <2>2. sent # <<>>
    <3>. SUFFICES ASSUME sent = <<>> PROVE FALSE
      OBVIOUS
    <3>1. /\ call.kind = "request" /\ Accepted /\ call \in Calls
          /\ current.url \in Instances(call.url) /\ current.method = call.method
      BY <1>1 DEF CallInv
    <3>2. RequestAccepted(policy, call)
      BY <3>1 DEF Accepted
    <3>3. Admitting(policy, call.method, current.url, TRUE) # {}
      BY <1>2, <3>1, <3>2, AcceptedIsAdmitted
    <3>. QED
      BY <1>3, <3>1, <3>3
  <2>. QED
    BY <1>1, <2>1, <2>2 DEF CallInv, FirstSent
<1>4. CASE rules # {} /\ ~rule.allowNonpublic /\ Parts[current.url].host \in NonPublic
  <2>1. stage' = "screened" /\ sent' = sent
    BY <1>4 DEF Hop
  <2>. QED
    BY <1>1, <2>1 DEF CallInv, FirstSent
<1>5. CASE rules # {} /\ ~(~rule.allowNonpublic /\ Parts[current.url].host \in NonPublic)
  <2>1. stage' = "sent" /\ sent' = Append(sent, h)
    BY <1>5 DEF Hop
  <2>2. rule \in Admitting(policy, current.method, current.url, sent = <<>>)
    BY <1>5
  <2>3. h.url = current.url /\ h.rule = rule
    OBVIOUS
  <2>. HIDE DEF rules, rule, h
  <2>4. sent \in Seq({sent[i] : i \in DOMAIN sent})
    BY DEF HopInv, IsSeq
  <2>5. CASE sent = <<>>
    <3>1. sent'[1] = h
      BY <2>1, <2>5
    <3>2. /\ call.kind = "request" /\ current.url \in Instances(call.url)
          /\ current.method = call.method
      BY <1>1, <2>5 DEF CallInv
    <3>3. h.rule \in Admitting(policy, call.method, h.url, TRUE)
      BY <2>2, <2>3, <2>5, <3>2
    <3>4. FirstSent'
      BY <1>1, <2>3, <3>1, <3>2, <3>3 DEF FirstSent
    <3>. QED
      BY <1>1, <2>1, <3>4 DEF CallInv
  <2>6. CASE sent # <<>>
    <3>1. sent'[1] = sent[1]
      <4>. DEFINE S == {sent[i] : i \in DOMAIN sent} \cup {h}
      <4>1. {sent[i] : i \in DOMAIN sent} \subseteq S /\ h \in S
        OBVIOUS
      <4>. HIDE DEF S
      <4>2. sent \in Seq(S)
        BY <2>4, <4>1, SeqMonotonic
      <4>. QED
        BY <2>1, <2>6, <4>1, <4>2
    <3>2. FirstSent'
      BY <1>1, <2>6, <3>1 DEF FirstSent, CallInv
    <3>. QED
      BY <1>1, <2>1, <3>2 DEF CallInv
  <2>. QED
    BY <2>5, <2>6
<1>. QED
  BY <1>3, <1>4, <1>5

LEMMA CallExec ==
    ASSUME PolicyLoaded, HopInv, CallInv, Exec
    PROVE  CallInv'
<1>1. PICK args \in ArgStrings(call.args), kws \in KwStrings(call.kws), cwd \in Strings(call.cwd) :
        command' = ExecCommand(policy, call.name, args, kws, cwd)
  BY DEF Exec
<1>2. /\ call.kind = "exec" /\ stage = "accepted" /\ policy' = policy /\ call' = call
      /\ sent' = sent /\ current' = current
      /\ stage' = IF command'.ok THEN "spawned" ELSE "refused"
  BY DEF Exec
<1>3. CASE command'.ok
  <2>1. \/ command'.rule \in Selected(policy, call.name, args)
        \/ /\ ~\E r \in policy.programs : r.name = call.name
           /\ command'.rule = Ungoverned(call.name)
    BY <1>1, <1>3, RuleOfCommand
  <2>2. Composed'
    BY <1>2, <2>1 DEF Composed
  <2>. QED
    BY <1>2, <1>3, <2>2 DEF CallInv, FirstSent
<1>4. CASE ~command'.ok
  <2>1. PICK w \in Written : Allowed(w) /\ policy = Resolved(w)
    BY <1>2 DEF PolicyLoaded
  <2>2. call \in Calls /\ ExecAccepted(Resolved(w), call)
    BY <1>2, <2>1 DEF CallInv, Accepted
  <2>3. ~\A r \in Selected(Resolved(w), call.name, call.args) : ~LacksElements(r, call.kws)
    BY <1>1, <1>2, <1>4, <2>1, <2>2, AcceptedExecRuns
  <2>4. MayFallShort /\ MayFallShort'
    BY <1>2, <2>1, <2>3, Zenon DEF MayFallShort, LacksElements
  <2>. QED
    BY <1>2, <1>4, <2>4 DEF CallInv, FirstSent
<1>. QED
  BY <1>3, <1>4

LEMMA CallCheck ==
    ASSUME PolicyLoaded, HopInv, CallInv, Check
    PROVE  CallInv'
<1>1. PICK given \in ArgStrings(call.args), cwd \in ArgStrings(call.cwd) :
        command' = RunCheck(policy, call, given, cwd)
  BY DEF Check
<1>2. /\ call.kind = "check" /\ stage = "accepted" /\ policy' = policy /\ call' = call
      /\ sent' = sent /\ current' = current
      /\ stage' = IF command'.ok THEN "checked" ELSE "refused"
  BY DEF Check
<1>3. PICK w \in Written : Allowed(w) /\ policy = Resolved(w)
  BY <1>2 DEF PolicyLoaded
<1>4. call \in Calls /\ CheckAccepted(Resolved(w), call)
  BY <1>2, <1>3 DEF CallInv, Accepted
<1>5. command'.ok
  BY <1>1, <1>2, <1>3, <1>4, AcceptedCheckRuns
<1>. QED
  BY <1>2, <1>5 DEF CallInv, FirstSent, HopInv

LEMMA CallNext ==
    ASSUME PolicyLoaded, HopInv, CallInv, [Next]_vars
    PROVE  CallInv'
<1>1. CASE Load
  BY <1>1 DEF CallInv, Load, HopInv
<1>2. CASE Decide
  <2>1. /\ stage' = (IF Accepted THEN "accepted" ELSE "denied") /\ sent = <<>> /\ sent' = sent
        /\ policy' = policy /\ call' = call
    BY <1>2 DEF Decide, HopInv
  <2>2. Accepted' <=> Accepted
    BY <2>1 DEF Accepted
  <2>. QED
    BY <2>1, <2>2 DEF CallInv
<1>3. CASE Exec
  BY <1>3, CallExec
<1>4. CASE Check
  BY <1>4, CallCheck
<1>5. CASE Request
  <2>1. /\ stage = "accepted" /\ call.kind = "request" /\ stage' = "asking" /\ sent = <<>>
        /\ policy' = policy /\ call' = call /\ sent' = sent
    BY <1>5 DEF Request, HopInv
  <2>2. current'.url \in Instances(call.url) /\ current'.method = call.method
    BY <1>5 DEF Request
  <2>3. Accepted /\ Accepted'
    BY <2>1 DEF Accepted, CallInv
  <2>. QED
    BY <2>1, <2>2, <2>3 DEF CallInv
<1>6. CASE Hop
  BY <1>6, CallHop
<1>7. CASE Answer
  BY <1>7 DEF CallInv, Answer, FirstSent
<1>8. CASE Redirect
  <2>1. sent' = sent /\ policy' = policy /\ call' = call
        /\ stage = "sent" /\ stage' \in {"asking", "too many redirects"}
    BY <1>8 DEF Redirect
  <2>2. sent # <<>>
    BY <2>1 DEF HopInv
  <2>. QED
    BY <2>1, <2>2 DEF CallInv, FirstSent
<1>9. CASE UNCHANGED vars
  BY <1>9 DEF CallInv, vars, FirstSent, Composed, Accepted, MayFallShort
<1>. QED
  BY <1>1, <1>2, <1>3, <1>4, <1>5, <1>6, <1>7, <1>8, <1>9 DEF Next

THEOREM RunInvariant == Spec => [](PolicyLoaded /\ HopInv /\ CallInv)
<1>1. Init => PolicyLoaded /\ HopInv /\ CallInv
  BY LoadedInit, HopInit, CallInit
<1>2. PolicyLoaded /\ HopInv /\ CallInv /\ [Next]_vars => (PolicyLoaded /\ HopInv /\ CallInv)'
  BY LoadedNext, HopNext, CallNext
<1>. QED
  BY <1>1, <1>2, PTL DEF Spec

\* What the static check accepts, the broker does not refuse: whatever the
\* strings turn out to be, the re-check of a command, of a check and of the
\* request the program named finds the rule the analysis proved, the same
\* bindings and every requirement met.  The hole of a container that holds too
\* few elements is the one exception (policy.py: exec_command and _evaluate;
\* templates.py: bind and hole_failures; broker.py: _check).
THEOREM AcceptedCalls == Spec => []AcceptedCallsRun
<1>1. HopInv /\ CallInv => AcceptedCallsRun
  BY DEF HopInv, CallInv, IsSeq, AcceptedCallsRun
<1>. QED
  BY <1>1, RunInvariant, PTL

\* What the analysis takes a command to write kills each fact that the rule it
\* runs under may falsify, and the source it tags the output with is that
\* rule's (enforcement.py: _exec_writes, _exec_sources).  It is RuleForeseen,
\* of commands.
CommandForeseen ==
    stage = "spawned" =>
      /\ Covers(ExecWrites(policy, call), WriteSet(command.rule))
      /\ \A s \in ExecSources(policy, call) : command.rule.source = Some(s)

THEOREM ForeseenCommand == Spec => []CommandForeseen
<1>1. PolicyLoaded /\ CallInv => CommandForeseen
  <2>. SUFFICES ASSUME PolicyLoaded, CallInv, stage = "spawned"
                PROVE  /\ Covers(ExecWrites(policy, call), WriteSet(command.rule))
                       /\ \A s \in ExecSources(policy, call) : command.rule.source = Some(s)
    BY DEF CommandForeseen
  <2>1. PICK w \in Written : Allowed(w) /\ policy = Resolved(w)
    BY DEF PolicyLoaded
  <2>2. Composed /\ call \in Calls /\ call.kind = "exec"
    BY DEF CallInv, Composed
  <2>3. PICK args \in ArgStrings(call.args) :
           \/ command.rule \in Selected(policy, call.name, args)
           \/ /\ ~\E r \in policy.programs : r.name = call.name
              /\ command.rule = Ungoverned(call.name)
    BY <2>2 DEF Composed
  <2>4. ASSUME NEW r \in Selected(policy, call.name, call.args) PROVE r = command.rule
    <3>1. IsSeq(call.args)
      BY <2>2, CallFacts
    <3>. QED
      BY <2>1, <2>3, <3>1, SelectedIsRun
  <2>5. Covers(ExecWrites(policy, call), WriteSet(command.rule))
    <3>1. CASE Selected(policy, call.name, call.args) = {}
      <4>1. ExecWrites(policy, call) = Everything
        BY <3>1 DEF ExecWrites
      <4>. QED
        BY <2>1, <4>1, EverythingCovers DEF Covers
    <3>2. CASE Selected(policy, call.name, call.args) # {}
      <4>1. ExecWrites(policy, call) = WriteSet(command.rule)
        BY <2>4, <3>2 DEF ExecWrites
      <4>. QED
        BY <4>1 DEF Covers
    <3>. QED
      BY <3>1, <3>2
  <2>6. ASSUME NEW s \in ExecSources(policy, call) PROVE command.rule.source = Some(s)
    <3>1. PICK r \in Selected(policy, call.name, call.args) : r.source # None /\ s = r.source[1]
      BY DEF ExecSources
    <3>2. r \in policy.programs
      BY DEF Selected
    <3>3. r.source = Some(r.source[1])
      BY <2>1, <3>1, <3>2, SourceShape
    <3>. QED
      BY <2>4, <3>1, <3>3
  <2>. QED
    BY <2>5, <2>6
<1>. QED
  BY <1>1, RunInvariant, PTL

\* The source that the analysis tags a response with is that of the rule the
\* request is sent under; and when the URL can only name one host, what it
\* takes the request to write kills each fact that rule may falsify
\* (enforcement.py: network_sources, _network_writes).  Of two hosts the
\* second part can fail: the run decision_effects shows it.
RequestForeseen ==
    sent # <<>> =>
      /\ \A s \in NetworkSources(policy, call) : sent[1].rule.source = Some(s)
      /\ (\A u, v \in Lifted(call.url) : u.host = v.host) =>
           Covers(NetworkWrites(policy, call), RequestWrites(sent[1].rule))

THEOREM ForeseenRequest == Spec => []RequestForeseen
<1>1. PolicyLoaded /\ HopInv /\ CallInv => RequestForeseen
  <2>. SUFFICES ASSUME PolicyLoaded, HopInv, CallInv, sent # <<>>
                PROVE  /\ \A s \in NetworkSources(policy, call) : sent[1].rule.source = Some(s)
                       /\ (\A u, v \in Lifted(call.url) : u.host = v.host) =>
                            Covers(NetworkWrites(policy, call), RequestWrites(sent[1].rule))
    BY DEF RequestForeseen
  <2>1. FirstSent /\ call \in Calls
    BY DEF CallInv
  <2>2. stage \notin {"written", "not a policy"}
    BY DEF HopInv
  <2>3. PICK w \in Written : Allowed(w) /\ policy = Resolved(w)
    BY <2>2 DEF PolicyLoaded
  <2>4. ASSUME NEW s \in NetworkSources(policy, call) PROVE sent[1].rule.source = Some(s)
    <3>1. /\ call.kind = "request" /\ sent[1].url \in Instances(call.url)
          /\ sent[1].rule \in Admitting(Resolved(w), call.method, sent[1].url, TRUE)
          /\ s \in NetworkSources(Resolved(w), call)
      BY <2>1, <2>3 DEF FirstSent
    <3>2. call \in Calls /\ Allowed(w)
      BY <2>1, <2>3
    <3>3. \A t \in Instances(call.url) : \A r \in Admitting(Resolved(w), call.method, t, TRUE) :
             r.source = Some(s)
      BY <3>1, <3>2, SourceOfTheRule
    <3>. QED
      BY <3>1, <3>3
  <2>5. ASSUME \A u, v \in Lifted(call.url) : u.host = v.host,
               NEW a \in Environmental(policy), Kills(policy, RequestWrites(sent[1].rule), a)
        PROVE  Kills(policy, NetworkWrites(policy, call), a)
    BY <2>1, <2>3, <2>5, WritesOfTheRule DEF FirstSent
  <2>. QED
    BY <2>4, <2>5 DEF Covers
<1>. QED
  BY <1>1, RunInvariant, PTL

\* A request whose URL may name only one host.
NamesOneHost == call.kind = "request" => \A u, v \in Lifted(call.url) : u.host = v.host

\* Every fact about the world that a call may falsify is one the analysis
\* drops, and the source its result is tagged with is that of the rule the
\* call runs under, of commands and of requests alike, when a URL can only
\* name one host (enforcement.py: _exec_writes, _exec_sources and
\* _network_writes).
THEOREM ForeseenRule == Spec => [](NamesOneHost => RuleForeseen)
<1>1. HopInv /\ CallInv /\ CommandForeseen /\ RequestForeseen => (NamesOneHost => RuleForeseen)
  <2>. SUFFICES ASSUME HopInv, CallInv, CommandForeseen, RequestForeseen, NamesOneHost
                PROVE  RuleForeseen
    OBVIOUS
  <2>1. ASSUME Len(sent) > 0
        PROVE  /\ Covers(NetworkWrites(policy, call), RequestWrites(sent[1].rule))
               /\ \A s \in NetworkSources(policy, call) : sent[1].rule.source = Some(s)
    <3>1. sent # <<>>
      BY <2>1
    <3>2. \A u, v \in Lifted(call.url) : u.host = v.host
      BY <3>1 DEF CallInv, FirstSent, NamesOneHost
    <3>. QED
      BY <3>1, <3>2 DEF RequestForeseen
  <2>. QED
    BY <2>1 DEF CommandForeseen, RuleForeseen
<1>. QED
  BY <1>1, RunInvariant, ForeseenCommand, ForeseenRequest, PTL

----------------------------------------------------------------------------
(* The options that a tool reads in the argv it is spawned with.            *)

\* What a tool reads from place i of argv on.
OptionsAt(argv, fs, f, i) ==
    IF i > Len(argv) \/ argv[i] = EndOfOptions THEN {}
    ELSE IF argv[i] \notin Dashed THEN f[i + 1]
    ELSE {argv[i]} \cup f[IF argv[i] \in DOMAIN fs.valued THEN i + 2 ELSE i + 1]
IsScan(f, argv, fs) ==
    /\ \A i \in 1 .. Len(argv) + 2 : f[i] = OptionsAt(argv, fs, f, i)
    /\ \A i \in 1 .. Len(argv) + 2 : OptionsFrom(argv, fs, i) = f[i]

LEMMA ScanExists ==
    ASSUME NEW argv, NEW fs, IsSeq(argv)
    PROVE  \E f : IsScan(f, argv, fs)
<1>. DEFINE n == Len(argv)
            At(f, i) == OptionsAt(argv, fs, f, i)
            from == CHOOSE f : f = [i \in 1 .. n + 2 |-> At(f, i)]
            S == {k \in 1 .. n + 2 : \E f : \A i \in k .. n + 2 : f[i] = At(f, i)}
<1>1. \A i : OptionsFrom(argv, fs, i) = from[i]
  BY Zenon DEF OptionsFrom, OptionsAt
<1>2. n \in Nat
  BY SeqFacts
<1>3. ASSUME NEW i \in 1 .. n + 2, NEW f, NEW g, i <= n => f[i + 1] = g[i + 1] /\ f[i + 2] = g[i + 2]
      PROVE  At(f, i) = At(g, i)
  <2>1. CASE i > n
    BY <2>1, Zenon DEF OptionsAt
  <2>2. CASE ~(i > n)
    <3>1. f[i + 1] = g[i + 1] /\ f[i + 2] = g[i + 2]
      BY <1>2, <1>3, <2>2
    <3>2. f[IF argv[i] \in DOMAIN fs.valued THEN i + 2 ELSE i + 1] = g[IF argv[i] \in DOMAIN fs.valued THEN i + 2 ELSE i + 1]
      BY <3>1
    <3>. QED
      BY <2>2, <3>1, <3>2, Zenon DEF OptionsAt
  <2>. QED
    BY <2>1, <2>2
<1>. HIDE DEF At, n
<1>4. ASSUME NEW k \in 1 .. n + 2, \A j \in k + 1 .. n + 2 : j \in S PROVE k \in S
  <2>1. PICK f : \A i \in k + 1 .. n + 2 : f[i] = At(f, i)
    <3>1. CASE k < n + 2
      <4>1. k + 1 \in k + 1 .. n + 2
        BY <1>2, <3>1
      <4>. QED
        BY <1>4, <4>1
    <3>2. CASE ~(k < n + 2)
      BY <1>2, <3>2
    <3>. QED
      BY <3>1, <3>2
  <2>. DEFINE g == [i \in k .. n + 2 |-> IF i = k THEN At(f, i) ELSE f[i]]
  <2>2. \A i \in k + 1 .. n + 2 : g[i] = f[i]
    BY <1>2
  <2>3. ASSUME NEW i \in k .. n + 2 PROVE At(f, i) = At(g, i)
    <3>1. i <= n => i + 1 \in k + 1 .. n + 2 /\ i + 2 \in k + 1 .. n + 2
      BY <1>2
    <3>2. (i <= n => f[i + 1] = g[i + 1] /\ f[i + 2] = g[i + 2]) /\ i \in 1 .. n + 2
      BY <1>2, <2>2, <3>1
    <3>. HIDE DEF g
    <3>. QED
      BY <1>3, <3>2
  <2>4. ASSUME NEW i \in k .. n + 2 PROVE g[i] = At(f, i)
    BY <1>2, <2>1
  <2>5. \A i \in k .. n + 2 : g[i] = At(g, i)
    BY <2>3, <2>4
  <2>. HIDE DEF g
  <2>. QED
    BY <2>5
<1>5. 1 \in S
  <2>1. n + 2 \in Nat /\ 1 \in 1 .. n + 2
    BY <1>2
  <2>. HIDE DEF S
  <2>. QED
    BY <1>4, <2>1, Backward
<1>6. PICK f : \A i \in 1 .. n + 2 : f[i] = At(f, i)
  BY <1>5
<1>. DEFINE g == [i \in 1 .. n + 2 |-> f[i]]
<1>7. ASSUME NEW i \in 1 .. n + 2 PROVE g[i] = At(g, i)
  <2>1. (i <= n => f[i + 1] = g[i + 1] /\ f[i + 2] = g[i + 2]) /\ g[i] = f[i]
    BY <1>2
  <2>. HIDE DEF g
  <2>. QED
    BY <1>3, <1>6, <2>1
<1>8. g = [i \in 1 .. n + 2 |-> At(g, i)]
  BY <1>7
<1>9. from = [i \in 1 .. n + 2 |-> At(from, i)]
  <2>. HIDE DEF g
  <2>. QED
    BY <1>8
<1>10. \A i \in 1 .. n + 2 : from[i] = At(from, i)
  BY <1>9
<1>. HIDE DEF from
<1>. QED
  BY <1>1, <1>10 DEF IsScan, At, n

\* What a piece of a template becomes in the argv, and what follows it.
Spells(t, to, i) ==
    IF t.pieces[i].hole
    THEN [k \in DOMAIN to[t.pieces[i].name].es |-> KnownText(to[t.pieces[i].name].es[k])]
    ELSE <<t.pieces[i].name>>
SpelledAt(t, to, f, i) == IF i > Len(t.pieces) THEN <<>> ELSE Spells(t, to, i) \o f[i + 1]
IsSpelling(f, t, to) ==
    /\ \A i \in 1 .. Len(t.pieces) + 1 : f[i] = SpelledAt(t, to, f, i)
    /\ Instantiate(t, to) = f[1]

LEMMA SpellingExists ==
    ASSUME NEW t, NEW to, IsSeq(t.pieces)
    PROVE  \E f : IsSpelling(f, t, to)
<1>. DEFINE n == Len(t.pieces)
            At(f, i) == SpelledAt(t, to, f, i)
            from == CHOOSE f : f = [i \in 1 .. n + 1 |-> At(f, i)]
            S == {k \in 1 .. n + 1 : \E f : \A i \in k .. n + 1 : f[i] = At(f, i)}
<1>1. Instantiate(t, to) = from[1]
  BY Zenon DEF Instantiate, SpelledAt, Spells
<1>2. n \in Nat
  BY SeqFacts
<1>3. ASSUME NEW i \in 1 .. n + 1, NEW f, NEW g, i <= n => f[i + 1] = g[i + 1]
      PROVE  At(f, i) = At(g, i)
  <2>1. CASE i > n
    BY <2>1, Zenon DEF SpelledAt
  <2>2. CASE ~(i > n)
    <3>1. f[i + 1] = g[i + 1]
      BY <1>2, <1>3, <2>2
    <3>. QED
      BY <2>2, <3>1, Zenon DEF SpelledAt
  <2>. QED
    BY <2>1, <2>2
<1>. HIDE DEF At, n
<1>4. ASSUME NEW k \in 1 .. n + 1, \A j \in k + 1 .. n + 1 : j \in S PROVE k \in S
  <2>1. PICK f : \A i \in k + 1 .. n + 1 : f[i] = At(f, i)
    <3>1. CASE k < n + 1
      <4>1. k + 1 \in k + 1 .. n + 1
        BY <1>2, <3>1
      <4>. QED
        BY <1>4, <4>1
    <3>2. CASE ~(k < n + 1)
      BY <1>2, <3>2
    <3>. QED
      BY <3>1, <3>2
  <2>. DEFINE g == [i \in k .. n + 1 |-> IF i = k THEN At(f, i) ELSE f[i]]
  <2>2. \A i \in k + 1 .. n + 1 : g[i] = f[i]
    BY <1>2
  <2>3. ASSUME NEW i \in k .. n + 1 PROVE At(f, i) = At(g, i)
    <3>1. i <= n => i + 1 \in k + 1 .. n + 1
      BY <1>2
    <3>2. (i <= n => f[i + 1] = g[i + 1]) /\ i \in 1 .. n + 1
      BY <1>2, <2>2, <3>1
    <3>. HIDE DEF g
    <3>. QED
      BY <1>3, <3>2
  <2>4. ASSUME NEW i \in k .. n + 1 PROVE g[i] = At(f, i)
    BY <1>2, <2>1
  <2>5. \A i \in k .. n + 1 : g[i] = At(g, i)
    BY <2>3, <2>4
  <2>. HIDE DEF g
  <2>. QED
    BY <2>5
<1>5. 1 \in S
  <2>1. n + 1 \in Nat /\ 1 \in 1 .. n + 1
    BY <1>2
  <2>. HIDE DEF S
  <2>. QED
    BY <1>4, <2>1, Backward
<1>6. PICK f : \A i \in 1 .. n + 1 : f[i] = At(f, i)
  BY <1>5
<1>. DEFINE g == [i \in 1 .. n + 1 |-> f[i]]
<1>7. ASSUME NEW i \in 1 .. n + 1 PROVE g[i] = At(g, i)
  <2>1. (i <= n => f[i + 1] = g[i + 1]) /\ g[i] = f[i]
    BY <1>2
  <2>. HIDE DEF g
  <2>. QED
    BY <1>3, <1>6, <2>1
<1>8. g = [i \in 1 .. n + 1 |-> At(g, i)]
  BY <1>7
<1>9. from = [i \in 1 .. n + 1 |-> At(from, i)]
  <2>. HIDE DEF g
  <2>. QED
    BY <1>8
<1>10. \A i \in 1 .. n + 1 : from[i] = At(from, i)
  BY <1>9
<1>. HIDE DEF from
<1>. QED
  BY <1>1, <1>10 DEF IsSpelling, At, n

\* The strings of a piece are a sequence.
LEMMA SpellsFacts ==
    ASSUME NEW t, NEW to, NEW i, t.pieces[i].hole => IsSeq(to[t.pieces[i].name].es)
    PROVE  /\ IsSeq(Spells(t, to, i))
           /\ t.pieces[i].hole =>
                /\ Len(Spells(t, to, i)) = Len(to[t.pieces[i].name].es)
                /\ \A k \in 1 .. Len(to[t.pieces[i].name].es) :
                     Spells(t, to, i)[k] = KnownText(to[t.pieces[i].name].es[k])
           /\ ~t.pieces[i].hole => Len(Spells(t, to, i)) = 1 /\ Spells(t, to, i)[1] = t.pieces[i].name
<1>1. CASE ~t.pieces[i].hole
  BY <1>1, ShortFacts DEF Spells
<1>2. CASE t.pieces[i].hole
  <2>. DEFINE es == to[t.pieces[i].name].es
              ws == Spells(t, to, i)
  <2>1. Len(es) \in Nat /\ DOMAIN es = 1 .. Len(es)
    BY <1>2, SeqFacts
  <2>2. ws = [k \in DOMAIN es |-> KnownText(es[k])]
    BY <1>2 DEF Spells
  <2>. HIDE DEF es, ws
  <2>3. ws = [k \in 1 .. Len(es) |-> KnownText(es[k])]
    BY <2>1, <2>2
  <2>4. ws \in Seq({KnownText(es[k]) : k \in 1 .. Len(es)})
    BY <2>1, <2>3
  <2>5. IsSeq(ws)
    BY <2>4, IsASequence
  <2>6. Len(ws) = Len(es) /\ \A k \in 1 .. Len(es) : ws[k] = KnownText(es[k])
    BY <2>1, <2>3
  <2>. QED
    BY <1>2, <2>5, <2>6 DEF es, ws
<1>. QED
  BY <1>1, <1>2

\* Each hole of the template is given a sequence.
GivenSequences(t, to) ==
    \A i \in 1 .. Len(t.pieces) : t.pieces[i].hole => IsSeq(to[t.pieces[i].name].es)

LEMMA SpellingIsASequence ==
    ASSUME NEW t, NEW to, IsSeq(t.pieces), GivenSequences(t, to), NEW f, IsSpelling(f, t, to)
    PROVE  \A i \in 1 .. Len(t.pieces) + 1 : IsSeq(f[i])
<1>. DEFINE n == Len(t.pieces)
            S == {i \in 1 .. n + 1 : IsSeq(f[i])}
<1>1. n \in Nat
  BY SeqFacts
<1>2. ASSUME NEW i \in 1 .. n + 1, \A j \in i + 1 .. n + 1 : j \in S PROVE i \in S
  <2>1. f[i] = SpelledAt(t, to, f, i)
    BY DEF IsSpelling
  <2>2. CASE i > n
    BY <2>1, <2>2, EmptyFacts DEF SpelledAt
  <2>3. CASE ~(i > n)
    <3>1. i \in 1 .. n /\ i + 1 \in i + 1 .. n + 1
      BY <1>1, <2>3
    <3>2. IsSeq(f[i + 1])
      BY <1>2, <3>1
    <3>3. IsSeq(Spells(t, to, i))
      BY <3>1, SpellsFacts DEF GivenSequences
    <3>4. f[i] = Spells(t, to, i) \o f[i + 1]
      BY <2>1, <2>3 DEF SpelledAt
    <3>5. IsSeq(f[i])
      BY <3>2, <3>3, <3>4, ConcatFacts
    <3>. QED
      BY <3>5
  <2>. QED
    BY <2>2, <2>3
<1>3. \A i \in 1 .. n + 1 : i \in S
  <2>1. n + 1 \in Nat
    BY <1>1
  <2>. HIDE DEF S, n
  <2>. QED
    BY <1>2, <2>1, Backward
<1>. QED
  BY <1>3

\* The tool passes over a word that takes no value, and stops at "--".
LEMMA ScanWord ==
    ASSUME NEW argv, IsSeq(argv), NEW fs, NEW g, IsScan(g, argv, fs),
           NEW k \in Nat, k + 1 <= Len(argv)
    PROVE  /\ argv[k + 1] = EndOfOptions => g[k + 1] = {}
           /\ argv[k + 1] \notin Dashed => g[k + 1] \subseteq g[k + 2]
           /\ argv[k + 1] \notin DOMAIN fs.valued => g[k + 1] \subseteq {argv[k + 1]} \cup g[k + 2]
           /\ argv[k + 1] \in DOMAIN fs.valued \cap Dashed => g[k + 1] \subseteq {argv[k + 1]} \cup g[k + 3]
<1>1. Len(argv) \in Nat
  BY SeqFacts
<1>2. k + 1 \in 1 .. Len(argv) + 2 /\ ~(k + 1 > Len(argv)) /\ (k + 1) + 1 = k + 2 /\ (k + 1) + 2 = k + 3
  BY <1>1
<1>3. g[k + 1] = OptionsAt(argv, fs, g, k + 1)
  BY <1>2, Zenon DEF IsScan
<1>. QED
  BY <1>2, <1>3 DEF OptionsAt

LEMMA ScanPastTokens ==
    ASSUME NEW argv, IsSeq(argv), NEW fs, NEW g, IsScan(g, argv, fs),
           NEW k \in Nat, NEW l \in Nat, k + l <= Len(argv),
           \A j \in 1 .. l : argv[k + j] \notin Dashed
    PROVE  g[k + 1] \subseteq g[k + l + 1]
<1>1. Len(argv) \in Nat
  BY SeqFacts
<1>. DEFINE S == {j \in 0 .. l : g[k + 1] \subseteq g[k + j + 1]}
<1>2. 0 \in S
  <2>1. k + 0 + 1 = k + 1
    OBVIOUS
  <2>. QED
    BY <2>1
<1>3. ASSUME NEW j \in 1 .. l, j - 1 \in S PROVE j \in S
  <2>1. /\ k + (j - 1) + 1 = k + j /\ k + j - 1 \in Nat /\ (k + j - 1) + 1 <= Len(argv)
        /\ (k + j - 1) + 1 = k + j /\ (k + j - 1) + 2 = k + j + 1
    BY <1>1
  <2>2. g[k + 1] \subseteq g[k + j]
    BY <1>3, <2>1
  <2>3. g[(k + j - 1) + 1] \subseteq g[(k + j - 1) + 2]
    <3>1. argv[(k + j - 1) + 1] \notin Dashed
      BY <2>1
    <3>. QED
      BY <2>1, <3>1, ScanWord
  <2>4. g[k + j] \subseteq g[k + j + 1]
    BY <2>1, <2>3
  <2>. QED
    BY <2>2, <2>4
<1>4. l \in S
  <2>. HIDE DEF S
  <2>. QED
    BY <1>2, <1>3, Forward
<1>. QED
  BY <1>4

\* A list of flags that the broker admits: at each flag a word of the
\* vocabulary.
LEMMA ShownReadOn ==
    ASSUME NEW w, NEW fs, NEW es, IsSeq(es), NEW r, ShownReading(r, w, fs, es),
           NEW i \in 1 .. Len(es) + 2, r[i]
    PROVE  \/ i = Len(es) + 1
           \/ /\ i \in 1 .. Len(es)
              /\ \/ KnownText(es[i]) \in fs.bare /\ r[i + 1]
                 \/ KnownText(es[i]) \in DOMAIN fs.valued /\ i < Len(es) /\ r[i + 2]
<1>1. Len(es) \in Nat
  BY SeqFacts
<1>2. r[i] = ReadAt(es, Len(es), fs, ValuesShown(w, fs, es), r, i)
  BY Zenon DEF ShownReading
<1>3. CASE i > Len(es)
  BY <1>2, <1>3, Zenon DEF ReadAt
<1>4. CASE ~(i > Len(es))
  <2>1. i \in 1 .. Len(es)
    BY <1>1, <1>4
  <2>. QED
    BY <1>2, <1>4, <2>1, Zenon DEF ReadAt
<1>. QED
  BY <1>3, <1>4

\* Of such a list the tool reads as options the flags it names.
LEMMA ScanPastFlags ==
    ASSUME NEW argv, IsSeq(argv), NEW w, NEW fs, ~fs.any, FlagsetOk(fs), NEW g, IsScan(g, argv, fs),
           NEW es, IsSeq(es), FlagsShown(w, fs, es), NEW k \in Nat, k + Len(es) <= Len(argv),
           \A j \in 1 .. Len(es) : argv[k + j] = KnownText(es[j])
    PROVE  g[k + 1] \subseteq PresentFlags(fs, es) \cup g[k + Len(es) + 1]
<1>. DEFINE m == Len(es)
<1>1. PICK r : ShownReading(r, w, fs, es)
  BY FlagsShownRead
<1>2. PICK p : IsPresence(p, fs, es)
  BY PresenceExists
<1>3. r[1]
  BY <1>1, Zenon DEF ShownReading
<1>4. m \in Nat /\ Len(argv) \in Nat
  BY SeqFacts
<1>5. FlagNames(fs) \subseteq Dashed /\ fs.bare \cap DOMAIN fs.valued = {}
  BY DEF FlagsetOk
<1>. DEFINE S == {i \in 1 .. m + 2 : r[i] => g[k + i] \subseteq p[i] \cup g[k + m + 1]}
<1>6. ASSUME NEW i \in 1 .. m + 2, \A j \in i + 1 .. m + 2 : j \in S PROVE i \in S
  <2>. SUFFICES ASSUME r[i]
                PROVE  g[k + i] \subseteq p[i] \cup g[k + m + 1]
    OBVIOUS
  <2>1. p[i] = PresentAt(fs, es, p, i)
    BY <1>2, Zenon DEF IsPresence
  <2>2. CASE i = m + 1
    <3>1. i > m /\ k + i = k + m + 1
      BY <1>4, <2>2
    <3>2. p[i] = {}
      BY <2>1, <3>1 DEF PresentAt
    <3>. QED
      BY <3>1, <3>2
  <2>3. CASE i # m + 1
    <3>1. /\ i \in 1 .. m
          /\ \/ KnownText(es[i]) \in fs.bare /\ r[i + 1]
             \/ KnownText(es[i]) \in DOMAIN fs.valued /\ i < m /\ r[i + 2]
      BY <1>1, <2>3, ShownReadOn
    <3>. DEFINE x == KnownText(es[i])
    <3>2. /\ i + 1 \in i + 1 .. m + 2 /\ i + 2 \in i + 1 .. m + 2 /\ ~(i > Len(es))
          /\ k + i - 1 \in Nat /\ (k + i - 1) + 1 = k + i /\ (k + i - 1) + 2 = k + (i + 1)
          /\ (k + i - 1) + 3 = k + (i + 2) /\ (k + i - 1) + 1 <= Len(argv)
      BY <1>4, <3>1
    <3>3. argv[(k + i - 1) + 1] = x
      BY <3>1, <3>2
    <3>. HIDE DEF x
    <3>4. CASE x \in fs.bare /\ r[i + 1]
      <4>1. x \notin DOMAIN fs.valued /\ x \in FlagNames(fs)
        BY <1>5, <3>4 DEF FlagNames
      <4>2. g[(k + i - 1) + 1] \subseteq {x} \cup g[(k + i - 1) + 2]
        BY <3>2, <3>3, <4>1, ScanWord
      <4>3. g[k + i] \subseteq {x} \cup g[k + (i + 1)]
        BY <3>2, <4>2
      <4>4. p[i] = {x} \cup p[i + 1]
        BY <2>1, <3>2, <3>4 DEF PresentAt, x
      <4>5. g[k + (i + 1)] \subseteq p[i + 1] \cup g[k + m + 1]
        BY <1>6, <3>2, <3>4
      <4>. HIDE DEF S, m
      <4>. QED
        BY <4>1, <4>3, <4>4, <4>5
    <3>5. CASE x \in DOMAIN fs.valued /\ r[i + 2]
      <4>1. x \in FlagNames(fs) /\ x \in DOMAIN fs.valued \cap Dashed /\ x \notin fs.bare
        BY <1>5, <3>5 DEF FlagNames
      <4>2. g[(k + i - 1) + 1] \subseteq {x} \cup g[(k + i - 1) + 3]
        BY <3>2, <3>3, <4>1, ScanWord
      <4>3. g[k + i] \subseteq {x} \cup g[k + (i + 2)]
        BY <3>2, <4>2
      <4>4. p[i] = {x} \cup p[i + 2]
        BY <2>1, <3>2, <4>1 DEF PresentAt, x
      <4>5. g[k + (i + 2)] \subseteq p[i + 2] \cup g[k + m + 1]
        BY <1>6, <3>2, <3>5
      <4>. HIDE DEF S, m
      <4>. QED
        BY <4>1, <4>3, <4>4, <4>5
    <3>. QED
      BY <3>1, <3>4, <3>5 DEF x
  <2>. QED
    BY <2>2, <2>3
<1>7. 1 \in S
  <2>1. m + 2 \in Nat /\ 1 \in 1 .. m + 2
    BY <1>4
  <2>. HIDE DEF S, m
  <2>. QED
    BY <1>6, <2>1, Backward
<1>8. p[1] = PresentFlags(fs, es)
  BY <1>2 DEF IsPresence
<1>. QED
  BY <1>3, <1>7, <1>8

\* One text, of which nothing else is known: what the broker is handed.
IsString(v) == v.read = "text" /\ v.atoms = {} /\ v.texts = {KnownText(v)}

\* The leading-dash guard.
LEMMA ShownUndashed ==
    ASSUME NEW w \in Written, NEW v, IsString(v), Unshown(w, v, {NotOption}) = {}
    PROVE  KnownText(v) \notin Dashed
<1>. DEFINE voc == Vocabulary(Resolved(w))
<1>0. NotOption \notin voc.defined /\ NotOption \notin voc.checkable
  <2>1. voc = Vocabulary(w)
    BY LoadedRules
  <2>2. DefinedAtoms(w) \subseteq DOMAIN Defined
    BY WrittenIsAPolicy
  <2>. HIDE DEF voc
  <2>. QED
    BY <2>1, <2>2, DefinedAssumption DEF Vocabulary, Checkable
<1>1. {NotOption} \cap DecidableFromText(Resolved(w)) = {NotOption}
  BY DEF DecidableFromText
<1>2. Missing(v, {NotOption}, voc) = {}
  BY <1>1 DEF Unshown
<1>. HIDE DEF voc
<1>3. Shows(v, NotOption, voc)
  BY <1>2, NothingMissing DEF IsString
<1>4. ~MayStartWithDash(v)
  BY <1>0, <1>3, ShowsByKind
<1>. QED
  BY <1>4 DEF IsString, MayStartWithDash

\* What a loaded template is made of.
IsTemplate(t) ==
    /\ IsSeq(t.pieces) /\ t.pieces # <<>> /\ ~t.pieces[1].hole
    /\ \A i \in DOMAIN t.pieces : t.pieces[i].hole => t.pieces[i].name \in DOMAIN t.holes
    /\ \A n \in DOMAIN t.holes : t.holes[n].kind = "flags" => FlagsetOk(t.holes[n].fs)

\* Strings in the holes that the broker admits.
Filling(w, t, to) ==
    /\ \A n \in DOMAIN t.holes : IsSeq(to[n].es) /\ \A i \in DOMAIN to[n].es : IsString(to[n].es[i])
    /\ \A n \in DOMAIN t.holes : HoleShown(w, t, to, n)

FlagsHoles(t) == {n \in DOMAIN t.holes : t.holes[n].kind = "flags"}
\* The words of a template and the flags of its lists.
Offered(t, fs, to) == OwnWords(t) \cup UNION {PresentFlags(fs, to[n].es) : n \in FlagsHoles(t)}

\* fs speaks for every flags hole, and no word of the template is a flag of it.
Speaks(t, fs) ==
    /\ ~fs.any
    /\ \A n \in FlagsHoles(t) : t.holes[n].fs = fs
    /\ OwnWords(t) \cap FlagNames(fs) = {}

\* From a piece on, the tool reads what is offered.
ReadsOffered(t, fs, to, argv, f, g, i) ==
    (\A j \in 1 .. i - 1 : t.pieces[j] # Lit(EndOfOptions)) =>
      \A k \in Nat : EndsIn(argv, k, f[i]) => g[k + 1] \subseteq Offered(t, fs, to)

LEMMA FillingIsGiven ==
    ASSUME NEW w \in Written, NEW t, IsTemplate(t), NEW to, Filling(w, t, to)
    PROVE  GivenSequences(t, to)
<1>1. DOMAIN t.pieces = 1 .. Len(t.pieces)
  BY SeqFacts DEF IsTemplate
<1>. QED
  BY <1>1 DEF GivenSequences, IsTemplate, Filling

\* A piece, read after what is read of the pieces after it.
LEMMA ReadPiece ==
    ASSUME NEW w \in Written, NEW t, IsTemplate(t), NEW to, Filling(w, t, to), NEW fs, Speaks(t, fs),
           NEW argv, IsSeq(argv), NEW f, IsSpelling(f, t, to), NEW g, IsScan(g, argv, fs),
           NEW i \in 1 .. Len(t.pieces), ReadsOffered(t, fs, to, argv, f, g, i + 1)
    PROVE  ReadsOffered(t, fs, to, argv, f, g, i)
<1>. SUFFICES ASSUME \A j \in 1 .. i - 1 : t.pieces[j] # Lit(EndOfOptions),
                     NEW k \in Nat, EndsIn(argv, k, f[i])
              PROVE  g[k + 1] \subseteq Offered(t, fs, to)
  BY DEF ReadsOffered
<1>. DEFINE n == Len(t.pieces)
            ws == Spells(t, to, i)
            name == t.pieces[i].name
            A == Offered(t, fs, to)
<1>1. n \in Nat /\ DOMAIN t.pieces = 1 .. n /\ Len(argv) \in Nat
  BY SeqFacts DEF IsTemplate
<1>2. f[i] = ws \o f[i + 1]
  <2>1. f[i] = SpelledAt(t, to, f, i) /\ ~(i > n)
    BY <1>1 DEF IsSpelling
  <2>. QED
    BY <2>1 DEF SpelledAt
<1>3. IsSeq(ws) /\ IsSeq(f[i + 1])
  <2>1. GivenSequences(t, to)
    BY FillingIsGiven
  <2>2. i + 1 \in 1 .. n + 1
    BY <1>1
  <2>. QED
    BY <2>1, <2>2, SpellsFacts, SpellingIsASequence DEF GivenSequences, IsTemplate
<1>4. Len(ws) \in Nat /\ Len(f[i + 1]) \in Nat
  BY <1>3, SeqFacts
<1>. HIDE DEF ws
<1>5. (\A j \in 1 .. Len(ws) : argv[k + j] = ws[j]) /\ EndsIn(argv, k + Len(ws), f[i + 1])
  BY <1>2, <1>3, EndsInTheRest
<1>6. k + Len(ws) <= Len(argv) /\ k + Len(ws) \in Nat
  <2>1. Len(argv) = (k + Len(ws)) + Len(f[i + 1])
    BY <1>5 DEF EndsIn
  <2>2. \A a, b, c \in Nat : a + b <= (a + b) + c /\ a + b \in Nat
    OBVIOUS
  <2>. DEFINE l == Len(ws)
              m == Len(f[i + 1])
  <2>3. k \in Nat /\ l \in Nat /\ m \in Nat /\ Len(argv) = (k + l) + m
    BY <1>4, <2>1
  <2>. HIDE DEF n, l, m
  <2>4. k + l <= Len(argv) /\ k + l \in Nat
    BY <2>2, <2>3, Zenon
  <2>. QED
    BY <2>4 DEF l
<1>7. ASSUME t.pieces[i] # Lit(EndOfOptions) PROVE g[k + Len(ws) + 1] \subseteq A
  <2>1. \A j \in 1 .. (i + 1) - 1 : t.pieces[j] # Lit(EndOfOptions)
    BY <1>1, <1>7
  <2>. QED
    BY <1>5, <1>6, <2>1 DEF ReadsOffered
<1>8. CASE ~t.pieces[i].hole
  <2>1. Len(ws) = 1 /\ ws[1] = name
    BY <1>8, SpellsFacts DEF ws
  <2>2. k + 1 <= Len(argv) /\ argv[k + 1] = name /\ k + Len(ws) + 1 = k + 2
    BY <1>5, <1>6, <2>1
  <2>3. name \in OwnWords(t)
    BY <1>1, <1>8 DEF OwnWords
  <2>4. name \in A /\ name \notin DOMAIN fs.valued
    BY <2>3 DEF Offered, Speaks, FlagNames
  <2>5. CASE name = EndOfOptions
    <3>1. g[k + 1] = {}
      BY <2>2, <2>5, ScanWord
    <3>. QED
      BY <3>1
  <2>6. CASE name # EndOfOptions
    <3>1. t.pieces[i] # Lit(EndOfOptions)
      BY <2>6 DEF Lit
    <3>2. g[k + 2] \subseteq A
      BY <1>7, <2>2, <3>1
    <3>3. g[k + 1] \subseteq {argv[k + 1]} \cup g[k + 2]
      BY <2>2, <2>4, ScanWord
    <3>. HIDE DEF A, name
    <3>. QED
      BY <2>2, <2>4, <3>2, <3>3 DEF A
  <2>. QED
    BY <2>5, <2>6
<1>9. CASE t.pieces[i].hole
  <2>. DEFINE es == to[name].es
  <2>1. t.pieces[i] # Lit(EndOfOptions)
    BY <1>9 DEF Lit
  <2>2. name \in DOMAIN t.holes
    BY <1>1, <1>9 DEF IsTemplate
  <2>3. /\ IsSeq(es) /\ (\A j \in DOMAIN es : IsString(es[j])) /\ HoleShown(w, t, to, name)
        /\ DOMAIN es = 1 .. Len(es)
    BY <2>2, SeqFacts DEF Filling
  <2>4. Len(ws) = Len(es) /\ \A j \in 1 .. Len(es) : ws[j] = KnownText(es[j])
    BY <1>9, <2>3, SpellsFacts DEF ws
  <2>5. \A j \in 1 .. Len(es) : argv[k + j] = KnownText(es[j])
    BY <1>5, <2>4
  <2>6. g[k + Len(es) + 1] \subseteq A
    BY <1>7, <2>1, <2>4
  <2>7. CASE t.holes[name].kind = "flags"
    <3>1. name \in FlagsHoles(t) /\ t.holes[name].fs = fs /\ ~fs.any /\ FlagsetOk(fs)
      BY <2>2, <2>7 DEF FlagsHoles, Speaks, IsTemplate
    <3>2. FlagsShown(w, fs, es)
      BY <2>3, <2>7, <3>1, HoleRead
    <3>3. PresentFlags(fs, es) \subseteq A
      BY <3>1 DEF Offered
    <3>. HIDE DEF es, A
    <3>4. k + Len(es) <= Len(argv)
      BY <1>6, <2>4
    <3>5. g[k + 1] \subseteq PresentFlags(fs, es) \cup g[k + Len(es) + 1]
      BY <2>3, <2>5, <3>1, <3>2, <3>4, ScanPastFlags
    <3>. QED
      BY <2>6, <3>3, <3>5 DEF A
  <2>8. CASE t.holes[name].kind # "flags"
    <3>1. ~DashExempt(t, name)
      <4>. SUFFICES ASSUME NEW l \in DOMAIN t.pieces, t.pieces[l] = Lit(EndOfOptions),
                           \A j \in 1 .. l : t.pieces[j].name # name \/ ~t.pieces[j].hole
                    PROVE  FALSE
        BY DEF DashExempt
      <4>1. CASE l < i
        <5>1. l \in 1 .. i - 1
          BY <1>1, <4>1
        <5>. QED
          BY <5>1
      <4>2. CASE ~(l < i)
        <5>1. i \in 1 .. l
          BY <1>1, <4>2
        <5>. QED
          BY <1>9, <5>1
      <4>. QED
        BY <4>1, <4>2
    <3>2. ASSUME NEW j \in 1 .. Len(es) PROVE argv[k + j] \notin Dashed
      <4>1. IsString(es[j]) /\ FitShown(w, t, name, es[j])
        BY <2>3, <2>8, HoleRead
      <4>2. Unshown(w, es[j], {NotOption}) = {}
        BY <3>1, <4>1 DEF FitShown
      <4>. QED
        BY <2>5, <4>1, <4>2, ShownUndashed
    <3>. HIDE DEF es, A
    <3>3. k + Len(es) <= Len(argv) /\ Len(es) \in Nat
      BY <1>6, <2>3, <2>4, SeqFacts
    <3>4. g[k + 1] \subseteq g[k + Len(es) + 1]
      BY <3>2, <3>3, ScanPastTokens
    <3>. QED
      BY <2>6, <3>4 DEF A
  <2>. QED
    BY <2>7, <2>8
<1>. QED
  BY <1>8, <1>9

\* The options a tool reads in an argv that the broker composes.
LEMMA OptionsOffered ==
    ASSUME NEW w \in Written, NEW t, IsTemplate(t), NEW to, Filling(w, t, to), NEW fs, Speaks(t, fs),
           t.pieces[1].name # EndOfOptions
    PROVE  OptionsFrom(Instantiate(t, to), fs, 2) \subseteq Offered(t, fs, to)
<1>. DEFINE n == Len(t.pieces)
            argv == Instantiate(t, to)
<1>1. n \in Nat \ {0} /\ DOMAIN t.pieces = 1 .. n
  <2>1. n \in Nat /\ DOMAIN t.pieces = 1 .. n /\ (t.pieces = <<>> <=> n = 0)
    BY SeqFacts, EmptyFacts DEF IsTemplate
  <2>. QED
    BY <2>1 DEF IsTemplate
<1>2. PICK f : IsSpelling(f, t, to)
  BY SpellingExists DEF IsTemplate
<1>3. GivenSequences(t, to)
  BY FillingIsGiven
<1>4. /\ \A i \in 1 .. n + 1 : IsSeq(f[i])
      /\ f[1] = argv
  BY <1>2, <1>3, SpellingIsASequence DEF IsTemplate, IsSpelling
<1>5. IsSeq(argv)
  <2>1. 1 \in 1 .. n + 1
    BY <1>1
  <2>. QED
    BY <1>4, <2>1
<1>. HIDE DEF argv
<1>6. PICK g : IsScan(g, argv, fs)
  BY <1>5, ScanExists
<1>7. Len(argv) \in Nat
  BY <1>5, SeqFacts
<1>. DEFINE S == {i \in 1 .. n + 1 : ReadsOffered(t, fs, to, argv, f, g, i)}
<1>8. ASSUME NEW i \in 1 .. n + 1, \A j \in i + 1 .. n + 1 : j \in S PROVE i \in S
  <2>1. CASE i = n + 1
    <3>1. f[i] = <<>>
      BY <1>1, <1>2, <2>1 DEF IsSpelling, SpelledAt
    <3>2. ASSUME NEW k \in Nat, EndsIn(argv, k, f[i]) PROVE g[k + 1] \subseteq Offered(t, fs, to)
      <4>1. k = Len(argv)
        BY <1>7, <3>1, <3>2, EmptyFacts DEF EndsIn
      <4>2. k + 1 \in 1 .. Len(argv) + 2 /\ k + 1 > Len(argv)
        BY <1>7, <4>1
      <4>3. g[k + 1] = OptionsAt(argv, fs, g, k + 1)
        BY <1>6, <4>2, Zenon DEF IsScan
      <4>4. g[k + 1] = {}
        BY <4>2, <4>3, Zenon DEF OptionsAt
      <4>. QED
        BY <4>4
    <3>. QED
      BY <3>2 DEF ReadsOffered
  <2>2. CASE i # n + 1
    <3>1. i \in 1 .. n /\ i + 1 \in i + 1 .. n + 1
      BY <1>1, <2>2
    <3>2. ReadsOffered(t, fs, to, argv, f, g, i + 1)
      BY <1>8, <3>1
    <3>3. ReadsOffered(t, fs, to, argv, f, g, i)
      BY <1>2, <1>5, <1>6, <3>1, <3>2, ReadPiece
    <3>. QED
      BY <3>3
  <2>. QED
    BY <2>1, <2>2
<1>9. 2 \in S
  <2>1. n + 1 \in Nat /\ 2 \in 1 .. n + 1
    BY <1>1
  <2>. HIDE DEF S
  <2>. QED
    BY <1>8, <2>1, Backward
<1>10. OptionsFrom(argv, fs, 2) = g[2]
  <2>1. 2 \in 1 .. Len(argv) + 2
    BY <1>7
  <2>. QED
    BY <1>6, <2>1 DEF IsScan
<1>11. Spells(t, to, 1) = <<t.pieces[1].name>> /\ f[1] = Spells(t, to, 1) \o f[2]
  <2>1. 1 \in 1 .. n + 1 /\ ~(1 > n) /\ ~t.pieces[1].hole
    BY <1>1 DEF IsTemplate
  <2>2. f[1] = SpelledAt(t, to, f, 1)
    BY <1>2, <2>1, Zenon DEF IsSpelling
  <2>. QED
    BY <2>1, <2>2 DEF SpelledAt, Spells
<1>12. EndsIn(argv, 1, f[2])
  <2>. DEFINE h == Spells(t, to, 1)
  <2>1. IsSeq(h) /\ Len(h) = 1
    BY <1>11, ShortFacts
  <2>2. IsSeq(f[2])
    BY <1>1, <1>4
  <2>. HIDE DEF h
  <2>3. EndsIn(argv, 0, h \o f[2])
    <3>1. argv = h \o f[2]
      BY <1>4, <1>11 DEF h
    <3>. QED
      BY <1>5, <1>7, <3>1 DEF EndsIn
  <2>4. EndsIn(argv, 0 + Len(h), f[2])
    BY <2>1, <2>2, <2>3, EndsInTheRest
  <2>. QED
    BY <2>1, <2>4
<1>13. \A j \in 1 .. 2 - 1 : t.pieces[j] # Lit(EndOfOptions)
  BY DEF Lit
<1>. QED
  BY <1>9, <1>10, <1>12, <1>13 DEF ReadsOffered, argv

\* A list that the broker admits names flags of its vocabulary.
LEMMA PresentAreNamed ==
    ASSUME NEW w, NEW fs, ~fs.any, fs.bare \cap DOMAIN fs.valued = {},
           NEW es, IsSeq(es), FlagsShown(w, fs, es)
    PROVE  PresentFlags(fs, es) \subseteq FlagNames(fs)
<1>. DEFINE m == Len(es)
<1>1. PICK r : ShownReading(r, w, fs, es)
  BY FlagsShownRead
<1>2. PICK p : IsPresence(p, fs, es)
  BY PresenceExists
<1>3. r[1] /\ p[1] = PresentFlags(fs, es)
  BY <1>1, <1>2, Zenon DEF ShownReading, IsPresence
<1>4. m \in Nat
  BY SeqFacts
<1>. DEFINE S == {i \in 1 .. m + 2 : r[i] => p[i] \subseteq FlagNames(fs)}
<1>5. ASSUME NEW i \in 1 .. m + 2, \A j \in i + 1 .. m + 2 : j \in S PROVE i \in S
  <2>. SUFFICES ASSUME r[i] PROVE p[i] \subseteq FlagNames(fs)
    OBVIOUS
  <2>1. p[i] = PresentAt(fs, es, p, i)
    BY <1>2, Zenon DEF IsPresence
  <2>2. CASE i = m + 1
    <3>1. i > m
      BY <1>4, <2>2
    <3>2. p[i] = {}
      BY <2>1, <3>1 DEF PresentAt
    <3>. QED
      BY <3>2
  <2>3. CASE i # m + 1
    <3>. DEFINE x == KnownText(es[i])
    <3>1. /\ i \in 1 .. m
          /\ \/ x \in fs.bare /\ r[i + 1]
             \/ x \in DOMAIN fs.valued /\ r[i + 2]
      BY <1>1, <2>3, ShownReadOn
    <3>2. i + 1 \in i + 1 .. m + 2 /\ i + 2 \in i + 1 .. m + 2 /\ ~(i > Len(es))
      BY <1>4, <3>1
    <3>3. p[i] = {x} \cup p[IF x \in fs.bare THEN i + 1 ELSE i + 2]
      BY <2>1, <3>2 DEF PresentAt
    <3>4. x \in FlagNames(fs)
      BY <3>1 DEF FlagNames
    <3>5. (r[i + 1] => p[i + 1] \subseteq FlagNames(fs)) /\ (r[i + 2] => p[i + 2] \subseteq FlagNames(fs))
      BY <1>5, <3>2
    <3>6. x \in DOMAIN fs.valued => x \notin fs.bare
      OBVIOUS
    <3>. HIDE DEF x
    <3>. QED
      BY <3>1, <3>3, <3>4, <3>5, <3>6
  <2>. QED
    BY <2>2, <2>3
<1>6. 1 \in S
  <2>1. m + 2 \in Nat /\ 1 \in 1 .. m + 2
    BY <1>4
  <2>. HIDE DEF S, m
  <2>. QED
    BY <1>5, <2>1, Backward
<1>. QED
  BY <1>3, <1>6

\* Nothing is missing of atoms of which none is missing in some demand.
LEMMA NoneMissing ==
    ASSUME NEW v, NEW voc, NEW R, \A x \in R : \E Q : x \in Q /\ Missing(v, Q, voc) = {}
    PROVE  Missing(v, R, voc) = {}
<1>1. CASE v.read = "nothing"
  BY <1>1 DEF Missing
<1>2. CASE v.read # "nothing"
  <2>1. ASSUME NEW x \in R PROVE x \in v.atoms \/ Shows(v, x, voc)
    BY <1>2, NothingMissing
  <2>2. Missing(v, R, voc) = {b \in R \ v.atoms : ~Shows(v, b, voc)}
    BY <1>2 DEF Missing, Shows
  <2>. QED
    BY <2>1, <2>2
<1>. QED
  BY <1>1, <1>2

\* A spawned command is that of a rule whose holes the analysis found right,
\* filled with strings the broker found right.
FilledWith(w, t, a, c, cwd) ==
    /\ DOMAIN a = DOMAIN t.holes /\ TurnsAll(a, c)
    /\ HolesKnown(w, t, a, cwd)
    /\ \A n \in DOMAIN t.holes : HoleShown(w, t, c, n)
ComposedOf(w, rule, argv, cwd) ==
    /\ Allowed(w) /\ rule \in Resolved(w).programs
    /\ \E a, c : FilledWith(w, rule.template[1], a, c, cwd) /\ argv = Instantiate(rule.template[1], c)
CommandInv ==
    stage = "spawned" /\ command.rule.template # None =>
      \E w \in Written : policy = Resolved(w) /\ ComposedOf(w, command.rule, command.argv, call.cwd)

LEMMA CommandOfTemplate ==
    ASSUME NEW w, NEW name, NEW args, NEW kws, NEW cwd, NEW x,
           x = ExecCommand(Resolved(w), name, args, kws, cwd), x.ok, x.rule.template # None
    PROVE  /\ x.rule \in Selected(Resolved(w), name, args)
           /\ HolesShown(w, x.rule.template[1], Bind(x.rule.template[1], args, kws).to, cwd)
           /\ x.argv = Instantiate(x.rule.template[1], Bind(x.rule.template[1], args, kws).to)
<1>. DEFINE rules == Selected(Resolved(w), name, args)
            rule == CHOOSE q \in rules : TRUE
            words == <<name>> \o Texts(args)
<1>1. x.rule \in rules /\ \E r \in Resolved(w).programs : r.name = name
  <2>1. Ungoverned(name).template = None
    BY DEF Ungoverned
  <2>2. x.rule \in rules
    BY <2>1, RuleOfCommand
  <2>. QED
    BY <2>2 DEF Selected
<1>2. ~(rules = {} \/ ~InOne(cwd, rule.cwd))
  <2>. SUFFICES ASSUME rules = {} \/ ~InOne(cwd, rule.cwd) PROVE FALSE
    OBVIOUS
  <2>1. x = Refused
    BY <1>1, Zenon DEF ExecCommand
  <2>. QED
    BY <2>1 DEF Refused
<1>3. x = IF rule.template = None
          THEN IF DOMAIN kws = {} THEN Command(words, rule) ELSE Refused
          ELSE IF Bind(rule.template[1], args, kws).ok
                  /\ HolesShown(w, rule.template[1], Bind(rule.template[1], args, kws).to, cwd)
               THEN Command(Instantiate(rule.template[1], Bind(rule.template[1], args, kws).to), rule)
               ELSE Refused
  BY <1>1, <1>2, Zenon DEF ExecCommand, HolesShown, Unshown
<1>. HIDE DEF rule, rules
<1>4. x.rule = rule
  BY <1>3 DEF Command, Refused
<1>. QED
  BY <1>1, <1>3, <1>4 DEF Command, Refused, rules
\* What the broker composes for a call that the analysis accepts.
LEMMA ComposedCommand ==
    ASSUME NEW w \in Written, Allowed(w), NEW k \in Calls, k.kind = "exec", ExecAccepted(Resolved(w), k),
           NEW args \in ArgStrings(k.args), NEW kws \in KwStrings(k.kws), NEW cwd \in Strings(k.cwd),
           NEW x, x = ExecCommand(Resolved(w), k.name, args, kws, cwd), x.ok, x.rule.template # None
    PROVE  ComposedOf(w, x.rule, x.argv, k.cwd)
<1>. DEFINE r == x.rule
            t == r.template[1]
            a == Bind(t, k.args, k.kws)
            b == Bind(t, args, kws)
<1>1. /\ r \in Selected(Resolved(w), k.name, args)
      /\ HolesShown(w, t, b.to, cwd)
      /\ x.argv = Instantiate(t, b.to)
  BY CommandOfTemplate
<1>2. IsSeq(k.args) /\ Strung(k.args, args) /\ TurnsAll(k.kws, kws)
  <2>1. IsSeq(k.args) /\ \A n \in DOMAIN k.kws : IsBinding(k.kws[n])
    BY CasesAssumption DEF Calls
  <2>. QED
    BY <2>1, ArgumentsStrung, KeywordsTurn
<1>. HIDE DEF b, a, t
<1>3. \E d \in Resolved(w).programs : d.name = k.name
  BY <1>1 DEF Selected
<1>4. PICK q \in Selected(Resolved(w), k.name, k.args) :
        q.template # None =>
          /\ Bind(q.template[1], k.args, k.kws).ok
          /\ HolesKnown(w, q.template[1], Bind(q.template[1], k.args, k.kws).to, k.cwd)
  BY <1>3, AcceptedExec
<1>5. q = r
  <2>1. q \in Selected(Resolved(w), k.name, args)
    BY <1>2, StringsSelect
  <2>. QED
    BY <1>1, <2>1, OneRuleOfCommand
<1>6. a.ok /\ HolesKnown(w, t, a.to, k.cwd)
  BY <1>4, <1>5 DEF a, t
<1>7. r \in Resolved(w).programs /\ MatchesLeading(Tail(RuleWords(r)), k.args) /\ r.template # None
  BY <1>4, <1>5 DEF Selected
<1>. HIDE DEF r
<1>8. Len(LeadingWords(t)) <= Len(k.args) + 1
  <2>1. IsSeq(RuleWords(r)) /\ RuleWords(r) = LeadingWords(t) /\ Len(LeadingWords(t)) \in Nat \ {0}
    BY <1>7, TemplateFacts DEF t
  <2>2. RuleWords(r) # <<>> /\ Len(k.args) \in Nat
    BY <1>2, <2>1, EmptyFacts, SeqFacts
  <2>3. Len(Tail(RuleWords(r))) = Len(RuleWords(r)) - 1
    BY <2>1, <2>2, TailFacts
  <2>. QED
    BY <1>7, <2>1, <2>2, <2>3 DEF MatchesLeading
<1>9. TurnsAll(a.to, b.to) /\ DOMAIN a.to = DOMAIN t.holes
  <2>1. t = r.template[1] /\ a = Bind(t, k.args, k.kws) /\ b = Bind(t, args, kws)
    BY DEF t, a, b
  <2>. QED
    BY <1>2, <1>6, <1>7, <1>8, BoundTurns DEF a, b, t
<1>10. FilledWith(w, t, a.to, b.to, k.cwd)
  <2>1. \A n \in DOMAIN t.holes : HoleShown(w, t, b.to, n)
    BY <1>1, HolesRead
  <2>. QED
    BY <1>6, <1>9, <2>1 DEF FilledWith
<1>. QED
  BY <1>1, <1>7, <1>10 DEF ComposedOf, r, t

LEMMA CommandNext ==
    ASSUME PolicyLoaded, HopInv, CallInv, CommandInv, [Next]_vars
    PROVE  CommandInv'
<1>1. CASE Exec
  <2>1. PICK args \in ArgStrings(call.args), kws \in KwStrings(call.kws), cwd \in Strings(call.cwd) :
          command' = ExecCommand(policy, call.name, args, kws, cwd)
    BY <1>1 DEF Exec
  <2>2. /\ call.kind = "exec" /\ stage = "accepted" /\ policy' = policy /\ call' = call
        /\ stage' = IF command'.ok THEN "spawned" ELSE "refused"
    BY <1>1 DEF Exec
  <2>3. PICK w \in Written : Allowed(w) /\ policy = Resolved(w)
    BY <2>2 DEF PolicyLoaded
  <2>4. call \in Calls /\ ExecAccepted(Resolved(w), call)
    BY <2>2, <2>3 DEF CallInv, Accepted
  <2>5. ASSUME command'.ok, command'.rule.template # None
        PROVE  ComposedOf(w, command'.rule, command'.argv, call.cwd)
    BY <2>1, <2>2, <2>3, <2>4, <2>5, ComposedCommand
  <2>. QED
    BY <2>2, <2>3, <2>5 DEF CommandInv
<1>2. CASE UNCHANGED vars
  BY <1>2 DEF CommandInv, vars
<1>3. CASE Load \/ Decide \/ Check \/ Request \/ Hop \/ Answer \/ Redirect
  <2>1. stage' # "spawned"
    BY <1>3 DEF Load, Decide, Check, Request, Hop, Answer, Redirect
  <2>. QED
    BY <2>1 DEF CommandInv
<1>. QED
  BY <1>1, <1>2, <1>3 DEF Next

\* The strings in the holes are what the broker was handed.
LEMMA FilledIsFilling ==
    ASSUME NEW w, NEW t, NEW a, NEW c, NEW cwd, FilledWith(w, t, a, c, cwd)
    PROVE  Filling(w, t, c)
<1>1. ASSUME NEW n \in DOMAIN t.holes
      PROVE  IsSeq(c[n].es) /\ \A i \in DOMAIN c[n].es : IsString(c[n].es[i])
  <2>1. Turns(a[n], c[n])
    BY DEF FilledWith, TurnsAll
  <2>2. IsSeq(c[n].es)
    BY <2>1 DEF Turns, Strung
  <2>3. ASSUME NEW i \in DOMAIN c[n].es PROVE IsString(c[n].es[i])
    <3>1. PICK j \in DOMAIN a[n].es : c[n].es[i] \in Strings(a[n].es[j])
      BY <2>1, TurnsOf
    <3>. QED
      BY <3>1, StringFacts DEF IsString
  <2>. QED
    BY <2>2, <2>3
<1>. QED
  BY <1>1 DEF FilledWith, Filling

\* What the flags that the tool reads demand of the cwd, the analysis found.
LEMMA DemandsCarried ==
    ASSUME NEW w \in Written, NEW t, IsTemplate(t), NEW a, NEW c, NEW cwd, FilledWith(w, t, a, c, cwd),
           NEW fs, Speaks(t, fs),
           NEW options, options \subseteq UNION {PresentFlags(fs, c[n].es) : n \in FlagsHoles(t)}
    PROVE  /\ options \subseteq FlagNames(fs)
           /\ Missing(cwd, DemandsOf(fs, options, Cwd), Vocabulary(Resolved(w))) = {}
<1>1. ASSUME NEW n \in FlagsHoles(t)
      PROVE  /\ PresentFlags(fs, c[n].es) \subseteq FlagNames(fs)
             /\ Lacking(w, cwd, DemandsOf(fs, PresentFlags(fs, c[n].es), Cwd)) = {}
  <2>1. /\ n \in DOMAIN t.holes /\ t.holes[n].kind = "flags" /\ t.holes[n].fs = fs /\ ~fs.any
        /\ FlagsetOk(fs)
    BY DEF FlagsHoles, Speaks, IsTemplate
  <2>2. fs.bare \cap DOMAIN fs.valued = {}
    BY <2>1 DEF FlagsetOk
  <2>3. /\ HoleKnown(w, t, a, n) /\ HoleShown(w, t, c, n) /\ DemandsKnown(w, t, a, cwd)
        /\ Turns(a[n], c[n])
    BY <2>1, HolesRead DEF FilledWith, TurnsAll
  <2>4. /\ a[n].kind = "many" /\ FlagsKnown(w, fs, a[n].es) /\ FlagsShown(w, fs, c[n].es)
    BY <2>1, <2>3, HoleRead
  <2>5. Strung(a[n].es, c[n].es) /\ IsSeq(c[n].es)
    BY <2>3, <2>4 DEF Turns, Strung
  <2>6. PresentFlags(fs, c[n].es) = PresentFlags(fs, a[n].es)
    BY <2>1, <2>2, <2>4, <2>5, PresentFlagsAgree
  <2>7. Lacking(w, cwd, DemandsOf(t.holes[n].fs, PresentFlags(t.holes[n].fs, a[n].es), Cwd)) = {}
    BY <2>1, <2>3, DemandsRead
  <2>8. PresentFlags(fs, c[n].es) \subseteq FlagNames(fs)
    BY <2>1, <2>2, <2>4, <2>5, PresentAreNamed
  <2>. QED
    BY <2>1, <2>6, <2>7, <2>8
<1>2. options \subseteq FlagNames(fs)
  BY <1>1
<1>3. ASSUME NEW x \in DemandsOf(fs, options, Cwd)
      PROVE  \E Q : x \in Q /\ Missing(cwd, Q, Vocabulary(Resolved(w))) = {}
  <2>1. PICK f \in options : f \in DOMAIN fs.requires /\ Cwd \in DOMAIN fs.requires[f] /\ x \in fs.requires[f][Cwd]
    BY DEF DemandsOf
  <2>2. PICK n \in FlagsHoles(t) : f \in PresentFlags(fs, c[n].es)
    BY <2>1
  <2>3. x \in DemandsOf(fs, PresentFlags(fs, c[n].es), Cwd)
    BY <2>1, <2>2 DEF DemandsOf
  <2>4. Missing(cwd, DemandsOf(fs, PresentFlags(fs, c[n].es), Cwd), Vocabulary(Resolved(w))) = {}
    BY <1>1, <2>2 DEF Lacking
  <2>. QED
    BY <2>3, <2>4
<1>4. Missing(cwd, DemandsOf(fs, options, Cwd), Vocabulary(Resolved(w))) = {}
  <2>. DEFINE R == DemandsOf(fs, options, Cwd)
              voc == Vocabulary(Resolved(w))
  <2>1. \A x \in R : \E Q : x \in Q /\ Missing(cwd, Q, voc) = {}
    BY <1>3
  <2>. HIDE DEF R, voc
  <2>2. Missing(cwd, R, voc) = {}
    BY <2>1, NoneMissing
  <2>. QED
    BY <2>2 DEF R, voc
<1>. QED
  BY <1>2, <1>4

\* The template reads one vocabulary, and its own words are none of its flags;
\* no program is named "--".
OneVocabulary(t) == \A m, n \in FlagsHoles(t) : t.holes[m].fs = t.holes[n].fs
PlainWords(t) ==
    /\ t.pieces[1].name # EndOfOptions
    /\ \A n \in FlagsHoles(t) : OwnWords(t) \cap FlagNames(t.holes[n].fs) = {}
TellsOptionsApart ==
    stage = "spawned" /\ command.rule.template # None =>
      OneVocabulary(command.rule.template[1]) /\ PlainWords(command.rule.template[1])

\* No value of a token or each hole is taken for a flag, and no flag takes
\* another hole's token for its value: what the tool reads as an option, past
\* the words of the template, is what a flags hole admitted as one, with the
\* demands on the cwd that the analysis found met (templates.py: hole_failures
\* and the leading-dash guard).  It is told of templates that read one
\* vocabulary, of which their own words are no part.
THEOREM AdmittedOptions == Spec => [](TellsOptionsApart => OptionsAreAdmitted)
<1>1. Init => CommandInv
  BY DEF Init, CommandInv
<1>2. CommandInv /\ TellsOptionsApart => OptionsAreAdmitted
  <2>. SUFFICES ASSUME CommandInv, TellsOptionsApart, stage = "spawned", command.rule.template # None
                PROVE  OptionsAreAdmitted
    BY DEF OptionsAreAdmitted
  <2>. DEFINE rule == command.rule
              t == rule.template[1]
              vocabularies == {t.holes[n].fs : n \in {m \in DOMAIN t.holes : t.holes[m].kind = "flags"}}
              nobody == [AnyFlag EXCEPT !.any = FALSE]
              fs == IF vocabularies = {} THEN nobody ELSE CHOOSE f \in vocabularies : TRUE
              options == OptionsFrom(command.argv, fs, 2) \ OwnWords(t)
  <2>1. PICK w \in Written : policy = Resolved(w) /\ ComposedOf(w, rule, command.argv, call.cwd)
    BY DEF CommandInv
  <2>2. PICK a, c : FilledWith(w, t, a, c, call.cwd) /\ command.argv = Instantiate(t, c)
    BY <2>1 DEF ComposedOf
  <2>3. IsTemplate(t)
    <3>1. Allowed(w) /\ rule \in Resolved(w).programs /\ rule.template # None
      BY <2>1 DEF ComposedOf
    <3>. QED
      BY <3>1, TemplateFacts DEF IsTemplate
  <2>4. OneVocabulary(t) /\ PlainWords(t)
    BY DEF TellsOptionsApart
  <2>5. vocabularies = {t.holes[n].fs : n \in FlagsHoles(t)}
    BY DEF FlagsHoles
  <2>. HIDE DEF t, rule
  <2>6. fs.any \/ Speaks(t, fs)
    <3>1. CASE FlagsHoles(t) = {}
      <4>1. fs = nobody
        BY <2>5, <3>1
      <4>2. ~nobody.any /\ FlagNames(nobody) = {}
        BY DEF AnyFlag, FlagNames
      <4>. QED
        BY <3>1, <4>1, <4>2 DEF Speaks
    <3>2. CASE FlagsHoles(t) # {}
      <4>1. PICK n \in FlagsHoles(t) : fs = t.holes[n].fs
        <5>1. vocabularies # {}
          BY <2>5, <3>2
        <5>2. fs \in vocabularies
          BY <5>1
        <5>. HIDE DEF fs
        <5>. QED
          BY <2>5, <5>2
      <4>2. \A m \in FlagsHoles(t) : t.holes[m].fs = fs
        BY <2>4, <4>1 DEF OneVocabulary
      <4>3. OwnWords(t) \cap FlagNames(fs) = {}
        BY <2>4, <4>1 DEF PlainWords
      <4>. HIDE DEF fs
      <4>. QED
        BY <4>2, <4>3 DEF Speaks
    <3>. QED
      BY <3>1, <3>2
  <2>. HIDE DEF fs
  <2>7. ASSUME Speaks(t, fs)
        PROVE  /\ options \subseteq FlagNames(fs)
               /\ Missing(call.cwd, DemandsOf(fs, options, Cwd), Vocabulary(policy)) = {}
    <3>1. Filling(w, t, c)
      BY <2>2, FilledIsFilling
    <3>2. t.pieces[1].name # EndOfOptions
      BY <2>4 DEF PlainWords
    <3>3. OptionsFrom(Instantiate(t, c), fs, 2) \subseteq Offered(t, fs, c)
      BY <2>3, <2>7, <3>1, <3>2, OptionsOffered
    <3>4. options \subseteq UNION {PresentFlags(fs, c[n].es) : n \in FlagsHoles(t)}
      BY <2>2, <3>3 DEF Offered
    <3>. HIDE DEF options
    <3>. QED
      BY <2>1, <2>2, <2>3, <2>7, <3>4, DemandsCarried
  <2>8. fs.any \/ /\ options \subseteq FlagNames(fs)
                  /\ Missing(call.cwd, DemandsOf(fs, options, Cwd), Vocabulary(policy)) = {}
    BY <2>6, <2>7
  <2>. QED
    BY <2>8, Zenon DEF OptionsAreAdmitted, fs, t, rule
<1>3. CommandInv /\ PolicyLoaded /\ HopInv /\ CallInv /\ [Next]_vars => CommandInv'
  BY CommandNext
<1>. QED
  BY <1>1, <1>2, <1>3, RunInvariant, PTL DEF Spec
=============================================================================

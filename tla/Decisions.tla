----------------------------- MODULE Decisions -----------------------------
(****************************************************************************)
(* One policy and one call, from the document to the spawned command or the *)
(* last answered request: Policy.allow loads the policy, the static check   *)
(* decides the site over what the analysis knows of its values, the program *)
(* runs with any strings those values allow, and the broker re-checks them, *)
(* spawns the command or the checker, sends the request and follows its     *)
(* redirects (src/certorail/policy.py, and the request loop and the checks  *)
(* of src/certorail/broker.py).                                             *)
(****************************************************************************)
EXTENDS Policy

CONSTANTS
    Cases,          \* families of policies as written, and the calls each decides
    NonPublic,      \* the hosts that resolve to a non-public address
    MaxRedirects    \* the redirects the broker follows

\* What a keyword may be given.
IsBinding(b) ==
    \/ b.kind = "one" /\ b = One(b.es[1])
    \/ b.kind = "elements" /\ b = Elements(b.es[1])
    \/ b.kind = "many" /\ b = Many(b.es) /\ IsSeq(b.es)

\* The policies are what a document may say, and Defined and Verdict give the
\* meaning of every atom one of them defines or can check on a literal.  A
\* call passes its arguments in order, and what is read as a URL has its parts.
ASSUME CasesAssumption ==
    \A x \in Cases :
      /\ \A p \in x.policies :
           /\ IsPolicy(p)
           /\ DefinedAtoms(p) \subseteq DOMAIN Defined
           /\ Checkable(p) \ DefinedAtoms(p) \subseteq DOMAIN Verdict \ DOMAIN Defined
      /\ \A c \in x.calls :
           /\ c.kind = "exec" => IsSeq(c.args) /\ \A n \in DOMAIN c.kws : IsBinding(c.kws[n])
           /\ c.kind = "check" => IsSeq(c.cwd)
           /\ c.kind = "request" /\ c.url.read # "nothing" => c.url.texts \subseteq DOMAIN Parts

VARIABLES
    policy,         \* the policy, as written and then as loaded
    call,           \* the call site, and what is known of its values
    stage,          \* how far the call has come
    command,        \* the exec the broker composed
    current,        \* the request the broker is about to make or has made
    sent            \* every request it sent, in order

vars == <<policy, call, stage, command, current, sent>>

Urls == DOMAIN Parts
Methods == {"GET", "POST"}
NoRequest == [url |-> "", method |-> "GET"]

\* What the strings of a value or of a binding may be; a container may hold
\* any number of elements, here none to two.
Strings(v) == {Str(t) : t \in Instances(v)}
Displays(b) ==
    CASE b.kind = "one" -> {One(v) : v \in Strings(b.es[1])}
      [] b.kind = "many" ->
           {Many(es) : es \in {s \in [DOMAIN b.es -> UNION {Strings(b.es[i]) : i \in DOMAIN b.es}] :
                                 \A i \in DOMAIN s : s[i] \in Strings(b.es[i])}}
      [] OTHER -> {Many(es) : es \in UNION {[1 .. n -> Strings(b.es[1])] : n \in 0 .. 2}}
ArgStrings(args) ==
    {s \in [DOMAIN args -> UNION {Strings(args[i]) : i \in DOMAIN args}] :
       \A i \in DOMAIN s : s[i] \in Strings(args[i])}
KwStrings(kws) ==
    {s \in [DOMAIN kws -> UNION {Displays(kws[n]) : n \in DOMAIN kws}] :
       \A n \in DOMAIN s : s[n] \in Displays(kws[n])}

-----------------------------------------------------------------------------

Init == /\ \E x \in Cases : policy \in x.policies /\ call \in x.calls
        /\ stage = "written" /\ command = Refused
        /\ current = NoRequest /\ sent = <<>>

\* Policy.allow: a policy that is not refused is returned resolved.
Load == /\ stage = "written"
        /\ IF Allowed(policy) THEN policy' = Resolved(policy) /\ stage' = "loaded"
                              ELSE stage' = "not a policy" /\ UNCHANGED policy
        /\ UNCHANGED <<call, command, current, sent>>

Accepted == CASE call.kind = "exec" -> ExecAccepted(policy, call)
              [] call.kind = "check" -> CheckAccepted(policy, call)
              [] OTHER -> RequestAccepted(policy, call)

Decide == /\ stage = "loaded"
          /\ stage' = IF Accepted THEN "accepted" ELSE "denied"
          /\ UNCHANGED <<policy, call, command, current, sent>>

\* The broker composes and spawns a command, or refuses the strings.
Exec == /\ stage = "accepted" /\ call.kind = "exec"
        /\ \E args \in ArgStrings(call.args) : \E kws \in KwStrings(call.kws) :
             \E cwd \in Strings(call.cwd) :
               command' = ExecCommand(policy, call.name, args, kws, cwd)
        /\ stage' = IF command'.ok THEN "spawned" ELSE "refused"
        /\ UNCHANGED <<policy, call, current, sent>>

\* A check of either form, run under its declaration; its cwd may be omitted.
Check == /\ stage = "accepted" /\ call.kind = "check"
         /\ \E given \in ArgStrings(call.args) : \E cwd \in ArgStrings(call.cwd) :
              command' = RunCheck(policy, call, given, cwd)
         /\ stage' = IF command'.ok THEN "checked" ELSE "refused"
         /\ UNCHANGED <<policy, call, current, sent>>

Request == /\ stage = "accepted" /\ call.kind = "request"
           /\ \E t \in Instances(call.url) : current' = [url |-> t, method |-> call.method]
           /\ stage' = "asking"
           /\ UNCHANGED <<policy, call, command, sent>>

Origin(t) == <<Parts[t].scheme, Parts[t].host, PortOf(Parts[t])>>
\* Mutant: credentials follow from one hop to the next.
PreviousOrigin == IF sent = <<>> THEN Origin(current.url) ELSE Origin(sent[Len(sent)].url)
FirstOrigin == IF sent = <<>> THEN Origin(current.url) ELSE Origin(sent[1].url)

\* One hop: the rule that admits it is found anew, the address screened, and
\* the credentials kept for the first origin alone.
Hop ==
    /\ stage = "asking"
    /\ LET rules == Admitting(policy, current.method, current.url, sent = <<>>)
           rule == CHOOSE r \in rules : TRUE
       IN IF rules = {} THEN stage' = "refused" /\ UNCHANGED sent
          ELSE IF ~rule.allowNonpublic /\ Parts[current.url].host \in NonPublic
          THEN stage' = "screened" /\ UNCHANGED sent
          ELSE /\ stage' = "sent"
               /\ sent' = Append(sent, [url |-> current.url, method |-> current.method,
                                        rule |-> rule,
                                        credentials |-> Origin(current.url) = FirstOrigin])
    /\ UNCHANGED <<policy, call, command, current>>

Answer == /\ stage = "sent"
          /\ stage' = "answered"
          /\ UNCHANGED <<policy, call, command, current, sent>>

\* A redirect: a See Other, and a moved request that was not a read, turn
\* into a GET; a kept one (307, 308) does not.
Redirect ==
    /\ stage = "sent"
    /\ \E t \in Urls : \E status \in {"moved", "see other", "kept"} :
         /\ current' = [url |-> t,
                        method |-> IF \/ status = "see other"
                                      \/ status = "moved" /\ current.method # "GET"
                                   THEN "GET" ELSE current.method]
         /\ stage' = IF Len(sent) > MaxRedirects THEN "too many redirects" ELSE "asking"
    /\ UNCHANGED <<policy, call, command, sent>>

Next == Load \/ Decide \/ Exec \/ Check \/ Request \/ Hop \/ Answer \/ Redirect

Spec == Init /\ [][Next]_vars

-----------------------------------------------------------------------------
(* Properties.                                                              *)

\* A typed container for a hole that asks for some elements: how many it
\* holds is left to the broker (templates.py: hole_failures).
MayFallShort ==
    /\ call.kind = "exec"
    /\ \E r \in Selected(policy, call.name, call.args) :
         /\ r.template # None
         /\ \E n \in DOMAIN call.kws \cap DOMAIN r.template[1].holes :
              /\ call.kws[n].kind = "elements"
              /\ r.template[1].holes[n].kind = "each" /\ r.template[1].holes[n].min > 0

\* What the static check accepts, the broker does not refuse: whatever the
\* strings turn out to be, the re-check of an exec or of a check, and of the
\* request the program named, finds the rule the analysis proved and the same
\* bindings; only a container may fall short of its hole's minimum
\* (policy.py: exec_command and _evaluate; broker.py: _check).
AcceptedCallsRun == stage = "refused" => Len(sent) > 0 \/ MayFallShort

\* The options a tool reads in argv from position i on: up to "--", a token
\* beginning with "-" that is not the value of the option before it.
OptionsFrom(argv, fs, first) ==
    LET from[i \in 1 .. Len(argv) + 2] ==
          IF i > Len(argv) \/ argv[i] = EndOfOptions THEN {}
          ELSE IF argv[i] \notin Dashed THEN from[i + 1]
          ELSE {argv[i]} \cup from[IF argv[i] \in DOMAIN fs.valued THEN i + 2 ELSE i + 1]
    IN from[first]

\* The words a template spells itself.
OwnWords(t) == {t.pieces[i].name : i \in {j \in DOMAIN t.pieces : ~t.pieces[j].hole}}

\* After the program's name the tool reads as an option only what a flags hole
\* admitted as one or the template spells itself, and an option that demands
\* atoms of the cwd finds them there: no value of a token or each hole, however
\* it got there, is taken for a flag, and no flag takes another hole's token for
\* its value (templates.py: the leading-dash guard).
OptionsAreAdmitted ==
    stage = "spawned" /\ command.rule.template # None =>
      LET t == command.rule.template[1]
          vocabularies == {t.holes[n].fs : n \in {m \in DOMAIN t.holes : t.holes[m].kind = "flags"}}
          nobody == [AnyFlag EXCEPT !.any = FALSE]
          fs == IF vocabularies = {} THEN nobody ELSE CHOOSE f \in vocabularies : TRUE
          options == OptionsFrom(command.argv, fs, 2) \ OwnWords(t)
      IN fs.any \/ /\ options \subseteq FlagNames(fs)
                   /\ Missing(call.cwd, DemandsOf(fs, options, Cwd), Vocabulary(policy)) = {}

\* In a policy that loads, no request and no words are governed by two rules:
\* the refusals of Policy.allow (prefixes, overlapping hosts, ports, methods
\* and paths) leave no pair of rules one call could match.
OneRuleGoverns ==
    stage \notin {"written", "not a policy"} =>
      /\ \A t \in Urls : \A m \in Methods :
           Cardinality({r \in Candidates(policy, [method |-> m], Parts[t]) :
                          PathPermitted(r, {Parts[t].path} \ Unplaced)}) <= 1
      /\ call.kind = "exec" =>
           \A args \in ArgStrings(call.args) :
             Cardinality(Selected(policy, call.name, args)) <= 1

\* What f may falsify, e is taken to falsify.
Covers(e, f) == \A a \in Environmental(policy) : Kills(policy, f, a) => Kills(policy, e, a)

\* Every fact about the world that a call may falsify is one the analysis
\* drops: what it takes the call to write kills each atom that the rule the
\* call runs under may falsify; and the source it tags the result with is
\* that rule's (enforcement.py: _exec_writes, _exec_sources, _network_writes).
RuleForeseen ==
    /\ stage = "spawned" =>
         /\ Covers(ExecWrites(policy, call), WriteSet(command.rule))
         /\ \A s \in ExecSources(policy, call) : command.rule.source = Some(s)
    /\ Len(sent) > 0 =>
         /\ Covers(NetworkWrites(policy, call), RequestWrites(sent[1].rule))
         /\ \A s \in NetworkSources(policy, call) : sent[1].rule.source = Some(s)

\* Every hop is held to a rule as if it had been named: its URL shows every
\* atom that rule requires and does not waive, and the credentials reach no
\* origin but the first (broker.py: _rule_refusal and _execute).
HopsReauthorized ==
    \A i \in DOMAIN sent :
      LET h == sent[i]
      IN /\ i > 1 => \A a \in DOMAIN h.rule.requires :
             \/ h.rule.requires[a] = "waive"
             \/ a \in DOMAIN Meaning /\ h.url \in Meaning[a]
         /\ HostMatches(h.rule.host, Parts[h.url].host)
         /\ h.credentials => Origin(h.url) = Origin(sent[1].url)
         /\ ~h.rule.allowNonpublic => Parts[h.url].host \notin NonPublic

\* As the comment of kill_of says of a request, it writes what the rule it
\* falls under writes: the kill covers every rule a request of the call was
\* sent under, hops included (enforcement.py:770).
EveryEffectForeseen ==
    \A i \in DOMAIN sent : Covers(NetworkWrites(policy, call), RequestWrites(sent[i].rule))
=============================================================================

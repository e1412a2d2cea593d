------------------------------- MODULE Install -------------------------------
(***************************************************************************)
(* The configuration directory and the processes that work on it: the      *)
(* tools that install packs and policies and edit or extend a policy       *)
(* (control/install.py, control/apply.py), and the runs that find the      *)
(* policy that governs them, load it with every ruleset it applies and     *)
(* execute the checkers it names (policydir.py, policyfile.py,             *)
(* integrity.py).  Nothing locks the directory: every read and every       *)
(* os.replace is a step of its own, and any process may be killed.         *)
(*                                                                         *)
(* A checker is its bytes, which stand for their digest too; a document is *)
(* the checks it runs, the rulesets it applies and, for a policy, the root *)
(* it governs.  Bindings, notes and the other contents of a document are   *)
(* left out, and so is what else may keep a document from loading.  Names  *)
(* are numbers in the order in which they sort.                            *)
(***************************************************************************)
EXTENDS Naturals, Sequences

CONSTANTS
    Tools, Runs,    \* processes that change the directory, and those that read it
    Bytes,          \* contents of checkers
    Checkers,       \* names in checkers/
    Rulesets,       \* names in rulesets/
    BaseRuleset,    \* base.toml
    Roots,          \* directories a policy may govern
    Munge,          \* the bucket of a root, munge()
    Above,          \* a root and its ancestors, nearest first
    Names,          \* file names of policies
    Packs,          \* the packs somebody may install
    Policies,       \* the policies somebody may write
    Tree0,          \* the directory to begin with
    MaxJobs,        \* bound: how many jobs are started
    None

Procs == Tools \union Runs
Targets == {Munge[r] : r \in Roots} \X Names

Checks == [checker : Checkers, pin : Bytes \union {None}]
RulesetDocs == [checks : Seq(Checks), apply : Seq(Rulesets)]
PolicyDocs == [checks : Seq(Checks), apply : Seq(Rulesets), root : Roots, base : BOOLEAN]
Trees == [checkers : [Checkers -> Bytes \union {None}],
          rulesets : [Rulesets -> RulesetDocs \union {None}],
          policies : [Targets -> PolicyDocs \union {None}]]

\* The checkers a document needs.
Needs(doc) == {doc.checks[k].checker : k \in DOMAIN doc.checks}
Applies(doc) == {doc.apply[k] : k \in DOMAIN doc.apply}

\* Every installed document finds the checkers it names.
Closed(t) ==
    /\ \A r \in Rulesets : t.rulesets[r] # None =>
           \A c \in Needs(t.rulesets[r]) : t.checkers[c] # None
    /\ \A f \in Targets : t.policies[f] # None =>
           \A c \in Needs(t.policies[f]) : t.checkers[c] # None

\* find_policy: a file claims a prefix when it lies in its bucket and names it as its root.
Claims(t, f, prefix) ==
    /\ f[1] = Munge[prefix]
    /\ t.policies[f] # None
    /\ t.policies[f].root = prefix

\* At most one policy claims a root.
Unambiguous(t) ==
    \A root \in Roots, f, g \in Targets : Claims(t, f, root) /\ Claims(t, g, root) => f = g

ASSUME NamesAreOrdered == Checkers \subseteq Nat /\ Rulesets \subseteq Nat
ASSUME ConfigIsTyped ==
    /\ BaseRuleset \in Rulesets
    /\ \A r \in Roots : Above[r] \in Seq(Roots) /\ Above[r] # <<>>
    /\ MaxJobs \in Nat
    /\ Policies \subseteq PolicyDocs
    /\ None \notin Bytes
    /\ Tools \intersect Runs = {}
ASSUME PacksAreTyped ==
    \A pack \in Packs :
        /\ DOMAIN pack.checkers \subseteq Checkers
        /\ \A c \in DOMAIN pack.checkers : pack.checkers[c] \in Bytes
        /\ DOMAIN pack.rulesets \subseteq Rulesets
        /\ \A r \in DOMAIN pack.rulesets : pack.rulesets[r] \in RulesetDocs
ASSUME NoneIsNoDocument == None \notin RulesetDocs /\ None \notin PolicyDocs
ASSUME TreeIsSound == Tree0 \in Trees /\ Closed(Tree0) /\ Unambiguous(Tree0)

VARIABLES
    tree,       \* the directory
    pc,         \* what a process is about to do
    task,       \* its command: what it installs, edits, applies or runs
    load,       \* how far from_data has got
    todo,       \* the placements _place has left
    ran,        \* what evaluators were executed
    jobs,       \* how many jobs were started
    turns,      \* history: no two tools were at work at once so far
    calm,       \* history: nor was any asked to replace what it installs over
    ousted      \* history: the roots whose policy was replaced by one for another root

history == <<turns, calm, ousted>>
procVars == <<pc, task, load, todo>>
vars == <<tree, procVars, ran, jobs, history>>

Evaluators == [checker : Checkers, pin : Bytes \union {None}, bytes : Bytes]

\* todo: one Placement each.
Placements ==
    [at : {"checkers"}, name : Checkers, data : Bytes] \union
    [at : {"rulesets"}, name : Rulesets, data : RulesetDocs] \union
    [at : {"policies"}, name : Targets, data : PolicyDocs]

NoTask == [kind |-> "none"]
NoLoad == [pending |-> <<>>, seen |-> {}, checks |-> <<>>, evaluators |-> {}]

TypeOK ==
    /\ tree \in Trees
    /\ pc \in [Procs -> {"idle", "survey", "found", "editing", "loading", "claims",
                         "repin", "conflicts", "placing", "running"}]
    /\ \A p \in Procs :
         /\ task[p].kind \in {"none", "pack", "policy", "edit", "apply", "run"}
         /\ load[p].pending \in Seq([name : Rulesets, chain : SUBSET Rulesets])
         /\ load[p].seen \subseteq Rulesets \X RulesetDocs
         /\ load[p].checks \in Seq(Checks)
         /\ load[p].evaluators \subseteq Evaluators
         /\ todo[p] \subseteq Placements
    /\ ran \subseteq Evaluators
    /\ jobs \in 0..MaxJobs
    /\ turns \in BOOLEAN /\ calm \in BOOLEAN
    /\ ousted \subseteq Roots

Init ==
    /\ tree = Tree0
    /\ pc = [p \in Procs |-> "idle"]
    /\ task = [p \in Procs |-> NoTask]
    /\ load = [p \in Procs |-> NoLoad]
    /\ todo = [p \in Procs |-> {}]
    /\ ran = {}
    /\ jobs = 0
    /\ turns = TRUE
    /\ calm = TRUE
    /\ ousted = {}

-----------------------------------------------------------------------------
(* What is in the tree.                                                     *)

\* Placement.settled: the target is already exactly this.
Settled(n) == tree[n.at][n.name] = n.data

\* The files that claim a prefix, in its bucket.
Claimants(prefix) == {f \in Targets : Claims(tree, f, prefix)}

\* find_policy: the nearest prefix anybody claims; the place of the last if nobody does.
Prefix(root) ==
    LET above == Above[root]
        claimed == {k \in DOMAIN above : Claimants(above[k]) # {}}
    IN  IF claimed = {} THEN above[Len(above)]
        ELSE above[CHOOSE k \in claimed : \A l \in claimed : k <= l]

\* _DEFAULT_DOC, as it looks from here.
DefaultDoc(root) == [checks |-> <<>>, apply |-> <<>>, root |-> root, base |-> TRUE]

\* load_pack: what is wrong with a pack, given what is installed.
PackNeeds(pack) == UNION {Needs(pack.rulesets[r]) : r \in DOMAIN pack.rulesets}
PackIsSound(pack) ==
    /\ DOMAIN pack.rulesets # {}
    /\ DOMAIN pack.checkers \subseteq PackNeeds(pack)
    /\ \A c \in PackNeeds(pack) : c \in DOMAIN pack.checkers \/ tree.checkers[c] # None
    /\ \A r \in DOMAIN pack.rulesets : LET doc == pack.rulesets[r] IN
         /\ \A a \in Applies(doc) : a \in DOMAIN pack.rulesets \/ tree.rulesets[a] # None
         /\ \A k \in DOMAIN doc.checks : LET c == doc.checks[k] IN
              c.pin # None =>
                c.pin = IF c.checker \in DOMAIN pack.checkers
                          THEN pack.checkers[c.checker] ELSE tree.checkers[c.checker]

PackPlacements(pack) ==
    {[at |-> "checkers", name |-> c, data |-> pack.checkers[c]] : c \in DOMAIN pack.checkers}
    \union
    {[at |-> "rulesets", name |-> r, data |-> pack.rulesets[r]] : r \in DOMAIN pack.rulesets}

\* Mutant of Precedes: rulesets come before checkers.
RulesetsFirst(m, n) ==
    IF m.at = n.at THEN m.name < n.name ELSE m.at = "rulesets"

\* install_pack: checkers come before rulesets, and each kind in sorted order.
Precedes(m, n) ==
    IF m.at = n.at THEN m.name < n.name ELSE m.at = "checkers"

-----------------------------------------------------------------------------
(* Starting and ending.                                                     *)

Become(p, label) == pc' = [pc EXCEPT ![p] = label]

\* A process is done, refuses or is killed; what it has written stays.
Leave(p) ==
    /\ Become(p, "idle")
    /\ task' = [task EXCEPT ![p] = NoTask]
    /\ load' = [load EXCEPT ![p] = NoLoad]
    /\ todo' = [todo EXCEPT ![p] = {}]

StartJob(p, label, job) ==
    /\ pc[p] = "idle"
    /\ jobs < MaxJobs
    /\ jobs' = jobs + 1
    /\ Become(p, label)
    /\ task' = [task EXCEPT ![p] = job]
    /\ UNCHANGED <<tree, todo, ran>>

\* A tool, asked to replace or not, begins: alone, or next to another.
ToolBegins(p, replace) ==
    /\ turns' = (turns /\ \A q \in Tools \ {p} : pc[q] = "idle")
    /\ calm' = (calm /\ turns' /\ ~replace)
    /\ UNCHANGED ousted

\* _compose begins: the base ruleset, unless there is none, and what the document applies.
Loading(doc) ==
    LET names == (IF doc.base /\ tree.rulesets[BaseRuleset] # None THEN <<BaseRuleset>> ELSE <<>>)
                 \o doc.apply
    IN  [pending |-> [k \in DOMAIN names |-> [name |-> names[k], chain |-> {}]],
         seen |-> {}, checks |-> doc.checks, evaluators |-> {}]

InstallPack(p, pack, replace) ==
    /\ StartJob(p, "survey", [kind |-> "pack", pack |-> pack, replace |-> replace])
    /\ ToolBegins(p, replace)
    /\ UNCHANGED load

\* install_policy, as far as reading the document.
InstallPolicy(p, doc, name, replace) ==
    /\ StartJob(p, "loading", [kind |-> "policy", doc |-> doc, replace |-> replace,
                               target |-> <<Munge[doc.root], name>>])
    /\ load' = [load EXCEPT ![p] = Loading(doc)]
    /\ ToolBegins(p, replace)

\* find_policy for `policy edit`, `policy apply` or a run: two claimants refuse it.  Without
\* any, a tool refuses and a run takes the default policy.
Find(p, root, job) ==
    LET prefix == Prefix(root)
        found == Claimants(prefix)
    IN  /\ \/ /\ \E f \in Targets :
                     /\ found = {f}
                     /\ StartJob(p, "found", [job EXCEPT !.prefix = prefix, !.target = f])
              /\ UNCHANGED load
           \/ /\ found = {}
              /\ job.kind = "run"
              /\ StartJob(p, "loading", [job EXCEPT !.prefix = prefix, !.doc = DefaultDoc(prefix)])
              /\ load' = [load EXCEPT ![p] = Loading(DefaultDoc(prefix))]
        /\ IF p \in Tools THEN ToolBegins(p, FALSE) ELSE UNCHANGED history

Edit(p, root) ==
    Find(p, root, [kind |-> "edit", prefix |-> None, target |-> None, doc |-> None,
                   original |-> None, replace |-> TRUE])
Apply(p, root, r) ==
    Find(p, root, [kind |-> "apply", prefix |-> None, target |-> None, doc |-> None,
                   ruleset |-> r, replace |-> TRUE])
Run(p, root) ==
    Find(p, root, [kind |-> "run", prefix |-> None, target |-> None, doc |-> None])

Kill(p) ==
    /\ pc[p] # "idle"
    /\ Leave(p)
    /\ UNCHANGED <<tree, ran, jobs, history>>

-----------------------------------------------------------------------------
(* Reading the policy, and loading it.                                      *)

\* load_policy_file: the run reads the file it has found.
ReadForRun(p) ==
    /\ pc[p] = "found" /\ task[p].kind = "run"
    /\ LET doc == tree.policies[task[p].target] IN
         /\ task' = [task EXCEPT ![p].doc = doc]
         /\ load' = [load EXCEPT ![p] = Loading(doc)]
         /\ Become(p, "loading")
    /\ UNCHANGED <<tree, todo, ran, jobs, history>>

\* edit_policy copies the file for the editor.
ReadForEdit(p) ==
    /\ pc[p] = "found" /\ task[p].kind = "edit"
    /\ task' = [task EXCEPT ![p].original = tree.policies[task[p].target]]
    /\ Become(p, "editing")
    /\ UNCHANGED <<tree, load, todo, ran, jobs, history>>

\* The editor comes back with a draft: one without changes ends the edit.
SaveDraft(p, doc) ==
    /\ pc[p] = "editing"
    /\ doc # task[p].original
    /\ task' = [task EXCEPT ![p].doc = doc]
    /\ load' = [load EXCEPT ![p] = Loading(doc)]
    /\ Become(p, "loading")
    /\ UNCHANGED <<tree, todo, ran, jobs, history>>

DiscardDraft(p) ==
    /\ pc[p] = "editing"
    /\ Leave(p)
    /\ UNCHANGED <<tree, ran, jobs, history>>

\* apply_ruleset: does the policy, or the base for it, apply the ruleset already?
AppliedAlready(doc, r) ==
    \/ r \in Applies(doc)
    \/ /\ doc.base
       /\ tree.rulesets[BaseRuleset] # None
       /\ r \in Applies(tree.rulesets[BaseRuleset])

\* It reads the policy, and loads it with the ruleset applied.
ReadForApply(p) ==
    LET r == task[p].ruleset
        doc == tree.policies[task[p].target]
        more == [doc EXCEPT !.apply = Append(@, r)]
    IN  /\ pc[p] = "found" /\ task[p].kind = "apply"
        /\ IF tree.rulesets[r] = None \/ AppliedAlready(doc, r)
             THEN Leave(p)
             ELSE /\ task' = [task EXCEPT ![p].doc = more]
                  /\ load' = [load EXCEPT ![p] = Loading(more)]
                  /\ Become(p, "loading")
                  /\ UNCHANGED todo
        /\ UNCHANGED <<tree, ran, jobs, history>>

\* The document does not load: an edit goes back to the editor, everybody else gives up.
LoadFails(p) ==
    IF task[p].kind = "edit"
      THEN /\ Become(p, "editing")
           /\ load' = [load EXCEPT ![p] = NoLoad]
           /\ UNCHANGED <<task, todo>>
      ELSE Leave(p)

\* Mutant of ReadRuleset: a ruleset that applies itself is passed over as read before.
ReadRulesetLoop(p) ==
    LET next == Head(load[p].pending)
        doc == tree.rulesets[next.name]
        rest == Tail(load[p].pending)
        apply == [k \in DOMAIN doc.apply |-> [name |-> doc.apply[k], chain |-> {}]]
    IN  /\ pc[p] = "loading"
        /\ load[p].pending # <<>>
        /\ IF doc = None
             THEN LoadFails(p)
             ELSE /\ load' =
                       IF <<next.name, doc>> \in load[p].seen
                         THEN [load EXCEPT ![p].pending = rest]
                         ELSE [load EXCEPT ![p].pending = apply \o rest,
                                           ![p].seen = @ \union {<<next.name, doc>>},
                                           ![p].checks = @ \o doc.checks]
                  /\ UNCHANGED <<pc, task, todo>>
        /\ UNCHANGED <<tree, ran, jobs, history>>

\* _apply_one: the next ruleset is read; what is missing or applies itself is an error, what
\* was read before is passed over, and what it applies comes next.
ReadRuleset(p) ==
    LET next == Head(load[p].pending)
        doc == tree.rulesets[next.name]
        rest == Tail(load[p].pending)
        chain == next.chain \union {next.name}
    IN  /\ pc[p] = "loading"
        /\ load[p].pending # <<>>
        /\ IF doc = None \/ next.name \in next.chain
             THEN LoadFails(p)
             ELSE /\ load' =
                       IF <<next.name, doc>> \in load[p].seen
                         THEN [load EXCEPT ![p].pending = rest]
                         ELSE [load EXCEPT
                                 ![p].pending =
                                     [k \in DOMAIN doc.apply |->
                                        [name |-> doc.apply[k], chain |-> chain]] \o rest,
                                 ![p].seen = @ \union {<<next.name, doc>>},
                                 ![p].checks = @ \o doc.checks]
                  /\ UNCHANGED <<pc, task, todo>>
        /\ UNCHANGED <<tree, ran, jobs, history>>

\* Mutant of ReadEvaluator: only a pinned checker must be there.
ReadAbsentEvaluator(p) ==
    LET c == Head(load[p].checks)
        bytes == tree.checkers[c.checker]
    IN  /\ pc[p] = "loading"
        /\ load[p].pending = <<>>
        /\ load[p].checks # <<>>
        /\ IF c.pin # None /\ c.pin # bytes
             THEN LoadFails(p)
             ELSE /\ load' = [load EXCEPT ![p].checks = Tail(@),
                                          ![p].evaluators = @ \union
                                  {[checker |-> c.checker, pin |-> c.pin, bytes |-> bytes]}]
                  /\ UNCHANGED <<pc, task, todo>>
        /\ UNCHANGED <<tree, ran, jobs, history>>

\* _Rules.validations: the next checker is read, once, and its pin compared with that.
ReadEvaluator(p) ==
    LET c == Head(load[p].checks)
        bytes == tree.checkers[c.checker]
    IN  /\ pc[p] = "loading"
        /\ load[p].pending = <<>>
        /\ load[p].checks # <<>>
        /\ IF bytes = None \/ (c.pin # None /\ c.pin # bytes)
             THEN LoadFails(p)
             ELSE /\ load' = [load EXCEPT ![p].checks = Tail(@),
                                          ![p].evaluators = @ \union
                                  {[checker |-> c.checker, pin |-> c.pin, bytes |-> bytes]}]
                  /\ UNCHANGED <<pc, task, todo>>
        /\ UNCHANGED <<tree, ran, jobs, history>>

IsLoaded(p) == pc[p] = "loading" /\ load[p].pending = <<>> /\ load[p].checks = <<>>

\* The tool's one placement.
PlacePolicy(p) ==
    /\ todo' = [todo EXCEPT ![p] = {[at |-> "policies", name |-> task[p].target, data |-> task[p].doc]}]
    /\ Become(p, "conflicts")

LoadedForRun(p) ==
    /\ IsLoaded(p) /\ task[p].kind = "run"
    /\ Become(p, "running")
    /\ UNCHANGED <<tree, task, load, todo, ran, jobs, history>>

LoadedForInstall(p) ==
    /\ IsLoaded(p) /\ task[p].kind = "policy"
    /\ Become(p, "claims")
    /\ UNCHANGED <<tree, task, load, todo, ran, jobs, history>>

\* Mutant of LoadedForEdit: the root may change.
LoadedForMove(p) ==
    /\ IsLoaded(p) /\ task[p].kind \in {"edit", "apply"}
    /\ PlacePolicy(p)
    /\ UNCHANGED <<tree, task, load, ran, jobs, history>>

\* edit_problems goes on: the document must still declare the root it governs.
LoadedForEdit(p) ==
    /\ IsLoaded(p) /\ task[p].kind \in {"edit", "apply"}
    /\ IF task[p].doc.root = task[p].prefix
         THEN PlacePolicy(p) /\ UNCHANGED <<task, load>>
         ELSE LoadFails(p)
    /\ UNCHANGED <<tree, ran, jobs, history>>

-----------------------------------------------------------------------------
(* What a run does with it.                                                 *)

\* Mutant of RunCheck: the installed file is executed.
RunInstalled(p, e) ==
    /\ pc[p] = "running"
    /\ ran' = ran \union {[e EXCEPT !.bytes = tree.checkers[e.checker]]}
    /\ UNCHANGED <<tree, procVars, jobs, history>>

\* _run_check: the snapshot of the bytes read at load is executed.
RunCheck(p, e) ==
    /\ pc[p] = "running"
    /\ ran' = ran \union {e}
    /\ UNCHANGED <<tree, procVars, jobs, history>>

EndRun(p) ==
    /\ pc[p] = "running"
    /\ Leave(p)
    /\ UNCHANGED <<tree, ran, jobs, history>>

-----------------------------------------------------------------------------
(* What a tool does before it writes, and the writing.                      *)

LoadPack(p) ==
    /\ pc[p] = "survey"
    /\ IF PackIsSound(task[p].pack)
         THEN /\ todo' = [todo EXCEPT ![p] = PackPlacements(task[p].pack)]
              /\ Become(p, "conflicts")
              /\ UNCHANGED <<task, load>>
         ELSE Leave(p)
    /\ UNCHANGED <<tree, ran, jobs, history>>

\* Mutant of CheckClaims: a file is in the way only if it has the same name.
ClaimAnyway(p) ==
    /\ pc[p] = "claims"
    /\ Become(p, "repin")
    /\ UNCHANGED <<tree, task, load, todo, ran, jobs, history>>

\* install_policy: another file that claims the root refuses it.
CheckClaims(p) ==
    /\ pc[p] = "claims"
    /\ IF Claimants(task[p].doc.root) \subseteq {task[p].target}
         THEN Become(p, "repin") /\ UNCHANGED <<task, load, todo>>
         ELSE Leave(p)
    /\ UNCHANGED <<tree, ran, jobs, history>>

\* install_policy: the document's own pins once more.
CheckPins(p) ==
    /\ pc[p] = "repin"
    /\ LET checks == task[p].doc.checks IN
         IF \A k \in DOMAIN checks : checks[k].pin # None => checks[k].pin = tree.checkers[checks[k].checker]
           THEN PlacePolicy(p) /\ UNCHANGED <<task, load>>
           ELSE Leave(p)
    /\ UNCHANGED <<tree, ran, jobs, history>>

\* Mutant of CheckConflicts: only policies are protected.
OverwritePacks(p) ==
    /\ pc[p] = "conflicts"
    /\ IF \A n \in todo[p] : \/ task[p].replace \/ n.at # "policies"
                             \/ tree[n.at][n.name] = None \/ Settled(n)
         THEN Become(p, "placing") /\ UNCHANGED <<task, load, todo>>
         ELSE Leave(p)
    /\ UNCHANGED <<tree, ran, jobs, history>>

\* _place: every conflict is refused before anything is written.
CheckConflicts(p) ==
    /\ pc[p] = "conflicts"
    /\ IF \A n \in todo[p] : task[p].replace \/ tree[n.at][n.name] = None \/ Settled(n)
         THEN Become(p, "placing") /\ UNCHANGED <<task, load, todo>>
         ELSE Leave(p)
    /\ UNCHANGED <<tree, ran, jobs, history>>

\* The roots that lose a claimant in this step.
Unclaimed ==
    {root \in Roots : \E f \in Targets : Claims(tree, f, root) /\ ~Claims(tree', f, root)}

\* _place: the next file is replaced in one step; writing the same bytes and leaving a settled
\* one alone are the same.
PlaceNext(p, n) ==
    /\ pc[p] = "placing"
    /\ \A m \in todo[p] \ {n} : Precedes(n, m)
    /\ tree' = [tree EXCEPT ![n.at][n.name] = n.data]
    /\ todo' = [todo EXCEPT ![p] = @ \ {n}]
    /\ ousted' = IF task[p].kind = "policy" THEN ousted \union Unclaimed ELSE ousted
    /\ UNCHANGED <<pc, task, load, ran, jobs, turns, calm>>

AllPlaced(p) ==
    /\ pc[p] = "placing"
    /\ todo[p] = {}
    /\ Leave(p)
    /\ UNCHANGED <<tree, ran, jobs, history>>

-----------------------------------------------------------------------------
Load(p) ==
    \/ ReadForRun(p) \/ ReadForEdit(p) \/ ReadForApply(p)
    \/ ReadRuleset(p) \/ ReadEvaluator(p)
    \/ LoadedForRun(p) \/ LoadedForInstall(p) \/ LoadedForEdit(p)

Tool(p) ==
    \/ \E pack \in Packs, replace \in BOOLEAN : InstallPack(p, pack, replace)
    \/ \E doc \in Policies, name \in Names, replace \in BOOLEAN :
           InstallPolicy(p, doc, name, replace)
    \/ \E root \in Roots : Edit(p, root)
    \/ \E root \in Roots, r \in Rulesets : Apply(p, root, r)
    \/ \E doc \in Policies : SaveDraft(p, doc)
    \/ DiscardDraft(p)
    \/ LoadPack(p) \/ CheckClaims(p) \/ CheckPins(p) \/ CheckConflicts(p)
    \/ \E n \in todo[p] : PlaceNext(p, n)
    \/ AllPlaced(p)

Guest(p) ==
    \/ \E root \in Roots : Run(p, root)
    \/ \E e \in load[p].evaluators : RunCheck(p, e)
    \/ EndRun(p)

Next ==
    \/ \E p \in Tools : Tool(p)
    \/ \E p \in Runs : Guest(p)
    \/ \E p \in Procs : Load(p) \/ Kill(p)

Spec == Init /\ [][Next]_vars

-----------------------------------------------------------------------------
(* Properties.                                                              *)

\* The rulesets a document reaches: the least set with those it applies and those they apply.
Reached(start) ==
    {r \in Rulesets :
        \A s \in SUBSET Rulesets :
            /\ start \subseteq s
            /\ \A a \in s : tree.rulesets[a] # None => Applies(tree.rulesets[a]) \subseteq s
            => r \in s}

ChecksFound(doc) ==
    \A k \in DOMAIN doc.checks : LET c == doc.checks[k] IN
        /\ tree.checkers[c.checker] # None
        /\ c.pin \in {None, tree.checkers[c.checker]}

\* Would a policy load, if nothing moved meanwhile?
Loads(doc) ==
    LET base == IF doc.base /\ tree.rulesets[BaseRuleset] # None THEN {BaseRuleset} ELSE {}
    IN  /\ ChecksFound(doc)
        /\ \A r \in Reached(base \union Applies(doc)) :
             /\ tree.rulesets[r] # None
             /\ ChecksFound(tree.rulesets[r])
             /\ r \notin Reached(Applies(tree.rulesets[r]))

\* install.py 8-10, "checkers and notes first, TOML last [...] because the loader fails closed on
\* a missing checker": whatever tools work side by side, replace or are killed, no installed
\* document ever names a checker that is not there.
ClosureKept == Closed(tree)

\* policyfile.py 835-837 and integrity.py 112-113, "What was pin-verified at load is what runs,
\* whatever happens to the installed file since": no evaluator of a pinned validation is ever
\* executed with other bytes than the pinned ones.
PinnedBytesRun == \A e \in ran : e.pin \in {None, e.bytes}

\* install.py 284-285, "A second file claiming the same root is refused": while tools take
\* turns, with whatever kills, policies, edits and replacements, no root is ever claimed by two
\* files, so that no run is refused for it.
OneClaimant == turns => Unambiguous(tree)

\* The file a run has found may be edited, extended or installed over before the run reads it.
\* While tools take turns the run still loads a policy that governs the prefix it was found for,
\* unless `policy install --replace` put a policy for another root in the place of that prefix's.
GovernedByItsOwn ==
    \A p \in Runs : turns /\ pc[p] \in {"loading", "running"} =>
        task[p].doc.root = task[p].prefix \/ task[p].prefix \in ousted

\* Was there a base ruleset to begin with, or is there none yet?
BaseKept == Tree0.rulesets[BaseRuleset] = None => tree.rulesets[BaseRuleset] = None

\* What from_data has loaded file by file, while tools take turns and only add to the tree, is
\* what would load from the tree at once, so that neither a run nor a placed policy rests on a
\* tree that never was.  A run composed before the first base ruleset came is composed without it.
LoadedFromOneTree ==
    \A p \in Procs :
        calm /\ pc[p] \in {"claims", "repin", "running"} /\ (p \in Runs => BaseKept)
            => Loads(task[p].doc)

\* The step places a base ruleset where there was none.
BaseArrives == tree.rulesets[BaseRuleset] = None /\ tree'.rulesets[BaseRuleset] # None

\* install.py 7-8, "rotate into place in the order that keeps the tree loadable at every
\* instant": while tools take turns and replace nothing, no single placement and no kill keeps a
\* policy that loads from loading -- but for the placement of a first base ruleset, which every
\* policy with a base composes at once, before the rulesets of its pack that it applies are there.
StaysLoadable ==
    [][calm' /\ ~BaseArrives => \A f \in Targets :
           (tree.policies[f] # None /\ Loads(tree.policies[f])) => Loads(tree.policies[f])']_vars
=============================================================================

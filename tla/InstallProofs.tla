---------------------------- MODULE InstallProofs ----------------------------
(***************************************************************************)
(* Proofs about Install, for any processes, names, packs, policies and     *)
(* number of jobs: types, that every installed document finds its          *)
(* checkers, and that pinned bytes are the ones executed.                  *)
(***************************************************************************)
EXTENDS Install, SequenceTheorems, WellFoundedInduction, TLAPS

USE DEF history

----------------------------------------------------------------------------
(* The inductive invariant, in parts.                                       *)

\* What a process is doing, kind by kind.
PackJobs == [kind : {"pack"}, pack : Packs, replace : BOOLEAN]
PolicyJobs == [kind : {"policy"}, doc : PolicyDocs, replace : BOOLEAN, target : Targets]
EditJobs == [kind : {"edit"}, prefix : Roots, target : Targets, doc : PolicyDocs \union {None},
             original : PolicyDocs \union {None}, replace : {TRUE}]
ApplyJobs == [kind : {"apply"}, prefix : Roots, target : Targets, doc : PolicyDocs \union {None},
              ruleset : Rulesets, replace : {TRUE}]
RunJobs == [kind : {"run"}, prefix : Roots, target : Targets \union {None},
            doc : PolicyDocs \union {None}]
Tasks == {NoTask} \union PackJobs \union PolicyJobs \union EditJobs \union ApplyJobs \union RunJobs

Labels == {"idle", "survey", "found", "editing", "loading", "claims", "repin", "conflicts",
           "placing", "running"}
Pending == [name : Rulesets, chain : SUBSET Rulesets]
LoadStates == [pending : Seq(Pending), seen : SUBSET (Rulesets \X RulesetDocs),
               checks : Seq(Checks), evaluators : SUBSET Evaluators]

\* TypeOK, and the record a command is.
TypeInv ==
    /\ tree \in Trees
    /\ pc \in [Procs -> Labels]
    /\ task \in [Procs -> Tasks]
    /\ load \in [Procs -> LoadStates]
    /\ todo \in [Procs -> SUBSET Placements]
    /\ ran \subseteq Evaluators
    /\ jobs \in 0..MaxJobs
    /\ turns \in BOOLEAN /\ calm \in BOOLEAN
    /\ ousted \subseteq Roots

\* The one placement of a tool that writes a policy.
Placement(p) == [at |-> "policies", name |-> task[p].target, data |-> task[p].doc]

\* Where in its command a process can be, and what it knows there.
PhaseOK(p) ==
    /\ pc[p] = "idle" => task[p] = NoTask
    /\ pc[p] = "survey" => task[p] \in PackJobs
    /\ pc[p] = "found" => /\ task[p] \in EditJobs \union ApplyJobs \union RunJobs
                          /\ task[p].target \in Targets
                          /\ tree.policies[task[p].target] # None
    /\ pc[p] = "editing" => task[p] \in EditJobs
    /\ pc[p] = "loading" => /\ task[p] \in PolicyJobs \union EditJobs \union ApplyJobs \union RunJobs
                            /\ task[p].doc \in PolicyDocs
    /\ pc[p] \in {"claims", "repin"} => task[p] \in PolicyJobs
    /\ pc[p] = "running" => task[p] \in RunJobs
    /\ pc[p] \in {"conflicts", "placing"} =>
         \/ task[p] \in PackJobs /\ \A n \in todo[p] : n.at # "policies"
         \/ /\ task[p] \in PolicyJobs \union EditJobs \union ApplyJobs
            /\ task[p].doc \in PolicyDocs
            /\ todo[p] \subseteq {Placement(p)}
            /\ pc[p] = "conflicts" => Placement(p) \in todo[p]
PhaseInv == \A p \in Procs : PhaseOK(p)

Installed(c) == tree.checkers[c] # None
ToRead(p) == {load[p].checks[k].checker : k \in DOMAIN load[p].checks}

\* Whoever is about to place a document has seen its checkers, or places them first.
HasCheckers(p) ==
    /\ pc[p] = "loading" => \A c \in Needs(task[p].doc) : Installed(c) \/ c \in ToRead(p)
    /\ pc[p] \in {"claims", "repin"} => \A c \in Needs(task[p].doc) : Installed(c)
    /\ pc[p] \in {"conflicts", "placing"} =>
         \A n \in todo[p] : n.at # "checkers" =>
             \A c \in Needs(n.data) : \/ Installed(c)
                                      \/ \E m \in todo[p] : m.at = "checkers" /\ m.name = c
ClosureInv == Closed(tree) /\ \A p \in Procs : HasCheckers(p)

\* What was compared with its pin and may be executed.
Compared(evaluators) == \A e \in evaluators : e.pin \in {None, e.bytes}
PinInv == Compared(ran) /\ \A p \in Procs : Compared(load[p].evaluators)

IInv == TypeInv /\ PhaseInv /\ ClosureInv /\ PinInv

----------------------------------------------------------------------------
(* Sequences and numbers.                                                   *)

\* A sequence keeps its elements when others follow them.
LEMMA ConcatKeeps ==
    ASSUME NEW S, NEW s \in Seq(S), NEW t \in Seq(S), NEW k \in DOMAIN s
    PROVE  k \in DOMAIN (s \o t) /\ (s \o t)[k] = s[k]
<1>1. k \in 1..Len(s) /\ Len(s) \in Nat /\ Len(t) \in Nat
  BY LenProperties
<1>2. s \o t \in Seq(S) /\ Len(s \o t) = Len(s) + Len(t) /\ (s \o t)[k] = s[k]
  BY <1>1, ConcatProperties
<1>. QED
  BY <1>1, <1>2, LenProperties

\* What is in a sequence is its head or in its tail.
LEMMA TailKeeps ==
    ASSUME NEW S, NEW s \in Seq(S), s # <<>>, NEW k \in DOMAIN s
    PROVE  s[k] = Head(s) \/ \E j \in DOMAIN Tail(s) : Tail(s)[j] = s[k]
<1>1. k \in 1..Len(s) /\ Len(s) \in Nat
  BY LenProperties
<1>2. /\ Tail(s) \in Seq(S) /\ Len(Tail(s)) = Len(s) - 1
      /\ \A i \in 1..Len(Tail(s)) : Tail(s)[i] = s[i + 1]
  BY HeadTailProperties
<1>3. DOMAIN Tail(s) = 1..(Len(s) - 1)
  BY <1>2, LenProperties
<1>4. CASE k = 1
  <2>1. Head(s) = s[1]
    OBVIOUS
  <2>. QED
    BY <1>4, <2>1
<1>5. CASE k # 1
  <2>1. k - 1 \in DOMAIN Tail(s) /\ Tail(s)[k - 1] = s[k]
    BY <1>1, <1>2, <1>3, <1>5
  <2>. QED
    BY <2>1
<1>. QED
  BY <1>4, <1>5

\* A set of natural numbers that is not empty has a least one.
LEMMA LeastExists ==
    ASSUME NEW T, T \subseteq Nat, T # {}
    PROVE  \E x \in T : \A y \in T : x <= y
<1>1. \E x \in T : \A y \in T : ~(<<y, x>> \in OpToRel(<, Nat))
  BY NatLessThanWellFounded, WFMin, Zenon
<1>2. PICK x \in T : \A y \in T : ~(<<y, x>> \in OpToRel(<, Nat))
  BY <1>1
<1>3. ASSUME NEW y \in T PROVE x <= y
  <2>1. <<y, x>> \notin OpToRel(<, Nat)
    BY <1>2
  <2>2. ~(y < x)
    BY <2>1 DEF OpToRel
  <2>. QED
    BY <2>2
<1>. QED
  BY <1>2, <1>3

----------------------------------------------------------------------------
(* What the operators return.                                               *)

\* find_policy looks at a prefix that is a root.
LEMMA PrefixType ==
    ASSUME NEW root \in Roots
    PROVE  Prefix(root) \in Roots
<1>. DEFINE above == Above[root]
            claimed == {k \in DOMAIN above : Claimants(above[k]) # {}}
<1>1. above \in Seq(Roots) /\ above # <<>>
  BY ConfigIsTyped
<1>2. DOMAIN above = 1..Len(above) /\ Len(above) \in Nat \ {0}
  BY <1>1, LenProperties, EmptySeq
<1>3. \A k \in DOMAIN above : above[k] \in Roots
  BY <1>1, <1>2, ElementOfSeq
<1>4. CASE claimed = {}
  BY <1>2, <1>3, <1>4 DEF Prefix
<1>5. CASE claimed # {}
  <2>1. \E k \in claimed : \A l \in claimed : k <= l
    <3>. HIDE DEF claimed
    <3>1. claimed \subseteq Nat
      BY <1>2 DEF claimed
    <3>. QED
      BY <1>5, <3>1, LeastExists
  <2>2. (CHOOSE k \in claimed : \A l \in claimed : k <= l) \in DOMAIN above
    BY <2>1
  <2>. QED
    BY <1>3, <1>5, <2>2 DEF Prefix
<1>. QED
  BY <1>4, <1>5

\* What a ruleset applies is pending under its chain.
LEMMA PendingType ==
    ASSUME NEW apply \in Seq(Rulesets), NEW chain \in SUBSET Rulesets
    PROVE  [k \in DOMAIN apply |-> [name |-> apply[k], chain |-> chain]] \in Seq(Pending)
<1>1. DOMAIN apply = 1..Len(apply) /\ Len(apply) \in Nat
  BY LenProperties
<1>2. \A k \in DOMAIN apply : [name |-> apply[k], chain |-> chain] \in Pending
  BY <1>1, ElementOfSeq DEF Pending
<1>3. [k \in DOMAIN apply |-> [name |-> apply[k], chain |-> chain]] \in [1..Len(apply) -> Pending]
  BY <1>1, <1>2
<1>. QED
  BY <1>1, <1>3, SeqDef

\* A load begins with the document's own checks and no evaluator.
LEMMA LoadingType ==
    ASSUME NEW doc \in PolicyDocs
    PROVE  /\ Loading(doc) \in LoadStates
           /\ Loading(doc).checks = doc.checks
           /\ Loading(doc).evaluators = {}
<1>. DEFINE names == (IF doc.base /\ tree.rulesets[BaseRuleset] # None THEN <<BaseRuleset>> ELSE <<>>)
                     \o doc.apply
<1>1. doc.apply \in Seq(Rulesets) /\ doc.checks \in Seq(Checks)
  BY DEF PolicyDocs
<1>2. names \in Seq(Rulesets)
  <2>1. <<BaseRuleset>> \in Seq(Rulesets) /\ <<>> \in Seq(Rulesets)
    BY ConfigIsTyped
  <2>. QED
    BY <1>1, <2>1, ConcatProperties
<1>3. [k \in DOMAIN names |-> [name |-> names[k], chain |-> {}]] \in Seq(Pending)
  BY <1>2, PendingType
<1>. QED
  BY <1>1, <1>3 DEF Loading, LoadStates

\* The default policy is one.
LEMMA DefaultDocType ==
    ASSUME NEW root \in Roots
    PROVE  DefaultDoc(root) \in PolicyDocs
<1>1. <<>> \in Seq(Checks) /\ <<>> \in Seq(Rulesets)
  BY EmptySeq
<1>. QED
  BY <1>1 DEF DefaultDoc, PolicyDocs

\* A process at rest has a load state.
LEMMA NoLoadType == NoLoad \in LoadStates
<1>1. <<>> \in Seq(Pending) /\ <<>> \in Seq(Checks)
  BY EmptySeq
<1>. QED
  BY <1>1 DEF NoLoad, LoadStates

\* os.replace changes one file of one directory.
LEMMA PlaceTree ==
    ASSUME tree \in Trees, NEW n \in Placements,
           tree' = [tree EXCEPT ![n.at][n.name] = n.data]
    PROVE  /\ tree' \in Trees
           /\ \/ /\ n.at = "checkers" /\ n.name \in Checkers /\ n.data \in Bytes
                 /\ tree'.checkers = [tree.checkers EXCEPT ![n.name] = n.data]
                 /\ tree'.rulesets = tree.rulesets /\ tree'.policies = tree.policies
              \/ /\ n.at = "rulesets" /\ n.name \in Rulesets /\ n.data \in RulesetDocs
                 /\ tree'.rulesets = [tree.rulesets EXCEPT ![n.name] = n.data]
                 /\ tree'.checkers = tree.checkers /\ tree'.policies = tree.policies
              \/ /\ n.at = "policies" /\ n.name \in Targets /\ n.data \in PolicyDocs
                 /\ tree'.policies = [tree.policies EXCEPT ![n.name] = n.data]
                 /\ tree'.checkers = tree.checkers /\ tree'.rulesets = tree.rulesets
<1>1. CASE n.at = "checkers"
  <2>1. n.name \in Checkers /\ n.data \in Bytes
    BY <1>1 DEF Placements
  <2>. QED
    BY <1>1, <2>1 DEF Trees
<1>2. CASE n.at = "rulesets"
  <2>1. n.name \in Rulesets /\ n.data \in RulesetDocs
    BY <1>2 DEF Placements
  <2>. QED
    BY <1>2, <2>1 DEF Trees
<1>3. CASE n.at = "policies"
  <2>1. n.name \in Targets /\ n.data \in PolicyDocs
    BY <1>3 DEF Placements
  <2>. QED
    BY <1>3, <2>1 DEF Trees
<1>. QED
  BY <1>1, <1>2, <1>3 DEF Placements

----------------------------------------------------------------------------
(* Types.                                                                   *)

\* A process that leaves is as it was before its first command.
LEMMA LeaveResult ==
    ASSUME TypeInv, NEW p \in Procs, Leave(p)
    PROVE  /\ pc' \in [Procs -> Labels] /\ pc'[p] = "idle"
           /\ task' \in [Procs -> Tasks] /\ task'[p] = NoTask
           /\ load' \in [Procs -> LoadStates] /\ load'[p] = NoLoad
           /\ todo' \in [Procs -> SUBSET Placements] /\ todo'[p] = {}
<1>1. NoTask \in Tasks
  BY DEF Tasks
<1>. QED
  BY <1>1, NoLoadType DEF TypeInv, Leave, Become, Labels

\* So is one whose document does not load, or it is back in the editor.
LEMMA LoadFailsResult ==
    ASSUME TypeInv, NEW p \in Procs, LoadFails(p)
    PROVE  /\ pc' \in [Procs -> Labels]
           /\ task' \in [Procs -> Tasks]
           /\ load' \in [Procs -> LoadStates] /\ load'[p] = NoLoad
           /\ todo' \in [Procs -> SUBSET Placements]
           /\ \/ pc'[p] = "idle" /\ task'[p] = NoTask /\ todo'[p] = {}
              \/ /\ task[p].kind = "edit" /\ pc'[p] = "editing"
                 /\ task' = task /\ todo' = todo
<1>1. CASE task[p].kind = "edit"
  BY <1>1, NoLoadType DEF TypeInv, LoadFails, Become, Labels
<1>2. CASE task[p].kind # "edit"
  BY <1>2, LeaveResult DEF LoadFails
<1>. QED
  BY <1>1, <1>2

\* What find_policy finds is the one file that claims a prefix of the root; a run that finds
\* none takes the default policy.
LEMMA FindResult ==
    ASSUME NEW p \in Procs, NEW root \in Roots, NEW job, Find(p, root, job)
    PROVE  \E prefix \in Roots :
             \/ \E target \in Targets :
                  /\ Claims(tree, target, prefix)
                  /\ Claimants(prefix) = {target}
                  /\ StartJob(p, "found", [job EXCEPT !.prefix = prefix, !.target = target])
                  /\ load' = load
             \/ /\ job.kind = "run"
                /\ StartJob(p, "loading", [job EXCEPT !.prefix = prefix, !.doc = DefaultDoc(prefix)])
                /\ load' = [load EXCEPT ![p] = Loading(DefaultDoc(prefix))]
<1>. DEFINE prefix == Prefix(root)
            found == Claimants(prefix)
<1>1. prefix \in Roots
  BY PrefixType
<1>2. ASSUME NEW f \in Targets, found = {f}, load' = load,
             StartJob(p, "found", [job EXCEPT !.prefix = prefix, !.target = f])
      PROVE  \E target \in Targets :
               /\ Claims(tree, target, prefix)
               /\ Claimants(prefix) = {target}
               /\ StartJob(p, "found", [job EXCEPT !.prefix = prefix, !.target = target])
               /\ load' = load
  <2>1. Claims(tree, f, prefix)
    BY <1>2 DEF Claimants
  <2>. QED
    BY <1>2, <2>1
<1>3. CASE /\ found = {} /\ job.kind = "run"
           /\ StartJob(p, "loading", [job EXCEPT !.prefix = prefix, !.doc = DefaultDoc(prefix)])
           /\ load' = [load EXCEPT ![p] = Loading(DefaultDoc(prefix))]
  BY <1>1, <1>3
<1>4. \/ \E f \in Targets :
           /\ found = {f} /\ load' = load
           /\ StartJob(p, "found", [job EXCEPT !.prefix = prefix, !.target = f])
      \/ /\ found = {} /\ job.kind = "run"
         /\ StartJob(p, "loading", [job EXCEPT !.prefix = prefix, !.doc = DefaultDoc(prefix)])
         /\ load' = [load EXCEPT ![p] = Loading(DefaultDoc(prefix))]
  BY DEF Find
<1>. QED
  BY <1>1, <1>2, <1>3, <1>4

\* The commands that begin so: `policy edit`, `policy apply` and a run.
Finds(p) ==
    \E root \in Roots : Edit(p, root) \/ Run(p, root) \/ \E r \in Rulesets : Apply(p, root, r)

\* How such a command begins: with the file it found, or with the default policy.
Begins(p, job) ==
    \/ /\ StartJob(p, "found", job)
       /\ load' = load
       /\ job \in EditJobs \union ApplyJobs \union RunJobs
       /\ job.target \in Targets
       /\ Claims(tree, job.target, job.prefix)
    \/ /\ StartJob(p, "loading", job)
       /\ load' = [load EXCEPT ![p] = Loading(job.doc)]
       /\ job \in RunJobs
       /\ job.doc \in PolicyDocs
       /\ job.doc.root = job.prefix

\* The command with what find_policy found, or with the default policy.
WithFile(job, prefix, target) == [job EXCEPT !.prefix = prefix, !.target = target]
WithDoc(job, prefix, doc) == [job EXCEPT !.prefix = prefix, !.doc = doc]

\* Each of them does.
LEMMA FindBegins ==
    ASSUME NEW p \in Procs, Finds(p)
    PROVE  \E job : Begins(p, job)
<1>1. ASSUME NEW root \in Roots, NEW job, Find(p, root, job),
             \A prefix \in Roots, target \in Targets :
                 /\ WithFile(job, prefix, target) \in EditJobs \union ApplyJobs \union RunJobs
                 /\ WithFile(job, prefix, target).prefix = prefix
                 /\ WithFile(job, prefix, target).target = target,
             \A prefix \in Roots, doc \in PolicyDocs : job.kind = "run" =>
                 /\ WithDoc(job, prefix, doc) \in RunJobs
                 /\ WithDoc(job, prefix, doc).prefix = prefix
                 /\ WithDoc(job, prefix, doc).doc = doc
      PROVE  \E j : Begins(p, j)
  <2>1. PICK prefix \in Roots :
             \/ \E target \in Targets :
                  /\ Claims(tree, target, prefix)
                  /\ StartJob(p, "found", WithFile(job, prefix, target))
                  /\ load' = load
             \/ /\ job.kind = "run"
                /\ StartJob(p, "loading", WithDoc(job, prefix, DefaultDoc(prefix)))
                /\ load' = [load EXCEPT ![p] = Loading(DefaultDoc(prefix))]
    BY <1>1, FindResult, Zenon DEF WithFile, WithDoc
  <2>2. ASSUME NEW target \in Targets, Claims(tree, target, prefix), load' = load,
               StartJob(p, "found", WithFile(job, prefix, target))
        PROVE  \E j : Begins(p, j)
    <3>. DEFINE started == WithFile(job, prefix, target)
    <3>1. /\ started \in EditJobs \union ApplyJobs \union RunJobs
          /\ started.prefix = prefix /\ started.target = target
      BY <1>1
    <3>. HIDE DEF started
    <3>2. Begins(p, started)
      BY <2>2, <3>1 DEF Begins, started
    <3>. QED
      BY <3>2
  <2>3. ASSUME job.kind = "run", load' = [load EXCEPT ![p] = Loading(DefaultDoc(prefix))],
               StartJob(p, "loading", WithDoc(job, prefix, DefaultDoc(prefix)))
        PROVE  \E j : Begins(p, j)
    <3>. DEFINE started == WithDoc(job, prefix, DefaultDoc(prefix))
    <3>1. DefaultDoc(prefix) \in PolicyDocs /\ DefaultDoc(prefix).root = prefix
      BY DefaultDocType DEF DefaultDoc
    <3>2. started \in RunJobs /\ started.prefix = prefix /\ started.doc = DefaultDoc(prefix)
      BY <1>1, <2>3, <3>1
    <3>. HIDE DEF started
    <3>3. Begins(p, started)
      BY <2>3, <3>1, <3>2 DEF Begins, started
    <3>. QED
      BY <3>3
  <2>. QED
    BY <2>1, <2>2, <2>3
<1>2. ASSUME NEW root \in Roots, Edit(p, root) PROVE \E j : Begins(p, j)
  <2>. DEFINE job == [kind |-> "edit", prefix |-> None, target |-> None, doc |-> None,
                      original |-> None, replace |-> TRUE]
  <2>1. \A prefix \in Roots, target \in Targets :
                 /\ WithFile(job, prefix, target) \in EditJobs \union ApplyJobs \union RunJobs
                 /\ WithFile(job, prefix, target).prefix = prefix
                 /\ WithFile(job, prefix, target).target = target
    BY DEF WithFile, EditJobs
  <2>2. job.kind # "run" /\ Find(p, root, job)
    BY <1>2 DEF Edit
  <2>. HIDE DEF job
  <2>. QED
    BY <1>1, <2>1, <2>2
<1>3. ASSUME NEW root \in Roots, NEW r \in Rulesets, Apply(p, root, r) PROVE \E j : Begins(p, j)
  <2>. DEFINE job == [kind |-> "apply", prefix |-> None, target |-> None, doc |-> None,
                      ruleset |-> r, replace |-> TRUE]
  <2>1. \A prefix \in Roots, target \in Targets :
                 /\ WithFile(job, prefix, target) \in EditJobs \union ApplyJobs \union RunJobs
                 /\ WithFile(job, prefix, target).prefix = prefix
                 /\ WithFile(job, prefix, target).target = target
    BY DEF WithFile, ApplyJobs
  <2>2. job.kind # "run" /\ Find(p, root, job)
    BY <1>3 DEF Apply
  <2>. HIDE DEF job
  <2>. QED
    BY <1>1, <2>1, <2>2
<1>4. ASSUME NEW root \in Roots, Run(p, root) PROVE \E j : Begins(p, j)
  <2>. DEFINE job == [kind |-> "run", prefix |-> None, target |-> None, doc |-> None]
  <2>1. \A prefix \in Roots, target \in Targets :
                 /\ WithFile(job, prefix, target) \in EditJobs \union ApplyJobs \union RunJobs
                 /\ WithFile(job, prefix, target).prefix = prefix
                 /\ WithFile(job, prefix, target).target = target
    BY DEF WithFile, RunJobs
  <2>2. \A prefix \in Roots, doc \in PolicyDocs : job.kind = "run" =>
                 /\ WithDoc(job, prefix, doc) \in RunJobs
                 /\ WithDoc(job, prefix, doc).prefix = prefix
                 /\ WithDoc(job, prefix, doc).doc = doc
    BY DEF WithDoc, RunJobs
  <2>3. Find(p, root, job)
    BY <1>4 DEF Run
  <2>. HIDE DEF job
  <2>. QED
    BY <1>1, <2>1, <2>2, <2>3
<1>. QED
  BY <1>2, <1>3, <1>4 DEF Finds

\* A command that begins is one of the kinds there are.
LEMMA StartJobType ==
    ASSUME TypeInv, NEW p \in Procs, NEW label \in Labels, NEW job \in Tasks,
           StartJob(p, label, job), load' \in [Procs -> LoadStates],
           ToolBegins(p, TRUE) \/ ToolBegins(p, FALSE) \/ UNCHANGED history
    PROVE  TypeInv'
<1>1. jobs' \in 0..MaxJobs
  BY ConfigIsTyped, SMT DEF StartJob, TypeInv
<1>2. pc' \in [Procs -> Labels] /\ task' \in [Procs -> Tasks]
  BY DEF StartJob, TypeInv, Become
<1>3. turns' \in BOOLEAN /\ calm' \in BOOLEAN /\ ousted' \subseteq Roots
  BY Zenon DEF ToolBegins, TypeInv
<1>. QED
  BY <1>1, <1>2, <1>3 DEF StartJob, TypeInv

\* `rules install` and `policy install` begin with what they install.
LEMMA InstallBegins ==
    ASSUME NEW p \in Procs
    PROVE  /\ \A pack \in Packs, replace \in BOOLEAN : InstallPack(p, pack, replace) =>
                \E job \in PackJobs :
                    StartJob(p, "survey", job) /\ job.replace = replace /\ load' = load
           /\ \A doc \in Policies, name \in Names, replace \in BOOLEAN :
                InstallPolicy(p, doc, name, replace) =>
                \E job \in PolicyJobs :
                    /\ StartJob(p, "loading", job)
                    /\ load' = [load EXCEPT ![p] = Loading(job.doc)]
                    /\ job.replace = replace
                    /\ job.target[1] = Munge[job.doc.root]
<1>1. ASSUME NEW pack \in Packs, NEW replace \in BOOLEAN, InstallPack(p, pack, replace)
      PROVE  \E job \in PackJobs :
                 StartJob(p, "survey", job) /\ job.replace = replace /\ load' = load
  BY <1>1 DEF InstallPack, PackJobs
<1>2. ASSUME NEW doc \in Policies, NEW name \in Names, NEW replace \in BOOLEAN,
             InstallPolicy(p, doc, name, replace)
      PROVE  \E job \in PolicyJobs :
                 /\ StartJob(p, "loading", job)
                 /\ load' = [load EXCEPT ![p] = Loading(job.doc)]
                 /\ job.replace = replace
                 /\ job.target[1] = Munge[job.doc.root]
  <2>. DEFINE job == [kind |-> "policy", doc |-> doc, replace |-> replace,
                      target |-> <<Munge[doc.root], name>>]
  <2>1. doc \in PolicyDocs /\ <<Munge[doc.root], name>> \in Targets
    BY ConfigIsTyped DEF PolicyDocs, Targets
  <2>2. /\ job \in PolicyJobs /\ job.doc = doc /\ job.replace = replace
        /\ job.target[1] = Munge[job.doc.root]
    BY <2>1 DEF PolicyJobs
  <2>3. StartJob(p, "loading", job) /\ load' = [load EXCEPT ![p] = Loading(doc)]
    BY <1>2 DEF InstallPolicy
  <2>. HIDE DEF job
  <2>. QED
    BY <2>2, <2>3
<1>. QED
  BY <1>1, <1>2

\* No tool or run begins with anything else.
LEMMA StartType ==
    ASSUME TypeInv, NEW p \in Procs
    PROVE  /\ \A pack \in Packs, replace \in BOOLEAN : InstallPack(p, pack, replace) => TypeInv'
           /\ \A doc \in Policies, name \in Names, replace \in BOOLEAN :
                InstallPolicy(p, doc, name, replace) => TypeInv'
           /\ Finds(p) => TypeInv'
<1>1. /\ PackJobs \subseteq Tasks /\ PolicyJobs \subseteq Tasks
      /\ EditJobs \union ApplyJobs \union RunJobs \subseteq Tasks
      /\ "survey" \in Labels /\ "found" \in Labels /\ "loading" \in Labels
  BY DEF Tasks, Labels
<1>2. \A doc \in PolicyDocs : [load EXCEPT ![p] = Loading(doc)] \in [Procs -> LoadStates]
  BY LoadingType DEF TypeInv
<1>3. ASSUME NEW pack \in Packs, NEW replace \in BOOLEAN, InstallPack(p, pack, replace)
      PROVE  TypeInv'
  <2>1. ToolBegins(p, TRUE) \/ ToolBegins(p, FALSE)
    BY <1>3 DEF InstallPack
  <2>2. PICK job \in PackJobs : StartJob(p, "survey", job) /\ load' = load
    BY <1>3, InstallBegins
  <2>. QED
    BY <1>1, <2>1, <2>2, StartJobType DEF TypeInv
<1>4. ASSUME NEW doc \in Policies, NEW name \in Names, NEW replace \in BOOLEAN,
             InstallPolicy(p, doc, name, replace)
      PROVE  TypeInv'
  <2>1. ToolBegins(p, TRUE) \/ ToolBegins(p, FALSE)
    BY <1>4 DEF InstallPolicy
  <2>2. PICK job \in PolicyJobs : StartJob(p, "loading", job) /\ load' = [load EXCEPT ![p] = Loading(job.doc)]
    BY <1>4, InstallBegins
  <2>3. job.doc \in PolicyDocs
    BY DEF PolicyJobs
  <2>. QED
    BY <1>1, <1>2, <2>1, <2>2, <2>3, StartJobType
<1>5. CASE Finds(p)
  <2>1. ToolBegins(p, FALSE) \/ UNCHANGED history
    BY <1>5, Zenon DEF Finds, Edit, Apply, Run, Find
  <2>2. PICK job : Begins(p, job)
    BY <1>5, FindBegins
  <2>3. job \in EditJobs \union ApplyJobs \union RunJobs /\ load' \in [Procs -> LoadStates]
    BY <1>2, <2>2 DEF Begins, TypeInv
  <2>. QED
    BY <1>1, <2>1, <2>2, <2>3, StartJobType DEF Begins
<1>. QED
  BY <1>3, <1>4, <1>5

\* Jobs are told apart by their kind.
LEMMA KindsOfJobs ==
    /\ NoTask.kind = "none"
    /\ \A j \in PackJobs : j.kind = "pack"
    /\ \A j \in PolicyJobs : j.kind = "policy"
    /\ \A j \in EditJobs : j.kind = "edit"
    /\ \A j \in ApplyJobs : j.kind = "apply"
    /\ \A j \in RunJobs : j.kind = "run"
  BY DEF NoTask, PackJobs, PolicyJobs, EditJobs, ApplyJobs, RunJobs

\* A process that loads or has loaded a document has a document.
LEMMA TaskDoc ==
    ASSUME TypeInv, PhaseInv, NEW p \in Procs
    PROVE  /\ pc[p] = "loading" => task[p].doc \in PolicyDocs
           /\ task[p].kind = "pack" => task[p] \in PackJobs
           /\ task[p].kind = "policy" => task[p] \in PolicyJobs
           /\ task[p].kind = "edit" => task[p] \in EditJobs
           /\ task[p].kind = "apply" => task[p] \in ApplyJobs
           /\ task[p].kind = "run" => task[p] \in RunJobs
<1>1. task[p] \in Tasks
  BY DEF TypeInv
<1>2. pc[p] = "loading" => task[p].doc \in PolicyDocs
  BY DEF PhaseInv, PhaseOK
<1>4. task[p] \in {NoTask} \union PackJobs \union PolicyJobs \union EditJobs \union ApplyJobs \union RunJobs
  BY <1>1 DEF Tasks
<1>. QED
  BY <1>2, <1>4, KindsOfJobs

\* A document somebody reads in place of the one it has, or with a ruleset more.
LEMMA NewDocType ==
    ASSUME TypeInv, NEW p \in Procs, NEW doc \in PolicyDocs,
           task[p] \in EditJobs \union ApplyJobs \union RunJobs
    PROVE  /\ [task EXCEPT ![p].doc = doc] \in [Procs -> Tasks]
           /\ [task EXCEPT ![p].doc = doc][p] = [task[p] EXCEPT !.doc = doc]
           /\ [task[p] EXCEPT !.doc = doc].doc = doc
           /\ [load EXCEPT ![p] = Loading(doc)] \in [Procs -> LoadStates]
<1>1. [task[p] EXCEPT !.doc = doc] \in Tasks /\ [task[p] EXCEPT !.doc = doc].doc = doc
  BY DEF Tasks, EditJobs, ApplyJobs, RunJobs
<1>. QED
  BY <1>1, LoadingType DEF TypeInv

\* `policy apply` goes on with the document it found and one ruleset more.
LEMMA ReadForApplyResult ==
    ASSUME TypeInv, PhaseInv, NEW p \in Procs, ReadForApply(p), ~Leave(p)
    PROVE  \E more \in PolicyDocs :
             /\ more.root = tree.policies[task[p].target].root
             /\ task' = [task EXCEPT ![p].doc = more] /\ load' = [load EXCEPT ![p] = Loading(more)]
             /\ pc' = [pc EXCEPT ![p] = "loading"] /\ UNCHANGED <<todo, tree, ran, jobs, history>>
<1>. DEFINE doc == tree.policies[task[p].target]
            more == [doc EXCEPT !.apply = Append(@, task[p].ruleset)]
<1>1. doc \in PolicyDocs /\ task[p] \in ApplyJobs
  BY TaskDoc DEF ReadForApply, PhaseInv, PhaseOK, TypeInv, Trees
<1>2. more \in PolicyDocs /\ more.root = doc.root
  <2>1. doc.apply \in Seq(Rulesets) /\ task[p].ruleset \in Rulesets
    BY <1>1 DEF PolicyDocs, ApplyJobs
  <2>2. Append(doc.apply, task[p].ruleset) \in Seq(Rulesets)
    BY <2>1
  <2>. QED
    BY <1>1, <2>2 DEF PolicyDocs
<1>. HIDE DEF more
<1>3. /\ task' = [task EXCEPT ![p].doc = more] /\ load' = [load EXCEPT ![p] = Loading(more)]
      /\ pc' = [pc EXCEPT ![p] = "loading"] /\ UNCHANGED <<todo, tree, ran, jobs, history>>
  BY DEF ReadForApply, more, Become
<1>. QED
  BY <1>2, <1>3

\* Reading and loading keep the types.
LEMMA LoadType ==
    ASSUME TypeInv, PhaseInv, NEW p \in Procs, Load(p)
    PROVE  TypeInv'
<1>. USE DEF Become
<1>1. CASE ReadForRun(p)
  <2>1. tree.policies[task[p].target] \in PolicyDocs /\ task[p] \in RunJobs
    BY <1>1, TaskDoc DEF ReadForRun, PhaseInv, PhaseOK, TypeInv, Trees
  <2>. QED
    BY <1>1, <2>1, NewDocType DEF ReadForRun, TypeInv, Labels
<1>2. CASE ReadForEdit(p)
  <2>1. tree.policies[task[p].target] \in PolicyDocs /\ task[p] \in EditJobs
    BY <1>2, TaskDoc DEF ReadForEdit, PhaseInv, PhaseOK, TypeInv, Trees
  <2>2. [task[p] EXCEPT !.original = tree.policies[task[p].target]] \in Tasks
    BY <2>1 DEF EditJobs, Tasks
  <2>. QED
    BY <1>2, <2>2 DEF ReadForEdit, TypeInv, Labels
<1>3. CASE ReadForApply(p)
  <2>1. CASE Leave(p) /\ UNCHANGED <<tree, ran, jobs, history>>
    BY <2>1, LeaveResult DEF TypeInv
  <2>2. CASE ~Leave(p)
    <3>1. PICK more \in PolicyDocs :
             /\ task' = [task EXCEPT ![p].doc = more] /\ load' = [load EXCEPT ![p] = Loading(more)]
             /\ pc' = [pc EXCEPT ![p] = "loading"] /\ UNCHANGED <<todo, tree, ran, jobs, history>>
      BY <1>3, <2>2, ReadForApplyResult
    <3>2. task[p] \in ApplyJobs
      BY <1>3, TaskDoc DEF ReadForApply
    <3>. QED
      BY <3>1, <3>2, NewDocType DEF TypeInv, Labels
  <2>. QED
    BY <1>3, <2>1, <2>2 DEF ReadForApply
<1>4. CASE ReadRuleset(p)
  <2>1. CASE LoadFails(p) /\ UNCHANGED <<tree, ran, jobs, history>>
    BY <2>1, LoadFailsResult DEF TypeInv
  <2>2. CASE ~LoadFails(p)
    <3>. DEFINE next == Head(load[p].pending)
                doc == tree.rulesets[next.name]
                rest == Tail(load[p].pending)
                chain == next.chain \union {next.name}
                apply == [k \in DOMAIN doc.apply |-> [name |-> doc.apply[k], chain |-> chain]]
    <3>1. load[p] \in LoadStates /\ load[p].pending \in Seq(Pending) /\ load[p].pending # <<>>
      BY <1>4 DEF ReadRuleset, TypeInv, LoadStates
    <3>2. next \in Pending /\ rest \in Seq(Pending)
      BY <3>1, HeadTailProperties
    <3>3. doc \in RulesetDocs /\ chain \in SUBSET Rulesets
      BY <1>4, <2>2, <3>2 DEF ReadRuleset, TypeInv, Trees, Pending
    <3>4. apply \o rest \in Seq(Pending)
      <4>1. doc.apply \in Seq(Rulesets)
        BY <3>3 DEF RulesetDocs
      <4>2. apply \in Seq(Pending)
        BY <3>3, <4>1, PendingType
      <4>. QED
        BY <3>2, <4>2, ConcatProperties
    <3>5. load[p].checks \o doc.checks \in Seq(Checks)
      BY <3>1, <3>3, ConcatProperties DEF LoadStates, RulesetDocs
    <3>6. load[p].seen \union {<<next.name, doc>>} \in SUBSET (Rulesets \X RulesetDocs)
      BY <3>1, <3>2, <3>3 DEF LoadStates, Pending
    <3>7. /\ \/ load' = [load EXCEPT ![p].pending = rest]
             \/ load' = [load EXCEPT ![p].pending = apply \o rest,
                                     ![p].seen = @ \union {<<next.name, doc>>},
                                     ![p].checks = @ \o doc.checks]
          /\ UNCHANGED <<pc, task, todo, tree, ran, jobs, history>>
      BY <1>4, <2>2 DEF ReadRuleset
    <3>. HIDE DEF next, doc, rest, chain, apply
    <3>8. load' \in [Procs -> LoadStates]
      <4>1. CASE load' = [load EXCEPT ![p].pending = rest]
        <5>1. [load[p] EXCEPT !.pending = rest] \in LoadStates
          BY <3>1, <3>2 DEF LoadStates
        <5>. QED
          BY <4>1, <5>1 DEF TypeInv
      <4>2. CASE load' = [load EXCEPT ![p].pending = apply \o rest,
                                      ![p].seen = @ \union {<<next.name, doc>>},
                                      ![p].checks = @ \o doc.checks]
        <5>1. [load[p] EXCEPT !.pending = apply \o rest, !.seen = @ \union {<<next.name, doc>>},
                              !.checks = @ \o doc.checks] \in LoadStates
          BY <3>1, <3>4, <3>5, <3>6 DEF LoadStates
        <5>. QED
          BY <4>2, <5>1 DEF TypeInv
      <4>. QED
        BY <3>7, <4>1, <4>2
    <3>. QED
      BY <3>7, <3>8 DEF TypeInv
  <2>. QED
    BY <1>4, <2>1, <2>2 DEF ReadRuleset
<1>5. CASE ReadEvaluator(p)
  <2>1. CASE LoadFails(p) /\ UNCHANGED <<tree, ran, jobs, history>>
    BY <2>1, LoadFailsResult DEF TypeInv
  <2>2. CASE ~LoadFails(p)
    <3>. DEFINE c == Head(load[p].checks)
                e == [checker |-> c.checker, pin |-> c.pin, bytes |-> tree.checkers[c.checker]]
    <3>1. load[p] \in LoadStates /\ load[p].checks \in Seq(Checks) /\ load[p].checks # <<>>
      BY <1>5 DEF ReadEvaluator, TypeInv, LoadStates
    <3>2. c \in Checks /\ Tail(load[p].checks) \in Seq(Checks)
      BY <3>1, HeadTailProperties
    <3>3. e \in Evaluators
      <4>1. tree.checkers[c.checker] # None
        BY <1>5, <2>2 DEF ReadEvaluator
      <4>. QED
        BY <3>2, <4>1 DEF Evaluators, Checks, TypeInv, Trees
    <3>4. /\ load' = [load EXCEPT ![p].checks = Tail(@), ![p].evaluators = @ \union {e}]
          /\ UNCHANGED <<pc, task, todo, tree, ran, jobs, history>>
      BY <1>5, <2>2 DEF ReadEvaluator
    <3>. HIDE DEF c, e
    <3>5. [load[p] EXCEPT !.checks = Tail(@), !.evaluators = @ \union {e}] \in LoadStates
      BY <3>1, <3>2, <3>3 DEF LoadStates
    <3>. QED
      BY <3>4, <3>5 DEF TypeInv
  <2>. QED
    BY <1>5, <2>1, <2>2 DEF ReadEvaluator
<1>6. CASE LoadedForRun(p) \/ LoadedForInstall(p)
  BY <1>6 DEF LoadedForRun, LoadedForInstall, TypeInv, Labels
<1>7. CASE LoadedForEdit(p)
  <2>1. CASE LoadFails(p) /\ UNCHANGED <<tree, ran, jobs, history>>
    BY <2>1, LoadFailsResult DEF TypeInv
  <2>2. CASE PlacePolicy(p) /\ UNCHANGED <<tree, task, load, ran, jobs, history>>
    <3>1. Placement(p) \in Placements
      <4>1. task[p].target \in Targets /\ task[p].doc \in PolicyDocs
        BY <1>7, TaskDoc DEF LoadedForEdit, IsLoaded, EditJobs, ApplyJobs
      <4>. QED
        BY <4>1 DEF Placement, Placements
    <3>. QED
      BY <2>2, <3>1 DEF PlacePolicy, Placement, TypeInv, Labels
  <2>. QED
    BY <1>7, <2>1, <2>2 DEF LoadedForEdit
<1>. QED
  BY <1>1, <1>2, <1>3, <1>4, <1>5, <1>6, <1>7 DEF Load

\* A pack's files have their places.
LEMMA PackPlacementsType ==
    ASSUME NEW pack \in Packs
    PROVE  PackPlacements(pack) \subseteq Placements /\ \A n \in PackPlacements(pack) : n.at # "policies"
  BY PacksAreTyped DEF PackPlacements, Placements

\* A placement puts a file of the right type in its place.
LEMMA PlaceNextType ==
    ASSUME TypeInv, NEW p \in Procs, NEW n \in todo[p], PlaceNext(p, n)
    PROVE  TypeInv'
<1>1. n \in Placements /\ tree' \in Trees
  BY PlaceTree DEF PlaceNext, TypeInv
<1>2. ousted' \subseteq Roots
  BY DEF PlaceNext, TypeInv, Unclaimed
<1>. QED
  BY <1>1, <1>2 DEF PlaceNext, TypeInv

\* Writing, and what precedes it, keeps the types.
LEMMA ToolType ==
    ASSUME TypeInv, PhaseInv, NEW p \in Procs, Tool(p)
    PROVE  TypeInv'
<1>. USE DEF Become
<1>1. CASE \E doc \in Policies : SaveDraft(p, doc)
  <2>1. PICK doc \in Policies : SaveDraft(p, doc)
    BY <1>1
  <2>2. doc \in PolicyDocs /\ task[p] \in EditJobs
    BY <2>1, ConfigIsTyped DEF SaveDraft, PhaseInv, PhaseOK
  <2>. QED
    BY <2>1, <2>2, NewDocType DEF SaveDraft, TypeInv, Labels
<1>2. CASE Leave(p) /\ UNCHANGED <<tree, ran, jobs, history>>
  BY <1>2, LeaveResult DEF TypeInv
<1>3. CASE LoadPack(p) /\ ~Leave(p)
  <2>1. task[p].pack \in Packs
    BY <1>3 DEF LoadPack, PhaseInv, PhaseOK, PackJobs
  <2>. QED
    BY <1>3, <2>1, PackPlacementsType DEF LoadPack, TypeInv, Labels
<1>4. CASE CheckClaims(p) /\ ~Leave(p)
  BY <1>4 DEF CheckClaims, TypeInv, Labels
<1>5. CASE CheckPins(p) /\ ~Leave(p)
  <2>1. Placement(p) \in Placements
    BY <1>5 DEF CheckPins, PhaseInv, PhaseOK, PolicyJobs, Placement, Placements
  <2>. QED
    BY <1>5, <2>1 DEF CheckPins, PlacePolicy, Placement, TypeInv, Labels
<1>6. CASE CheckConflicts(p) /\ ~Leave(p)
  BY <1>6 DEF CheckConflicts, TypeInv, Labels
<1>7. CASE \E n \in todo[p] : PlaceNext(p, n)
  BY <1>7, PlaceNextType
<1>8. CASE DiscardDraft(p) \/ AllPlaced(p)
  BY <1>2, <1>8 DEF DiscardDraft, AllPlaced
<1>9. CASE /\ LoadPack(p) \/ CheckClaims(p) \/ CheckPins(p) \/ CheckConflicts(p)
           /\ Leave(p)
  BY <1>2, <1>9 DEF LoadPack, CheckClaims, CheckPins, CheckConflicts
<1>. QED
  BY <1>1, <1>3, <1>4, <1>5, <1>6, <1>7, <1>8, <1>9, StartType DEF Tool, Finds

\* Nor does a run, or a kill, change a type.
LEMMA GuestType ==
    ASSUME TypeInv, NEW p \in Procs, Guest(p) \/ Kill(p)
    PROVE  TypeInv'
<1>1. CASE \E e \in load[p].evaluators : RunCheck(p, e)
  <2>1. load[p].evaluators \subseteq Evaluators
    BY DEF TypeInv, LoadStates
  <2>. QED
    BY <1>1, <2>1 DEF RunCheck, procVars, TypeInv
<1>2. CASE EndRun(p) \/ Kill(p)
  BY <1>2, LeaveResult DEF EndRun, Kill, TypeInv
<1>. QED
  BY <1>1, <1>2, StartType DEF Guest, Finds

----------------------------------------------------------------------------
(* Steps are local.                                                         *)

\* What a process does.
ProcStep(p) ==
    \/ p \in Tools /\ Tool(p)
    \/ p \in Runs /\ Guest(p)
    \/ Load(p) \/ Kill(p)

\* No step changes what another process is about to do.
Others(p) ==
    \A q \in Procs \ {p} :
        pc'[q] = pc[q] /\ task'[q] = task[q] /\ load'[q] = load[q] /\ todo'[q] = todo[q]

\* Every step is local.
LEMMA StepIsLocal ==
    ASSUME TypeInv, NEW p \in Procs, ProcStep(p)
    PROVE  Others(p)
<1>. USE DEF TypeInv, Others, Become, Leave, LoadFails, procVars
<1>1. ASSUME NEW label, NEW job, StartJob(p, label, job), load' = load \/ \E l : load' = [load EXCEPT ![p] = l]
      PROVE  Others(p)
  BY <1>1 DEF StartJob
<1>2. CASE Finds(p)
  <2>1. \E job : Begins(p, job)
    BY <1>2, FindBegins
  <2>. QED
    BY <1>1, <2>1, Zenon DEF Begins
<1>3. CASE Kill(p)
  BY <1>3 DEF Kill
<1>4. CASE Load(p)
  <2>1. CASE ReadForRun(p) \/ ReadForEdit(p)
    BY <2>1 DEF ReadForRun, ReadForEdit
  <2>2. CASE ReadForApply(p)
    BY <2>2 DEF ReadForApply
  <2>3. CASE ReadRuleset(p)
    BY <2>3 DEF ReadRuleset
  <2>4. CASE ReadEvaluator(p)
    BY <2>4 DEF ReadEvaluator
  <2>5. CASE LoadedForRun(p) \/ LoadedForInstall(p) \/ LoadedForEdit(p)
    BY <2>5 DEF LoadedForRun, LoadedForInstall, LoadedForEdit, PlacePolicy
  <2>. QED
    BY <1>4, <2>1, <2>2, <2>3, <2>4, <2>5 DEF Load
<1>5. CASE Guest(p)
  <2>1. CASE \E root \in Roots : Run(p, root)
    BY <1>2, <2>1 DEF Finds
  <2>2. CASE (\E e \in load[p].evaluators : RunCheck(p, e)) \/ EndRun(p)
    BY <2>2 DEF RunCheck, EndRun
  <2>. QED
    BY <1>5, <2>1, <2>2 DEF Guest
<1>6. CASE Tool(p)
  <2>1. CASE \E root \in Roots : Edit(p, root) \/ \E r \in Rulesets : Apply(p, root, r)
    BY <1>2, <2>1 DEF Finds
  <2>2. CASE \/ \E pack \in Packs, replace \in BOOLEAN : InstallPack(p, pack, replace)
             \/ \E doc \in Policies, name \in Names, replace \in BOOLEAN : InstallPolicy(p, doc, name, replace)
    BY <1>1, <2>2 DEF InstallPack, InstallPolicy
  <2>3. CASE (\E doc \in Policies : SaveDraft(p, doc)) \/ DiscardDraft(p)
    BY <2>3 DEF SaveDraft, DiscardDraft
  <2>4. CASE LoadPack(p) \/ CheckClaims(p) \/ CheckPins(p) \/ CheckConflicts(p)
    BY <2>4 DEF LoadPack, CheckClaims, CheckPins, PlacePolicy, CheckConflicts
  <2>5. CASE (\E n \in todo[p] : PlaceNext(p, n)) \/ AllPlaced(p)
    BY <2>5 DEF PlaceNext, AllPlaced
  <2>. QED
    BY <1>6, <2>1, <2>2, <2>3, <2>4, <2>5 DEF Tool
<1>. QED
  BY <1>3, <1>4, <1>5, <1>6 DEF ProcStep

\* Only a placement, of a tool that is placing, changes the directory.
LEMMA TreeSteps ==
    ASSUME NEW p \in Procs, ProcStep(p)
    PROVE  tree' = tree \/ (p \in Tools /\ \E n \in todo[p] : PlaceNext(p, n))
<1>1. ASSUME NEW root \in Roots, NEW job, Find(p, root, job) PROVE tree' = tree
  BY <1>1 DEF Find, StartJob
<1>2. CASE Load(p) \/ Kill(p)
  BY <1>2 DEF Kill, Load, ReadForRun, ReadForEdit, ReadForApply, ReadRuleset, ReadEvaluator,
              LoadedForRun, LoadedForInstall, LoadedForEdit
<1>3. CASE Guest(p)
  BY <1>1, <1>3 DEF Guest, Run, RunCheck, EndRun
<1>4. CASE p \in Tools /\ Tool(p)
  BY <1>1, <1>4 DEF Tool, InstallPack, InstallPolicy, StartJob, Edit, Apply, SaveDraft, DiscardDraft, LoadPack,
              CheckClaims, CheckPins, CheckConflicts, AllPlaced
<1>. QED
  BY <1>2, <1>3, <1>4 DEF ProcStep

\* What is installed stays installed, with whatever bytes or text.
LEMMA InstalledStays ==
    ASSUME TypeInv, NEW p \in Procs, ProcStep(p)
    PROVE  /\ \A c \in Checkers : tree.checkers[c] # None => tree'.checkers[c] # None
           /\ \A f \in Targets : tree.policies[f] # None => tree'.policies[f] # None
<1>1. CASE tree' = tree
  BY <1>1
<1>2. ASSUME NEW n \in todo[p], PlaceNext(p, n)
      PROVE  /\ \A c \in Checkers : tree.checkers[c] # None => tree'.checkers[c] # None
             /\ \A f \in Targets : tree.policies[f] # None => tree'.policies[f] # None
  <2>1. n \in Placements /\ tree \in Trees
    BY DEF TypeInv
  <2>2. tree' = [tree EXCEPT ![n.at][n.name] = n.data]
    BY <1>2 DEF PlaceNext
  <2>. QED
    BY <2>1, <2>2, PlaceTree, ConfigIsTyped, NoneIsNoDocument DEF Trees
<1>. QED
  BY <1>1, <1>2, TreeSteps

----------------------------------------------------------------------------
(* Where a process is in its command.                                       *)

\* What StartJob makes of a process.
LEMMA StartJobResult ==
    ASSUME TypeInv, NEW p \in Procs, NEW label, NEW job, StartJob(p, label, job)
    PROVE  pc[p] = "idle" /\ pc'[p] = label /\ task'[p] = job /\ tree' = tree /\ todo' = todo
  BY DEF StartJob, Become, TypeInv

\* A process that begins a command knows what it is about.
LEMMA StartPhase ==
    ASSUME TypeInv, NEW p \in Procs
    PROVE  /\ \A pack \in Packs, replace \in BOOLEAN : InstallPack(p, pack, replace) => PhaseOK(p)'
           /\ \A doc \in Policies, name \in Names, replace \in BOOLEAN :
                InstallPolicy(p, doc, name, replace) => PhaseOK(p)'
           /\ Finds(p) => PhaseOK(p)'
<1>. USE DEF PhaseOK
<1>1. ASSUME NEW pack \in Packs, NEW replace \in BOOLEAN, InstallPack(p, pack, replace)
      PROVE  PhaseOK(p)'
  BY <1>1, InstallBegins, StartJobResult
<1>2. ASSUME NEW doc \in Policies, NEW name \in Names, NEW replace \in BOOLEAN,
             InstallPolicy(p, doc, name, replace)
      PROVE  PhaseOK(p)'
  <2>1. task'[p] \in PolicyJobs /\ pc'[p] = "loading"
    BY <1>2, InstallBegins, StartJobResult
  <2>. QED
    BY <2>1 DEF PolicyJobs
<1>3. CASE Finds(p)
  <2>1. PICK job : Begins(p, job)
    BY <1>3, FindBegins
  <2>2. CASE StartJob(p, "found", job)
    <3>1. /\ pc'[p] = "found" /\ task'[p] = job /\ tree' = tree
          /\ job \in EditJobs \union ApplyJobs \union RunJobs
          /\ job.target \in Targets /\ tree.policies[job.target] # None
      BY <2>1, <2>2, StartJobResult DEF Begins, Claims
    <3>. QED
      BY <3>1
  <2>3. CASE StartJob(p, "loading", job)
    <3>1. pc'[p] = "loading" /\ task'[p] = job /\ job \in RunJobs /\ job.doc \in PolicyDocs
      BY <2>1, <2>3, StartJobResult DEF Begins
    <3>. QED
      BY <3>1
  <2>. QED
    BY <2>1, <2>2, <2>3 DEF Begins
<1>. QED
  BY <1>1, <1>2, <1>3

\* One that goes on goes where its command leads.
LEMMA OwnPhase ==
    ASSUME TypeInv, PhaseInv, NEW p \in Procs, ProcStep(p)
    PROVE  PhaseOK(p)'
<1>. USE DEF Become
<1>0. PhaseOK(p) /\ task[p] \in Tasks
  BY DEF PhaseInv, TypeInv
<1>1. CASE Leave(p)
  BY <1>1, LeaveResult DEF PhaseOK
<1>2. CASE LoadFails(p)
  BY <1>2, LoadFailsResult, TaskDoc DEF PhaseOK
<1>3. ASSUME NEW doc \in PolicyDocs, task' = [task EXCEPT ![p].doc = doc], pc' = [pc EXCEPT ![p] = "loading"],
             task[p] \in EditJobs \union ApplyJobs \union RunJobs
      PROVE  PhaseOK(p)'
  <2>1. task'[p] = [task[p] EXCEPT !.doc = doc] /\ task'[p].doc = doc /\ pc'[p] = "loading"
    BY <1>3, NewDocType DEF TypeInv
  <2>2. task'[p] \in EditJobs \union ApplyJobs \union RunJobs
    <3>1. task[p] \in EditJobs => task'[p] \in EditJobs
      BY <2>1 DEF EditJobs
    <3>2. task[p] \in ApplyJobs => task'[p] \in ApplyJobs
      BY <2>1 DEF ApplyJobs
    <3>3. task[p] \in RunJobs => task'[p] \in RunJobs
      BY <2>1 DEF RunJobs
    <3>. QED
      BY <1>3, <3>1, <3>2, <3>3
  <2>. QED
    BY <2>1, <2>2 DEF PhaseOK
<1>4. CASE ReadForRun(p)
  <2>1. tree.policies[task[p].target] \in PolicyDocs /\ task[p] \in RunJobs
    BY <1>0, <1>4, TaskDoc DEF ReadForRun, PhaseOK, TypeInv, Trees
  <2>. QED
    BY <1>3, <1>4, <2>1 DEF ReadForRun
<1>5. CASE ReadForApply(p)
  <2>1. CASE ~Leave(p)
    <3>1. PICK doc \in PolicyDocs : task' = [task EXCEPT ![p].doc = doc] /\ pc' = [pc EXCEPT ![p] = "loading"]
      BY <1>5, <2>1, ReadForApplyResult DEF ReadForApply
    <3>2. task[p] \in ApplyJobs
      BY <1>5, TaskDoc DEF ReadForApply
    <3>. QED
      BY <1>3, <3>1, <3>2
  <2>. QED
    BY <1>1, <2>1
<1>6. ASSUME NEW doc \in Policies, SaveDraft(p, doc) PROVE PhaseOK(p)'
  <2>1. doc \in PolicyDocs /\ task[p] \in EditJobs
    BY <1>0, <1>6, ConfigIsTyped DEF SaveDraft, PhaseOK
  <2>. QED
    BY <1>3, <1>6, <2>1 DEF SaveDraft
<1>7. CASE ReadForEdit(p)
  <2>1. tree.policies[task[p].target] \in PolicyDocs /\ task[p] \in EditJobs
    BY <1>0, <1>7, TaskDoc DEF ReadForEdit, PhaseOK, TypeInv, Trees
  <2>2. task'[p] = [task[p] EXCEPT !.original = tree.policies[task[p].target]] /\ pc'[p] = "editing"
    BY <1>7 DEF ReadForEdit, TypeInv
  <2>3. task'[p] \in EditJobs
    BY <2>1, <2>2 DEF EditJobs
  <2>. QED
    BY <2>2, <2>3 DEF PhaseOK
<1>8. CASE (ReadRuleset(p) \/ ReadEvaluator(p)) /\ ~LoadFails(p)
  <2>1. pc'[p] = "loading" /\ task'[p] = task[p] /\ pc[p] = "loading"
    BY <1>8 DEF ReadRuleset, ReadEvaluator
  <2>. QED
    BY <1>0, <2>1 DEF PhaseOK
<1>9. CASE LoadedForRun(p) \/ LoadedForInstall(p)
  <2>1. \/ pc'[p] = "running" /\ task'[p] \in RunJobs
        \/ pc'[p] = "claims" /\ task'[p] \in PolicyJobs
    BY <1>9, TaskDoc DEF LoadedForRun, LoadedForInstall, TypeInv
  <2>. QED
    BY <2>1 DEF PhaseOK
<1>10. CASE PlacePolicy(p) /\ task' = task /\ task[p] \in PolicyJobs \union EditJobs \union ApplyJobs
            /\ task[p].doc \in PolicyDocs
  <2>1. todo'[p] = {Placement(p)} /\ pc'[p] = "conflicts" /\ Placement(p)' = Placement(p)
    BY <1>10 DEF PlacePolicy, Placement, TypeInv
  <2>. QED
    BY <1>10, <2>1 DEF PhaseOK
<1>11. CASE LoadedForEdit(p) /\ ~LoadFails(p)
  BY <1>10, <1>11, TaskDoc DEF LoadedForEdit, IsLoaded
<1>12. CASE CheckPins(p) /\ ~Leave(p)
  <2>1. task[p] \in PolicyJobs
    BY <1>0, <1>12 DEF CheckPins, PhaseOK
  <2>2. task[p].doc \in PolicyDocs
    BY <2>1 DEF PolicyJobs
  <2>. QED
    BY <1>10, <1>12, <2>1, <2>2 DEF CheckPins
<1>13. CASE LoadPack(p) /\ ~Leave(p)
  <2>1. task[p] \in PackJobs /\ task[p].pack \in Packs
    BY <1>0, <1>13 DEF LoadPack, PhaseOK, PackJobs
  <2>2. todo'[p] = PackPlacements(task[p].pack) /\ pc'[p] = "conflicts" /\ task' = task
    BY <1>13 DEF LoadPack, TypeInv
  <2>. QED
    BY <2>1, <2>2, PackPlacementsType DEF PhaseOK
<1>14. CASE CheckClaims(p) /\ ~Leave(p)
  <2>1. pc[p] = "claims" /\ pc'[p] = "repin" /\ task' = task
    BY <1>14 DEF CheckClaims, TypeInv
  <2>. QED
    BY <1>0, <2>1 DEF PhaseOK
<1>15. CASE CheckConflicts(p) /\ ~Leave(p)
  <2>1. pc[p] = "conflicts" /\ pc'[p] = "placing" /\ task' = task /\ todo' = todo
    BY <1>15 DEF CheckConflicts, TypeInv
  <2>. QED
    BY <1>0, <2>1 DEF PhaseOK, Placement
<1>16. ASSUME NEW n \in todo[p], PlaceNext(p, n) PROVE PhaseOK(p)'
  <2>1. pc[p] = "placing" /\ pc' = pc /\ task' = task /\ todo'[p] \subseteq todo[p]
    BY <1>16 DEF PlaceNext, TypeInv
  <2>. QED
    BY <1>0, <2>1 DEF PhaseOK, Placement
<1>17. ASSUME NEW e \in load[p].evaluators, RunCheck(p, e) PROVE PhaseOK(p)'
  BY <1>0, <1>17 DEF RunCheck, procVars, PhaseOK
<1>18. CASE Kill(p) \/ DiscardDraft(p) \/ AllPlaced(p) \/ EndRun(p)
  BY <1>1, <1>18 DEF Kill, DiscardDraft, AllPlaced, EndRun
<1>19. CASE Load(p)
  BY <1>2, <1>4, <1>5, <1>7, <1>8, <1>9, <1>11, <1>19 DEF Load
<1>20. CASE Tool(p)
  BY <1>1, <1>6, <1>12, <1>13, <1>14, <1>15, <1>16, <1>18, <1>20, StartPhase DEF Tool, Finds
<1>21. CASE Guest(p)
  BY <1>17, <1>18, <1>21, StartPhase DEF Guest, Finds
<1>. QED
  BY <1>18, <1>19, <1>20, <1>21 DEF ProcStep

\* The phases are kept by everybody's steps.
LEMMA StepPhase ==
    ASSUME TypeInv, PhaseInv, NEW p \in Procs, ProcStep(p)
    PROVE  PhaseInv'
<1>1. ASSUME NEW q \in Procs, q # p PROVE PhaseOK(q)'
  <2>1. pc'[q] = pc[q] /\ task'[q] = task[q] /\ todo'[q] = todo[q] /\ PhaseOK(q)
    BY <1>1, StepIsLocal DEF Others, PhaseInv
  <2>2. task[q].target \in Targets /\ tree.policies[task[q].target] # None => tree'.policies[task[q].target] # None
    BY InstalledStays
  <2>. QED
    BY <2>1, <2>2 DEF PhaseOK, Placement
<1>. QED
  BY <1>1, OwnPhase DEF PhaseInv

----------------------------------------------------------------------------
(* What a step makes of what is loaded.                                     *)

\* A ruleset that was read adds its checks; a checker that was read is there, and is what
\* its pin says.
RulesetRead(p) ==
    /\ pc[p] = "loading" /\ pc'[p] = "loading" /\ task'[p] = task[p] /\ tree' = tree
    /\ load'[p].evaluators = load[p].evaluators
    /\ \/ load'[p].checks = load[p].checks
       \/ \E more \in Seq(Checks) : load'[p].checks = load[p].checks \o more
EvaluatorRead(p) ==
    LET c == Head(load[p].checks) IN
    /\ pc[p] = "loading" /\ pc'[p] = "loading" /\ task'[p] = task[p] /\ tree' = tree
    /\ load[p].checks # <<>>
    /\ load'[p].checks = Tail(load[p].checks)
    /\ tree.checkers[c.checker] # None /\ c.pin \in {None, tree.checkers[c.checker]}
    /\ load'[p].evaluators = load[p].evaluators \union
           {[checker |-> c.checker, pin |-> c.pin, bytes |-> tree.checkers[c.checker]]}

\* A step begins a load, goes on with it, drops it or has nothing to do with it.
LEMMA LoadChanges ==
    ASSUME TypeInv, PhaseInv, NEW p \in Procs, ProcStep(p)
    PROVE  \/ load'[p] = load[p] /\ pc'[p] # "loading"
           \/ load'[p] = NoLoad /\ pc'[p] # "loading"
           \/ pc'[p] = "loading" /\ task'[p].doc \in PolicyDocs /\ load'[p] = Loading(task'[p].doc)
           \/ RulesetRead(p)
           \/ EvaluatorRead(p)
<1>. DEFINE Goal == \/ load'[p] = load[p] /\ pc'[p] # "loading"
                    \/ load'[p] = NoLoad /\ pc'[p] # "loading"
                    \/ pc'[p] = "loading" /\ task'[p].doc \in PolicyDocs /\ load'[p] = Loading(task'[p].doc)
                    \/ RulesetRead(p)
                    \/ EvaluatorRead(p)
<1>0. load[p] \in LoadStates /\ task[p] \in Tasks
  BY DEF TypeInv
<1>1. CASE Leave(p)
  BY <1>1, LeaveResult
<1>2. CASE LoadFails(p)
  BY <1>2, LoadFailsResult
<1>3. ASSUME NEW doc \in PolicyDocs, task' = [task EXCEPT ![p].doc = doc], pc'[p] = "loading",
             task[p] \in EditJobs \union ApplyJobs \union RunJobs, load' = [load EXCEPT ![p] = Loading(doc)]
      PROVE  Goal
  <2>1. task'[p].doc = doc /\ load'[p] = Loading(doc)
    BY <1>3, NewDocType DEF TypeInv
  <2>. QED
    BY <1>3, <2>1
<1>4. CASE ReadForRun(p)
  <2>1. tree.policies[task[p].target] \in PolicyDocs /\ task[p] \in RunJobs
    BY <1>4, TaskDoc DEF ReadForRun, PhaseInv, PhaseOK, TypeInv, Trees
  <2>2. pc'[p] = "loading"
    BY <1>4 DEF ReadForRun, Become, TypeInv
  <2>. QED
    BY <1>3, <1>4, <2>1, <2>2 DEF ReadForRun
<1>5. CASE ReadForApply(p) /\ ~Leave(p)
  <2>1. PICK more \in PolicyDocs :
           /\ task' = [task EXCEPT ![p].doc = more] /\ load' = [load EXCEPT ![p] = Loading(more)]
           /\ pc' = [pc EXCEPT ![p] = "loading"]
    BY <1>5, ReadForApplyResult
  <2>2. task[p] \in ApplyJobs /\ pc'[p] = "loading"
    BY <1>5, <2>1, TaskDoc DEF ReadForApply, TypeInv
  <2>. QED
    BY <1>3, <2>1, <2>2
<1>6. ASSUME NEW doc \in Policies, SaveDraft(p, doc) PROVE Goal
  <2>1. doc \in PolicyDocs /\ task[p] \in EditJobs /\ pc'[p] = "loading"
    BY <1>6, ConfigIsTyped DEF SaveDraft, Become, PhaseInv, PhaseOK, TypeInv
  <2>. QED
    BY <1>3, <1>6, <2>1 DEF SaveDraft
<1>7. CASE ReadRuleset(p) /\ ~LoadFails(p)
  <2>. DEFINE next == Head(load[p].pending)
              doc == tree.rulesets[next.name]
  <2>1. load[p].pending \in Seq(Pending) /\ load[p].pending # <<>>
    BY <1>0, <1>7 DEF ReadRuleset, LoadStates
  <2>2. next \in Pending
    BY <2>1, HeadTailProperties
  <2>3. doc \in RulesetDocs
    BY <1>7, <2>2 DEF ReadRuleset, TypeInv, Trees, Pending
  <2>4. doc.checks \in Seq(Checks)
    BY <2>3 DEF RulesetDocs
  <2>5. /\ pc[p] = "loading" /\ pc'[p] = "loading" /\ task'[p] = task[p] /\ tree' = tree
        /\ \E rest, seen : \/ load' = [load EXCEPT ![p].pending = rest]
                           \/ load' = [load EXCEPT ![p].pending = rest, ![p].seen = seen,
                                                   ![p].checks = @ \o doc.checks]
    <3>1. /\ pc[p] = "loading" /\ UNCHANGED <<pc, task, tree>>
          /\ load' = IF <<next.name, doc>> \in load[p].seen
                        THEN [load EXCEPT ![p].pending = Tail(load[p].pending)]
                        ELSE [load EXCEPT
                                ![p].pending =
                                    [k \in DOMAIN doc.apply |->
                                       [name |-> doc.apply[k], chain |-> next.chain \union {next.name}]]
                                    \o Tail(load[p].pending),
                                ![p].seen = @ \union {<<next.name, doc>>},
                                ![p].checks = @ \o doc.checks]
      BY <1>7 DEF ReadRuleset
    <3>. HIDE DEF next, doc
    <3>2. CASE <<next.name, doc>> \in load[p].seen
      BY <3>1, <3>2
    <3>3. CASE <<next.name, doc>> \notin load[p].seen
      <4>. DEFINE rest == [k \in DOMAIN doc.apply |->
                              [name |-> doc.apply[k], chain |-> next.chain \union {next.name}]]
                          \o Tail(load[p].pending)
                  seen == load[p].seen \union {<<next.name, doc>>}
      <4>1. load' = [load EXCEPT ![p].pending = rest, ![p].seen = seen, ![p].checks = @ \o doc.checks]
        BY <1>0, <3>1, <3>3 DEF TypeInv, LoadStates
      <4>. HIDE DEF rest, seen
      <4>. QED
        BY <3>1, <4>1
    <3>. QED
      BY <3>2, <3>3
  <2>. HIDE DEF doc
  <2>6. /\ load'[p].evaluators = load[p].evaluators
        /\ load'[p].checks = load[p].checks \/ load'[p].checks = load[p].checks \o doc.checks
    BY <1>0, <2>5 DEF TypeInv, LoadStates
  <2>7. RulesetRead(p)
    BY <2>4, <2>5, <2>6 DEF RulesetRead
  <2>. QED
    BY <2>7
<1>8. CASE ReadEvaluator(p) /\ ~LoadFails(p)
  <2>. DEFINE c == Head(load[p].checks)
              e == [checker |-> c.checker, pin |-> c.pin, bytes |-> tree.checkers[c.checker]]
  <2>1. /\ pc[p] = "loading" /\ load[p].checks # <<>> /\ UNCHANGED <<pc, task, tree>>
        /\ tree.checkers[c.checker] # None /\ c.pin \in {None, tree.checkers[c.checker]}
        /\ load' = [load EXCEPT ![p].checks = Tail(@), ![p].evaluators = @ \union {e}]
    BY <1>8 DEF ReadEvaluator
  <2>2. load'[p].checks = Tail(load[p].checks) /\ load'[p].evaluators = load[p].evaluators \union {e}
    <3>. HIDE DEF e
    <3>. QED
      BY <1>0, <2>1 DEF TypeInv, LoadStates
  <2>3. EvaluatorRead(p)
    BY <2>1, <2>2 DEF EvaluatorRead
  <2>. QED
    BY <2>3
<1>9. CASE (LoadedForEdit(p) \/ CheckPins(p)) /\ PlacePolicy(p) /\ load' = load
  BY <1>9 DEF PlacePolicy, Become, TypeInv
<1>10. CASE ReadForEdit(p) \/ LoadedForRun(p) \/ LoadedForInstall(p)
  BY <1>10 DEF ReadForEdit, LoadedForRun, LoadedForInstall, Become, TypeInv
<1>11. CASE (LoadPack(p) \/ CheckClaims(p) \/ CheckConflicts(p)) /\ ~Leave(p)
  BY <1>11 DEF LoadPack, CheckClaims, CheckConflicts, Become, TypeInv
<1>12. CASE (\E n \in todo[p] : PlaceNext(p, n)) \/ \E e \in load[p].evaluators : RunCheck(p, e)
  BY <1>12 DEF PlaceNext, RunCheck, procVars
<1>13. CASE Kill(p) \/ DiscardDraft(p) \/ AllPlaced(p) \/ EndRun(p)
  BY <1>1, <1>13 DEF Kill, DiscardDraft, AllPlaced, EndRun
<1>14. ASSUME NEW job, job.doc \in PolicyDocs, StartJob(p, "loading", job),
              load' = [load EXCEPT ![p] = Loading(job.doc)]
       PROVE  Goal
  BY <1>14, StartJobResult DEF TypeInv
<1>15. CASE Finds(p)
  <2>1. PICK job : Begins(p, job)
    BY <1>15, FindBegins
  <2>2. CASE StartJob(p, "found", job) /\ load' = load
    BY <2>2, StartJobResult
  <2>3. CASE StartJob(p, "loading", job) /\ load' = [load EXCEPT ![p] = Loading(job.doc)] /\ job.doc \in PolicyDocs
    BY <1>14, <2>3
  <2>. QED
    BY <2>1, <2>2, <2>3 DEF Begins
<1>16. ASSUME NEW pack \in Packs, NEW replace \in BOOLEAN, InstallPack(p, pack, replace) PROVE Goal
  BY <1>16, InstallBegins, StartJobResult
<1>17. ASSUME NEW doc \in Policies, NEW name \in Names, NEW replace \in BOOLEAN,
              InstallPolicy(p, doc, name, replace)
       PROVE  Goal
  BY <1>14, <1>17, InstallBegins DEF PolicyJobs
<1>. HIDE DEF Goal
<1>18. CASE Load(p)
  BY <1>2, <1>4, <1>5, <1>1, <1>7, <1>8, <1>9, <1>10, <1>18 DEF Load, LoadedForEdit, Goal
<1>19. CASE Tool(p)
  BY <1>1, <1>6, <1>9, <1>11, <1>12, <1>13, <1>15, <1>16, <1>17, <1>19 DEF Tool, Finds, CheckPins, Goal
<1>20. CASE Guest(p)
  BY <1>12, <1>13, <1>15, <1>20 DEF Guest, Finds
<1>. QED
  BY <1>13, <1>18, <1>19, <1>20 DEF ProcStep, Goal

----------------------------------------------------------------------------
(* Pins.                                                                    *)

\* Only a run executes anything, and only what it has loaded.
LEMMA RanSteps ==
    ASSUME NEW p \in Procs, ProcStep(p)
    PROVE  ran' = ran \/ \E e \in load[p].evaluators : ran' = ran \union {e}
<1>1. CASE Finds(p)
  BY <1>1 DEF Finds, Edit, Apply, Run, Find, StartJob
<1>2. CASE Load(p) \/ Kill(p)
  BY <1>2 DEF Kill, Load, ReadForRun, ReadForEdit, ReadForApply, ReadRuleset, ReadEvaluator,
              LoadedForRun, LoadedForInstall, LoadedForEdit
<1>3. CASE Guest(p)
  BY <1>1, <1>3 DEF Guest, Finds, RunCheck, EndRun
<1>4. CASE Tool(p)
  BY <1>1, <1>4 DEF Tool, Finds, InstallPack, InstallPolicy, StartJob, SaveDraft, DiscardDraft, LoadPack,
              CheckClaims, CheckPins, CheckConflicts, PlaceNext, AllPlaced
<1>. QED
  BY <1>2, <1>3, <1>4 DEF ProcStep

\* An evaluator enters a load only when its bytes were compared with its pin.
LEMMA StepPins ==
    ASSUME TypeInv, PhaseInv, PinInv, NEW p \in Procs, ProcStep(p)
    PROVE  PinInv'
<1>1. Compared(ran')
  BY RanSteps DEF PinInv, Compared
<1>2. Compared(load'[p].evaluators)
  <2>1. CASE load'[p].evaluators = load[p].evaluators
    BY <2>1 DEF PinInv
  <2>2. CASE load'[p].evaluators = {}
    BY <2>2 DEF Compared
  <2>3. CASE EvaluatorRead(p)
    BY <2>3 DEF EvaluatorRead, PinInv, Compared
  <2>4. NoLoad.evaluators = {}
    BY DEF NoLoad
  <2>. QED
    BY <2>1, <2>2, <2>3, <2>4, LoadChanges, LoadingType DEF RulesetRead
<1>3. ASSUME NEW q \in Procs, q # p PROVE Compared(load'[q].evaluators)
  BY <1>3, StepIsLocal DEF Others, PinInv
<1>. QED
  BY <1>1, <1>2, <1>3 DEF PinInv

----------------------------------------------------------------------------
(* Checkers.                                                                *)

\* A document needs checkers.
LEMMA NeedsType ==
    ASSUME NEW doc \in PolicyDocs \union RulesetDocs
    PROVE  Needs(doc) \subseteq Checkers
<1>1. doc.checks \in Seq(Checks)
  BY DEF PolicyDocs, RulesetDocs
<1>2. \A k \in DOMAIN doc.checks : doc.checks[k] \in Checks
  BY <1>1, LenProperties, ElementOfSeq
<1>. QED
  BY <1>2 DEF Needs, Checks

\* What is to be placed and is no checker is a document.
LEMMA PlacementNeeds ==
    ASSUME NEW n \in Placements, n.at # "checkers"
    PROVE  n.data \in PolicyDocs \union RulesetDocs /\ Needs(n.data) \subseteq Checkers
BY NeedsType DEF Placements

\* What others have seen or are about to place stays good.
LEMMA OthersHaveCheckers ==
    ASSUME TypeInv, PhaseInv, ClosureInv, NEW p \in Procs, ProcStep(p), NEW q \in Procs, q # p
    PROVE  HasCheckers(q)'
<1>1. pc'[q] = pc[q] /\ task'[q] = task[q] /\ todo'[q] = todo[q] /\ load'[q] = load[q]
  BY StepIsLocal DEF Others
<1>2. \A c \in Checkers : Installed(c) => Installed(c)'
  BY InstalledStays DEF Installed
<1>3. ToRead(q)' = ToRead(q)
  BY <1>1 DEF ToRead
<1>4. HasCheckers(q) /\ PhaseOK(q)
  BY DEF ClosureInv, PhaseInv
<1>5. ASSUME pc[q] \in {"loading", "claims", "repin"} PROVE Needs(task[q].doc) \subseteq Checkers
  BY <1>4, <1>5, NeedsType DEF PhaseOK, PolicyJobs
<1>6. ASSUME NEW n \in todo[q], n.at # "checkers" PROVE Needs(n.data) \subseteq Checkers
  BY <1>6, PlacementNeeds DEF TypeInv
<1>7. pc[q] = "loading" => \A c \in Needs(task[q].doc) : Installed(c)' \/ c \in ToRead(q)
  BY <1>2, <1>4, <1>5 DEF HasCheckers
<1>8. pc[q] \in {"claims", "repin"} => \A c \in Needs(task[q].doc) : Installed(c)'
  BY <1>2, <1>4, <1>5 DEF HasCheckers
<1>9. pc[q] \in {"conflicts", "placing"} =>
         \A n \in todo[q] : n.at # "checkers" =>
             \A c \in Needs(n.data) : Installed(c)' \/ \E m \in todo[q] : m.at = "checkers" /\ m.name = c
  BY <1>2, <1>4, <1>6 DEF HasCheckers
<1>. QED
  BY <1>1, <1>3, <1>7, <1>8, <1>9 DEF HasCheckers

\* While a document loads, each of its checkers was found or is still to be read.
LEMMA LoadingHasCheckers ==
    ASSUME TypeInv, PhaseInv, ClosureInv, NEW p \in Procs, ProcStep(p), pc'[p] = "loading"
    PROVE  \A c \in Needs(task'[p].doc) : Installed(c)' \/ c \in ToRead(p)'
<1>1. CASE task'[p].doc \in PolicyDocs /\ load'[p] = Loading(task'[p].doc)
  <2>1. load'[p].checks = task'[p].doc.checks
    BY <1>1, LoadingType
  <2>. QED
    BY <2>1 DEF Needs, ToRead
<1>2. load[p].checks \in Seq(Checks)
  BY DEF TypeInv, LoadStates
<1>3. pc[p] = "loading" => \A c \in Needs(task[p].doc) : Installed(c) \/ c \in ToRead(p)
  BY DEF ClosureInv, HasCheckers
<1>4. CASE RulesetRead(p)
  <2>1. \A k \in DOMAIN load[p].checks : k \in DOMAIN load'[p].checks /\ load'[p].checks[k] = load[p].checks[k]
    <3>1. CASE load'[p].checks = load[p].checks
      BY <3>1
    <3>2. ASSUME NEW more \in Seq(Checks), load'[p].checks = load[p].checks \o more,
                 NEW k \in DOMAIN load[p].checks
          PROVE  k \in DOMAIN load'[p].checks /\ load'[p].checks[k] = load[p].checks[k]
      BY <1>2, <3>2, ConcatKeeps
    <3>. QED
      BY <1>4, <3>1, <3>2 DEF RulesetRead
  <2>2. ToRead(p) \subseteq ToRead(p)'
    BY <2>1 DEF ToRead
  <2>. QED
    BY <1>3, <1>4, <2>2 DEF RulesetRead, Installed
<1>5. CASE EvaluatorRead(p)
  <2>. DEFINE c == Head(load[p].checks)
  <2>1. load[p].checks # <<>> /\ load'[p].checks = Tail(load[p].checks) /\ tree.checkers[c.checker] # None
    BY <1>5 DEF EvaluatorRead
  <2>2. ASSUME NEW k \in DOMAIN load[p].checks
        PROVE  load[p].checks[k].checker = c.checker \/ load[p].checks[k].checker \in ToRead(p)'
    <3>1. \/ load[p].checks[k] = c
          \/ \E j \in DOMAIN load'[p].checks : load'[p].checks[j] = load[p].checks[k]
      BY <1>2, <2>1, TailKeeps
    <3>. QED
      BY <3>1 DEF ToRead
  <2>3. ToRead(p) \subseteq {c.checker} \union ToRead(p)'
    BY <2>2 DEF ToRead
  <2>. QED
    BY <1>3, <1>5, <2>1, <2>3 DEF EvaluatorRead, Installed
<1>. QED
  BY <1>1, <1>4, <1>5, LoadChanges

\* How a process gets to where it knows what it will write.
LEMMA WayToPlacing ==
    ASSUME TypeInv, NEW p \in Procs, ProcStep(p), pc'[p] \in {"claims", "repin", "conflicts", "placing"}
    PROVE  \/ LoadedForInstall(p)
           \/ (LoadedForEdit(p) \/ CheckPins(p)) /\ PlacePolicy(p) /\ UNCHANGED <<task, load>>
           \/ LoadPack(p) /\ PackIsSound(task[p].pack) /\ ~Leave(p)
           \/ CheckClaims(p) /\ ~Leave(p)
           \/ CheckConflicts(p) /\ ~Leave(p)
           \/ \E n \in todo[p] : PlaceNext(p, n)
<1>1. ~Leave(p)
  BY LeaveResult
<1>2. ~LoadFails(p)
  BY LoadFailsResult
<1>3. \A job : ~Begins(p, job)
  BY StartJobResult DEF Begins
<1>4. ~Finds(p)
  BY <1>3, FindBegins
<1>5. CASE Load(p)
  <2>1. ~ReadForRun(p) /\ ~ReadForEdit(p) /\ ~LoadedForRun(p)
    BY DEF ReadForRun, ReadForEdit, LoadedForRun, Become, TypeInv
  <2>2. ~ReadForApply(p)
    BY <1>1 DEF ReadForApply, Become, TypeInv
  <2>3. ~ReadRuleset(p) /\ ~ReadEvaluator(p)
    BY <1>2 DEF ReadRuleset, ReadEvaluator
  <2>. QED
    BY <1>2, <1>5, <2>1, <2>2, <2>3 DEF Load, LoadedForEdit
<1>6. CASE Tool(p)
  <2>1. \A pack \in Packs, replace \in BOOLEAN : ~InstallPack(p, pack, replace)
    BY InstallBegins, StartJobResult
  <2>2. \A doc \in Policies, name \in Names, replace \in BOOLEAN : ~InstallPolicy(p, doc, name, replace)
    BY InstallBegins, StartJobResult
  <2>3. \A doc \in Policies : ~SaveDraft(p, doc)
    BY DEF SaveDraft, Become, TypeInv
  <2>4. ~DiscardDraft(p) /\ ~AllPlaced(p)
    BY <1>1 DEF DiscardDraft, AllPlaced
  <2>. QED
    BY <1>1, <1>4, <1>6, <2>1, <2>2, <2>3, <2>4 DEF Tool, Finds, LoadPack, CheckPins
<1>7. ~Guest(p)
  BY <1>1, <1>4 DEF Guest, Finds, RunCheck, EndRun, procVars
<1>8. ~Kill(p)
  BY <1>1 DEF Kill
<1>. QED
  BY <1>5, <1>6, <1>7, <1>8 DEF ProcStep

\* Whoever gets there has, or brings, the checkers of what it will place.
LEMMA OwnCheckers ==
    ASSUME TypeInv, PhaseInv, ClosureInv, NEW p \in Procs, ProcStep(p)
    PROVE  HasCheckers(p)'
<1>0. HasCheckers(p) /\ PhaseOK(p) /\ task[p] \in Tasks
  BY DEF ClosureInv, PhaseInv, TypeInv
<1>1. CASE pc'[p] = "loading"
  BY <1>1, LoadingHasCheckers DEF HasCheckers
<1>2. CASE LoadedForInstall(p)
  <2>1. /\ pc[p] = "loading" /\ load[p].checks = <<>> /\ pc'[p] = "claims"
        /\ task' = task /\ tree' = tree
    BY <1>2 DEF LoadedForInstall, IsLoaded, Become, TypeInv
  <2>2. ToRead(p) = {}
    BY <2>1, EmptySeq DEF ToRead
  <2>. QED
    BY <1>0, <2>1, <2>2 DEF HasCheckers, Installed
<1>3. CASE CheckClaims(p) /\ ~Leave(p)
  <2>1. pc[p] = "claims" /\ pc'[p] = "repin" /\ task' = task /\ tree' = tree
    BY <1>3 DEF CheckClaims, Become, TypeInv
  <2>. QED
    BY <1>0, <2>1 DEF HasCheckers, Installed
<1>4. CASE (LoadedForEdit(p) \/ CheckPins(p)) /\ PlacePolicy(p) /\ UNCHANGED <<task, load>>
  <2>1. \A c \in Needs(task[p].doc) : Installed(c)
    <3>1. CASE LoadedForEdit(p)
      <4>1. pc[p] = "loading" /\ load[p].checks = <<>>
        BY <3>1 DEF LoadedForEdit, IsLoaded
      <4>2. ToRead(p) = {}
        BY <4>1, EmptySeq DEF ToRead
      <4>. QED
        BY <1>0, <4>1, <4>2 DEF HasCheckers
    <3>2. CASE CheckPins(p)
      BY <1>0, <3>2 DEF CheckPins, HasCheckers
    <3>. QED
      BY <1>4, <3>1, <3>2
  <2>2. todo'[p] = {Placement(p)} /\ pc'[p] = "conflicts" /\ tree' = tree
    BY <1>4 DEF LoadedForEdit, CheckPins, PlacePolicy, Placement, Become, TypeInv
  <2>3. Placement(p).data = task[p].doc
    BY DEF Placement
  <2>. QED
    BY <2>1, <2>2, <2>3 DEF HasCheckers, Installed
<1>5. CASE LoadPack(p) /\ PackIsSound(task[p].pack) /\ ~Leave(p)
  <2>. DEFINE pack == task[p].pack
  <2>1. todo'[p] = PackPlacements(pack) /\ pc'[p] = "conflicts" /\ tree' = tree
    BY <1>5 DEF LoadPack, Become, TypeInv
  <2>2. ASSUME NEW n \in PackPlacements(pack), n.at # "checkers", NEW c \in Needs(n.data)
        PROVE  Installed(c) \/ \E m \in PackPlacements(pack) : m.at = "checkers" /\ m.name = c
    <3>1. PICK r \in DOMAIN pack.rulesets : n.data = pack.rulesets[r]
      BY <2>2 DEF PackPlacements
    <3>2. c \in PackNeeds(pack)
      BY <2>2, <3>1 DEF PackNeeds
    <3>3. c \in DOMAIN pack.checkers \/ Installed(c)
      BY <1>5, <3>2 DEF PackIsSound, Installed
    <3>4. ASSUME c \in DOMAIN pack.checkers
          PROVE  \E m \in PackPlacements(pack) : m.at = "checkers" /\ m.name = c
      <4>1. [at |-> "checkers", name |-> c, data |-> pack.checkers[c]] \in PackPlacements(pack)
        BY <3>4 DEF PackPlacements
      <4>. QED
        BY <4>1
    <3>. QED
      BY <3>3, <3>4
  <2>. QED
    BY <2>1, <2>2 DEF HasCheckers, Installed
<1>6. CASE CheckConflicts(p) /\ ~Leave(p)
  <2>1. pc[p] = "conflicts" /\ pc'[p] = "placing" /\ todo' = todo /\ tree' = tree
    BY <1>6 DEF CheckConflicts, Become, TypeInv
  <2>. QED
    BY <1>0, <2>1 DEF HasCheckers, Installed
<1>7. ASSUME NEW n \in todo[p], PlaceNext(p, n) PROVE HasCheckers(p)'
  <2>1. /\ pc[p] = "placing" /\ pc' = pc /\ todo'[p] = todo[p] \ {n}
        /\ tree' = [tree EXCEPT ![n.at][n.name] = n.data]
    BY <1>7 DEF PlaceNext, TypeInv
  <2>2. n \in Placements /\ tree \in Trees /\ todo[p] \subseteq Placements
    BY DEF TypeInv
  <2>3. n.at = "checkers" => Installed(n.name)'
    BY <2>1, <2>2, PlaceTree, ConfigIsTyped DEF Installed, Trees
  <2>4. ASSUME NEW m \in todo[p], m.at # "checkers", NEW c \in Needs(m.data)
        PROVE  Installed(c)' \/ \E o \in todo[p] \ {n} : o.at = "checkers" /\ o.name = c
    <3>1. c \in Checkers
      BY <2>2, <2>4, PlacementNeeds
    <3>2. Installed(c) => Installed(c)'
      BY <3>1, InstalledStays DEF Installed
    <3>. QED
      BY <1>0, <2>1, <2>3, <2>4, <3>2 DEF HasCheckers
  <2>. QED
    BY <2>1, <2>4 DEF HasCheckers
<1>8. CASE pc'[p] \notin {"loading", "claims", "repin", "conflicts", "placing"}
  BY <1>8 DEF HasCheckers
<1>. QED
  BY <1>1, <1>2, <1>3, <1>4, <1>5, <1>6, <1>7, <1>8, WayToPlacing

\* When a document takes its place, its checkers have theirs.
LEMMA StepCloses ==
    ASSUME TypeInv, PhaseInv, ClosureInv, NEW p \in Procs, ProcStep(p)
    PROVE  ClosureInv'
<1>1. \A c \in Checkers : tree.checkers[c] # None => tree'.checkers[c] # None
  BY InstalledStays
<1>2. ASSUME NEW n \in todo[p], PlaceNext(p, n) PROVE Closed(tree')
  <2>1. n \in Placements /\ tree \in Trees /\ tree' = [tree EXCEPT ![n.at][n.name] = n.data]
    BY <1>2 DEF PlaceNext, TypeInv
  <2>2. ASSUME n.at # "checkers", NEW c \in Needs(n.data) PROVE tree'.checkers[c] # None
    <3>1. Installed(c) \/ \E m \in todo[p] : m.at = "checkers" /\ m.name = c
      BY <1>2, <2>2 DEF ClosureInv, HasCheckers, PlaceNext
    <3>2. ASSUME NEW m \in todo[p] PROVE m.at # "checkers"
      BY <1>2, <2>2, <3>2 DEF PlaceNext, Precedes
    <3>3. c \in Checkers
      BY <2>1, <2>2, PlacementNeeds
    <3>. QED
      BY <1>1, <3>1, <3>2, <3>3 DEF Installed
  <2>3. ASSUME NEW r \in Rulesets, tree'.rulesets[r] # None, NEW c \in Needs(tree'.rulesets[r])
        PROVE  tree'.checkers[c] # None
    <3>1. CASE n.at = "rulesets" /\ n.name = r
      <4>1. tree'.rulesets[r] = n.data
        BY <2>1, <3>1, PlaceTree DEF Trees
      <4>. QED
        BY <2>2, <2>3, <3>1, <4>1
    <3>2. CASE ~(n.at = "rulesets" /\ n.name = r)
      <4>1. tree'.rulesets[r] = tree.rulesets[r]
        BY <2>1, <3>2, PlaceTree DEF Trees
      <4>2. tree.rulesets[r] \in RulesetDocs
        BY <2>1, <2>3, <4>1 DEF Trees
      <4>3. c \in Checkers
        BY <2>3, <4>1, <4>2, NeedsType
      <4>. QED
        BY <1>1, <2>3, <4>1, <4>3 DEF ClosureInv, Closed
    <3>. QED
      BY <3>1, <3>2
  <2>4. ASSUME NEW f \in Targets, tree'.policies[f] # None, NEW c \in Needs(tree'.policies[f])
        PROVE  tree'.checkers[c] # None
    <3>1. CASE n.at = "policies" /\ n.name = f
      <4>1. tree'.policies[f] = n.data
        BY <2>1, <3>1, PlaceTree DEF Trees
      <4>. QED
        BY <2>2, <2>4, <3>1, <4>1
    <3>2. CASE ~(n.at = "policies" /\ n.name = f)
      <4>1. tree'.policies[f] = tree.policies[f]
        BY <2>1, <3>2, PlaceTree DEF Trees
      <4>2. tree.policies[f] \in PolicyDocs
        BY <2>1, <2>4, <4>1 DEF Trees
      <4>3. c \in Checkers
        BY <2>4, <4>1, <4>2, NeedsType
      <4>. QED
        BY <1>1, <2>4, <4>1, <4>3 DEF ClosureInv, Closed
    <3>. QED
      BY <3>1, <3>2
  <2>. QED
    BY <2>3, <2>4 DEF Closed
<1>3. Closed(tree')
  <2>1. CASE tree' = tree
    BY <2>1 DEF ClosureInv
  <2>. QED
    BY <1>2, <2>1, TreeSteps
<1>4. \A q \in Procs : HasCheckers(q)'
  BY OwnCheckers, OthersHaveCheckers
<1>. QED
  BY <1>3, <1>4 DEF ClosureInv

----------------------------------------------------------------------------
(* The theorems.                                                            *)

\* Nobody has begun.
LEMMA InitInv == Init => IInv
<1>. SUFFICES ASSUME Init PROVE IInv
  OBVIOUS
<1>1. TypeInv
  <2>1. NoTask \in Tasks /\ "idle" \in Labels /\ 0 \in 0..MaxJobs
    BY ConfigIsTyped DEF Tasks, Labels
  <2>2. turns \in BOOLEAN /\ calm \in BOOLEAN /\ ousted \subseteq Roots
    BY DEF Init
  <2>. QED
    BY <2>1, <2>2, NoLoadType, TreeIsSound DEF Init, TypeInv
<1>2. PhaseInv
  BY DEF Init, PhaseInv, PhaseOK
<1>3. ClosureInv
  BY TreeIsSound DEF Init, ClosureInv, HasCheckers
<1>4. PinInv
  BY DEF Init, PinInv, Compared, NoLoad
<1>. QED
  BY <1>1, <1>2, <1>3, <1>4 DEF IInv

\* A step is somebody's.
LEMMA NextIsSomebodys == Next => \E p \in Procs : ProcStep(p)
  BY DEF Next, ProcStep, Procs

\* Every step of every process keeps the types.
LEMMA StepType ==
    ASSUME TypeInv, PhaseInv, NEW p \in Procs, ProcStep(p)
    PROVE  TypeInv'
  BY ToolType, GuestType, LoadType DEF ProcStep

\* The invariant is kept.
LEMMA StepInv == IInv /\ [Next]_vars => IInv'
<1>. SUFFICES ASSUME IInv, [Next]_vars PROVE IInv'
  OBVIOUS
<1>1. ASSUME NEW p \in Procs, ProcStep(p) PROVE IInv'
  BY <1>1, StepType, StepPhase, StepCloses, StepPins DEF IInv
<1>2. CASE UNCHANGED vars
  <2>1. TypeInv' /\ PinInv'
    BY <1>2 DEF IInv, vars, procVars, TypeInv, PinInv
  <2>2. PhaseInv'
    BY <1>2 DEF IInv, vars, procVars, PhaseInv, PhaseOK, Placement
  <2>3. ClosureInv'
    BY <1>2 DEF IInv, vars, procVars, ClosureInv, HasCheckers, Installed, ToRead
  <2>. QED
    BY <2>1, <2>2, <2>3 DEF IInv
<1>. QED
  BY <1>1, <1>2, NextIsSomebodys

\* Whatever processes work side by side, replace each other's files or are killed: types, the
\* place of every process in its command, checkers before the documents that name them, and pins.
THEOREM DirectoryInvariant == Spec => []IInv
<1>. QED
  BY InitInv, StepInv, PTL DEF Spec

\* Type correctness.
THEOREM TypeCorrect == Spec => []TypeOK
<1>1. IInv => TypeOK
  <2>. SUFFICES ASSUME IInv PROVE TypeOK
    OBVIOUS
  <2>1. TypeInv
    BY DEF IInv
  <2>2. ASSUME NEW p \in Procs
        PROVE  /\ task[p].kind \in {"none", "pack", "policy", "edit", "apply", "run"}
               /\ load[p] \in LoadStates
               /\ todo[p] \subseteq Placements
    <3>1. task[p] \in Tasks /\ load[p] \in LoadStates /\ todo[p] \subseteq Placements
      BY <2>1 DEF TypeInv
    <3>2. task[p].kind \in {"none", "pack", "policy", "edit", "apply", "run"}
      BY <3>1, KindsOfJobs DEF Tasks
    <3>. QED
      BY <3>1, <3>2
  <2>3. turns \in BOOLEAN /\ calm \in BOOLEAN /\ ousted \subseteq Roots
    BY <2>1 DEF TypeInv
  <2>. QED
    BY <2>1, <2>2, <2>3 DEF TypeOK, TypeInv, LoadStates, Labels, Pending
<1>. QED
  BY <1>1, DirectoryInvariant, PTL

\* install.py 8-10: no installed document ever names a checker that is not there, whatever tools
\* work side by side, replace or are killed.
THEOREM CheckersComeFirst == Spec => []ClosureKept
<1>1. IInv => ClosureKept
  BY DEF IInv, ClosureInv, ClosureKept
<1>. QED
  BY <1>1, DirectoryInvariant, PTL

\* integrity.py 112-113: what was pin-verified at load is what runs, whatever happens to the
\* installed file since.
THEOREM PinsHold == Spec => []PinnedBytesRun
<1>1. IInv => PinnedBytesRun
  BY DEF IInv, PinInv, Compared, PinnedBytesRun
<1>. QED
  BY <1>1, DirectoryInvariant, PTL
=============================================================================

-------------------------- MODULE InstallTurnProofs --------------------------
(***************************************************************************)
(* Proofs about Install, for any processes, names, packs, policies and     *)
(* number of jobs, of what holds while tools take turns, replacing what    *)
(* they like, with runs and kills at any time: a root has one claimant,    *)
(* and a run loads a policy that governs the prefix it was found for,      *)
(* unless a policy for another root was put in its place.                  *)
(***************************************************************************)
EXTENDS InstallProofs

USE DEF history

----------------------------------------------------------------------------
(* The inductive invariant.                                                 *)

\* What the tool at work has asked for and found stays so.
TurnOK(p) ==
    /\ task[p].kind \in {"edit", "apply"} => Claims(tree, task[p].target, task[p].prefix)
    /\ task[p].kind \in {"edit", "apply"} /\ pc[p] \in {"conflicts", "placing"} =>
         task[p].doc.root = task[p].prefix
    /\ task[p].kind = "policy" => task[p].target[1] = Munge[task[p].doc.root]
    /\ task[p].kind = "policy" /\ pc[p] \in {"repin", "conflicts", "placing"} =>
         Claimants(task[p].doc.root) \subseteq {task[p].target}

\* The file a run has found goes on claiming the prefix, whoever edits it, unless the policy is
\* replaced by one for another root.
FoundOK(p) ==
    /\ pc[p] = "found" =>
         Claims(tree, task[p].target, task[p].prefix) \/ task[p].prefix \in ousted
    /\ pc[p] \in {"loading", "running"} =>
         task[p].doc.root = task[p].prefix \/ task[p].prefix \in ousted

OneAtWork == \A p, q \in Tools : pc[p] # "idle" /\ pc[q] # "idle" => p = q
TurnsInv ==
    turns => /\ Unambiguous(tree)
             /\ OneAtWork
             /\ \A p \in Tools : TurnOK(p)
             /\ \A p \in Runs : FoundOK(p)

\* What a tool that was not asked to replace anything may rely on.
AddsPolicy(p) ==
    /\ task[p].kind \in {"pack", "policy"} => ~task[p].replace
    /\ task[p].kind = "policy" /\ pc[p] = "placing" =>
         tree.policies[task[p].target] \in {None, task[p].doc}
CalmInv == calm => turns /\ \A p \in Tools : AddsPolicy(p)

TurnInv == IInv /\ TurnsInv /\ CalmInv

----------------------------------------------------------------------------
(* Turns.                                                                   *)

\* A process at rest can only begin a command.
LEMMA IdleBegins ==
    ASSUME TypeInv, PhaseInv, NEW p \in Procs, ProcStep(p), pc[p] = "idle"
    PROVE  \/ Finds(p)
           \/ p \in Tools /\ \E pack \in Packs, replace \in BOOLEAN : InstallPack(p, pack, replace)
           \/ p \in Tools /\ \E doc \in Policies, name \in Names, replace \in BOOLEAN :
                                 InstallPolicy(p, doc, name, replace)
<1>1. ~Load(p) /\ ~Kill(p)
  BY DEF Kill, Load, ReadForRun, ReadForEdit, ReadForApply, ReadRuleset, ReadEvaluator,
         LoadedForRun, LoadedForInstall, LoadedForEdit, IsLoaded
<1>2. CASE p \in Tools /\ Tool(p)
  BY <1>2 DEF Tool, Finds, SaveDraft, DiscardDraft, LoadPack, CheckClaims, CheckPins, CheckConflicts,
              PlaceNext, AllPlaced
<1>3. CASE Guest(p)
  BY <1>3 DEF Guest, Finds, RunCheck, EndRun
<1>. QED
  BY <1>1, <1>2, <1>3 DEF ProcStep

\* A step that is not the beginning of a tool's command leaves the history alone, but for the
\* roots that lose their policy.
LEMMA HistorySteps ==
    ASSUME TypeInv, PhaseInv, NEW p \in Procs, ProcStep(p)
    PROVE  /\ \/ turns' = turns /\ calm' = calm
              \/ p \in Tools /\ (ToolBegins(p, TRUE) \/ ToolBegins(p, FALSE))
           /\ p \in Tools /\ pc[p] = "idle" => ToolBegins(p, TRUE) \/ ToolBegins(p, FALSE)
           /\ ousted \subseteq ousted'
<1>1. CASE Finds(p)
  <2>1. IF p \in Tools THEN ToolBegins(p, FALSE) ELSE UNCHANGED history
    BY <1>1, Zenon DEF Finds, Edit, Apply, Run, Find
  <2>2. ousted' = ousted
    BY <2>1 DEF ToolBegins
  <2>. QED
    BY <2>1, <2>2
<1>2. ASSUME NEW pack \in Packs, NEW replace \in BOOLEAN, InstallPack(p, pack, replace)
      PROVE  (ToolBegins(p, TRUE) \/ ToolBegins(p, FALSE)) /\ ousted' = ousted
  BY <1>2 DEF InstallPack, ToolBegins
<1>3. ASSUME NEW doc \in Policies, NEW name \in Names, NEW replace \in BOOLEAN,
             InstallPolicy(p, doc, name, replace)
      PROVE  (ToolBegins(p, TRUE) \/ ToolBegins(p, FALSE)) /\ ousted' = ousted
  BY <1>3 DEF InstallPolicy, ToolBegins
<1>4. CASE pc[p] = "idle"
  BY <1>1, <1>2, <1>3, <1>4, IdleBegins
<1>5. CASE pc[p] # "idle"
  <2>1. ~Finds(p)
    BY <1>5, FindBegins, StartJobResult DEF Begins
  <2>2. CASE Load(p) \/ Kill(p)
    BY <1>5, <2>2 DEF Kill, Load, ReadForRun, ReadForEdit, ReadForApply, ReadRuleset, ReadEvaluator,
                LoadedForRun, LoadedForInstall, LoadedForEdit
  <2>3. CASE Guest(p)
    BY <1>5, <2>1, <2>3 DEF Guest, Finds, RunCheck, EndRun
  <2>4. CASE \E n \in todo[p] : PlaceNext(p, n)
    BY <1>5, <2>4 DEF PlaceNext
  <2>5. CASE Tool(p)
    <3>1. \A pack \in Packs, replace \in BOOLEAN : ~InstallPack(p, pack, replace)
      BY <1>5 DEF InstallPack, StartJob
    <3>2. \A doc \in Policies, name \in Names, replace \in BOOLEAN : ~InstallPolicy(p, doc, name, replace)
      BY <1>5 DEF InstallPolicy, StartJob
    <3>. QED
      BY <1>5, <2>1, <2>4, <2>5, <3>1, <3>2 DEF Tool, Finds, SaveDraft, DiscardDraft, LoadPack,
              CheckClaims, CheckPins, CheckConflicts, AllPlaced
  <2>. QED
    BY <2>2, <2>3, <2>5 DEF ProcStep
<1>. QED
  BY <1>4, <1>5

\* A tool that begins while tools take turns finds the others at rest; nothing restores turns, or
\* calm.
LEMMA TurnSteps ==
    ASSUME TypeInv, PhaseInv, NEW p \in Procs, ProcStep(p)
    PROVE  /\ turns' => /\ turns
                        /\ p \in Tools /\ pc[p] = "idle" => \A q \in Tools \ {p} : pc[q] = "idle"
           /\ calm' => calm /\ (turns => turns')
           /\ ousted \subseteq ousted'
<1>1. ASSUME ToolBegins(p, TRUE) \/ ToolBegins(p, FALSE)
      PROVE  /\ turns' => turns /\ \A q \in Tools \ {p} : pc[q] = "idle"
             /\ calm' => calm /\ turns'
  BY <1>1 DEF ToolBegins
<1>. QED
  BY <1>1, HistorySteps

\* Tools go on taking turns.
LEMMA TurnsAreTaken ==
    ASSUME TypeInv, PhaseInv, TurnsInv, NEW p \in Procs, ProcStep(p), turns'
    PROVE  OneAtWork'
<1>1. turns /\ OneAtWork
  BY TurnSteps DEF TurnsInv
<1>2. \A q \in Procs \ {p} : pc'[q] = pc[q]
  BY StepIsLocal DEF Others
<1>3. p \in Tools /\ pc[p] = "idle" => \A q \in Tools \ {p} : pc[q] = "idle"
  BY TurnSteps
<1>. QED
  BY <1>1, <1>2, <1>3 DEF OneAtWork, Procs

----------------------------------------------------------------------------
(* Placing a policy.                                                        *)

\* A file that claims a root goes on claiming it, or the root has lost it to another policy that
\* was installed; another may only join when there is none.
LEMMA PlacementClaims ==
    ASSUME TypeInv, PhaseInv, TurnsInv, turns, NEW p \in Tools, NEW n \in todo[p], PlaceNext(p, n),
           NEW f \in Targets, NEW root \in Roots
    PROVE  /\ Claims(tree, f, root) =>
                \/ Claims(tree', f, root)
                \/ task[p].kind = "policy" /\ root \in ousted'
           /\ Claims(tree', f, root) =>
                \/ Claims(tree, f, root)
                \/ /\ task[p].kind = "policy" /\ f = task[p].target /\ root = task[p].doc.root
                   /\ Claimants(root) \subseteq {f}
<1>1. /\ pc[p] = "placing" /\ n \in Placements /\ tree \in Trees /\ p \in Procs
      /\ tree' = [tree EXCEPT ![n.at][n.name] = n.data]
  BY DEF PlaceNext, TypeInv, Procs
<1>2. CASE ~(n.at = "policies" /\ n.name = f)
  <2>1. tree'.policies[f] = tree.policies[f]
    BY <1>1, <1>2, PlaceTree DEF Trees
  <2>. QED
    BY <2>1 DEF Claims
<1>3. CASE n.at = "policies" /\ n.name = f
  <2>1. /\ task[p] \in PolicyJobs \union EditJobs \union ApplyJobs
        /\ task[p].doc \in PolicyDocs
        /\ n = Placement(p)
    BY <1>1, <1>3 DEF PhaseInv, PhaseOK
  <2>2. f = task[p].target /\ tree'.policies[f] = task[p].doc
    BY <1>1, <1>3, <2>1, PlaceTree DEF Placement, Trees
  <2>3. task[p].doc # None
    BY <2>1, NoneIsNoDocument
  <2>4. TurnOK(p)
    BY DEF TurnsInv
  <2>5. CASE task[p] \in PolicyJobs
    <3>1. task[p].kind = "policy"
      BY <2>5, KindsOfJobs
    <3>2. Claims(tree, f, root) /\ ~Claims(tree', f, root) => root \in ousted'
      BY <3>1 DEF PlaceNext, Unclaimed
    <3>. QED
      BY <1>1, <2>2, <2>3, <2>4, <3>1, <3>2 DEF TurnOK, Claims
  <2>6. CASE task[p] \in EditJobs \union ApplyJobs
    <3>1. task[p].kind \in {"edit", "apply"}
      BY <2>6, KindsOfJobs
    <3>2. Claims(tree, f, task[p].prefix) /\ task[p].doc.root = task[p].prefix
      BY <1>1, <2>2, <2>4, <3>1 DEF TurnOK
    <3>. QED
      BY <2>2, <2>3, <3>2 DEF Claims
  <2>. QED
    BY <2>1, <2>5, <2>6
<1>. QED
  BY <1>2, <1>3

\* No placement gives a root a second claimant.
LEMMA OneClaimantStays ==
    ASSUME TypeInv, PhaseInv, TurnsInv, turns, NEW p \in Procs, ProcStep(p)
    PROVE  Unambiguous(tree')
<1>1. Unambiguous(tree)
  BY DEF TurnsInv
<1>2. CASE tree' = tree
  BY <1>1, <1>2
<1>3. ASSUME p \in Tools, NEW n \in todo[p], PlaceNext(p, n),
             NEW root \in Roots, NEW f \in Targets, NEW g \in Targets,
             Claims(tree', f, root), Claims(tree', g, root)
      PROVE  f = g
  <2>1. \A h \in Targets : Claims(tree', h, root) =>
            \/ Claims(tree, h, root)
            \/ h = task[p].target /\ Claimants(root) \subseteq {h}
    BY <1>3, PlacementClaims
  <2>. QED
    BY <1>1, <1>3, <2>1 DEF Unambiguous, Claimants
<1>. QED
  BY <1>2, <1>3, TreeSteps DEF Unambiguous

----------------------------------------------------------------------------
(* What the tool at work knows.                                             *)

\* A tool that begins has found a file that claims its prefix, or names its bucket.
LEMMA BeginsTurn ==
    ASSUME TypeInv, PhaseInv, NEW p \in Tools, ProcStep(p), pc[p] = "idle"
    PROVE  TurnOK(p)'
<1>0. p \in Procs
  BY DEF Procs
<1>1. CASE Finds(p)
  <2>1. PICK job : Begins(p, job)
    BY <1>0, <1>1, FindBegins
  <2>2. tree' = tree /\ task'[p] = job /\ pc'[p] \in {"found", "loading"}
    BY <1>0, <2>1, StartJobResult DEF Begins
  <2>3. \/ job \in RunJobs
        \/ job \in EditJobs \union ApplyJobs /\ Claims(tree, job.target, job.prefix)
    BY <2>1 DEF Begins
  <2>. QED
    BY <2>2, <2>3, KindsOfJobs DEF TurnOK
<1>2. ASSUME NEW pack \in Packs, NEW replace \in BOOLEAN, InstallPack(p, pack, replace)
      PROVE  TurnOK(p)'
  <2>1. PICK job \in PackJobs : StartJob(p, "survey", job)
    BY <1>0, <1>2, InstallBegins
  <2>2. task'[p] = job /\ job.kind = "pack"
    BY <1>0, <2>1, StartJobResult, KindsOfJobs
  <2>. QED
    BY <2>2 DEF TurnOK
<1>3. ASSUME NEW doc \in Policies, NEW name \in Names, NEW replace \in BOOLEAN,
             InstallPolicy(p, doc, name, replace)
      PROVE  TurnOK(p)'
  <2>1. PICK job \in PolicyJobs :
           StartJob(p, "loading", job) /\ job.target[1] = Munge[job.doc.root]
    BY <1>0, <1>3, InstallBegins
  <2>2. task'[p] = job /\ job.kind = "policy" /\ pc'[p] = "loading"
    BY <1>0, <2>1, StartJobResult, KindsOfJobs
  <2>. QED
    BY <2>1, <2>2 DEF TurnOK
<1>. QED
  BY <1>0, <1>1, <1>2, <1>3, IdleBegins

\* What a process reads changes its document or its draft, never what it found.
LEMMA ReadsKeepTarget ==
    ASSUME TypeInv, PhaseInv, NEW p \in Procs, ~Leave(p),
           \/ ReadForRun(p) \/ ReadForEdit(p) \/ ReadForApply(p) \/ \E doc \in Policies : SaveDraft(p, doc)
    PROVE  /\ task'[p].kind = task[p].kind /\ task'[p].prefix = task[p].prefix
           /\ task'[p].target = task[p].target
           /\ task[p].kind \in {"edit", "apply", "run"}
           /\ pc'[p] \in {"editing", "loading"} /\ tree' = tree
<1>. USE DEF Become
<1>1. ASSUME NEW doc \in PolicyDocs, task' = [task EXCEPT ![p].doc = doc],
             task[p] \in EditJobs \union ApplyJobs \union RunJobs
      PROVE  /\ task'[p].kind = task[p].kind /\ task'[p].prefix = task[p].prefix
             /\ task'[p].target = task[p].target
             /\ task[p].kind \in {"edit", "apply", "run"}
  <2>1. task'[p] = [task[p] EXCEPT !.doc = doc]
    BY <1>1 DEF TypeInv
  <2>2. task[p] \in EditJobs => /\ task'[p].kind = task[p].kind /\ task'[p].prefix = task[p].prefix
                                /\ task'[p].target = task[p].target
    BY <2>1 DEF EditJobs
  <2>3. task[p] \in ApplyJobs => /\ task'[p].kind = task[p].kind /\ task'[p].prefix = task[p].prefix
                                 /\ task'[p].target = task[p].target
    BY <2>1 DEF ApplyJobs
  <2>4. task[p] \in RunJobs => /\ task'[p].kind = task[p].kind /\ task'[p].prefix = task[p].prefix
                               /\ task'[p].target = task[p].target
    BY <2>1 DEF RunJobs
  <2>. QED
    BY <1>1, <2>2, <2>3, <2>4, KindsOfJobs
<1>2. CASE ReadForRun(p)
  <2>1. tree.policies[task[p].target] \in PolicyDocs /\ task[p] \in RunJobs
    BY <1>2, TaskDoc DEF ReadForRun, PhaseInv, PhaseOK, TypeInv, Trees
  <2>2. pc'[p] = "loading" /\ tree' = tree
    BY <1>2 DEF ReadForRun, TypeInv
  <2>. QED
    BY <1>1, <1>2, <2>1, <2>2 DEF ReadForRun
<1>3. CASE ReadForEdit(p)
  <2>1. task[p] \in EditJobs /\ tree' = tree
    BY <1>3, TaskDoc DEF ReadForEdit
  <2>2. task'[p] = [task[p] EXCEPT !.original = tree.policies[task[p].target]] /\ pc'[p] = "editing"
    BY <1>3 DEF ReadForEdit, TypeInv
  <2>. QED
    BY <2>1, <2>2 DEF EditJobs
<1>4. CASE ReadForApply(p)
  <2>1. PICK more \in PolicyDocs :
           /\ task' = [task EXCEPT ![p].doc = more]
           /\ pc' = [pc EXCEPT ![p] = "loading"] /\ UNCHANGED tree
    BY <1>4, ReadForApplyResult
  <2>2. task[p] \in ApplyJobs /\ pc'[p] = "loading"
    BY <1>4, <2>1, TaskDoc DEF ReadForApply, TypeInv
  <2>. QED
    BY <1>1, <2>1, <2>2
<1>5. ASSUME NEW doc \in Policies, SaveDraft(p, doc)
      PROVE  /\ task'[p].kind = task[p].kind /\ task'[p].prefix = task[p].prefix
             /\ task'[p].target = task[p].target
             /\ task[p].kind \in {"edit", "apply", "run"}
             /\ pc'[p] \in {"editing", "loading"} /\ tree' = tree
  <2>1. doc \in PolicyDocs /\ task[p] \in EditJobs /\ pc'[p] = "loading" /\ tree' = tree
    BY <1>5, ConfigIsTyped DEF SaveDraft, PhaseInv, PhaseOK, TypeInv
  <2>. QED
    BY <1>1, <1>5, <2>1 DEF SaveDraft
<1>. QED
  BY <1>2, <1>3, <1>4, <1>5

\* A tool at work goes on with what it knows.
LEMMA GoesOnInTurn ==
    ASSUME TypeInv, PhaseInv, TurnsInv, turns, NEW p \in Tools, ProcStep(p), pc[p] # "idle"
    PROVE  TurnOK(p)'
<1>. USE DEF Become
<1>0. p \in Procs /\ p \notin Runs /\ TurnOK(p) /\ PhaseOK(p) /\ ~Finds(p)
  <2>1. p \in Procs
    BY DEF Procs
  <2>2. ~Finds(p)
    BY <2>1, FindBegins, StartJobResult DEF Begins
  <2>. QED
    BY <2>1, <2>2, ConfigIsTyped DEF TurnsInv, PhaseInv
<1>1. CASE Leave(p)
  <2>1. task'[p].kind = "none"
    BY <1>0, <1>1, LeaveResult DEF NoTask
  <2>. QED
    BY <2>1 DEF TurnOK
<1>2. ASSUME task'[p] = task[p], tree' = tree, pc'[p] \notin {"repin", "conflicts", "placing"}
      PROVE  TurnOK(p)'
  BY <1>0, <1>2 DEF TurnOK
<1>3. CASE LoadFails(p) /\ tree' = tree
  BY <1>0, <1>1, <1>2, <1>3, LoadFailsResult DEF NoTask, TurnOK
<1>4. CASE /\ ~Leave(p)
           /\ ReadForRun(p) \/ ReadForEdit(p) \/ ReadForApply(p) \/ \E doc \in Policies : SaveDraft(p, doc)
  <2>1. /\ task'[p].kind = task[p].kind /\ task'[p].prefix = task[p].prefix
        /\ task'[p].target = task[p].target
        /\ task[p].kind \in {"edit", "apply", "run"}
        /\ pc'[p] \in {"editing", "loading"} /\ tree' = tree
    BY <1>0, <1>4, ReadsKeepTarget
  <2>. QED
    BY <1>0, <2>1 DEF TurnOK
<1>5. CASE (ReadRuleset(p) \/ ReadEvaluator(p)) /\ ~LoadFails(p)
  BY <1>2, <1>5 DEF ReadRuleset, ReadEvaluator
<1>6. CASE LoadedForRun(p) \/ LoadedForInstall(p)
  BY <1>0, <1>2, <1>6 DEF LoadedForRun, LoadedForInstall, TypeInv
<1>7. CASE LoadedForEdit(p) /\ ~LoadFails(p)
  <2>1. /\ task'[p] = task[p] /\ tree' = tree /\ task[p].kind \in {"edit", "apply"}
        /\ task[p].doc.root = task[p].prefix
    BY <1>7 DEF LoadedForEdit
  <2>. QED
    BY <1>0, <2>1 DEF TurnOK
<1>8. CASE LoadPack(p) /\ ~Leave(p)
  <2>1. task[p].kind = "pack" /\ task'[p] = task[p]
    BY <1>0, <1>8, KindsOfJobs DEF LoadPack, PhaseOK
  <2>. QED
    BY <1>0, <2>1 DEF TurnOK
<1>9. CASE CheckClaims(p) /\ ~Leave(p)
  <2>1. /\ Claimants(task[p].doc.root) \subseteq {task[p].target}
        /\ task' = task /\ tree' = tree /\ pc'[p] = "repin"
    BY <1>0, <1>9 DEF CheckClaims, TypeInv
  <2>2. task[p].kind = "policy"
    BY <1>0, <1>9, KindsOfJobs DEF CheckClaims, PhaseOK
  <2>. QED
    BY <1>0, <2>1, <2>2 DEF TurnOK, Claimants
<1>10. CASE CheckPins(p) /\ ~Leave(p)
  <2>1. pc[p] = "repin" /\ pc'[p] = "conflicts" /\ task' = task /\ tree' = tree
    BY <1>0, <1>10 DEF CheckPins, PlacePolicy, TypeInv
  <2>2. task[p].kind = "policy"
    BY <1>0, <2>1, KindsOfJobs DEF PhaseOK
  <2>. QED
    BY <1>0, <2>1, <2>2 DEF TurnOK, Claimants
<1>11. CASE CheckConflicts(p) /\ ~Leave(p)
  <2>1. pc[p] = "conflicts" /\ pc'[p] = "placing" /\ task' = task /\ tree' = tree
    BY <1>0, <1>11 DEF CheckConflicts, TypeInv
  <2>. QED
    BY <1>0, <2>1 DEF TurnOK, Claimants
<1>12. ASSUME NEW n \in todo[p], PlaceNext(p, n) PROVE TurnOK(p)'
  <2>1. /\ pc[p] = "placing" /\ pc' = pc /\ task' = task /\ n \in Placements /\ tree \in Trees
        /\ tree' = [tree EXCEPT ![n.at][n.name] = n.data]
    BY <1>0, <1>12 DEF PlaceNext, TypeInv
  <2>2. ASSUME task[p].kind \in {"edit", "apply"}
        PROVE  Claims(tree', task[p].target, task[p].prefix)
    <3>1. task[p] \in EditJobs \union ApplyJobs
      BY <1>0, <2>2, TaskDoc
    <3>2. task[p].target \in Targets /\ task[p].prefix \in Roots
      BY <3>1 DEF EditJobs, ApplyJobs
    <3>. QED
      BY <1>0, <1>12, <2>2, <3>2, PlacementClaims DEF TurnOK
  <2>3. ASSUME task[p].kind = "policy"
        PROVE  Claimants(task[p].doc.root)' \subseteq {task[p].target}
    <3>1. task[p] \in PolicyJobs
      BY <1>0, <2>3, TaskDoc
    <3>2. task[p].target \in Targets /\ task[p].doc.root \in Roots
      BY <3>1 DEF PolicyJobs, PolicyDocs
    <3>3. Claimants(task[p].doc.root) \subseteq {task[p].target}
      BY <1>0, <2>1, <2>3 DEF TurnOK
    <3>4. ASSUME NEW f \in Targets, Claims(tree', f, task[p].doc.root) PROVE f = task[p].target
      <4>1. Claims(tree, f, task[p].doc.root) \/ f = task[p].target
        BY <1>12, <3>2, <3>4, PlacementClaims
      <4>. QED
        BY <3>3, <4>1 DEF Claimants
    <3>5. task'[p].doc.root = task[p].doc.root
      BY <2>1
    <3>. QED
      BY <2>1, <3>4 DEF Claimants
  <2>. QED
    BY <1>0, <2>1, <2>2, <2>3 DEF TurnOK
<1>13. CASE Kill(p) \/ DiscardDraft(p) \/ AllPlaced(p)
  BY <1>1, <1>13 DEF Kill, DiscardDraft, AllPlaced
<1>14. CASE Load(p)
  BY <1>1, <1>3, <1>4, <1>5, <1>6, <1>7, <1>14 DEF Load, ReadRuleset, ReadEvaluator, LoadedForEdit
<1>15. CASE Tool(p)
  <2>1. \A pack \in Packs, replace \in BOOLEAN : ~InstallPack(p, pack, replace)
    BY DEF InstallPack, StartJob
  <2>2. \A doc \in Policies, name \in Names, replace \in BOOLEAN : ~InstallPolicy(p, doc, name, replace)
    BY DEF InstallPolicy, StartJob
  <2>. QED
    BY <1>0, <1>1, <1>4, <1>8, <1>9, <1>10, <1>11, <1>12, <1>13, <1>15, <2>1, <2>2 DEF Tool, Finds
<1>. QED
  BY <1>0, <1>13, <1>14, <1>15 DEF ProcStep

----------------------------------------------------------------------------
(* What a run has found.                                                    *)

\* A run loads a policy that governs the prefix it was found for, whatever was edited meanwhile,
\* unless the prefix lost its policy to one for another root.
LEMMA OwnFound ==
    ASSUME TypeInv, PhaseInv, TurnsInv, turns, NEW p \in Runs, ProcStep(p)
    PROVE  FoundOK(p)'
<1>. USE DEF Become
<1>0. p \in Procs /\ p \notin Tools /\ FoundOK(p) /\ PhaseOK(p) /\ ousted \subseteq ousted'
  <2>1. p \in Procs
    BY DEF Procs
  <2>. QED
    BY <2>1, TurnSteps, ConfigIsTyped DEF TurnsInv, PhaseInv
<1>1. CASE pc'[p] \notin {"found", "loading", "running"}
  BY <1>1 DEF FoundOK
<1>2. ASSUME task'[p] = task[p], tree' = tree,
             pc'[p] = pc[p] \/ (pc[p] = "loading" /\ pc'[p] = "running")
      PROVE  FoundOK(p)'
  BY <1>0, <1>2 DEF FoundOK
<1>3. CASE Finds(p)
  <2>1. PICK job : Begins(p, job)
    BY <1>0, <1>3, FindBegins
  <2>2. tree' = tree /\ task'[p] = job /\ pc'[p] \in {"found", "loading"}
    BY <1>0, <2>1, StartJobResult DEF Begins
  <2>3. \/ pc'[p] = "found" /\ Claims(tree, job.target, job.prefix)
        \/ pc'[p] = "loading" /\ job.doc.root = job.prefix
    BY <1>0, <2>1, StartJobResult DEF Begins
  <2>. QED
    BY <2>2, <2>3 DEF FoundOK
<1>4. ASSUME NEW doc \in PolicyDocs, task' = [task EXCEPT ![p].doc = doc], pc'[p] = "loading",
             task[p] \in EditJobs \union ApplyJobs \union RunJobs,
             doc.root = task[p].prefix \/ task[p].prefix \in ousted
      PROVE  FoundOK(p)'
  <2>1. task'[p] = [task[p] EXCEPT !.doc = doc] /\ task'[p].doc = doc
    BY <1>0, <1>4, NewDocType DEF TypeInv
  <2>2. task'[p].prefix = task[p].prefix
    BY <1>4, <2>1 DEF EditJobs, ApplyJobs, RunJobs
  <2>. QED
    BY <1>0, <1>4, <2>1, <2>2 DEF FoundOK
<1>5. CASE ReadForRun(p)
  <2>1. tree.policies[task[p].target] \in PolicyDocs /\ task[p] \in RunJobs /\ pc[p] = "found"
    BY <1>0, <1>5, TaskDoc DEF ReadForRun, PhaseOK, TypeInv, Trees
  <2>2. tree.policies[task[p].target].root = task[p].prefix \/ task[p].prefix \in ousted
    BY <1>0, <2>1 DEF FoundOK, Claims
  <2>3. pc'[p] = "loading"
    BY <1>0, <1>5 DEF ReadForRun, TypeInv
  <2>. QED
    BY <1>4, <1>5, <2>1, <2>2, <2>3 DEF ReadForRun
<1>6. CASE ReadForApply(p) /\ ~Leave(p)
  <2>1. PICK more \in PolicyDocs :
           /\ more.root = tree.policies[task[p].target].root
           /\ task' = [task EXCEPT ![p].doc = more]
           /\ pc' = [pc EXCEPT ![p] = "loading"]
    BY <1>0, <1>6, ReadForApplyResult
  <2>2. task[p] \in ApplyJobs /\ pc[p] = "found" /\ pc'[p] = "loading"
    BY <1>0, <1>6, <2>1, TaskDoc DEF ReadForApply, TypeInv
  <2>3. more.root = task[p].prefix \/ task[p].prefix \in ousted
    BY <1>0, <2>1, <2>2 DEF FoundOK, Claims
  <2>. QED
    BY <1>4, <2>1, <2>2, <2>3
<1>7. CASE (ReadRuleset(p) \/ ReadEvaluator(p)) /\ ~LoadFails(p)
  BY <1>2, <1>7 DEF ReadRuleset, ReadEvaluator
<1>8. CASE LoadedForRun(p)
  BY <1>0, <1>2, <1>8 DEF LoadedForRun, IsLoaded, TypeInv
<1>9. CASE Leave(p) \/ LoadFails(p)
  BY <1>0, <1>1, <1>9, LeaveResult, LoadFailsResult
<1>10. CASE ReadForEdit(p) \/ LoadedForInstall(p) \/ (LoadedForEdit(p) /\ PlacePolicy(p))
  BY <1>0, <1>1, <1>10 DEF ReadForEdit, LoadedForInstall, PlacePolicy, TypeInv
<1>11. ASSUME NEW e \in load[p].evaluators, RunCheck(p, e) PROVE FoundOK(p)'
  BY <1>2, <1>11 DEF RunCheck, procVars
<1>12. CASE Load(p)
  BY <1>5, <1>6, <1>7, <1>8, <1>9, <1>10, <1>12 DEF Load, LoadedForEdit
<1>13. CASE Guest(p)
  BY <1>3, <1>9, <1>11, <1>13 DEF Guest, Finds, EndRun
<1>14. CASE Kill(p)
  BY <1>9, <1>14 DEF Kill
<1>. QED
  BY <1>0, <1>12, <1>13, <1>14 DEF ProcStep

\* The invariant is kept while tools take turns.
LEMMA StepTurns ==
    ASSUME TypeInv, PhaseInv, TurnsInv, NEW p \in Procs, ProcStep(p)
    PROVE  TurnsInv'
<1>. SUFFICES ASSUME turns' PROVE /\ Unambiguous(tree')
                                  /\ OneAtWork'
                                  /\ \A q \in Tools : TurnOK(q)'
                                  /\ \A q \in Runs : FoundOK(q)'
  BY DEF TurnsInv
<1>1. /\ turns /\ ousted \subseteq ousted'
      /\ p \in Tools /\ pc[p] = "idle" => \A q \in Tools \ {p} : pc[q] = "idle"
  BY TurnSteps
<1>2. Unambiguous(tree') /\ OneAtWork'
  BY <1>1, OneClaimantStays, TurnsAreTaken
<1>3. ASSUME NEW q \in Tools PROVE TurnOK(q)'
  <2>1. CASE q = p
    BY <1>1, <2>1, BeginsTurn, GoesOnInTurn
  <2>2. CASE q # p
    <3>1. q \in Procs /\ pc'[q] = pc[q] /\ task'[q] = task[q] /\ TurnOK(q) /\ PhaseOK(q)
      BY <1>1, <2>2, StepIsLocal DEF Procs, Others, TurnsInv, PhaseInv
    <3>2. CASE pc[q] = "idle"
      BY <3>1, <3>2, KindsOfJobs DEF TurnOK, PhaseOK
    <3>3. CASE pc[q] # "idle"
      <4>1. p \notin Tools
        BY <1>1, <2>2, <3>3 DEF TurnsInv, OneAtWork
      <4>2. tree' = tree
        BY <4>1, TreeSteps
      <4>. QED
        BY <3>1, <4>2 DEF TurnOK, Claimants
    <3>. QED
      BY <3>2, <3>3
  <2>. QED
    BY <2>1, <2>2
<1>4. ASSUME NEW q \in Runs PROVE FoundOK(q)'
  <2>1. CASE q = p
    BY <1>1, <2>1, OwnFound
  <2>2. CASE q # p
    <3>1. q \in Procs /\ pc'[q] = pc[q] /\ task'[q] = task[q] /\ FoundOK(q) /\ PhaseOK(q)
      BY <1>1, <2>2, StepIsLocal DEF Procs, Others, TurnsInv, PhaseInv
    <3>2. ASSUME pc[q] = "found"
          PROVE  Claims(tree', task[q].target, task[q].prefix) \/ task[q].prefix \in ousted'
      <4>1. task[q].target \in Targets /\ task[q].prefix \in Roots
        BY <3>1, <3>2 DEF PhaseOK, EditJobs, ApplyJobs, RunJobs
      <4>2. Claims(tree, task[q].target, task[q].prefix) \/ task[q].prefix \in ousted
        BY <3>1, <3>2 DEF FoundOK
      <4>. QED
        BY <1>1, <4>1, <4>2, TreeSteps, PlacementClaims
    <3>. QED
      BY <1>1, <3>1, <3>2 DEF FoundOK
  <2>. QED
    BY <2>1, <2>2
<1>. QED
  BY <1>2, <1>3, <1>4

----------------------------------------------------------------------------
(* What a tool may rely on that was not asked to replace.                   *)

\* A tool that begins while nothing is replaced was not asked to.
LEMMA BeginsToAdd ==
    ASSUME TypeInv, PhaseInv, NEW p \in Tools, ProcStep(p), pc[p] = "idle", calm'
    PROVE  AddsPolicy(p)'
<1>0. p \in Procs
  BY DEF Procs
<1>1. CASE Finds(p)
  <2>1. PICK job : Begins(p, job)
    BY <1>0, <1>1, FindBegins
  <2>2. task'[p] = job /\ job \in EditJobs \union ApplyJobs \union RunJobs
    BY <1>0, <2>1, StartJobResult DEF Begins
  <2>. QED
    BY <2>2, KindsOfJobs DEF AddsPolicy
<1>2. ASSUME NEW pack \in Packs, NEW replace \in BOOLEAN, InstallPack(p, pack, replace)
      PROVE  AddsPolicy(p)'
  <2>1. PICK job \in PackJobs : StartJob(p, "survey", job) /\ job.replace = replace
    BY <1>0, <1>2, InstallBegins
  <2>2. ~replace
    BY <1>2 DEF InstallPack, ToolBegins
  <2>3. task'[p] = job /\ job.kind = "pack"
    BY <1>0, <2>1, StartJobResult, KindsOfJobs
  <2>. QED
    BY <2>1, <2>2, <2>3 DEF AddsPolicy
<1>3. ASSUME NEW doc \in Policies, NEW name \in Names, NEW replace \in BOOLEAN,
             InstallPolicy(p, doc, name, replace)
      PROVE  AddsPolicy(p)'
  <2>1. PICK job \in PolicyJobs : StartJob(p, "loading", job) /\ job.replace = replace
    BY <1>0, <1>3, InstallBegins
  <2>2. ~replace
    BY <1>3 DEF InstallPolicy, ToolBegins
  <2>3. task'[p] = job /\ pc'[p] = "loading"
    BY <1>0, <2>1, StartJobResult
  <2>. QED
    BY <2>1, <2>2, <2>3 DEF AddsPolicy
<1>. QED
  BY <1>0, <1>1, <1>2, <1>3, IdleBegins

\* A tool at work that reaches its placements has found nothing in their way.
LEMMA GoesOnToAdd ==
    ASSUME TypeInv, PhaseInv, NEW p \in Tools, AddsPolicy(p), ProcStep(p), pc[p] # "idle"
    PROVE  AddsPolicy(p)'
<1>. USE DEF Become
<1>0. p \in Procs /\ p \notin Runs /\ PhaseOK(p) /\ ~Finds(p)
  <2>1. p \in Procs
    BY DEF Procs
  <2>2. ~Finds(p)
    BY <2>1, FindBegins, StartJobResult DEF Begins
  <2>. QED
    BY <2>1, <2>2, ConfigIsTyped DEF PhaseInv
<1>1. CASE Leave(p)
  <2>1. task'[p].kind = "none"
    BY <1>0, <1>1, LeaveResult DEF NoTask
  <2>. QED
    BY <2>1 DEF AddsPolicy
<1>2. ASSUME task'[p] = task[p], pc'[p] # "placing" \/ task[p].kind # "policy"
      PROVE  AddsPolicy(p)'
  BY <1>2 DEF AddsPolicy
<1>3. CASE LoadFails(p)
  <2>1. task'[p] = task[p] \/ task'[p] = NoTask
    BY <1>0, <1>3, LoadFailsResult
  <2>2. pc'[p] \in {"idle", "editing"}
    BY <1>0, <1>3, LoadFailsResult
  <2>. QED
    BY <1>2, <2>1, <2>2 DEF AddsPolicy, NoTask
<1>4. CASE /\ ~Leave(p)
           /\ ReadForRun(p) \/ ReadForEdit(p) \/ ReadForApply(p) \/ \E doc \in Policies : SaveDraft(p, doc)
  BY <1>0, <1>4, ReadsKeepTarget DEF AddsPolicy
<1>5. CASE (ReadRuleset(p) \/ ReadEvaluator(p)) /\ ~LoadFails(p)
  BY <1>2, <1>5 DEF ReadRuleset, ReadEvaluator
<1>6. CASE LoadedForRun(p) \/ LoadedForInstall(p)
  BY <1>0, <1>2, <1>6 DEF LoadedForRun, LoadedForInstall, TypeInv
<1>7. CASE LoadedForEdit(p) /\ ~LoadFails(p)
  BY <1>2, <1>7 DEF LoadedForEdit
<1>8. CASE (LoadPack(p) \/ CheckClaims(p) \/ CheckPins(p)) /\ ~Leave(p)
  BY <1>0, <1>2, <1>8 DEF LoadPack, CheckClaims, CheckPins, PlacePolicy, TypeInv
<1>9. CASE CheckConflicts(p) /\ ~Leave(p)
  <2>1. /\ pc[p] = "conflicts" /\ task' = task /\ tree' = tree
        /\ \A n \in todo[p] : task[p].replace \/ tree[n.at][n.name] = None \/ Settled(n)
    BY <1>9 DEF CheckConflicts
  <2>2. ASSUME task[p].kind = "policy"
        PROVE  tree.policies[task[p].target] \in {None, task[p].doc}
    <3>1. Placement(p) \in todo[p]
      BY <1>0, <2>1, <2>2, KindsOfJobs DEF PhaseOK
    <3>2. tree[Placement(p).at][Placement(p).name] = None \/ Settled(Placement(p))
      BY <2>1, <2>2, <3>1 DEF AddsPolicy
    <3>. QED
      BY <3>2 DEF Settled, Placement, TypeInv, Trees
  <2>. QED
    BY <2>1, <2>2 DEF AddsPolicy
<1>10. ASSUME NEW n \in todo[p], PlaceNext(p, n) PROVE AddsPolicy(p)'
  <2>1. /\ pc[p] = "placing" /\ task' = task /\ n \in Placements /\ tree \in Trees
        /\ tree' = [tree EXCEPT ![n.at][n.name] = n.data]
    BY <1>0, <1>10 DEF PlaceNext, TypeInv
  <2>2. ASSUME task[p].kind = "policy"
        PROVE  tree'.policies[task[p].target] = task[p].doc
    <3>1. task[p].target \in Targets
      BY <1>0, <2>2, TaskDoc DEF PolicyJobs
    <3>2. n = Placement(p)
      BY <1>0, <2>1, <2>2, KindsOfJobs DEF PhaseOK
    <3>. QED
      BY <2>1, <3>1, <3>2, PlaceTree DEF Placement, Trees
  <2>. QED
    BY <2>1, <2>2 DEF AddsPolicy
<1>11. CASE Kill(p) \/ DiscardDraft(p) \/ AllPlaced(p)
  BY <1>1, <1>11 DEF Kill, DiscardDraft, AllPlaced
<1>12. CASE Load(p)
  BY <1>1, <1>3, <1>4, <1>5, <1>6, <1>7, <1>12 DEF Load, ReadRuleset, ReadEvaluator, LoadedForEdit
<1>13. CASE Tool(p)
  <2>1. \A pack \in Packs, replace \in BOOLEAN : ~InstallPack(p, pack, replace)
    BY DEF InstallPack, StartJob
  <2>2. \A doc \in Policies, name \in Names, replace \in BOOLEAN : ~InstallPolicy(p, doc, name, replace)
    BY DEF InstallPolicy, StartJob
  <2>. QED
    BY <1>0, <1>1, <1>4, <1>8, <1>9, <1>10, <1>11, <1>13, <2>1, <2>2 DEF Tool, Finds
<1>. QED
  BY <1>0, <1>11, <1>12, <1>13 DEF ProcStep

\* The invariant is kept while nothing is replaced.
LEMMA StepCalm ==
    ASSUME TypeInv, PhaseInv, TurnsInv, CalmInv, NEW p \in Procs, ProcStep(p)
    PROVE  CalmInv'
<1>. SUFFICES ASSUME calm' PROVE turns' /\ \A q \in Tools : AddsPolicy(q)'
  BY DEF CalmInv
<1>1. calm /\ turns /\ turns' /\ \A q \in Tools : AddsPolicy(q)
  BY TurnSteps DEF CalmInv
<1>2. ASSUME NEW q \in Tools PROVE AddsPolicy(q)'
  <2>1. CASE q = p
    BY <1>1, <2>1, BeginsToAdd, GoesOnToAdd
  <2>2. CASE q # p
    <3>1. q \in Procs /\ pc'[q] = pc[q] /\ task'[q] = task[q] /\ PhaseOK(q)
      BY <2>2, StepIsLocal DEF Procs, Others, PhaseInv
    <3>2. CASE pc[q] = "idle"
      BY <3>1, <3>2, KindsOfJobs DEF AddsPolicy, PhaseOK
    <3>3. CASE pc[q] # "idle"
      <4>1. p \notin Tools
        BY <1>1, <2>2, <3>3, TurnSteps DEF TurnsInv, OneAtWork
      <4>2. tree' = tree
        BY <4>1, TreeSteps
      <4>. QED
        BY <1>1, <3>1, <4>2 DEF AddsPolicy
    <3>. QED
      BY <3>2, <3>3
  <2>. QED
    BY <2>1, <2>2
<1>. QED
  BY <1>1, <1>2

----------------------------------------------------------------------------
(* The theorems.                                                            *)

\* While tools take turns, one is at work, and nobody takes from it or from a run what it has
\* found, but a `policy install --replace` from a run.
THEOREM TurnInvariant == Spec => []TurnInv
<1>1. Init => TurnsInv /\ CalmInv
  <2>1. NoTask.kind \notin {"pack", "policy", "edit", "apply"}
    BY DEF NoTask
  <2>2. Init => TurnsInv
    BY <2>1, TreeIsSound DEF Init, TurnsInv, OneAtWork, TurnOK, FoundOK, Procs
  <2>3. Init => CalmInv
    BY <2>1 DEF Init, CalmInv, AddsPolicy, Procs
  <2>. QED
    BY <2>2, <2>3
<1>2. IInv /\ TurnsInv /\ CalmInv /\ [Next]_vars => TurnsInv' /\ CalmInv'
  <2>. SUFFICES ASSUME IInv, TurnsInv, CalmInv, [Next]_vars PROVE TurnsInv' /\ CalmInv'
    OBVIOUS
  <2>1. ASSUME NEW p \in Procs, ProcStep(p) PROVE TurnsInv' /\ CalmInv'
    BY <2>1, StepTurns, StepCalm DEF IInv
  <2>2. CASE UNCHANGED vars
    <3>1. TurnsInv'
      BY <2>2 DEF TurnsInv, vars, procVars, OneAtWork, TurnOK, FoundOK, Claimants
    <3>2. CalmInv'
      BY <2>2 DEF CalmInv, vars, procVars, AddsPolicy
    <3>. QED
      BY <3>1, <3>2
  <2>. QED
    BY <2>1, <2>2, NextIsSomebodys
<1>3. TurnInv <=> IInv /\ TurnsInv /\ CalmInv
  BY DEF TurnInv
<1>. QED
  BY <1>1, <1>2, <1>3, DirectoryInvariant, PTL DEF Spec

\* install.py 284-285: no root is ever claimed by two files while tools take turns, replacing
\* what they like.
THEOREM ClaimantsAreSingle == Spec => []OneClaimant
<1>1. TurnInv => OneClaimant
  BY DEF TurnInv, TurnsInv, OneClaimant
<1>. QED
  BY <1>1, TurnInvariant, PTL

\* While tools take turns, replacing what they like, a run loads a policy that governs the prefix
\* it was found for, unless the policy of that prefix was replaced by one for another root.
THEOREM RunsAreGoverned == Spec => []GovernedByItsOwn
<1>1. TurnInv => GovernedByItsOwn
  BY DEF TurnInv, TurnsInv, FoundOK, GovernedByItsOwn
<1>. QED
  BY <1>1, TurnInvariant, PTL
=============================================================================

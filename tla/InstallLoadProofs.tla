--------------------------- MODULE InstallLoadProofs ---------------------------
(***************************************************************************)
(* Proofs about Install, for any processes, names, packs, policies and     *)
(* number of jobs, of what is loaded while tools take turns and only add   *)
(* to the tree: what from_data has read file by file is what would load    *)
(* from the tree at once, and no placement but that of a first base        *)
(* ruleset keeps a policy from loading.                                    *)
(*                                                                         *)
(* The heart of it is the walk through the rulesets.  The chain that each  *)
(* pending ruleset carries is all the code knows of the path to it, and    *)
(* what was read before is passed over unseen.  Walks says why no loop     *)
(* escapes: the rulesets read are ranked by their place on the path, or    *)
(* are finished, and each finished one has a certificate, a set closed     *)
(* under apply that holds what it applies and not itself.                  *)
(***************************************************************************)
EXTENDS InstallTurnProofs

USE DEF history

----------------------------------------------------------------------------
(* The inductive invariant.                                                 *)

\* Reached and Loads, of a tree that need not be the one now.
Shut(G, s) == \A a \in s : G[a] # None => Applies(G[a]) \subseteq s
ReachIn(G, start) ==
    {r \in Rulesets : \A s \in SUBSET Rulesets : start \subseteq s /\ Shut(G, s) => r \in s}

Start(t, doc) ==
    (IF doc.base /\ t.rulesets[BaseRuleset] # None THEN {BaseRuleset} ELSE {}) \union Applies(doc)
Passes(t, c) == t.checkers[c.checker] # None /\ c.pin \in {None, t.checkers[c.checker]}
LoadsIn(t, doc) ==
    /\ \A k \in DOMAIN doc.checks : Passes(t, doc.checks[k])
    /\ \A r \in ReachIn(t.rulesets, Start(t, doc)) :
         /\ t.rulesets[r] # None
         /\ \A k \in DOMAIN t.rulesets[r].checks : Passes(t, t.rulesets[r].checks[k])
         /\ r \notin ReachIn(t.rulesets, Applies(t.rulesets[r]))

\* The rulesets K were read and P are pending.  A ruleset on the path to the head of P has its
\* place there as its rank, the others have none.  A chain is the path down to a depth, and what
\* a ruleset on the path applies is finished, further down or pending.
Finished(K, rank) == {r \in K : rank[r] = 0}
Walks(G, K, P, rank, depth) ==
    /\ \A k, l \in DOMAIN P : k <= l => depth[l] <= depth[k]
    /\ \A k \in DOMAIN P : P[k].chain = {r \in Rulesets : rank[r] \in 1..depth[k]}
    /\ \A r \in Rulesets : rank[r] > 0 => r \in K
    /\ \A r \in K : rank[r] > 0 => \A a \in Applies(G[r]) :
          \/ a \in Finished(K, rank)
          \/ rank[a] > rank[r]
          \/ \E k \in DOMAIN P : P[k].name = a /\ rank[r] <= depth[k]
    /\ Shut(G, Finished(K, rank))
    /\ \A r \in Finished(K, rank) : \E s \in SUBSET Finished(K, rank) :
          Shut(G, s) /\ Applies(G[r]) \subseteq s /\ r \notin s
WalkOK(G, K, P) ==
    \E rank \in [Rulesets -> Nat], depth \in [DOMAIN P -> Nat] : Walks(G, K, P, rank, depth)

\* How far a load of doc has got is what t has: its rulesets were read as they are there, and
\* every ruleset and check that is still to be read is pending.
Known(L) == {e[1] : e \in L.seen}
Covers(t, L, doc) ==
    \A k \in DOMAIN doc.checks :
        Passes(t, doc.checks[k]) \/ \E j \in DOMAIN L.checks : L.checks[j] = doc.checks[k]
Follows(t, doc, L) ==
    /\ \A e \in L.seen : e[2] = t.rulesets[e[1]]
    /\ WalkOK(t.rulesets, Known(L), L.pending)
    /\ \A a \in Start(t, doc) : a \in Known(L) \/ \E k \in DOMAIN L.pending : L.pending[k].name = a
    /\ Covers(t, L, doc)
    /\ \A r \in Known(L) : Covers(t, L, t.rulesets[r])

\* A load follows the tree, and what was loaded would load again.
LoadOK(p) ==
    /\ pc[p] = "loading" => Follows(tree, task[p].doc, load[p])
    /\ pc[p] \in {"claims", "repin", "running"} =>
         task[p].doc \in PolicyDocs /\ LoadsIn(tree, task[p].doc)
    /\ pc[p] \in {"conflicts", "placing"} /\ task[p].kind # "pack" => LoadsIn(tree, task[p].doc)

\* What a tool places comes from its pack, and only adds to the tree.
FromPack(p) ==
    task[p].kind = "pack" /\ pc[p] \in {"conflicts", "placing"} =>
        todo[p] \subseteq PackPlacements(task[p].pack)
AddsOnly(p) ==
    task[p].kind = "pack" /\ pc[p] = "placing" =>
        \A n \in todo[p] : tree[n.at][n.name] \in {None, n.data}

\* A base ruleset that was there to begin with is still there.
BaseInstalled == Tree0.rulesets[BaseRuleset] # None => tree.rulesets[BaseRuleset] # None

AdditionInv == calm => BaseInstalled /\ \A p \in Tools : FromPack(p) /\ AddsOnly(p)
LoadInv ==
    /\ TurnInv /\ AdditionInv
    /\ calm => \A p \in Procs : (p \in Runs => BaseKept) => LoadOK(p)

Graphs == [Rulesets -> RulesetDocs \union {None}]

----------------------------------------------------------------------------
(* What is reached.                                                         *)

\* A document applies rulesets.
LEMMA AppliesType ==
    ASSUME NEW doc \in PolicyDocs \union RulesetDocs
    PROVE  /\ doc.apply \in Seq(Rulesets) /\ doc.checks \in Seq(Checks)
           /\ Applies(doc) \subseteq Rulesets
<1>1. doc.apply \in Seq(Rulesets) /\ doc.checks \in Seq(Checks)
  BY DEF PolicyDocs, RulesetDocs
<1>2. \A k \in DOMAIN doc.apply : doc.apply[k] \in Rulesets
  BY <1>1, LenProperties, ElementOfSeq
<1>. QED
  BY <1>1, <1>2 DEF Applies

\* What is reached holds the start, is closed, and lies in every closed set that holds the start.
LEMMA Reaching ==
    ASSUME NEW G \in Graphs, NEW start \in SUBSET Rulesets
    PROVE  /\ start \subseteq ReachIn(G, start) /\ ReachIn(G, start) \subseteq Rulesets
           /\ Shut(G, ReachIn(G, start))
           /\ \A s \in SUBSET Rulesets : start \subseteq s /\ Shut(G, s) => ReachIn(G, start) \subseteq s
<1>1. start \subseteq ReachIn(G, start) /\ ReachIn(G, start) \subseteq Rulesets
  BY DEF ReachIn
<1>2. \A s \in SUBSET Rulesets : start \subseteq s /\ Shut(G, s) => ReachIn(G, start) \subseteq s
  BY DEF ReachIn
<1>3. ASSUME NEW a \in ReachIn(G, start), G[a] # None, NEW b \in Applies(G[a])
      PROVE  b \in ReachIn(G, start)
  <2>1. a \in Rulesets /\ G[a] \in RulesetDocs
    BY <1>1, <1>3 DEF Graphs
  <2>2. b \in Rulesets
    BY <1>3, <2>1, AppliesType
  <2>3. ASSUME NEW s \in SUBSET Rulesets, start \subseteq s, Shut(G, s) PROVE b \in s
    BY <1>2, <1>3, <2>3 DEF Shut
  <2>. QED
    BY <2>2, <2>3 DEF ReachIn
<1>4. Shut(G, ReachIn(G, start))
  BY <1>3 DEF Shut
<1>. QED
  BY <1>1, <1>2, <1>4

\* It stays so in a tree where those rulesets are the same.
LEMMA ReachingStays ==
    ASSUME NEW G \in Graphs, NEW H \in Graphs, NEW start \in SUBSET Rulesets,
           \A r \in ReachIn(G, start) : H[r] = G[r]
    PROVE  ReachIn(H, start) \subseteq ReachIn(G, start)
<1>1. start \subseteq ReachIn(G, start) /\ ReachIn(G, start) \in SUBSET Rulesets /\ Shut(G, ReachIn(G, start))
  BY Reaching
<1>2. Shut(H, ReachIn(G, start))
  BY <1>1 DEF Shut
<1>. QED
  BY <1>1, <1>2, Reaching

\* A tree that another only adds to.
Extends(u, t) ==
    /\ \A r \in Rulesets : t.rulesets[r] # None => u.rulesets[r] = t.rulesets[r]
    /\ \A c \in Checkers : t.checkers[c] # None => u.checkers[c] = t.checkers[c]
    /\ u.rulesets[BaseRuleset] = None <=> t.rulesets[BaseRuleset] = None

\* A check that passes goes on passing.
LEMMA PassesStay ==
    ASSUME NEW t \in Trees, NEW u \in Trees, Extends(u, t),
           NEW doc \in PolicyDocs \union RulesetDocs, NEW k \in DOMAIN doc.checks,
           Passes(t, doc.checks[k])
    PROVE  Passes(u, doc.checks[k])
<1>1. doc.checks[k] \in Checks
  BY AppliesType, LenProperties, ElementOfSeq
<1>. QED
  BY <1>1 DEF Passes, Extends, Checks

\* A document begins with the same rulesets.
LEMMA StartStays ==
    ASSUME NEW t \in Trees, NEW u, Extends(u, t), NEW doc \in PolicyDocs
    PROVE  Start(u, doc) = Start(t, doc) /\ Start(t, doc) \subseteq Rulesets
BY AppliesType, ConfigIsTyped DEF Start, Extends

\* A document that loads goes on loading.
LEMMA LoadsStay ==
    ASSUME NEW t \in Trees, NEW u \in Trees, Extends(u, t), NEW doc \in PolicyDocs, LoadsIn(t, doc)
    PROVE  LoadsIn(u, doc)
<1>. DEFINE start == Start(t, doc)
            all == ReachIn(t.rulesets, start)
<1>1. start \in SUBSET Rulesets /\ Start(u, doc) = start
  BY StartStays
<1>2. t.rulesets \in Graphs /\ u.rulesets \in Graphs
  BY DEF Trees, Graphs
<1>3. start \subseteq all /\ all \subseteq Rulesets /\ Shut(t.rulesets, all)
  BY <1>1, <1>2, Reaching
<1>4. ASSUME NEW r \in all
      PROVE  /\ t.rulesets[r] # None /\ t.rulesets[r] \in RulesetDocs /\ u.rulesets[r] = t.rulesets[r]
             /\ \A k \in DOMAIN t.rulesets[r].checks : Passes(t, t.rulesets[r].checks[k])
             /\ r \notin ReachIn(t.rulesets, Applies(t.rulesets[r]))
  BY <1>2, <1>3, <1>4 DEF LoadsIn, Extends, Graphs
<1>. HIDE DEF all
<1>5. ReachIn(u.rulesets, start) \subseteq all
  BY <1>1, <1>2, <1>4, ReachingStays DEF all
<1>6. ASSUME NEW r \in all
      PROVE  r \notin ReachIn(u.rulesets, Applies(u.rulesets[r]))
  <2>1. Applies(t.rulesets[r]) \in SUBSET Rulesets /\ Applies(t.rulesets[r]) \subseteq all
    BY <1>3, <1>4, AppliesType DEF Shut
  <2>2. ReachIn(t.rulesets, Applies(t.rulesets[r])) \subseteq all
    BY <1>2, <1>3, <2>1, Reaching
  <2>3. ReachIn(u.rulesets, Applies(t.rulesets[r])) \subseteq ReachIn(t.rulesets, Applies(t.rulesets[r]))
    BY <1>2, <1>4, <2>1, <2>2, ReachingStays
  <2>. QED
    BY <1>4, <2>3
<1>7. ASSUME NEW r \in all
      PROVE  \A k \in DOMAIN u.rulesets[r].checks : Passes(u, u.rulesets[r].checks[k])
  BY <1>4, PassesStay
<1>8. \A k \in DOMAIN doc.checks : Passes(u, doc.checks[k])
  BY PassesStay DEF LoadsIn
<1>. QED
  BY <1>1, <1>4, <1>5, <1>6, <1>7, <1>8 DEF LoadsIn

----------------------------------------------------------------------------
(* The walk.                                                                *)

\* What left the path is finished.
LEMMA Finishing ==
    ASSUME NEW G \in Graphs, NEW K \in SUBSET Rulesets, NEW P \in Seq(Pending),
           NEW rank \in [Rulesets -> Nat], NEW depth \in [DOMAIN P -> Nat], Walks(G, K, P, rank, depth),
           \A r \in K : G[r] # None,
           NEW top \in Nat, \A k \in DOMAIN P : depth[k] <= top
    PROVE  \E left \in [Rulesets -> Nat] :
               Walks(G, K, P, left, depth) /\ \A r \in Rulesets : left[r] <= top
<1>. DEFINE left == [r \in Rulesets |-> IF rank[r] > top THEN 0 ELSE rank[r]]
            old == Finished(K, rank)
            done == Finished(K, left)
<1>1. left \in [Rulesets -> Nat] /\ \A r \in Rulesets : left[r] <= top
  OBVIOUS
<1>2. done = old \union {r \in K : rank[r] > top}
  BY DEF Finished
<1>3. ASSUME NEW r \in K, rank[r] > top, NEW a \in Applies(G[r])
      PROVE  a \in old \/ (a \in K /\ rank[a] > rank[r])
  <2>1. ~ \E k \in DOMAIN P : P[k].name = a /\ rank[r] <= depth[k]
    BY <1>3
  <2>2. a \in Rulesets
    BY <1>3, AppliesType DEF Graphs
  <2>3. rank[r] > 0
    BY <1>3
  <2>. QED
    BY <1>3, <2>1, <2>2, <2>3 DEF Walks
<1>4. \A r \in Rulesets : rank[r] > 0 => r \in K
  BY DEF Walks
<1>5. Shut(G, old) /\ old \subseteq K /\ done \subseteq K
  BY DEF Walks, Finished
<1>6. Shut(G, done)
  <2>1. ASSUME NEW r \in K, rank[r] > top, NEW a \in Applies(G[r]) PROVE a \in done
    <3>1. a \in K /\ rank[a] > rank[r] => rank[a] > top
      BY <2>1
    <3>. QED
      BY <1>2, <1>3, <2>1, <3>1
  <2>2. \A r \in old : G[r] # None => Applies(G[r]) \subseteq old
    BY <1>5 DEF Shut
  <2>. HIDE DEF old, done
  <2>. QED
    BY <1>2, <2>1, <2>2 DEF Shut
<1>7. ASSUME NEW r \in done
      PROVE  \E s \in SUBSET done : Shut(G, s) /\ Applies(G[r]) \subseteq s /\ r \notin s
  <2>1. CASE r \in old
    <3>1. \E s \in SUBSET old : Shut(G, s) /\ Applies(G[r]) \subseteq s /\ r \notin s
      BY <2>1 DEF Walks
    <3>. QED
      BY <1>2, <3>1
  <2>2. CASE r \in K /\ rank[r] > top
    <3>. DEFINE s == old \union {a \in K : rank[a] > rank[r]}
    <3>1. s \in SUBSET done
      BY <1>2, <2>2
    <3>2. Shut(G, s)
      BY <1>3, <1>5, <2>2 DEF Shut
    <3>3. Applies(G[r]) \subseteq s
      BY <1>3, <2>2
    <3>4. r \notin s
      BY <2>2 DEF Finished
    <3>. QED
      BY <3>1, <3>2, <3>3, <3>4
  <2>. QED
    BY <1>2, <2>1, <2>2
<1>8. ASSUME NEW r \in K, left[r] > 0, NEW a \in Applies(G[r])
      PROVE  \/ a \in done
             \/ left[a] > left[r]
             \/ \E k \in DOMAIN P : P[k].name = a /\ left[r] <= depth[k]
  <2>1. rank[r] > 0 /\ left[r] = rank[r]
    BY <1>8
  <2>2. a \in Rulesets
    BY <1>8, AppliesType DEF Graphs
  <2>3. CASE rank[a] > rank[r]
    <3>1. a \in K
      BY <1>4, <2>1, <2>2, <2>3
    <3>2. CASE rank[a] > top
      BY <1>2, <3>1, <3>2
    <3>3. CASE ~(rank[a] > top)
      BY <2>1, <2>2, <2>3, <3>3
    <3>. QED
      BY <3>2, <3>3
  <2>4. CASE a \in old
    BY <1>2, <2>4
  <2>. QED
    BY <1>8, <2>1, <2>3, <2>4 DEF Walks
<1>9. ASSUME NEW k \in DOMAIN P PROVE P[k].chain = {r \in Rulesets : left[r] \in 1..depth[k]}
  <2>1. P[k].chain = {r \in Rulesets : rank[r] \in 1..depth[k]}
    BY DEF Walks
  <2>2. \A r \in Rulesets : rank[r] \in 1..depth[k] <=> left[r] \in 1..depth[k]
    OBVIOUS
  <2>. QED
    BY <2>1, <2>2
<1>10. Walks(G, K, P, left, depth)
  <2>1. \A k, l \in DOMAIN P : k <= l => depth[l] <= depth[k]
    BY DEF Walks
  <2>2. \A r \in Rulesets : left[r] > 0 => r \in K
    BY <1>4
  <2>. HIDE DEF left
  <2>. QED
    BY <1>6, <1>7, <1>8, <1>9, <2>1, <2>2 DEF Walks
<1>. QED
  BY <1>1, <1>10

\* So the head of what is pending is at the end of the path.
LEMMA AtTheEnd ==
    ASSUME NEW G \in Graphs, NEW K \in SUBSET Rulesets, NEW P \in Seq(Pending), P # <<>>,
           \A r \in K : G[r] # None, WalkOK(G, K, P)
    PROVE  \E rank \in [Rulesets -> Nat], depth \in [DOMAIN P -> Nat] :
               /\ Walks(G, K, P, rank, depth)
               /\ \A r \in Rulesets : rank[r] <= depth[1]
<1>1. PICK rank \in [Rulesets -> Nat], depth \in [DOMAIN P -> Nat] : Walks(G, K, P, rank, depth)
  BY DEF WalkOK
<1>2. DOMAIN P = 1..Len(P) /\ Len(P) \in Nat /\ Len(P) # 0
  BY LenProperties, EmptySeq
<1>3. 1 \in DOMAIN P /\ \A k \in DOMAIN P : 1 <= k
  BY <1>2
<1>4. depth[1] \in Nat /\ \A k \in DOMAIN P : depth[k] <= depth[1]
  BY <1>1, <1>3 DEF Walks
<1>5. \E left \in [Rulesets -> Nat] :
          Walks(G, K, P, left, depth) /\ \A r \in Rulesets : left[r] <= depth[1]
  BY <1>1, <1>4, Finishing
<1>. QED
  BY <1>5

\* What was read before, and is not on its own path, is passed over.
LEMMA PassingOver ==
    ASSUME NEW G \in Graphs, NEW K \in SUBSET Rulesets, NEW P \in Seq(Pending), P # <<>>,
           \A r \in K : G[r] # None, WalkOK(G, K, P),
           Head(P).name \in K, Head(P).name \notin Head(P).chain
    PROVE  WalkOK(G, K, Tail(P))
<1>1. PICK rank \in [Rulesets -> Nat], depth \in [DOMAIN P -> Nat] :
          Walks(G, K, P, rank, depth) /\ \A r \in Rulesets : rank[r] <= depth[1]
  BY AtTheEnd
<1>. DEFINE n == Head(P).name
            less == [k \in DOMAIN Tail(P) |-> depth[k + 1]]
<1>2. /\ DOMAIN P = 1..Len(P) /\ Len(P) \in Nat /\ Len(P) # 0
      /\ Head(P) = P[1]
      /\ DOMAIN Tail(P) = 1..(Len(P) - 1) /\ \A k \in DOMAIN Tail(P) : Tail(P)[k] = P[k + 1]
  BY LenProperties, EmptySeq, HeadTailProperties
<1>3. 1 \in DOMAIN P /\ \A k \in DOMAIN Tail(P) : k + 1 \in DOMAIN P
  BY <1>2
<1>4. n \in Finished(K, rank)
  <2>1. P[1].chain = {r \in Rulesets : rank[r] \in 1..depth[1]}
    BY <1>1, <1>3 DEF Walks
  <2>2. n \in K /\ n \notin P[1].chain /\ rank[n] \in Nat /\ rank[n] <= depth[1] /\ depth[1] \in Nat
    BY <1>1, <1>2, <1>3
  <2>. QED
    BY <2>1, <2>2 DEF Finished
<1>5. less \in [DOMAIN Tail(P) -> Nat]
  BY <1>3
<1>6. ASSUME NEW r \in K, rank[r] > 0, NEW a \in Applies(G[r])
      PROVE  \/ a \in Finished(K, rank)
             \/ rank[a] > rank[r]
             \/ \E k \in DOMAIN Tail(P) : Tail(P)[k].name = a /\ rank[r] <= less[k]
  <2>1. ASSUME NEW k \in DOMAIN P, P[k].name = a, rank[r] <= depth[k], k # 1
        PROVE  \E j \in DOMAIN Tail(P) : Tail(P)[j].name = a /\ rank[r] <= less[j]
    <3>1. k - 1 \in DOMAIN Tail(P) /\ (k - 1) + 1 = k
      BY <1>2, <2>1
    <3>. QED
      BY <1>2, <2>1, <3>1
  <2>2. \/ a \in Finished(K, rank)
        \/ rank[a] > rank[r]
        \/ \E k \in DOMAIN P : P[k].name = a /\ rank[r] <= depth[k]
    BY <1>1, <1>6 DEF Walks
  <2>. QED
    BY <1>2, <1>4, <2>1, <2>2
<1>7. \A k, l \in DOMAIN Tail(P) : k <= l => less[l] <= less[k]
  BY <1>1, <1>2, <1>3 DEF Walks
<1>8. \A k \in DOMAIN Tail(P) : Tail(P)[k].chain = {r \in Rulesets : rank[r] \in 1..less[k]}
  BY <1>1, <1>2, <1>3 DEF Walks
<1>9. Walks(G, K, Tail(P), rank, less)
  <2>. HIDE DEF less
  <2>. QED
    BY <1>1, <1>6, <1>7, <1>8 DEF Walks
<1>. QED
  BY <1>5, <1>9 DEF WalkOK

\* The length of a sequence is read off its domain.
LEMMA LenIs ==
    ASSUME NEW S, NEW s \in Seq(S), NEW m \in Nat, DOMAIN s = 1..m
    PROVE  Len(s) = m
<1>1. PICK l \in Nat : l = Len(s) /\ DOMAIN s = 1..l
  BY LenProperties
<1>2. ~(l < m)
  <2>1. l < m => l + 1 \in 1..m /\ l + 1 \notin 1..l
    OBVIOUS
  <2>. QED
    BY <1>1, <2>1
<1>3. ~(m < l)
  <2>1. m < l => m + 1 \in 1..l /\ m + 1 \notin 1..m
    OBVIOUS
  <2>. QED
    BY <1>1, <2>1
<1>. QED
  BY <1>1, <1>2, <1>3

\* A sequence and another behind it.
LEMMA ConcatParts ==
    ASSUME NEW S, NEW s \in Seq(S), NEW t \in Seq(S), NEW m \in Nat, m = Len(s),
           NEW l \in Nat, l = Len(t), NEW q, q = s \o t
    PROVE  /\ DOMAIN q = 1..(m + l)
           /\ \A k \in 1..m : k \in DOMAIN q /\ q[k] = s[k]
           /\ \A k \in 1..l : m + k \in DOMAIN q /\ q[m + k] = t[k]
<1>1. q \in Seq(S) /\ Len(q) = m + l
      /\ \A k \in 1..(m + l) : q[k] = IF k <= m THEN s[k] ELSE t[k - m]
  BY ConcatProperties
<1>2. DOMAIN q = 1..(m + l)
  BY <1>1, LenProperties
<1>3. ASSUME NEW k \in 1..m PROVE k \in DOMAIN q /\ q[k] = s[k]
  <2>1. k \in 1..(m + l) /\ k <= m
    OBVIOUS
  <2>. QED
    BY <1>1, <1>2, <2>1
<1>4. ASSUME NEW k \in 1..l PROVE m + k \in DOMAIN q /\ q[m + k] = t[k]
  <2>1. m + k \in 1..(m + l) /\ ~(m + k <= m) /\ (m + k) - m = k
    OBVIOUS
  <2>. QED
    BY <1>1, <1>2, <2>1
<1>. QED
  BY <1>2, <1>3, <1>4

\* A sequence holds what another holds.
Holds(q, s) == \A k \in DOMAIN s : \E j \in DOMAIN q : q[j] = s[k]

\* Two sequences behind each other hold what both hold.
LEMMA ConcatHolds ==
    ASSUME NEW S, NEW s \in Seq(S), NEW t \in Seq(S)
    PROVE  Holds(s \o t, s) /\ Holds(s \o t, t)
<1>. PICK q : q = s \o t
  OBVIOUS
<1>. PICK m \in Nat : m = Len(s) /\ DOMAIN s = 1..m
  BY LenProperties
<1>. PICK l \in Nat : l = Len(t) /\ DOMAIN t = 1..l
  BY LenProperties
<1>1. /\ \A k \in 1..m : k \in DOMAIN q /\ q[k] = s[k]
      /\ \A k \in 1..l : m + k \in DOMAIN q /\ q[m + k] = t[k]
  BY ConcatParts
<1>2. Holds(q, s) /\ Holds(q, t)
  BY <1>1 DEF Holds
<1>. QED
  BY <1>2

\* Q is what is pending when the head of P is n and was read: the m it applies, under the chain
\* down to it, and the l others of P.
Behind(G, n, P, Q, m, l) ==
    /\ DOMAIN P = 1..(l + 1) /\ P[1].name = n
    /\ DOMAIN Q = 1..(m + l)
    /\ \A a \in Applies(G[n]) : \E k \in 1..m : Q[k].name = a
    /\ \A k \in 1..m : Q[k].chain = P[1].chain \union {n}
    /\ \A k \in 1..l : Q[m + k] = P[k + 1]

\* So n goes on the path.
LEMMA GoingDown ==
    ASSUME NEW G \in Graphs, NEW K \in SUBSET Rulesets, \A r \in K : G[r] # None,
           NEW m \in Nat, NEW l \in Nat, NEW P, NEW Q, NEW n \in Rulesets \ K, G[n] # None,
           Behind(G, n, P, Q, m, l),
           NEW rank \in [Rulesets -> Nat], NEW depth \in [DOMAIN P -> Nat], Walks(G, K, P, rank, depth),
           \A r \in Rulesets : rank[r] <= depth[1]
    PROVE  WalkOK(G, K \union {n}, Q)
<1>0. /\ DOMAIN P = 1..(l + 1) /\ P[1].name = n
      /\ DOMAIN Q = 1..(m + l)
      /\ \A a \in Applies(G[n]) : \E k \in 1..m : Q[k].name = a
      /\ \A k \in 1..m : Q[k].chain = P[1].chain \union {n}
      /\ \A k \in 1..l : Q[m + k] = P[k + 1]
  BY DEF Behind
<1>. PICK d \in Nat : d = depth[1] /\ \A r \in Rulesets : rank[r] <= d
  <2>1. 1 \in DOMAIN P
    BY <1>0
  <2>. QED
    BY <2>1
<1>. USE <1>0
<1>1. PICK high \in [Rulesets -> Nat] : high[n] = d + 1 /\ \A r \in Rulesets \ {n} : high[r] = rank[r]
  <2>1. [rank EXCEPT ![n] = d + 1] \in [Rulesets -> Nat]
    OBVIOUS
  <2>. QED
    BY <2>1
<1>2. PICK deep \in [DOMAIN Q -> Nat] :
          \A k \in DOMAIN Q : /\ k <= m => deep[k] = d + 1
                              /\ k > m => deep[k] = depth[k - m + 1]
  <2>. DEFINE deep == [k \in DOMAIN Q |-> IF k <= m THEN d + 1 ELSE depth[k - m + 1]]
  <2>1. \A k \in DOMAIN Q : k > m => k - m + 1 \in DOMAIN P
    OBVIOUS
  <2>2. ASSUME NEW k \in DOMAIN Q PROVE (IF k <= m THEN d + 1 ELSE depth[k - m + 1]) \in Nat
    <3>1. CASE k <= m
      BY <3>1
    <3>2. CASE ~(k <= m)
      <4>1. k - m + 1 \in DOMAIN P
        BY <2>1, <3>2
      <4>. QED
        BY <3>2, <4>1
    <3>. QED
      BY <3>1, <3>2
  <2>3. deep \in [DOMAIN Q -> Nat]
    BY <2>2
  <2>4. \A k \in DOMAIN Q : /\ k <= m => deep[k] = d + 1
                            /\ k > m => deep[k] = depth[k - m + 1]
    OBVIOUS
  <2>. HIDE DEF deep
  <2>. QED
    BY <2>3, <2>4
<1>3. /\ \A k, j \in DOMAIN P : k <= j => depth[j] <= depth[k]
      /\ \A k \in DOMAIN P : P[k].chain = {r \in Rulesets : rank[r] \in 1..depth[k]}
      /\ \A r \in Rulesets : rank[r] > 0 => r \in K
  BY DEF Walks
<1>4. 1 \in DOMAIN P /\ \A k \in DOMAIN P : depth[k] \in Nat /\ depth[k] <= d
  <2>1. 1 \in DOMAIN P /\ \A k \in DOMAIN P : 1 <= k
    OBVIOUS
  <2>. QED
    BY <1>3, <2>1
<1>5. rank[n] = 0 /\ n \in Rulesets
  BY <1>3
<1>6. ASSUME NEW k \in DOMAIN Q
      PROVE  /\ k \in 1..m => deep[k] = d + 1 /\ Q[k].chain = P[1].chain \union {n}
             /\ k \notin 1..m => /\ k > m /\ k - m + 1 \in DOMAIN P
                                 /\ deep[k] = depth[k - m + 1] /\ Q[k] = P[k - m + 1]
  <2>1. CASE k \in 1..m
    BY <1>2, <2>1
  <2>2. CASE k \notin 1..m
    <3>1. k > m /\ k - m \in 1..l /\ k - m + 1 \in DOMAIN P /\ m + (k - m) = k
      BY <2>2
    <3>. QED
      BY <1>2, <2>2, <3>1
  <2>. QED
    BY <2>1, <2>2
<1>7. Finished(K \union {n}, high) = Finished(K, rank)
  BY <1>1, <1>5 DEF Finished
<1>8. ASSUME NEW k \in DOMAIN Q, NEW j \in DOMAIN Q, k <= j PROVE deep[j] <= deep[k]
  <2>1. CASE k \in 1..m
    <3>1. deep[k] = d + 1
      BY <1>6, <2>1
    <3>2. CASE j \in 1..m
      BY <1>6, <3>1, <3>2
    <3>3. CASE j \notin 1..m
      <4>1. deep[j] \in Nat /\ deep[j] <= d
        BY <1>4, <1>6, <3>3
      <4>. QED
        BY <3>1, <4>1
    <3>. QED
      BY <3>2, <3>3
  <2>2. CASE k \notin 1..m
    <3>1. /\ k - m + 1 \in DOMAIN P /\ k > m
          /\ deep[k] = depth[k - m + 1]
      BY <1>6, <2>2
    <3>2. j \notin 1..m
      BY <1>8, <3>1
    <3>3. j - m + 1 \in DOMAIN P /\ deep[j] = depth[j - m + 1]
      BY <1>6, <3>2
    <3>4. k - m + 1 <= j - m + 1
      BY <1>8
    <3>. QED
      BY <1>3, <3>1, <3>3, <3>4
  <2>. QED
    BY <2>1, <2>2
<1>9. ASSUME NEW k \in DOMAIN Q PROVE Q[k].chain = {r \in Rulesets : high[r] \in 1..deep[k]}
  <2>1. CASE k \in 1..m
    <3>1. deep[k] = d + 1 /\ Q[k].chain = P[1].chain \union {n}
      BY <1>6, <2>1
    <3>2. P[1].chain = {r \in Rulesets : rank[r] \in 1..d}
      BY <1>3, <1>4
    <3>3. \A r \in Rulesets : high[r] \in 1..(d + 1) <=> (rank[r] \in 1..d \/ r = n)
      <4>1. \A r \in Rulesets \ {n} : high[r] \in 1..(d + 1) <=> rank[r] \in 1..d
        BY <1>1
      <4>2. high[n] \in 1..(d + 1)
        BY <1>1
      <4>. QED
        BY <4>1, <4>2
    <3>. QED
      BY <1>5, <3>1, <3>2, <3>3
  <2>2. CASE k \notin 1..m
    <3>1. k - m + 1 \in DOMAIN P /\ deep[k] = depth[k - m + 1] /\ Q[k] = P[k - m + 1]
      BY <1>6, <2>2
    <3>2. deep[k] \in Nat /\ deep[k] <= d
      BY <1>4, <3>1
    <3>3. \A r \in Rulesets : high[r] \in 1..deep[k] <=> rank[r] \in 1..deep[k]
      <4>1. high[n] \notin 1..deep[k] /\ rank[n] \notin 1..deep[k]
        BY <1>1, <1>5, <3>2
      <4>. QED
        BY <1>1, <4>1
    <3>4. Q[k].chain = {r \in Rulesets : rank[r] \in 1..deep[k]}
      BY <1>3, <3>1
    <3>. QED
      BY <3>3, <3>4
  <2>. QED
    BY <2>1, <2>2
<1>10. \A r \in Rulesets : high[r] > 0 => r \in K \union {n}
  BY <1>1, <1>3
<1>11. ASSUME NEW r \in K \union {n}, high[r] > 0, NEW a \in Applies(G[r])
       PROVE  \/ a \in Finished(K, rank)
              \/ high[a] > high[r]
              \/ \E k \in DOMAIN Q : Q[k].name = a /\ high[r] <= deep[k]
  <2>0. \A b \in K : rank[b] > 0 => \A c \in Applies(G[b]) :
          \/ c \in Finished(K, rank)
          \/ rank[c] > rank[b]
          \/ \E k \in DOMAIN P : P[k].name = c /\ rank[b] <= depth[k]
    BY Zenon DEF Walks
  <2>1. CASE r = n
    <3>1. PICK k \in 1..m : Q[k].name = a
      BY <1>11, <2>1
    <3>2. k \in DOMAIN Q
      OBVIOUS
    <3>3. high[r] <= deep[k]
      <4>1. deep[k] = d + 1 /\ high[r] = d + 1
        BY <1>1, <1>6, <2>1, <3>2
      <4>. QED
        BY <4>1
    <3>. QED
      BY <3>1, <3>2, <3>3
  <2>2. CASE r # n
    <3>1. r \in K /\ r \in Rulesets
      BY <1>11, <2>2
    <3>2. high[r] = rank[r] /\ rank[r] > 0 /\ rank[r] \in Nat /\ rank[r] <= d
      BY <1>1, <1>11, <2>2, <3>1
    <3>3. \/ a \in Finished(K, rank)
          \/ rank[a] > rank[r]
          \/ \E k \in DOMAIN P : P[k].name = a /\ rank[r] <= depth[k]
      BY <1>11, <2>0, <3>1, <3>2
    <3>4. a \in Rulesets
      <4>1. G[r] \in RulesetDocs
        BY <3>1 DEF Graphs
      <4>. QED
        BY <1>11, <3>1, <4>1, AppliesType
    <3>5. a = n => high[a] > high[r]
      BY <1>1, <3>2
    <3>6. rank[a] > rank[r] => high[a] > high[r]
      BY <1>1, <3>2, <3>4, <3>5
    <3>7. ASSUME NEW k \in DOMAIN P, P[k].name = a, rank[r] <= depth[k], a # n
          PROVE  \E j \in DOMAIN Q : Q[j].name = a /\ high[r] <= deep[j]
      <4>1. k # 1
        BY <3>7
      <4>2. PICK j \in DOMAIN Q : j > m /\ j - m + 1 = k
        <5>1. k - 1 \in 1..l
          BY <4>1
        <5>2. PICK i \in 1..l : k = i + 1
          <6>1. k = (k - 1) + 1
            OBVIOUS
          <6>. QED
            BY <5>1, <6>1, Zenon
        <5>3. m + i \in DOMAIN Q /\ m + i > m /\ (m + i) - m + 1 = k
          BY <5>2
        <5>. QED
          BY <5>3
      <4>3. Q[j] = P[k] /\ deep[j] = depth[k]
        BY <1>6, <4>2
      <4>. QED
        BY <3>2, <3>7, <4>3
    <3>. QED
      BY <3>3, <3>5, <3>6, <3>7
  <2>. QED
    BY <2>1, <2>2
<1>12. /\ Shut(G, Finished(K, rank))
       /\ \A r \in Finished(K, rank) : \E s \in SUBSET Finished(K, rank) :
             Shut(G, s) /\ Applies(G[r]) \subseteq s /\ r \notin s
  BY DEF Walks
<1>13. Walks(G, K \union {n}, Q, high, deep)
  <2>. DEFINE done == Finished(K \union {n}, high)
  <2>1. \A k, j \in DOMAIN Q : k <= j => deep[j] <= deep[k]
    BY <1>8
  <2>2. \A k \in DOMAIN Q : Q[k].chain = {r \in Rulesets : high[r] \in 1..deep[k]}
    BY <1>9
  <2>3. \A r \in K \union {n} : high[r] > 0 => \A a \in Applies(G[r]) :
          \/ a \in done
          \/ high[a] > high[r]
          \/ \E k \in DOMAIN Q : Q[k].name = a /\ high[r] <= deep[k]
    BY <1>7, <1>11
  <2>4. /\ Shut(G, done)
        /\ \A r \in done : \E s \in SUBSET done :
              Shut(G, s) /\ Applies(G[r]) \subseteq s /\ r \notin s
    BY <1>7, <1>12, Zenon
  <2>. QED
    BY <1>10, <2>1, <2>2, <2>3, <2>4, Zenon DEF Walks
<1>. QED
  BY <1>13 DEF WalkOK

\* What a ruleset applies, under its chain, and the others behind it.
ThenRest(apply, chain, rest) ==
    [k \in DOMAIN apply |-> [name |-> apply[k], chain |-> chain]] \o rest

\* A sequence of both: the m it applies, and the l others.
Parts(q, apply, chain, rest, m, l) ==
    /\ DOMAIN q = 1..(m + l)
    /\ \A k \in 1..m : k \in DOMAIN q /\ q[k].name = apply[k] /\ q[k].chain = chain
    /\ \A k \in 1..l : m + k \in DOMAIN q /\ q[m + k] = rest[k]

\* Together they are pending.
LEMMA PendingParts ==
    ASSUME NEW apply \in Seq(Rulesets), NEW chain \in SUBSET Rulesets, NEW rest \in Seq(Pending),
           NEW m \in Nat, DOMAIN apply = 1..m, NEW l \in Nat, DOMAIN rest = 1..l
    PROVE  /\ ThenRest(apply, chain, rest) \in Seq(Pending)
           /\ Parts(ThenRest(apply, chain, rest), apply, chain, rest, m, l)
<1>. DEFINE kids == [k \in DOMAIN apply |-> [name |-> apply[k], chain |-> chain]]
            Q == kids \o rest
<1>1. kids \in Seq(Pending)
  BY PendingType
<1>2. DOMAIN kids = 1..m /\ \A k \in 1..m : kids[k].name = apply[k] /\ kids[k].chain = chain
  OBVIOUS
<1>3. ThenRest(apply, chain, rest) = Q
  BY DEF ThenRest
<1>. HIDE DEF kids
<1>4. m = Len(kids) /\ l = Len(rest)
  BY <1>1, <1>2, LenIs
<1>5. Q \in Seq(Pending)
  BY <1>1, ConcatProperties
<1>6. /\ DOMAIN Q = 1..(m + l)
      /\ \A k \in 1..m : k \in DOMAIN Q /\ Q[k] = kids[k]
      /\ \A k \in 1..l : m + k \in DOMAIN Q /\ Q[m + k] = rest[k]
  BY <1>1, <1>4, ConcatParts
<1>. HIDE DEF Q
<1>7. \A k \in 1..m : Q[k].name = apply[k] /\ Q[k].chain = chain
  BY <1>2, <1>6
<1>8. Parts(Q, apply, chain, rest, m, l)
  BY <1>6, <1>7 DEF Parts
<1>. QED
  BY <1>3, <1>5, <1>8

\* What is read for the first time is followed by what it applies.
LEMMA Descending ==
    ASSUME NEW G \in Graphs, NEW K \in SUBSET Rulesets, NEW P \in Seq(Pending), P # <<>>,
           \A r \in K : G[r] # None, WalkOK(G, K, P),
           NEW n \in Rulesets \ K, n = Head(P).name, G[n] # None,
           NEW M, M = ThenRest(G[n].apply, Head(P).chain \union {n}, Tail(P))
    PROVE  WalkOK(G, K \union {n}, M) /\ Holds(M, Tail(P))
<1>1. PICK rank \in [Rulesets -> Nat], depth \in [DOMAIN P -> Nat] :
          Walks(G, K, P, rank, depth) /\ \A r \in Rulesets : rank[r] <= depth[1]
  BY AtTheEnd
<1>2. PICK l \in Nat : /\ DOMAIN P = 1..(l + 1)
                       /\ DOMAIN Tail(P) = 1..l /\ \A k \in 1..l : Tail(P)[k] = P[k + 1]
  <2>1. Len(P) \in Nat /\ Len(P) # 0 /\ DOMAIN P = 1..Len(P)
    BY LenProperties, EmptySeq
  <2>2. PICK l \in Nat : Len(P) = l + 1
    <3>1. Len(P) - 1 \in Nat /\ Len(P) = (Len(P) - 1) + 1
      BY <2>1
    <3>. QED
      BY <3>1, Zenon
  <2>3. Tail(P) \in Seq(Pending) /\ Len(Tail(P)) = l /\ \A k \in 1..l : Tail(P)[k] = P[k + 1]
    BY <2>2, HeadTailProperties
  <2>4. DOMAIN Tail(P) = 1..l
    BY <2>3, LenProperties
  <2>. QED
    BY <2>1, <2>2, <2>3, <2>4
<1>3. P[1] = Head(P) /\ Head(P) \in Pending
  BY HeadTailProperties
<1>4. PICK T \in Seq(Pending) : T = Tail(P)
  BY HeadTailProperties
<1>5. PICK chain \in SUBSET Rulesets : chain = Head(P).chain \union {n}
  BY <1>3 DEF Pending
<1>6. PICK apply \in Seq(Rulesets) : apply = G[n].apply
  <2>1. G[n] \in RulesetDocs
    BY DEF Graphs
  <2>. QED
    BY <2>1, AppliesType
<1>7. PICK m \in Nat : DOMAIN apply = 1..m
  BY LenProperties
<1>. DEFINE Q == ThenRest(apply, chain, T)
<1>8. /\ DOMAIN Q = 1..(m + l)
      /\ \A k \in 1..m : k \in DOMAIN Q /\ Q[k].name = apply[k] /\ Q[k].chain = chain
      /\ \A k \in 1..l : m + k \in DOMAIN Q /\ Q[m + k] = T[k]
  <2>1. DOMAIN T = 1..l
    BY <1>2, <1>4
  <2>2. Parts(Q, apply, chain, T, m, l)
    BY <1>7, <2>1, PendingParts
  <2>. QED
    BY <2>2 DEF Parts
<1>9. SUFFICES /\ WalkOK(G, K \union {n}, Q)
               /\ \A k \in 1..l : \E j \in DOMAIN Q : Q[j] = T[k]
  BY <1>2, <1>4, <1>5, <1>6 DEF Holds
<1>. HIDE DEF Q
<1>10. \A k \in 1..l : Q[m + k] = P[k + 1]
  BY <1>2, <1>4, <1>8
<1>11. ASSUME NEW a \in Applies(G[n]) PROVE \E k \in 1..m : Q[k].name = a
  <2>1. PICK k \in 1..m : a = apply[k]
    BY <1>6, <1>7 DEF Applies
  <2>. QED
    BY <1>8, <2>1
<1>12. P[1].name = n /\ \A k \in 1..m : Q[k].chain = P[1].chain \union {n}
  BY <1>3, <1>5, <1>8
<1>13. Behind(G, n, P, Q, m, l)
  BY <1>2, <1>8, <1>10, <1>11, <1>12 DEF Behind
<1>14. WalkOK(G, K \union {n}, Q)
  BY <1>1, <1>13, GoingDown
<1>. QED
  BY <1>8, <1>14

\* When nothing is pending any more, what was read is closed and without a loop.
LEMMA WalkEnds ==
    ASSUME NEW G \in Graphs, NEW K \in SUBSET Rulesets, \A r \in K : G[r] # None, WalkOK(G, K, <<>>)
    PROVE  /\ Shut(G, K)
           /\ \A r \in K : r \notin ReachIn(G, Applies(G[r]))
<1>1. <<>> \in Seq(Pending) /\ DOMAIN <<>> = {}
  BY EmptySeq
<1>2. PICK rank \in [Rulesets -> Nat], depth \in [DOMAIN <<>> -> Nat] : Walks(G, K, <<>>, rank, depth)
  BY DEF WalkOK
<1>3. PICK left \in [Rulesets -> Nat] :
          Walks(G, K, <<>>, left, depth) /\ \A r \in Rulesets : left[r] <= 0
  <2>1. 0 \in Nat /\ \A k \in DOMAIN <<>> : depth[k] <= 0
    BY <1>1
  <2>. QED
    BY <1>1, <1>2, <2>1, Finishing
<1>4. Finished(K, left) = K
  BY <1>3 DEF Finished
<1>5. Shut(G, K)
  BY <1>3, <1>4 DEF Walks
<1>6. ASSUME NEW r \in K PROVE r \notin ReachIn(G, Applies(G[r]))
  <2>1. PICK s \in SUBSET K : Shut(G, s) /\ Applies(G[r]) \subseteq s /\ r \notin s
    BY <1>3, <1>4, <1>6 DEF Walks
  <2>2. Applies(G[r]) \in SUBSET Rulesets /\ s \in SUBSET Rulesets
    BY <2>1
  <2>. QED
    BY <2>1, <2>2, Reaching
<1>. QED
  BY <1>5, <1>6

\* A walk begins with nothing read and no path.
LEMMA WalkBegins ==
    ASSUME NEW G \in Graphs, NEW P \in Seq(Pending), \A k \in DOMAIN P : P[k].chain = {}
    PROVE  WalkOK(G, {}, P)
<1>. DEFINE rank == [r \in Rulesets |-> 0]
            depth == [k \in DOMAIN P |-> 0]
<1>1. rank \in [Rulesets -> Nat] /\ depth \in [DOMAIN P -> Nat]
  OBVIOUS
<1>2. Walks(G, {}, P, rank, depth)
  BY DEF Walks, Finished, Shut
<1>. QED
  BY <1>1, <1>2 DEF WalkOK

\* It does not matter to a walk what becomes of the rulesets that were not read.
LEMMA WalkStays ==
    ASSUME NEW G \in Graphs, NEW H \in Graphs, NEW K \in SUBSET Rulesets, NEW P \in Seq(Pending),
           \A r \in K : H[r] = G[r], WalkOK(G, K, P)
    PROVE  WalkOK(H, K, P)
<1>1. PICK rank \in [Rulesets -> Nat], depth \in [DOMAIN P -> Nat] : Walks(G, K, P, rank, depth)
  BY DEF WalkOK
<1>2. Finished(K, rank) \subseteq K
  BY DEF Finished
<1>3. \A s \in SUBSET Finished(K, rank) : Shut(H, s) <=> Shut(G, s)
  BY <1>2 DEF Shut
<1>4. Walks(H, K, P, rank, depth)
  BY <1>1, <1>2, <1>3 DEF Walks
<1>. QED
  BY <1>4 DEF WalkOK

----------------------------------------------------------------------------
(* How far a load has got.                                                  *)

\* What a load has read are rulesets of the tree.
LEMMA KnownIs ==
    ASSUME NEW t \in Trees, NEW L \in LoadStates, \A e \in L.seen : e[2] = t.rulesets[e[1]]
    PROVE  /\ Known(L) \in SUBSET Rulesets
           /\ \A r \in Known(L) : t.rulesets[r] \in RulesetDocs /\ t.rulesets[r] # None
           /\ \A r \in Known(L) : <<r, t.rulesets[r]>> \in L.seen
           /\ t.rulesets \in Graphs
<1>1. L.seen \subseteq Rulesets \X RulesetDocs
  BY DEF LoadStates
<1>2. ASSUME NEW r \in Known(L)
      PROVE  r \in Rulesets /\ t.rulesets[r] \in RulesetDocs /\ <<r, t.rulesets[r]>> \in L.seen
  <2>1. PICK e \in L.seen : e[1] = r
    BY <1>2 DEF Known
  <2>2. e = <<e[1], e[2]>> /\ e[1] \in Rulesets /\ e[2] \in RulesetDocs
    BY <1>1, <2>1
  <2>. QED
    BY <2>1, <2>2
<1>. QED
  BY <1>2, NoneIsNoDocument DEF Trees, Graphs

\* A load goes on following a tree that is only added to.
LEMMA FollowsStays ==
    ASSUME NEW t \in Trees, NEW u \in Trees, Extends(u, t), NEW doc \in PolicyDocs,
           NEW L \in LoadStates, Follows(t, doc, L)
    PROVE  Follows(u, doc, L)
<1>1. /\ \A e \in L.seen : e[2] = t.rulesets[e[1]]
      /\ WalkOK(t.rulesets, Known(L), L.pending)
      /\ \A a \in Start(t, doc) : a \in Known(L) \/ \E k \in DOMAIN L.pending : L.pending[k].name = a
      /\ Covers(t, L, doc)
      /\ \A r \in Known(L) : Covers(t, L, t.rulesets[r])
  BY DEF Follows
<1>2. /\ Known(L) \in SUBSET Rulesets /\ t.rulesets \in Graphs /\ u.rulesets \in Graphs
      /\ \A r \in Known(L) : t.rulesets[r] \in RulesetDocs /\ u.rulesets[r] = t.rulesets[r]
  BY <1>1, KnownIs DEF Extends, Trees, Graphs
<1>3. \A e \in L.seen : e[2] = u.rulesets[e[1]]
  BY <1>1, <1>2 DEF Known
<1>4. WalkOK(u.rulesets, Known(L), L.pending)
  BY <1>1, <1>2, WalkStays DEF LoadStates
<1>5. ASSUME NEW d \in PolicyDocs \union RulesetDocs, Covers(t, L, d) PROVE Covers(u, L, d)
  BY <1>5, PassesStay DEF Covers
<1>6. Covers(u, L, doc) /\ \A r \in Known(L) : Covers(u, L, u.rulesets[r])
  BY <1>1, <1>2, <1>5
<1>7. Start(u, doc) = Start(t, doc)
  BY StartStays
<1>. QED
  BY <1>1, <1>3, <1>4, <1>6, <1>7, Zenon DEF Follows

\* A load begins with everything to be read.
LEMMA FollowsBegins ==
    ASSUME tree \in Trees, NEW doc \in PolicyDocs
    PROVE  Follows(tree, doc, Loading(doc))
<1>. DEFINE base == IF doc.base /\ tree.rulesets[BaseRuleset] # None THEN <<BaseRuleset>> ELSE <<>>
            names == base \o doc.apply
            L == Loading(doc)
<1>1. doc.apply \in Seq(Rulesets) /\ doc.checks \in Seq(Checks)
  BY AppliesType
<1>2. base \in Seq(Rulesets) /\ <<>> \in Seq(Rulesets) /\ <<BaseRuleset>> \in Seq(Rulesets)
  BY ConfigIsTyped
<1>3. /\ L.pending = [k \in DOMAIN names |-> [name |-> names[k], chain |-> {}]]
      /\ L.seen = {} /\ L.checks = doc.checks /\ L.pending \in Seq(Pending)
  BY LoadingType DEF Loading, LoadStates
<1>4. Known(L) = {}
  BY <1>3 DEF Known
<1>5. WalkOK(tree.rulesets, {}, L.pending)
  <2>1. tree.rulesets \in Graphs
    BY DEF Trees, Graphs
  <2>2. \A k \in DOMAIN L.pending : L.pending[k].chain = {}
    BY <1>3
  <2>. QED
    BY <1>3, <2>1, <2>2, WalkBegins
<1>. SUFFICES Follows(tree, doc, L)
  OBVIOUS
<1>6. Holds(names, base) /\ Holds(names, doc.apply)
  <2>. HIDE DEF base
  <2>. QED
    BY <1>1, <1>2, ConcatHolds
<1>7. doc.base /\ tree.rulesets[BaseRuleset] # None => 1 \in DOMAIN base /\ base[1] = BaseRuleset
  OBVIOUS
<1>. HIDE DEF base, names
<1>8. ASSUME NEW a \in Start(tree, doc) PROVE \E k \in DOMAIN L.pending : L.pending[k].name = a
  <2>1. \E j \in DOMAIN names : names[j] = a
    <3>1. CASE a \in Applies(doc)
      <4>1. PICK k \in DOMAIN doc.apply : a = doc.apply[k]
        BY <3>1 DEF Applies
      <4>. QED
        BY <1>6, <4>1 DEF Holds
    <3>2. CASE a = BaseRuleset /\ doc.base /\ tree.rulesets[BaseRuleset] # None
      BY <1>6, <1>7, <3>2 DEF Holds
    <3>. QED
      BY <1>8, <3>1, <3>2 DEF Start
  <2>. QED
    BY <1>3, <2>1
<1>9. Covers(tree, L, doc)
  BY <1>3 DEF Covers
<1>. HIDE DEF L
<1>. QED
  BY <1>3, <1>4, <1>5, <1>8, <1>9 DEF Follows

\* It passes over what was read before.
LEMMA FollowsOver ==
    ASSUME NEW t \in Trees, NEW doc \in PolicyDocs, NEW L \in LoadStates, Follows(t, doc, L),
           L.pending # <<>>, NEW n, n = Head(L.pending).name,
           <<n, t.rulesets[n]>> \in L.seen, n \notin Head(L.pending).chain,
           NEW M, M.pending = Tail(L.pending), M.seen = L.seen, M.checks = L.checks
    PROVE  Follows(t, doc, M)
<1>1. /\ \A e \in L.seen : e[2] = t.rulesets[e[1]]
      /\ WalkOK(t.rulesets, Known(L), L.pending)
      /\ \A a \in Start(t, doc) : a \in Known(L) \/ \E k \in DOMAIN L.pending : L.pending[k].name = a
      /\ Covers(t, L, doc)
      /\ \A r \in Known(L) : Covers(t, L, t.rulesets[r])
  BY DEF Follows
<1>2. n \in Known(L) /\ Known(M) = Known(L)
  <2>1. <<n, t.rulesets[n]>>[1] = n
    OBVIOUS
  <2>. QED
    BY <2>1 DEF Known
<1>3. /\ Known(L) \in SUBSET Rulesets /\ t.rulesets \in Graphs
      /\ \A r \in Known(L) : t.rulesets[r] # None
  BY <1>1, KnownIs
<1>. PICK P \in Seq(Pending) : P = L.pending
  BY DEF LoadStates
<1>4. WalkOK(t.rulesets, Known(M), M.pending)
  BY <1>1, <1>2, <1>3, PassingOver
<1>5. ASSUME NEW a, \E k \in DOMAIN P : P[k].name = a
      PROVE  a \in Known(M) \/ \E k \in DOMAIN Tail(P) : Tail(P)[k].name = a
  <2>1. PICK k \in DOMAIN P : P[k].name = a
    BY <1>5
  <2>2. P[k] = Head(P) \/ \E j \in DOMAIN Tail(P) : Tail(P)[j] = P[k]
    BY TailKeeps
  <2>. QED
    BY <1>2, <2>1, <2>2
<1>6. Covers(t, M, doc) /\ \A r \in Known(M) : Covers(t, M, t.rulesets[r])
  BY <1>1, <1>2 DEF Covers
<1>. QED
  BY <1>1, <1>2, <1>4, <1>5, <1>6 DEF Follows

\* It reads a ruleset for the first time.
LEMMA FollowsDown ==
    ASSUME NEW t \in Trees, NEW doc \in PolicyDocs, NEW L \in LoadStates, Follows(t, doc, L),
           L.pending # <<>>, NEW n, n = Head(L.pending).name,
           <<n, t.rulesets[n]>> \notin L.seen, t.rulesets[n] # None,
           NEW M, M.pending = ThenRest(t.rulesets[n].apply, Head(L.pending).chain \union {n}, Tail(L.pending)),
           M.seen = L.seen \union {<<n, t.rulesets[n]>>}, M.checks = L.checks \o t.rulesets[n].checks
    PROVE  Follows(t, doc, M)
<1>1. /\ \A e \in L.seen : e[2] = t.rulesets[e[1]]
      /\ WalkOK(t.rulesets, Known(L), L.pending)
      /\ \A a \in Start(t, doc) : a \in Known(L) \/ \E k \in DOMAIN L.pending : L.pending[k].name = a
      /\ Covers(t, L, doc)
      /\ \A r \in Known(L) : Covers(t, L, t.rulesets[r])
  BY DEF Follows
<1>2. /\ Known(L) \in SUBSET Rulesets /\ t.rulesets \in Graphs
      /\ \A r \in Known(L) : t.rulesets[r] # None /\ <<r, t.rulesets[r]>> \in L.seen
  BY <1>1, KnownIs
<1>. PICK P \in Seq(Pending) : P = L.pending
  BY DEF LoadStates
<1>3. n \in Rulesets \ Known(L)
  <2>1. Head(P) \in Pending
    BY HeadTailProperties
  <2>. QED
    BY <1>2, <2>1 DEF Pending
<1>4. t.rulesets[n] \in RulesetDocs /\ t.rulesets[n].checks \in Seq(Checks) /\ L.checks \in Seq(Checks)
  <2>1. t.rulesets[n] \in RulesetDocs
    BY <1>2, <1>3 DEF Graphs
  <2>. QED
    BY <2>1, AppliesType DEF LoadStates
<1>5. Known(M) = Known(L) \union {n}
  <2>1. <<n, t.rulesets[n]>>[1] = n
    OBVIOUS
  <2>. QED
    BY <2>1 DEF Known
<1>6. /\ WalkOK(t.rulesets, Known(L) \union {n}, M.pending)
      /\ Holds(M.pending, Tail(P))
  <2>. PICK G \in Graphs : G = t.rulesets
    BY <1>2
  <2>. PICK K \in SUBSET Rulesets : K = Known(L)
    BY <1>2
  <2>. PICK Q : Q = M.pending
    OBVIOUS
  <2>1. /\ P # <<>> /\ WalkOK(G, K, P) /\ n \in Rulesets \ K /\ n = Head(P).name /\ G[n] # None
        /\ Q = ThenRest(G[n].apply, Head(P).chain \union {n}, Tail(P))
    BY <1>1, <1>3
  <2>2. \A r \in K : G[r] # None
    BY <1>2
  <2>3. WalkOK(G, K \union {n}, Q) /\ Holds(Q, Tail(P))
    BY <2>1, <2>2, Descending
  <2>. QED
    BY <2>3
<1>7. ASSUME NEW a, \E k \in DOMAIN P : P[k].name = a
      PROVE  a \in Known(M) \/ \E k \in DOMAIN M.pending : M.pending[k].name = a
  <2>1. PICK k \in DOMAIN P : P[k].name = a
    BY <1>7
  <2>2. P[k] = Head(P) \/ \E j \in DOMAIN Tail(P) : Tail(P)[j] = P[k]
    BY TailKeeps
  <2>. QED
    BY <1>5, <1>6, <2>1, <2>2 DEF Holds
<1>8. Holds(M.checks, L.checks) /\ Holds(M.checks, t.rulesets[n].checks)
  BY <1>4, ConcatHolds
<1>9. ASSUME NEW d, Covers(t, L, d) PROVE Covers(t, M, d)
  <2>1. ASSUME NEW k \in DOMAIN d.checks
        PROVE  Passes(t, d.checks[k]) \/ \E j \in DOMAIN M.checks : M.checks[j] = d.checks[k]
    <3>1. Passes(t, d.checks[k]) \/ \E j \in DOMAIN L.checks : L.checks[j] = d.checks[k]
      BY <1>9 DEF Covers
    <3>2. CASE \E j \in DOMAIN L.checks : L.checks[j] = d.checks[k]
      <4>1. PICK j \in DOMAIN L.checks : L.checks[j] = d.checks[k]
        BY <3>2
      <4>2. \E i \in DOMAIN M.checks : M.checks[i] = L.checks[j]
        BY <1>8 DEF Holds
      <4>. QED
        BY <4>1, <4>2
    <3>. QED
      BY <3>1, <3>2
  <2>. QED
    BY <2>1 DEF Covers
<1>10. Covers(t, M, t.rulesets[n])
  BY <1>8 DEF Covers, Holds
<1>11. \A e \in M.seen : e[2] = t.rulesets[e[1]]
  BY <1>1
<1>. QED
  BY <1>1, <1>5, <1>6, <1>7, <1>9, <1>10, <1>11 DEF Follows

\* It reads a checker.
LEMMA FollowsCheck ==
    ASSUME NEW t \in Trees, NEW doc \in PolicyDocs, NEW L \in LoadStates, Follows(t, doc, L),
           L.checks # <<>>, Passes(t, Head(L.checks)),
           NEW M, M.pending = L.pending, M.seen = L.seen, M.checks = Tail(L.checks)
    PROVE  Follows(t, doc, M)
<1>1. L.checks \in Seq(Checks)
  BY DEF LoadStates
<1>2. ASSUME NEW d, Covers(t, L, d) PROVE Covers(t, M, d)
  <2>1. ASSUME NEW k \in DOMAIN L.checks
        PROVE  Passes(t, L.checks[k]) \/ \E j \in DOMAIN M.checks : M.checks[j] = L.checks[k]
    <3>1. L.checks[k] = Head(L.checks) \/ \E j \in DOMAIN M.checks : M.checks[j] = L.checks[k]
      BY <1>1, <2>1, TailKeeps
    <3>. QED
      BY <3>1
  <2>. QED
    BY <1>2, <2>1 DEF Covers
<1>3. Known(M) = Known(L)
  BY DEF Known
<1>. QED
  BY <1>2, <1>3 DEF Follows

\* When nothing is left to be read, the document loads from the tree at once.
LEMMA FollowsToTheEnd ==
    ASSUME NEW t \in Trees, NEW doc \in PolicyDocs, NEW L \in LoadStates, Follows(t, doc, L),
           L.pending = <<>>, L.checks = <<>>
    PROVE  LoadsIn(t, doc)
<1>1. DOMAIN L.pending = {} /\ DOMAIN L.checks = {}
  BY EmptySeq
<1>2. /\ \A e \in L.seen : e[2] = t.rulesets[e[1]]
      /\ WalkOK(t.rulesets, Known(L), <<>>)
      /\ \A a \in Start(t, doc) : a \in Known(L)
      /\ Covers(t, L, doc)
      /\ \A r \in Known(L) : Covers(t, L, t.rulesets[r])
  BY <1>1 DEF Follows
<1>3. /\ Known(L) \in SUBSET Rulesets /\ t.rulesets \in Graphs
      /\ \A r \in Known(L) : t.rulesets[r] # None
  BY <1>2, KnownIs
<1>4. /\ Shut(t.rulesets, Known(L))
      /\ \A r \in Known(L) : r \notin ReachIn(t.rulesets, Applies(t.rulesets[r]))
  BY <1>2, <1>3, WalkEnds
<1>5. ReachIn(t.rulesets, Start(t, doc)) \subseteq Known(L)
  <2>1. Start(t, doc) \in SUBSET Rulesets /\ Start(t, doc) \subseteq Known(L)
    BY <1>2, <1>3
  <2>. QED
    BY <1>3, <1>4, <2>1, Reaching
<1>6. \A d : Covers(t, L, d) => \A k \in DOMAIN d.checks : Passes(t, d.checks[k])
  BY <1>1 DEF Covers
<1>. QED
  BY <1>2, <1>3, <1>4, <1>5, <1>6 DEF LoadsIn

----------------------------------------------------------------------------
(* What is placed while tools take turns.                                   *)

\* A pack has one file for each place.
LEMMA PackData ==
    ASSUME NEW pack \in Packs, NEW n \in PackPlacements(pack), NEW m \in PackPlacements(pack),
           n.at = m.at, n.name = m.name
    PROVE  n = m
  BY DEF PackPlacements

\* A tool places what its pack has, where nothing is or the same is already.
LEMMA OwnAdditions ==
    ASSUME TypeInv, PhaseInv, CalmInv, calm, NEW p \in Tools, ProcStep(p), FromPack(p), AddsOnly(p)
    PROVE  FromPack(p)' /\ AddsOnly(p)'
<1>. USE DEF Become
<1>0. p \in Procs /\ PhaseOK(p) /\ AddsPolicy(p) /\ tree \in Trees /\ todo[p] \subseteq Placements
  BY DEF Procs, PhaseInv, CalmInv, TypeInv
<1>1. CASE pc'[p] \notin {"conflicts", "placing"}
  BY <1>1 DEF FromPack, AddsOnly
<1>2. CASE LoadedForInstall(p) \/ (CheckClaims(p) /\ ~Leave(p))
  <2>1. pc'[p] \in {"claims", "repin"}
    BY <1>0, <1>2 DEF LoadedForInstall, CheckClaims, TypeInv
  <2>. QED
    BY <1>1, <2>1
<1>3. CASE (LoadedForEdit(p) \/ CheckPins(p)) /\ PlacePolicy(p) /\ UNCHANGED <<task, load>>
  <2>1. task[p].kind # "pack"
    BY <1>0, <1>3, KindsOfJobs DEF LoadedForEdit, CheckPins, PhaseOK
  <2>. QED
    BY <1>3, <2>1 DEF FromPack, AddsOnly
<1>4. CASE LoadPack(p) /\ PackIsSound(task[p].pack) /\ ~Leave(p)
  <2>1. todo'[p] = PackPlacements(task[p].pack) /\ pc'[p] = "conflicts" /\ task' = task
    BY <1>0, <1>4 DEF LoadPack, TypeInv
  <2>. QED
    BY <2>1 DEF FromPack, AddsOnly
<1>5. CASE CheckConflicts(p) /\ ~Leave(p)
  <2>1. /\ pc[p] = "conflicts" /\ todo' = todo /\ task' = task /\ tree' = tree
        /\ \A n \in todo[p] : task[p].replace \/ tree[n.at][n.name] = None \/ Settled(n)
    BY <1>0, <1>5 DEF CheckConflicts
  <2>2. task[p].kind = "pack" => \A n \in todo[p] : tree[n.at][n.name] \in {None, n.data}
    BY <1>0, <2>1 DEF AddsPolicy, Settled
  <2>. QED
    BY <2>1, <2>2 DEF FromPack, AddsOnly
<1>6. ASSUME NEW n \in todo[p], PlaceNext(p, n) PROVE FromPack(p)' /\ AddsOnly(p)'
  <2>1. /\ pc[p] = "placing" /\ pc' = pc /\ task' = task /\ todo'[p] = todo[p] \ {n}
        /\ tree' = [tree EXCEPT ![n.at][n.name] = n.data]
    BY <1>0, <1>6 DEF PlaceNext, TypeInv
  <2>2. FromPack(p)'
    BY <2>1 DEF FromPack
  <2>3. ASSUME task[p].kind = "pack", NEW m \in todo[p], m # n
        PROVE  tree'[m.at][m.name] \in {None, m.data}
    <3>1. task[p].pack \in Packs /\ n \in PackPlacements(task[p].pack) /\ m \in PackPlacements(task[p].pack)
      BY <1>0, <2>1, <2>3, TaskDoc DEF FromPack, PackJobs
    <3>2. ~(n.at = m.at /\ n.name = m.name)
      BY <2>3, <3>1, PackData
    <3>3. m.at \in {"checkers", "rulesets", "policies"}
      BY <1>0 DEF Placements
    <3>4. tree'[m.at][m.name] = tree[m.at][m.name]
      <4>1. n \in Placements
        BY <1>0
      <4>2. CASE n.at = m.at
        BY <1>0, <2>1, <3>2, <3>3, <4>1, <4>2, PlaceTree DEF Trees
      <4>3. CASE n.at # m.at
        BY <1>0, <2>1, <3>3, <4>1, <4>3, PlaceTree DEF Trees
      <4>. QED
        BY <4>2, <4>3
    <3>5. tree[m.at][m.name] \in {None, m.data}
      BY <2>1, <2>3 DEF AddsOnly
    <3>. QED
      BY <3>4, <3>5
  <2>. QED
    BY <2>1, <2>2, <2>3 DEF AddsOnly
<1>. QED
  BY <1>0, <1>1, <1>2, <1>3, <1>4, <1>5, <1>6, WayToPlacing

\* A base ruleset stays, once there is one.
LEMMA BaseStays ==
    ASSUME TypeInv, NEW p \in Procs, ProcStep(p), tree.rulesets[BaseRuleset] # None
    PROVE  tree'.rulesets[BaseRuleset] # None
<1>1. ASSUME NEW n \in todo[p], PlaceNext(p, n)
      PROVE  tree'.rulesets[BaseRuleset] # None
  <2>1. n \in Placements /\ tree \in Trees /\ tree' = [tree EXCEPT ![n.at][n.name] = n.data]
    BY <1>1 DEF PlaceNext, TypeInv
  <2>2. CASE n.at # "rulesets"
    BY <2>1, <2>2, PlaceTree
  <2>3. CASE n.at = "rulesets"
    <3>1. n.data \in RulesetDocs /\ tree'.rulesets = [tree.rulesets EXCEPT ![n.name] = n.data]
      BY <2>1, <2>3, PlaceTree
    <3>2. n.data # None /\ tree.rulesets \in [Rulesets -> RulesetDocs \union {None}]
      BY <2>1, <3>1, NoneIsNoDocument DEF Trees
    <3>. QED
      BY <3>1, <3>2, ConfigIsTyped
  <2>. QED
    BY <2>2, <2>3
<1>. QED
  BY <1>1, TreeSteps

\* While tools take turns and only add, every step that does not bring a first base ruleset leaves
\* the tree as it is or adds to it.
LEMMA CalmExtends ==
    ASSUME TypeInv, PhaseInv, AdditionInv, calm, NEW p \in Procs, ProcStep(p), ~BaseArrives
    PROVE  tree' \in Trees /\ Extends(tree', tree)
<1>1. CASE tree' = tree
  BY <1>1 DEF TypeInv, Extends
<1>2. ASSUME p \in Tools, NEW n \in todo[p], PlaceNext(p, n)
      PROVE  tree' \in Trees /\ Extends(tree', tree)
  <2>1. /\ pc[p] = "placing" /\ n \in Placements /\ tree \in Trees /\ PhaseOK(p)
        /\ tree' = [tree EXCEPT ![n.at][n.name] = n.data]
    BY <1>2 DEF PlaceNext, TypeInv, PhaseInv
  <2>2. CASE n.at = "policies"
    <3>1. tree' \in Trees /\ tree'.rulesets = tree.rulesets /\ tree'.checkers = tree.checkers
      BY <2>1, <2>2, PlaceTree
    <3>. QED
      BY <3>1 DEF Extends
  <2>3. CASE n.at # "policies"
    <3>1. task[p] \in PackJobs
      BY <2>1, <2>3 DEF PhaseOK, Placement
    <3>2. task[p].kind = "pack" /\ task[p].pack \in Packs
      BY <3>1 DEF PackJobs
    <3>3. n \in PackPlacements(task[p].pack) /\ tree[n.at][n.name] \in {None, n.data}
      BY <1>2, <2>1, <3>2 DEF AdditionInv, FromPack, AddsOnly
    <3>4. CASE n.at = "checkers"
      <4>1. /\ tree' \in Trees /\ tree'.rulesets = tree.rulesets /\ n.name \in Checkers
            /\ tree'.checkers = [tree.checkers EXCEPT ![n.name] = n.data]
        BY <2>1, <3>4, PlaceTree
      <4>2. tree.checkers \in [Checkers -> Bytes \union {None}] /\ tree.checkers[n.name] \in {None, n.data}
        BY <2>1, <3>3, <3>4 DEF Trees
      <4>. QED
        BY <4>1, <4>2 DEF Extends
    <3>5. CASE n.at = "rulesets"
      <4>1. /\ tree' \in Trees /\ tree'.checkers = tree.checkers
            /\ n.name \in Rulesets /\ n.data \in RulesetDocs
            /\ tree'.rulesets = [tree.rulesets EXCEPT ![n.name] = n.data]
        BY <2>1, <3>5, PlaceTree
      <4>2. /\ tree.rulesets \in [Rulesets -> RulesetDocs \union {None}]
            /\ tree.rulesets[n.name] \in {None, n.data}
        BY <2>1, <3>3, <3>5 DEF Trees
      <4>3. n.name = BaseRuleset => tree.rulesets[BaseRuleset] # None
        BY <4>1, <4>2, NoneIsNoDocument DEF BaseArrives
      <4>. QED
        BY <4>1, <4>2, <4>3, ConfigIsTyped, NoneIsNoDocument DEF Extends
    <3>. QED
      BY <2>1, <2>3, <3>4, <3>5, PlaceTree
  <2>. QED
    BY <2>2, <2>3
<1>. QED
  BY <1>1, <1>2, TreeSteps

\* So it goes on.
LEMMA StepAdds ==
    ASSUME TypeInv, PhaseInv, TurnsInv, CalmInv, AdditionInv, NEW p \in Procs, ProcStep(p)
    PROVE  AdditionInv'
<1>. SUFFICES ASSUME calm' PROVE BaseInstalled' /\ \A q \in Tools : FromPack(q)' /\ AddsOnly(q)'
  BY DEF AdditionInv
<1>1. calm /\ turns
  BY TurnSteps DEF CalmInv
<1>2. BaseInstalled'
  BY <1>1, BaseStays DEF AdditionInv, BaseInstalled
<1>3. ASSUME NEW q \in Tools PROVE FromPack(q)' /\ AddsOnly(q)'
  <2>1. FromPack(q) /\ AddsOnly(q)
    BY <1>1 DEF AdditionInv
  <2>2. CASE q = p
    BY <1>1, <2>1, <2>2, OwnAdditions
  <2>3. CASE q # p
    <3>1. /\ q \in Procs /\ pc'[q] = pc[q] /\ task'[q] = task[q] /\ todo'[q] = todo[q]
      BY <2>3, StepIsLocal DEF Procs, Others
    <3>2. FromPack(q)'
      BY <2>1, <3>1 DEF FromPack
    <3>3. pc[q] = "placing" => tree' = tree
      BY <1>1, <2>3, TreeSteps DEF TurnsInv, OneAtWork, PlaceNext
    <3>. QED
      BY <2>1, <3>1, <3>2, <3>3 DEF AddsOnly
  <2>. QED
    BY <2>2, <2>3
<1>. QED
  BY <1>2, <1>3

----------------------------------------------------------------------------
(* What a step makes of what is loaded.                                     *)

\* A load begins; or it passes over a ruleset, reads one or reads a checker.
StartsLoad(p) == task'[p].doc \in PolicyDocs /\ load'[p] = Loading(task'[p].doc) /\ tree' = tree
GoesOn(p) == pc[p] = "loading" /\ task'[p] = task[p] /\ tree' = tree
PassesOver(p, L, M) ==
    LET next == Head(L.pending) IN
    /\ L.pending # <<>> /\ next.name \notin next.chain
    /\ <<next.name, tree.rulesets[next.name]>> \in L.seen
    /\ M.pending = Tail(L.pending) /\ M.seen = L.seen /\ M.checks = L.checks
ReadsOne(p, L, M) ==
    LET next == Head(L.pending)
        doc == tree.rulesets[next.name]
    IN  /\ L.pending # <<>> /\ doc # None
        /\ <<next.name, doc>> \notin L.seen
        /\ M.pending = ThenRest(doc.apply, next.chain \union {next.name}, Tail(L.pending))
        /\ M.seen = L.seen \union {<<next.name, doc>>} /\ M.checks = L.checks \o doc.checks
ReadsCheck(p, L, M) ==
    /\ L.checks # <<>> /\ Passes(tree, Head(L.checks))
    /\ M.pending = L.pending /\ M.seen = L.seen /\ M.checks = Tail(L.checks)

\* What reading a ruleset does.
LEMMA RulesetStep ==
    ASSUME TypeInv, NEW p \in Procs, ReadRuleset(p), ~LoadFails(p)
    PROVE  GoesOn(p) /\ (PassesOver(p, load[p], load'[p]) \/ ReadsOne(p, load[p], load'[p]))
<1>. PICK L \in LoadStates : L = load[p]
  BY DEF TypeInv
<1>. DEFINE next == Head(L.pending)
            doc == tree.rulesets[next.name]
            rest == ThenRest(doc.apply, next.chain \union {next.name}, Tail(L.pending))
            seen == L.seen \union {<<next.name, doc>>}
<1>1. /\ pc[p] = "loading" /\ UNCHANGED <<pc, task, tree>>
      /\ L.pending # <<>> /\ doc # None /\ next.name \notin next.chain
      /\ load' = IF <<next.name, doc>> \in L.seen
                   THEN [load EXCEPT ![p].pending = Tail(L.pending)]
                   ELSE [load EXCEPT ![p].pending = rest, ![p].seen = @ \union {<<next.name, doc>>},
                                     ![p].checks = @ \o doc.checks]
  BY DEF ReadRuleset, ThenRest
<1>2. GoesOn(p)
  BY <1>1 DEF GoesOn
<1>. HIDE DEF next, doc, rest
<1>3. CASE <<next.name, doc>> \in L.seen
  <2>1. load'[p] = [L EXCEPT !.pending = Tail(L.pending)]
    BY <1>1, <1>3 DEF TypeInv
  <2>2. load'[p].pending = Tail(L.pending) /\ load'[p].seen = L.seen /\ load'[p].checks = L.checks
    BY <2>1 DEF LoadStates
  <2>. QED
    BY <1>1, <1>2, <1>3, <2>2 DEF PassesOver, next, doc
<1>4. CASE <<next.name, doc>> \notin L.seen
  <2>1. load'[p] = [L EXCEPT !.pending = rest, !.seen = L.seen \union {<<next.name, doc>>},
                             !.checks = L.checks \o doc.checks]
    BY <1>1, <1>4 DEF TypeInv, LoadStates
  <2>2. /\ load'[p].pending = rest /\ load'[p].seen = L.seen \union {<<next.name, doc>>}
        /\ load'[p].checks = L.checks \o doc.checks
    BY <2>1 DEF LoadStates
  <2>. QED
    BY <1>1, <1>2, <1>4, <2>2 DEF ReadsOne, next, doc, rest
<1>. QED
  BY <1>3, <1>4

\* What reading a checker does.
LEMMA EvaluatorStep ==
    ASSUME TypeInv, NEW p \in Procs, ReadEvaluator(p), ~LoadFails(p)
    PROVE  GoesOn(p) /\ ReadsCheck(p, load[p], load'[p])
<1>. PICK L \in LoadStates : L = load[p]
  BY DEF TypeInv
<1>. DEFINE c == Head(L.checks)
            e == [checker |-> c.checker, pin |-> c.pin, bytes |-> tree.checkers[c.checker]]
<1>1. /\ pc[p] = "loading" /\ UNCHANGED <<pc, task, tree>>
      /\ L.checks # <<>> /\ tree.checkers[c.checker] # None /\ c.pin \in {None, tree.checkers[c.checker]}
      /\ load' = [load EXCEPT ![p].checks = Tail(@), ![p].evaluators = @ \union {e}]
  BY DEF ReadEvaluator
<1>2. Passes(tree, Head(L.checks))
  BY <1>1 DEF Passes
<1>. HIDE DEF e, c
<1>3. load'[p].checks = Tail(L.checks) /\ load'[p].pending = L.pending /\ load'[p].seen = L.seen
  BY <1>1 DEF TypeInv, LoadStates
<1>. QED
  BY <1>1, <1>2, <1>3 DEF GoesOn, ReadsCheck

\* A process that loads has begun to, or goes on.
LEMMA LoadGoesOn ==
    ASSUME TypeInv, PhaseInv, NEW p \in Procs, ProcStep(p), pc'[p] = "loading"
    PROVE  \/ StartsLoad(p)
           \/ ReadRuleset(p) /\ ~LoadFails(p)
           \/ ReadEvaluator(p) /\ ~LoadFails(p)
<1>0. load[p] \in LoadStates /\ task[p] \in Tasks
  BY DEF TypeInv
<1>1. ~Leave(p) /\ ~LoadFails(p)
  BY LeaveResult, LoadFailsResult
<1>2. ASSUME NEW doc \in PolicyDocs, task' = [task EXCEPT ![p].doc = doc], tree' = tree,
             task[p] \in EditJobs \union ApplyJobs \union RunJobs, load' = [load EXCEPT ![p] = Loading(doc)]
      PROVE  StartsLoad(p)
  <2>1. task'[p].doc = doc /\ load'[p] = Loading(doc)
    BY <1>2, NewDocType DEF TypeInv
  <2>. QED
    BY <1>2, <2>1 DEF StartsLoad
<1>3. CASE ReadForRun(p)
  <2>1. tree.policies[task[p].target] \in PolicyDocs /\ task[p] \in RunJobs
    BY <1>3, TaskDoc DEF ReadForRun, PhaseInv, PhaseOK, TypeInv, Trees
  <2>. QED
    BY <1>2, <1>3, <2>1 DEF ReadForRun
<1>4. CASE ReadForApply(p)
  <2>1. PICK more \in PolicyDocs :
           task' = [task EXCEPT ![p].doc = more] /\ load' = [load EXCEPT ![p] = Loading(more)] /\ tree' = tree
    BY <1>1, <1>4, ReadForApplyResult
  <2>2. task[p] \in ApplyJobs
    BY <1>4, TaskDoc DEF ReadForApply
  <2>. QED
    BY <1>2, <2>1, <2>2
<1>5. ASSUME NEW doc \in Policies, SaveDraft(p, doc) PROVE StartsLoad(p)
  <2>1. doc \in PolicyDocs /\ task[p] \in EditJobs
    BY <1>5, ConfigIsTyped DEF SaveDraft, PhaseInv, PhaseOK
  <2>. QED
    BY <1>2, <1>5, <2>1 DEF SaveDraft
<1>6. ASSUME NEW label, NEW job, job.doc \in PolicyDocs, StartJob(p, label, job),
             load' = [load EXCEPT ![p] = Loading(job.doc)]
      PROVE  StartsLoad(p)
  BY <1>6, StartJobResult DEF TypeInv, StartsLoad
<1>7. CASE Finds(p)
  <2>1. PICK job : Begins(p, job)
    BY <1>7, FindBegins
  <2>2. ~StartJob(p, "found", job)
    BY StartJobResult
  <2>. QED
    BY <1>6, <2>1, <2>2 DEF Begins
<1>8. ASSUME NEW pack \in Packs, NEW replace \in BOOLEAN PROVE ~InstallPack(p, pack, replace)
  BY InstallBegins, StartJobResult
<1>9. ASSUME NEW doc \in Policies, NEW name \in Names, NEW replace \in BOOLEAN,
             InstallPolicy(p, doc, name, replace)
      PROVE  StartsLoad(p)
  BY <1>6, <1>9, InstallBegins DEF PolicyJobs
<1>10. ~ReadForEdit(p) /\ ~LoadedForRun(p) /\ ~LoadedForInstall(p) /\ ~PlacePolicy(p)
  BY DEF ReadForEdit, LoadedForRun, LoadedForInstall, PlacePolicy, Become, TypeInv
<1>11. ~LoadPack(p) /\ ~CheckClaims(p) /\ ~CheckPins(p) /\ ~CheckConflicts(p)
  BY <1>1, <1>10 DEF LoadPack, CheckClaims, CheckPins, CheckConflicts, Become, TypeInv
<1>12. ~DiscardDraft(p) /\ ~AllPlaced(p) /\ ~EndRun(p) /\ ~Kill(p)
  BY <1>1 DEF DiscardDraft, AllPlaced, EndRun, Kill
<1>13. /\ \A n \in todo[p] : ~PlaceNext(p, n)
       /\ \A e \in load[p].evaluators : ~RunCheck(p, e)
  BY DEF PlaceNext, RunCheck, procVars
<1>14. CASE Load(p)
  BY <1>1, <1>3, <1>4, <1>10, <1>14 DEF Load, LoadedForEdit
<1>15. CASE Tool(p)
  BY <1>5, <1>7, <1>8, <1>9, <1>11, <1>12, <1>13, <1>15 DEF Tool, Finds
<1>16. CASE Guest(p)
  BY <1>7, <1>12, <1>13, <1>16 DEF Guest, Finds
<1>. QED
  BY <1>12, <1>14, <1>15, <1>16 DEF ProcStep

----------------------------------------------------------------------------
(* What is loaded while tools take turns.                                   *)

\* How a run gets to where it executes.
LEMMA WayToRunning ==
    ASSUME TypeInv, NEW p \in Procs, ProcStep(p), pc'[p] = "running"
    PROVE  LoadedForRun(p) \/ (pc[p] = "running" /\ task' = task /\ tree' = tree)
<1>1. ~Leave(p) /\ ~LoadFails(p)
  BY LeaveResult, LoadFailsResult
<1>2. ~Finds(p)
  BY FindBegins, StartJobResult DEF Begins
<1>3. CASE Load(p)
  <2>1. ~ReadForRun(p) /\ ~ReadForEdit(p) /\ ~LoadedForInstall(p) /\ ~PlacePolicy(p)
    BY DEF ReadForRun, ReadForEdit, LoadedForInstall, PlacePolicy, Become, TypeInv
  <2>2. ~ReadForApply(p)
    BY <1>1 DEF ReadForApply, Become, TypeInv
  <2>3. ~ReadRuleset(p) /\ ~ReadEvaluator(p)
    BY <1>1 DEF ReadRuleset, ReadEvaluator
  <2>. QED
    BY <1>1, <1>3, <2>1, <2>2, <2>3 DEF Load, LoadedForEdit
<1>4. ~Tool(p) \/ \E n \in todo[p] : PlaceNext(p, n)
  <2>1. \A pack \in Packs, replace \in BOOLEAN : ~InstallPack(p, pack, replace)
    BY InstallBegins, StartJobResult
  <2>2. \A doc \in Policies, name \in Names, replace \in BOOLEAN : ~InstallPolicy(p, doc, name, replace)
    BY InstallBegins, StartJobResult
  <2>3. \A doc \in Policies : ~SaveDraft(p, doc)
    BY DEF SaveDraft, Become, TypeInv
  <2>4. ~DiscardDraft(p) /\ ~AllPlaced(p)
    BY <1>1 DEF DiscardDraft, AllPlaced
  <2>5. ~PlacePolicy(p)
    BY DEF PlacePolicy, Become, TypeInv
  <2>6. ~LoadPack(p) /\ ~CheckClaims(p) /\ ~CheckPins(p) /\ ~CheckConflicts(p)
    BY <1>1, <2>5 DEF LoadPack, CheckClaims, CheckPins, CheckConflicts, Become, TypeInv
  <2>. QED
    BY <1>2, <2>1, <2>2, <2>3, <2>4, <2>6 DEF Tool, Finds
<1>5. \A n \in todo[p] : ~PlaceNext(p, n)
  BY DEF PlaceNext
<1>6. CASE Guest(p)
  <2>1. ~EndRun(p)
    BY <1>1 DEF EndRun
  <2>2. ASSUME NEW e \in load[p].evaluators, RunCheck(p, e)
        PROVE  pc[p] = "running" /\ task' = task /\ tree' = tree
    BY <2>2 DEF RunCheck, procVars
  <2>. QED
    BY <1>2, <1>6, <2>1, <2>2 DEF Guest, Finds
<1>7. ~Kill(p)
  BY <1>1 DEF Kill
<1>. QED
  BY <1>3, <1>4, <1>5, <1>6, <1>7 DEF ProcStep

\* A load that goes on follows the tree.
LEMMA LoadFollows ==
    ASSUME TypeInv, PhaseInv, NEW p \in Procs, ProcStep(p), pc'[p] = "loading",
           pc[p] = "loading" => Follows(tree, task[p].doc, load[p])
    PROVE  Follows(tree', task'[p].doc, load'[p])
<1>0. tree \in Trees /\ load[p] \in LoadStates /\ (pc[p] = "loading" => task[p].doc \in PolicyDocs)
  BY TaskDoc DEF TypeInv
<1>1. CASE StartsLoad(p)
  BY <1>0, <1>1, FollowsBegins DEF StartsLoad
<1>. PICK L \in LoadStates : L = load[p]
  BY <1>0
<1>. PICK M : M = load'[p]
  OBVIOUS
<1>. PICK t \in Trees : t = tree
  BY <1>0
<1>2. CASE ReadRuleset(p) /\ ~LoadFails(p)
  <2>1. GoesOn(p) /\ (PassesOver(p, L, M) \/ ReadsOne(p, L, M))
    BY <1>2, RulesetStep
  <2>2. PICK doc \in PolicyDocs : doc = task[p].doc
    BY <1>0, <2>1 DEF GoesOn
  <2>3. Follows(t, doc, L)
    BY <2>1, <2>2 DEF GoesOn
  <2>4. CASE PassesOver(p, L, M)
    <3>1. PICK n : n = Head(L.pending).name
      OBVIOUS
    <3>2. /\ L.pending # <<>> /\ n \notin Head(L.pending).chain /\ <<n, t.rulesets[n]>> \in L.seen
          /\ M.pending = Tail(L.pending) /\ M.seen = L.seen /\ M.checks = L.checks
      BY <2>4, <3>1 DEF PassesOver
    <3>3. Follows(t, doc, M)
      BY <2>3, <3>1, <3>2, FollowsOver
    <3>. QED
      BY <2>1, <2>2, <3>3 DEF GoesOn
  <2>5. CASE ReadsOne(p, L, M)
    <3>1. PICK n : n = Head(L.pending).name
      OBVIOUS
    <3>2. /\ L.pending # <<>> /\ t.rulesets[n] # None /\ <<n, t.rulesets[n]>> \notin L.seen
          /\ M.pending = ThenRest(t.rulesets[n].apply, Head(L.pending).chain \union {n}, Tail(L.pending))
          /\ M.seen = L.seen \union {<<n, t.rulesets[n]>>} /\ M.checks = L.checks \o t.rulesets[n].checks
      BY <2>5, <3>1 DEF ReadsOne
    <3>3. Follows(t, doc, M)
      BY <2>3, <3>1, <3>2, FollowsDown
    <3>. QED
      BY <2>1, <2>2, <3>3 DEF GoesOn
  <2>. QED
    BY <2>1, <2>4, <2>5
<1>3. CASE ReadEvaluator(p) /\ ~LoadFails(p)
  <2>1. GoesOn(p) /\ ReadsCheck(p, L, M)
    BY <1>3, EvaluatorStep
  <2>2. PICK doc \in PolicyDocs : doc = task[p].doc
    BY <1>0, <2>1 DEF GoesOn
  <2>3. /\ Follows(t, doc, L) /\ L.checks # <<>> /\ Passes(t, Head(L.checks))
        /\ M.pending = L.pending /\ M.seen = L.seen /\ M.checks = Tail(L.checks)
    BY <2>1, <2>2 DEF GoesOn, ReadsCheck
  <2>4. Follows(t, doc, M)
    BY <2>3, FollowsCheck
  <2>. QED
    BY <2>1, <2>2, <2>4 DEF GoesOn
<1>. QED
  BY <1>1, <1>2, <1>3, LoadGoesOn

\* What has been loaded to the end loads from the tree at once.
LEMMA LoadedLoads ==
    ASSUME TypeInv, PhaseInv, NEW p \in Procs, IsLoaded(p), LoadOK(p)
    PROVE  task[p].doc \in PolicyDocs /\ LoadsIn(tree, task[p].doc)
<1>1. /\ tree \in Trees /\ load[p] \in LoadStates /\ task[p].doc \in PolicyDocs
      /\ Follows(tree, task[p].doc, load[p]) /\ load[p].pending = <<>> /\ load[p].checks = <<>>
  BY TaskDoc DEF TypeInv, IsLoaded, LoadOK
<1>. QED
  BY <1>1, FollowsToTheEnd

\* A process goes on with a document that loads.
LEMMA OwnLoad ==
    ASSUME TypeInv, PhaseInv, AdditionInv, calm, NEW p \in Procs, ProcStep(p), ~BaseArrives, LoadOK(p)
    PROVE  LoadOK(p)'
<1>0. PhaseOK(p) /\ tree \in Trees /\ task[p] \in Tasks
  BY DEF PhaseInv, TypeInv
<1>1. CASE pc'[p] = "loading"
  <2>1. Follows(tree', task'[p].doc, load'[p])
    BY <1>1, LoadFollows DEF LoadOK
  <2>. QED
    BY <1>1, <2>1 DEF LoadOK
<1>2. CASE pc'[p] = "running"
  <2>1. CASE LoadedForRun(p)
    <3>1. task' = task /\ tree' = tree /\ task[p].doc \in PolicyDocs /\ LoadsIn(tree, task[p].doc)
      BY <2>1, LoadedLoads DEF LoadedForRun
    <3>. QED
      BY <1>2, <3>1 DEF LoadOK
  <2>2. CASE pc[p] = "running" /\ task' = task /\ tree' = tree
    BY <1>2, <2>2 DEF LoadOK
  <2>. QED
    BY <1>2, <2>1, <2>2, WayToRunning
<1>3. CASE pc'[p] \in {"claims", "repin", "conflicts", "placing"}
  <2>1. CASE LoadedForInstall(p)
    <3>1. task' = task /\ tree' = tree /\ task[p].doc \in PolicyDocs /\ LoadsIn(tree, task[p].doc)
      BY <2>1, LoadedLoads DEF LoadedForInstall
    <3>. QED
      BY <1>3, <3>1 DEF LoadOK
  <2>2. CASE (LoadedForEdit(p) \/ CheckPins(p)) /\ PlacePolicy(p) /\ UNCHANGED <<task, load>>
    <3>1. task' = task /\ tree' = tree
      BY <2>2 DEF LoadedForEdit, CheckPins
    <3>2. LoadsIn(tree, task[p].doc)
      <4>1. CASE LoadedForEdit(p)
        BY <4>1, LoadedLoads DEF LoadedForEdit
      <4>2. CASE CheckPins(p)
        BY <4>2 DEF CheckPins, LoadOK
      <4>. QED
        BY <2>2, <4>1, <4>2
    <3>3. pc'[p] = "conflicts"
      BY <2>2 DEF PlacePolicy, Become, TypeInv
    <3>. QED
      BY <3>1, <3>2, <3>3 DEF LoadOK
  <2>3. CASE LoadPack(p) /\ PackIsSound(task[p].pack) /\ ~Leave(p)
    <3>1. pc'[p] = "conflicts" /\ task' = task /\ pc[p] = "survey"
      BY <2>3 DEF LoadPack, Become, TypeInv
    <3>2. task[p].kind = "pack"
      BY <1>0, <3>1, KindsOfJobs DEF PhaseOK
    <3>. QED
      BY <3>1, <3>2 DEF LoadOK
  <2>4. CASE CheckClaims(p) /\ ~Leave(p)
    <3>1. pc[p] = "claims" /\ task' = task /\ tree' = tree
      BY <2>4 DEF CheckClaims
    <3>. QED
      BY <1>3, <3>1 DEF LoadOK
  <2>5. CASE CheckConflicts(p) /\ ~Leave(p)
    <3>1. pc[p] = "conflicts" /\ pc'[p] = "placing" /\ task' = task /\ tree' = tree
      BY <2>5 DEF CheckConflicts, Become, TypeInv
    <3>. QED
      BY <3>1 DEF LoadOK
  <2>6. ASSUME NEW n \in todo[p], PlaceNext(p, n) PROVE LoadOK(p)'
    <3>1. pc[p] = "placing" /\ pc' = pc /\ task' = task
      BY <2>6 DEF PlaceNext
    <3>2. ASSUME task[p].kind # "pack" PROVE LoadsIn(tree', task[p].doc)
      <4>1. LoadsIn(tree, task[p].doc) /\ task[p].doc \in PolicyDocs
        BY <1>0, <3>1, <3>2, KindsOfJobs DEF LoadOK, PhaseOK
      <4>. QED
        BY <1>0, <4>1, CalmExtends, LoadsStay
    <3>. QED
      BY <3>1, <3>2 DEF LoadOK
  <2>. QED
    BY <1>3, <2>1, <2>2, <2>3, <2>4, <2>5, <2>6, WayToPlacing
<1>4. CASE pc'[p] \notin {"loading", "running", "claims", "repin", "conflicts", "placing"}
  BY <1>4 DEF LoadOK
<1>. QED
  BY <1>1, <1>2, <1>3, <1>4

\* Nobody's placement takes from another what it has loaded.
LEMMA OthersLoad ==
    ASSUME TypeInv, PhaseInv, AdditionInv, calm, NEW p \in Procs, ProcStep(p), ~BaseArrives,
           NEW q \in Procs, q # p, LoadOK(q)
    PROVE  LoadOK(q)'
<1>1. /\ pc'[q] = pc[q] /\ task'[q] = task[q] /\ load'[q] = load[q] /\ PhaseOK(q)
      /\ tree \in Trees /\ load[q] \in LoadStates /\ tree' \in Trees /\ Extends(tree', tree)
  BY StepIsLocal, CalmExtends DEF Others, PhaseInv, TypeInv
<1>2. ASSUME pc[q] = "loading" PROVE Follows(tree', task[q].doc, load[q])
  BY <1>1, <1>2, FollowsStays DEF LoadOK, PhaseOK
<1>3. ASSUME pc[q] \in {"claims", "repin", "running"} 
      PROVE  task[q].doc \in PolicyDocs /\ LoadsIn(tree', task[q].doc)
  BY <1>1, <1>3, LoadsStay DEF LoadOK
<1>4. ASSUME pc[q] \in {"conflicts", "placing"}, task[q].kind # "pack" PROVE LoadsIn(tree', task[q].doc)
  <2>1. task[q].doc \in PolicyDocs
    BY <1>1, <1>4, KindsOfJobs DEF PhaseOK
  <2>. QED
    BY <1>1, <1>4, <2>1, LoadsStay DEF LoadOK
<1>. QED
  BY <1>1, <1>2, <1>3, <1>4 DEF LoadOK

\* The pack that brings a first base ruleset meets no other tool at work, and does not ask of a
\* run that it was composed with that base.
LEMMA BaseLoad ==
    ASSUME TypeInv, PhaseInv, TurnsInv, turns, BaseInstalled, NEW p \in Procs, ProcStep(p), BaseArrives,
           NEW q \in Procs, q \in Runs => BaseKept'
    PROVE  LoadOK(q)'
<1>1. q \in Tools
  BY DEF BaseArrives, BaseInstalled, BaseKept, Procs
<1>2. p \in Tools /\ \E n \in todo[p] : PlaceNext(p, n)
  BY TreeSteps DEF BaseArrives
<1>3. PICK n \in todo[p] : PlaceNext(p, n)
  BY <1>2
<1>4. /\ pc[p] = "placing" /\ pc' = pc /\ task' = task /\ n \in Placements /\ tree \in Trees /\ PhaseOK(p)
      /\ tree' = [tree EXCEPT ![n.at][n.name] = n.data]
  BY <1>3 DEF PlaceNext, TypeInv, PhaseInv
<1>5. CASE q = p
  <2>1. n.at # "policies"
    BY <1>4, PlaceTree DEF BaseArrives
  <2>2. task[p].kind = "pack"
    BY <1>4, <2>1, KindsOfJobs DEF PhaseOK, Placement
  <2>. QED
    BY <1>4, <1>5, <2>2 DEF LoadOK
<1>6. CASE q # p
  <2>1. pc[q] = "idle"
    BY <1>1, <1>2, <1>4, <1>6 DEF TurnsInv, OneAtWork
  <2>. QED
    BY <1>4, <2>1 DEF LoadOK
<1>. QED
  BY <1>5, <1>6

\* The invariant is kept.
LEMMA StepLoads ==
    ASSUME LoadInv, TurnInv', [Next]_vars
    PROVE  LoadInv'
<1>0. TypeInv /\ PhaseInv /\ TurnsInv /\ CalmInv /\ AdditionInv
  BY DEF LoadInv, TurnInv, IInv
<1>1. ASSUME NEW p \in Procs, ProcStep(p) PROVE LoadInv'
  <2>1. AdditionInv'
    BY <1>0, <1>1, StepAdds
  <2>2. ASSUME calm', NEW q \in Procs, q \in Runs => BaseKept' PROVE LoadOK(q)'
    <3>1. calm /\ turns /\ BaseInstalled
      BY <1>0, <1>1, <2>2, TurnSteps DEF CalmInv, AdditionInv
    <3>2. CASE BaseArrives
      BY <1>0, <1>1, <2>2, <3>1, <3>2, BaseLoad
    <3>3. CASE ~BaseArrives
      <4>1. q \in Runs => BaseKept
        BY <1>0, <1>1, <2>2, BaseStays DEF BaseKept
      <4>2. LoadOK(q)
        BY <2>2, <3>1, <4>1 DEF LoadInv
      <4>. QED
        BY <1>0, <1>1, <3>1, <3>3, <4>2, OwnLoad, OthersLoad
    <3>. QED
      BY <3>2, <3>3
  <2>. QED
    BY <2>1, <2>2 DEF LoadInv
<1>2. CASE UNCHANGED vars
  <2>1. AdditionInv'
    BY <1>0, <1>2 DEF AdditionInv, BaseInstalled, FromPack, AddsOnly, vars, procVars
  <2>2. ASSUME calm', NEW q \in Procs, q \in Runs => BaseKept' PROVE LoadOK(q)'
    <3>1. LoadOK(q)
      BY <1>2, <2>2 DEF LoadInv, BaseKept, vars
    <3>. QED
      BY <1>2, <3>1 DEF LoadOK, vars, procVars
  <2>. QED
    BY <2>1, <2>2 DEF LoadInv
<1>. QED
  BY <1>1, <1>2, NextIsSomebodys

\* Loads speaks of the tree now, LoadsIn of any tree.
LEMMA LoadsAreLoads == \A doc : Loads(doc) <=> LoadsIn(tree, doc)
<1>1. \A start : Reached(start) = ReachIn(tree.rulesets, start)
  BY DEF Reached, ReachIn, Shut
<1>2. \A d : ChecksFound(d) <=> \A k \in DOMAIN d.checks : Passes(tree, d.checks[k])
  BY DEF ChecksFound, Passes
<1>. QED
  BY <1>1, <1>2 DEF Loads, LoadsIn, Start

\* The same of what is installed.
InstalledLoads == \A f \in Targets : Loads(tree.policies[f]) <=> LoadsIn(tree, tree.policies[f])

\* So it is in every state.
LEMMA LoadsEverywhere == InstalledLoads
  BY LoadsAreLoads DEF InstalledLoads

----------------------------------------------------------------------------
(* The theorems.                                                            *)

\* While tools take turns and replace nothing, what is placed only adds to the tree, every load
\* follows the tree, and what has been loaded loads; but for runs composed before the first base
\* ruleset came.
THEOREM LoadInvariant == Spec => []LoadInv
<1>1. Init => AdditionInv /\ \A p \in Procs : LoadOK(p)
  BY DEF Init, AdditionInv, BaseInstalled, FromPack, AddsOnly, LoadOK, Procs
<1>2. TurnInv /\ AdditionInv /\ (\A p \in Procs : LoadOK(p)) => LoadInv
  BY DEF LoadInv
<1>3. LoadInv /\ TurnInv' /\ [Next]_vars => LoadInv'
  BY StepLoads
<1>. QED
  BY <1>1, <1>2, <1>3, TurnInvariant, PTL DEF Spec

\* Neither a run nor a policy that is about to be placed rests on a tree that never was, although
\* from_data reads it file by file; but for a run composed before the first base ruleset came.
THEOREM OneTreeIsLoaded == Spec => []LoadedFromOneTree
<1>1. LoadInv => LoadedFromOneTree
  <2>. SUFFICES ASSUME LoadInv, calm, NEW p \in Procs, pc[p] \in {"claims", "repin", "running"},
                       p \in Runs => BaseKept
                PROVE  Loads(task[p].doc)
    BY DEF LoadedFromOneTree
  <2>1. LoadOK(p)
    BY DEF LoadInv
  <2>. QED
    BY <2>1, LoadsAreLoads DEF LoadOK
<1>. QED
  BY <1>1, LoadInvariant, PTL

\* install.py 7-8, "in the order that keeps the tree loadable at every instant": while tools take
\* turns and replace nothing, no placement keeps a policy from loading, but for that of a first
\* base ruleset.
THEOREM PoliciesStayLoadable == Spec => StaysLoadable
<1>. DEFINE Kept == calm' /\ ~BaseArrives => \A f \in Targets :
                        (tree.policies[f] # None /\ Loads(tree.policies[f])) => Loads(tree.policies[f])'
<1>1. LoadInv /\ [Next]_vars => [Kept]_vars
  <2>. SUFFICES ASSUME LoadInv, Next, calm', ~BaseArrives, NEW f \in Targets,
                       tree.policies[f] # None, Loads(tree.policies[f])
                PROVE  Loads(tree.policies[f])'
    OBVIOUS
  <2>1. TypeInv /\ PhaseInv /\ AdditionInv
    BY DEF LoadInv, TurnInv, IInv
  <2>2. PICK p \in Procs : ProcStep(p)
    BY NextIsSomebodys
  <2>3. calm /\ tree \in Trees /\ tree' \in Trees /\ Extends(tree', tree)
    BY <2>1, <2>2, TurnSteps, CalmExtends DEF TypeInv
  <2>4. tree.policies[f] \in PolicyDocs /\ LoadsIn(tree, tree.policies[f])
    BY <2>3, LoadsEverywhere DEF InstalledLoads, Trees
  <2>5. LoadsIn(tree', tree'.policies[f])
    <3>1. CASE tree'.policies[f] = tree.policies[f]
      BY <2>3, <2>4, <3>1, LoadsStay
    <3>2. CASE tree'.policies[f] # tree.policies[f]
      <4>0. p \in Tools /\ p \notin Runs
        BY <2>2, <3>2, TreeSteps, ConfigIsTyped
      <4>1. PICK n \in todo[p] : PlaceNext(p, n)
        BY <2>2, <3>2, TreeSteps
      <4>2. /\ pc[p] = "placing" /\ n \in Placements /\ PhaseOK(p)
            /\ tree' = [tree EXCEPT ![n.at][n.name] = n.data]
        BY <2>1, <4>1 DEF PlaceNext, TypeInv, PhaseInv
      <4>3. n.at = "policies" /\ n.name = f /\ tree'.policies[f] = n.data
        BY <2>3, <3>2, <4>2, PlaceTree DEF Trees
      <4>4. /\ task[p] \in PolicyJobs \union EditJobs \union ApplyJobs /\ task[p].doc \in PolicyDocs
            /\ n = Placement(p)
        BY <4>1, <4>2, <4>3 DEF PhaseOK
      <4>5. task[p].kind # "pack" /\ tree'.policies[f] = task[p].doc
        BY <4>3, <4>4, KindsOfJobs DEF Placement
      <4>6. LoadsIn(tree, task[p].doc)
        BY <2>3, <4>0, <4>2, <4>5 DEF LoadInv, LoadOK
      <4>. QED
        BY <2>3, <4>4, <4>5, <4>6, LoadsStay
    <3>. QED
      BY <3>1, <3>2
  <2>6. InstalledLoads'
    BY LoadsEverywhere, PTL
  <2>. QED
    BY <2>5, <2>6 DEF InstalledLoads
<1>2. StaysLoadable <=> [][Kept]_vars
  BY DEF StaysLoadable
<1>. QED
  BY <1>1, <1>2, LoadInvariant, PTL DEF Spec
=============================================================================

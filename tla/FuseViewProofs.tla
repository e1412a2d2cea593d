--------------------------- MODULE FuseViewProofs ---------------------------
(***************************************************************************)
(* Proofs about FuseView, for any names, inode numbers, sections, bounds   *)
(* and other processes: types, that the table is closed and visible, and   *)
(* that its counts cover what the kernel holds and, as long as no          *)
(* directory is read, are exact.                                           *)
(***************************************************************************)
EXTENDS FuseView, FiniteSetTheorems, SequenceTheorems, WellFoundedInduction, TLAPS

----------------------------------------------------------------------------
(* The inductive invariant, in parts.  The first four are about any table,  *)
(* so that they can be followed through the admissions of one handler.      *)

DirNodes == [fd : AllIds, path : Seq(Names), parent : {None}, name : {None}, key : AllIds, refs : Nat]
FileNodes == [fd : {None}, path : {<<>>}, parent : AllInodes, name : Names, key : AllIds, refs : Nat]
Tables == [nodes : UNION {[D -> DirNodes \union FileNodes] : D \in SUBSET AllInodes},
           byKey : [AllIds -> AllInodes \union {None}]]

\* Directories of files, and the inodes of keys, are in the table; the root is itself.
ClosedIn(t) ==
    /\ RootInode \in DOMAIN t.nodes
    /\ t.nodes[RootInode].fd = Root /\ t.nodes[RootInode].path = <<>> /\ t.nodes[RootInode].key = Root
    /\ \A i \in DOMAIN t.nodes \ {RootInode} : t.nodes[i].key \in Ids
    /\ \A i \in DOMAIN t.nodes :
          ~IsDir(t, i) => t.nodes[i].parent \in DOMAIN t.nodes /\ IsDir(t, t.nodes[i].parent)
    /\ \A id \in AllIds :
          t.byKey[id] # None => t.byKey[id] \in DOMAIN t.nodes /\ t.nodes[t.byKey[id]].key = id

VisibleIn(t) == \A i \in DOMAIN t.nodes : Visible(PathIn(t, i), IsDir(t, i))

Sound(t) == t \in Tables /\ ClosedIn(t) /\ VisibleIn(t)

\* What is counted of an inode: c lookups, and the files recorded in it.
Counts == [AllInodes -> Nat]
PinsIn(t, i) == {j \in DOMAIN t.nodes : t.nodes[j].parent = i}
CountedBy(t, c) ==
    /\ \A i \in DOMAIN t.nodes \ {RootInode} : t.nodes[i].refs = c[i] + Cardinality(PinsIn(t, i))
    /\ \A i \in AllInodes \ DOMAIN t.nodes : c[i] = 0

\* What a directory is, it is as long as it is in the table.
SameDirs(t, u) ==
    \A i \in DOMAIN t.nodes \intersect DOMAIN u.nodes :
        u.nodes[i].fd = t.nodes[i].fd /\ u.nodes[i].path = t.nodes[i].path

----------------------------------------------------------------------------
(* Single changes of a table.                                               *)

\* The pins of an inode are a finite set.
LEMMA PinsAreFinite ==
    ASSUME NEW t \in Tables, NEW i
    PROVE  IsFiniteSet(PinsIn(t, i)) /\ Cardinality(PinsIn(t, i)) \in Nat
<1>1. PinsIn(t, i) \subseteq 1..MaxInodes
  BY DEF PinsIn, Tables, AllInodes
<1>2. IsFiniteSet(1..MaxInodes)
  BY FS_Interval, SectionIsSane
<1>. QED
  BY <1>1, <1>2, FS_Subset, FS_CardinalityType

\* Another count, nothing else.
Recounted(t, i, n) == [t EXCEPT !.nodes[i].refs = n]

\* Recounting an inode leaves everything else of the table as it is.
LEMMA RecountedResult ==
    ASSUME NEW t, Sound(t), NEW i \in DOMAIN t.nodes, NEW n \in Nat
    PROVE  /\ Sound(Recounted(t, i, n))
           /\ DOMAIN Recounted(t, i, n).nodes = DOMAIN t.nodes
           /\ Recounted(t, i, n).nodes[i].refs = n
           /\ \A j \in DOMAIN t.nodes \ {i} : Recounted(t, i, n).nodes[j] = t.nodes[j]
           /\ \A j : PinsIn(Recounted(t, i, n), j) = PinsIn(t, j)
           /\ SameDirs(t, Recounted(t, i, n))
<1>. DEFINE u == Recounted(t, i, n)
<1>1. t = [nodes |-> t.nodes, byKey |-> t.byKey] /\ t.byKey \in [AllIds -> AllInodes \union {None}]
  BY DEF Sound, Tables
<1>2. PICK D \in SUBSET AllInodes : t.nodes \in [D -> DirNodes \union FileNodes]
  BY DEF Sound, Tables
<1>3. u.byKey = t.byKey /\ u.nodes = [t.nodes EXCEPT ![i].refs = n] /\ u = [nodes |-> u.nodes, byKey |-> u.byKey]
  BY <1>1 DEF Recounted
<1>4. u.nodes[i] = [t.nodes[i] EXCEPT !.refs = n] /\ DOMAIN u.nodes = D /\ D = DOMAIN t.nodes
  BY <1>2, <1>3
<1>5. u.nodes[i] \in DirNodes \union FileNodes
  <2>1. CASE t.nodes[i] \in DirNodes
    BY <2>1, <1>4 DEF DirNodes
  <2>2. CASE t.nodes[i] \in FileNodes
    BY <2>2, <1>4 DEF FileNodes
  <2>. QED
    BY <2>1, <2>2, <1>2
<1>6. /\ u.nodes[i].fd = t.nodes[i].fd /\ u.nodes[i].path = t.nodes[i].path /\ u.nodes[i].key = t.nodes[i].key
      /\ u.nodes[i].parent = t.nodes[i].parent /\ u.nodes[i].name = t.nodes[i].name /\ u.nodes[i].refs = n
  <2>1. CASE t.nodes[i] \in DirNodes
    BY <2>1, <1>4 DEF DirNodes
  <2>2. CASE t.nodes[i] \in FileNodes
    BY <2>2, <1>4 DEF FileNodes
  <2>. QED
    BY <2>1, <2>2, <1>2
<1>7. \A j \in D \ {i} : u.nodes[j] = t.nodes[j]
  BY <1>2, <1>3
<1>8. u \in Tables
  <2>1. u.nodes \in [D -> DirNodes \union FileNodes]
    BY <1>2, <1>3, <1>5
  <2>. QED
    BY <2>1, <1>1, <1>3 DEF Tables
<1>9. \A j \in D : /\ u.nodes[j].fd = t.nodes[j].fd /\ u.nodes[j].path = t.nodes[j].path
                   /\ u.nodes[j].key = t.nodes[j].key /\ u.nodes[j].parent = t.nodes[j].parent
                   /\ u.nodes[j].name = t.nodes[j].name
  BY <1>6, <1>7
<1>10. ClosedIn(u)
  BY <1>3, <1>4, <1>9 DEF Sound, ClosedIn, IsDir
<1>11. VisibleIn(u)
  BY <1>4, <1>9 DEF Sound, ClosedIn, VisibleIn, IsDir, PathIn
<1>12. \A j : PinsIn(u, j) = PinsIn(t, j)
  BY <1>4, <1>9 DEF PinsIn
<1>13. SameDirs(t, u)
  BY <1>4, <1>9 DEF SameDirs
<1>. HIDE DEF u
<1>. QED
  BY <1>4, <1>6, <1>7, <1>8, <1>10, <1>11, <1>12, <1>13 DEF Sound, u

\* Without inode i, which nothing pins.
Removed(t, i) ==
    [nodes |-> Restrict(t.nodes, DOMAIN t.nodes \ {i}),
     byKey |-> [t.byKey EXCEPT ![t.nodes[i].key] = IF @ = i THEN None ELSE @]]

\* An inode nothing pins can be removed, and no other notices but the directory it is in.
LEMMA RemovedResult ==
    ASSUME NEW t, Sound(t), NEW i \in DOMAIN t.nodes \ {RootInode}, PinsIn(t, i) = {}
    PROVE  /\ Sound(Removed(t, i))
           /\ DOMAIN Removed(t, i).nodes = DOMAIN t.nodes \ {i}
           /\ \A j \in DOMAIN t.nodes \ {i} : Removed(t, i).nodes[j] = t.nodes[j]
           /\ \A j : PinsIn(Removed(t, i), j) = PinsIn(t, j) \ {i}
           /\ SameDirs(t, Removed(t, i))
<1>. DEFINE u == Removed(t, i)
<1>1. t.byKey \in [AllIds -> AllInodes \union {None}]
  BY DEF Sound, Tables
<1>2. PICK D \in SUBSET AllInodes : t.nodes \in [D -> DirNodes \union FileNodes]
  BY DEF Sound, Tables
<1>3. D = DOMAIN t.nodes
  BY <1>2
<1>4. u.nodes = [j \in D \ {i} |-> t.nodes[j]]
  BY <1>3 DEF Removed, Restrict
<1>5. t.nodes[i].key \in AllIds
  BY <1>3 DEF Sound, ClosedIn, AllIds
<1>6. u.byKey = [t.byKey EXCEPT ![t.nodes[i].key] = IF @ = i THEN None ELSE @]
  BY DEF Removed
<1>7. u.byKey \in [AllIds -> AllInodes \union {None}]
  BY <1>1, <1>5, <1>6
<1>8. u.nodes \in [D \ {i} -> DirNodes \union FileNodes]
  BY <1>2, <1>4
<1>9. u \in Tables
  BY <1>7, <1>8 DEF Tables, Removed
<1>10. DOMAIN u.nodes = D \ {i} /\ \A j \in D \ {i} : u.nodes[j] = t.nodes[j]
  BY <1>4
<1>11. \A j \in D : t.nodes[j].parent # i
  BY <1>3 DEF PinsIn
<1>12. \A id \in AllIds : (u.byKey[id] = t.byKey[id] /\ u.byKey[id] # i) \/ u.byKey[id] = None
  <2>. TAKE id \in AllIds
  <2>1. CASE id = t.nodes[i].key
    BY <2>1, <1>1, <1>5, <1>6
  <2>2. CASE id # t.nodes[i].key
    <3>1. i # None
      BY <1>2, <1>3, SectionIsSane DEF AllInodes
    <3>2. t.byKey[id] # i
      BY <2>2, <3>1 DEF Sound, ClosedIn
    <3>. QED
      BY <2>2, <3>2, <1>1, <1>6
  <2>. QED
    BY <2>1, <2>2
<1>. HIDE DEF u
<1>13. ClosedIn(u)
  BY <1>3, <1>10, <1>11, <1>12 DEF Sound, ClosedIn, IsDir
<1>14. VisibleIn(u)
  BY <1>3, <1>10, <1>11 DEF Sound, ClosedIn, VisibleIn, IsDir, PathIn
<1>15. \A j : PinsIn(u, j) = PinsIn(t, j) \ {i}
  BY <1>3, <1>10 DEF PinsIn
<1>16. SameDirs(t, u)
  BY <1>3, <1>10 DEF SameDirs
<1>. QED
  BY <1>3, <1>9, <1>10, <1>13, <1>14, <1>15, <1>16 DEF Sound, u

\* With one more inode.
Extended(t, i, node) ==
    [nodes |-> [j \in DOMAIN t.nodes \union {i} |-> IF j = i THEN node ELSE t.nodes[j]],
     byKey |-> [t.byKey EXCEPT ![node.key] = i]]

\* An inode whose place is visible, if a file in a directory of the table.
Addable(t, node) ==
    /\ node \in DirNodes \union FileNodes
    /\ node.key \in Ids
    /\ node.fd # None => Visible(node.path, TRUE)
    /\ node.fd = None => /\ node.parent \in DOMAIN t.nodes
                         /\ IsDir(t, node.parent)
                         /\ Visible(Append(t.nodes[node.parent].path, node.name), FALSE)

\* Such an inode can be added.
LEMMA ExtendedResult ==
    ASSUME NEW t, Sound(t), NEW i \in Inodes \ DOMAIN t.nodes, NEW node, Addable(t, node)
    PROVE  /\ Sound(Extended(t, i, node))
           /\ DOMAIN Extended(t, i, node).nodes = DOMAIN t.nodes \union {i}
           /\ Extended(t, i, node).nodes[i] = node
           /\ \A j \in DOMAIN t.nodes : Extended(t, i, node).nodes[j] = t.nodes[j]
           /\ \A j : PinsIn(Extended(t, i, node), j) =
                       IF j = node.parent THEN PinsIn(t, j) \union {i} ELSE PinsIn(t, j)
           /\ SameDirs(t, Extended(t, i, node))
<1>. DEFINE u == Extended(t, i, node)
<1>. /\ node \in DirNodes \union FileNodes /\ node.key \in Ids
     /\ node.fd # None => Visible(node.path, TRUE)
     /\ node.fd = None => /\ node.parent \in DOMAIN t.nodes
                          /\ IsDir(t, node.parent)
                          /\ Visible(Append(t.nodes[node.parent].path, node.name), FALSE)
  BY DEF Addable
<1>1. t.byKey \in [AllIds -> AllInodes \union {None}]
  BY DEF Sound, Tables
<1>2. PICK D \in SUBSET AllInodes : t.nodes \in [D -> DirNodes \union FileNodes]
  BY DEF Sound, Tables
<1>3. D = DOMAIN t.nodes
  BY <1>2
<1>4. u.nodes = [j \in D \union {i} |-> IF j = i THEN node ELSE t.nodes[j]]
  BY <1>3 DEF Extended
<1>5. u.byKey = [t.byKey EXCEPT ![node.key] = i]
  BY DEF Extended
<1>6. i \in AllInodes /\ i # RootInode /\ node.key \in AllIds /\ i \notin D
  BY <1>3 DEF Inodes, AllIds
<1>7. u.byKey \in [AllIds -> AllInodes \union {None}]
  BY <1>1, <1>5, <1>6
<1>8. u.nodes \in [D \union {i} -> DirNodes \union FileNodes]
  BY <1>2, <1>4
<1>9. u \in Tables
  <2>1. D \union {i} \in SUBSET AllInodes
    BY <1>6
  <2>. QED
    BY <2>1, <1>7, <1>8 DEF Tables, Extended
<1>10. DOMAIN u.nodes = D \union {i} /\ u.nodes[i] = node /\ \A j \in D : u.nodes[j] = t.nodes[j]
  BY <1>4, <1>6
<1>11. \A id \in AllIds : u.byKey[id] = IF id = node.key THEN i ELSE t.byKey[id]
  BY <1>1, <1>5
<1>. HIDE DEF u
<1>12. ClosedIn(u)
  <2>1. ASSUME NEW j \in D \union {i}, ~IsDir(u, j)
        PROVE  u.nodes[j].parent \in D /\ IsDir(u, u.nodes[j].parent)
    <3>1. CASE j = i
      <4>1. node.fd = None
        BY <2>1, <3>1, <1>10 DEF IsDir
      <4>. QED
        BY <3>1, <4>1, <1>3, <1>10 DEF IsDir
    <3>2. CASE j # i
      <4>1. ~IsDir(t, j)
        BY <2>1, <3>2, <1>10 DEF IsDir
      <4>2. t.nodes[j].parent \in D /\ IsDir(t, t.nodes[j].parent)
        BY <3>2, <4>1, <1>3 DEF Sound, ClosedIn
      <4>. QED
        BY <3>2, <4>2, <1>10 DEF IsDir
    <3>. QED
      BY <3>1, <3>2
  <2>2. ASSUME NEW id \in AllIds, u.byKey[id] # None
        PROVE  u.byKey[id] \in D \union {i} /\ u.nodes[u.byKey[id]].key = id
    <3>1. CASE id = node.key
      BY <3>1, <1>10, <1>11
    <3>2. CASE id # node.key
      BY <3>2, <2>2, <1>3, <1>10, <1>11 DEF Sound, ClosedIn
    <3>. QED
      BY <3>1, <3>2
  <2>. QED
    BY <2>1, <2>2, <1>3, <1>6, <1>10 DEF Sound, ClosedIn
<1>13. VisibleIn(u)
  <2>1. ASSUME NEW j \in D PROVE Visible(PathIn(u, j), IsDir(u, j))
    <3>1. PathIn(u, j) = PathIn(t, j) /\ IsDir(u, j) = IsDir(t, j)
      BY <1>3, <1>10 DEF Sound, ClosedIn, IsDir, PathIn
    <3>. QED
      BY <3>1, <1>3 DEF Sound, VisibleIn
  <2>2. Visible(PathIn(u, i), IsDir(u, i))
    <3>1. CASE node.fd # None
      <4>1. PathIn(u, i) = node.path /\ IsDir(u, i) = TRUE
        BY <3>1, <1>10 DEF IsDir, PathIn
      <4>. QED
        BY <4>1, <3>1
    <3>2. CASE node.fd = None
      <4>1. IsDir(u, i) = FALSE /\ PathIn(u, i) = Append(t.nodes[node.parent].path, node.name)
        BY <3>2, <1>3, <1>10 DEF IsDir, PathIn
      <4>. QED
        BY <4>1, <3>2
    <3>. QED
      BY <3>1, <3>2
  <2>. QED
    BY <2>1, <2>2, <1>10 DEF VisibleIn
<1>14. \A j : PinsIn(u, j) = IF j = node.parent THEN PinsIn(t, j) \union {i} ELSE PinsIn(t, j)
  BY <1>3, <1>10 DEF PinsIn
<1>15. SameDirs(t, u)
  BY <1>3, <1>6, <1>10 DEF SameDirs
<1>. QED
  BY <1>3, <1>9, <1>10, <1>12, <1>13, <1>14, <1>15 DEF Sound, u

\* With file i recorded under another name.
Retargeted(t, i, q, name) ==
    [t EXCEPT !.nodes = [@ EXCEPT ![i].parent = q, ![i].name = name]]

\* A visible place for a file.
PlaceFor(t, q, name) ==
    /\ q \in DOMAIN t.nodes /\ IsDir(t, q)
    /\ name \in Names
    /\ Visible(Append(t.nodes[q].path, name), FALSE)

\* A file can be recorded under another visible name; only two directories notice.
LEMMA RetargetedResult ==
    ASSUME NEW t, Sound(t), NEW i \in DOMAIN t.nodes, ~IsDir(t, i),
           NEW q, NEW name, PlaceFor(t, q, name)
    PROVE  /\ Sound(Retargeted(t, i, q, name))
           /\ DOMAIN Retargeted(t, i, q, name).nodes = DOMAIN t.nodes
           /\ Retargeted(t, i, q, name).nodes[i].refs = t.nodes[i].refs
           /\ \A j \in DOMAIN t.nodes \ {i} : Retargeted(t, i, q, name).nodes[j] = t.nodes[j]
           /\ \A j : PinsIn(Retargeted(t, i, q, name), j) =
                       IF j = q THEN PinsIn(t, j) \union {i} ELSE PinsIn(t, j) \ {i}
           /\ SameDirs(t, Retargeted(t, i, q, name))
<1>. DEFINE u == Retargeted(t, i, q, name)
<1>. /\ q \in DOMAIN t.nodes /\ IsDir(t, q) /\ name \in Names
     /\ Visible(Append(t.nodes[q].path, name), FALSE)
  BY DEF PlaceFor
<1>1. t = [nodes |-> t.nodes, byKey |-> t.byKey] /\ t.byKey \in [AllIds -> AllInodes \union {None}]
  BY DEF Sound, Tables
<1>2. PICK D \in SUBSET AllInodes : t.nodes \in [D -> DirNodes \union FileNodes]
  BY DEF Sound, Tables
<1>3. D = DOMAIN t.nodes
  BY <1>2
<1>4. /\ u.byKey = t.byKey /\ u = [nodes |-> u.nodes, byKey |-> u.byKey]
      /\ u.nodes = [t.nodes EXCEPT ![i].parent = q, ![i].name = name]
  BY <1>1 DEF Retargeted
<1>5. t.nodes[i] \in FileNodes
  BY <1>2, <1>3, SectionIsSane DEF IsDir, DirNodes, AllIds
<1>6. u.nodes[i] = [t.nodes[i] EXCEPT !.parent = q, !.name = name] /\ DOMAIN u.nodes = D
  BY <1>2, <1>4, <1>3
<1>7. q \in AllInodes
  BY <1>2, <1>3
<1>8. /\ u.nodes[i] \in FileNodes
      /\ u.nodes[i].fd = t.nodes[i].fd /\ u.nodes[i].path = t.nodes[i].path /\ u.nodes[i].key = t.nodes[i].key
      /\ u.nodes[i].parent = q /\ u.nodes[i].name = name /\ u.nodes[i].refs = t.nodes[i].refs
  BY <1>5, <1>6, <1>7 DEF FileNodes
<1>9. \A j \in D \ {i} : u.nodes[j] = t.nodes[j]
  BY <1>2, <1>4
<1>10. u \in Tables
  <2>1. u.nodes \in [D -> DirNodes \union FileNodes]
    BY <1>2, <1>4, <1>6, <1>8, <1>9
  <2>. QED
    BY <2>1, <1>1, <1>4 DEF Tables
<1>11. q # i
  OBVIOUS
<1>. HIDE DEF u
<1>12. \A j \in D : u.nodes[j].fd = t.nodes[j].fd /\ u.nodes[j].path = t.nodes[j].path /\ u.nodes[j].key = t.nodes[j].key
  BY <1>8, <1>9
<1>13. ClosedIn(u)
  <2>1. ASSUME NEW j \in D, ~IsDir(u, j)
        PROVE  u.nodes[j].parent \in D /\ IsDir(u, u.nodes[j].parent)
    <3>1. CASE j = i
      BY <3>1, <1>3, <1>8, <1>12 DEF IsDir
    <3>2. CASE j # i
      <4>1. ~IsDir(t, j)
        BY <2>1, <1>12 DEF IsDir
      <4>2. t.nodes[j].parent \in D /\ IsDir(t, t.nodes[j].parent)
        BY <4>1, <1>3 DEF Sound, ClosedIn
      <4>. QED
        BY <3>2, <4>2, <1>9, <1>12 DEF IsDir
    <3>. QED
      BY <3>1, <3>2
  <2>2. \A id \in AllIds : u.byKey[id] # None => u.byKey[id] \in D /\ u.nodes[u.byKey[id]].key = id
    BY <1>3, <1>4, <1>12 DEF Sound, ClosedIn
  <2>. QED
    BY <2>1, <2>2, <1>3, <1>6, <1>12 DEF Sound, ClosedIn
<1>14. VisibleIn(u)
  <2>1. ASSUME NEW j \in D \ {i} PROVE Visible(PathIn(u, j), IsDir(u, j))
    <3>1. PathIn(u, j) = PathIn(t, j) /\ IsDir(u, j) = IsDir(t, j)
      BY <1>3, <1>9, <1>12 DEF Sound, ClosedIn, IsDir, PathIn
    <3>. QED
      BY <3>1, <1>3 DEF Sound, VisibleIn
  <2>2. IsDir(u, i) = FALSE /\ PathIn(u, i) = Append(t.nodes[q].path, name)
    BY <1>3, <1>8, <1>12 DEF IsDir, PathIn
  <2>. QED
    BY <2>1, <2>2, <1>6 DEF VisibleIn
<1>15. \A j : PinsIn(u, j) = IF j = q THEN PinsIn(t, j) \union {i} ELSE PinsIn(t, j) \ {i}
  <2>. TAKE j
  <2>1. \A k : k \in PinsIn(u, j) <=> k \in D /\ u.nodes[k].parent = j
    BY <1>6 DEF PinsIn
  <2>2. \A k : k \in PinsIn(t, j) <=> k \in D /\ t.nodes[k].parent = j
    BY <1>3 DEF PinsIn
  <2>3. \A k \in D \ {i} : u.nodes[k].parent = t.nodes[k].parent
    BY <1>9
  <2>4. u.nodes[i].parent = q /\ i \in D
    BY <1>3, <1>8
  <2>5. CASE j = q
    BY <2>1, <2>2, <2>3, <2>4, <2>5
  <2>6. CASE j # q
    BY <2>1, <2>2, <2>3, <2>4, <2>6
  <2>. QED
    BY <2>5, <2>6
<1>16. SameDirs(t, u)
  BY <1>3, <1>6, <1>12 DEF SameDirs
<1>. QED
  BY <1>3, <1>6, <1>8, <1>9, <1>10, <1>13, <1>14, <1>15, <1>16 DEF Sound, u

----------------------------------------------------------------------------
(* drop() and admit(), and what they do to the counts.                      *)

\* An inode of the table is a directory with a descriptor or a file recorded in one.
LEMMA NodeTypes ==
    ASSUME NEW t \in Tables, NEW i \in DOMAIN t.nodes
    PROVE  /\ i \in AllInodes /\ i \in Nat /\ i # None
           /\ t.nodes[i].refs \in Nat
           /\ IsDir(t, i) <=> t.nodes[i] \in DirNodes
           /\ ~IsDir(t, i) <=> t.nodes[i] \in FileNodes
           /\ IsDir(t, i) => t.nodes[i].parent = None /\ t.nodes[i].fd \in AllIds /\ t.nodes[i].path \in Seq(Names)
           /\ ~IsDir(t, i) => t.nodes[i].parent \in AllInodes /\ t.nodes[i].parent # None /\ t.nodes[i].name \in Names
<1>1. PICK D \in SUBSET AllInodes : t.nodes \in [D -> DirNodes \union FileNodes]
  BY DEF Tables
<1>2. i \in AllInodes /\ t.nodes[i] \in DirNodes \union FileNodes
  BY <1>1
<1>3. \A j \in AllInodes : j \in Nat /\ j # None
  BY SectionIsSane DEF AllInodes
<1>4. CASE t.nodes[i] \in DirNodes
  <2>1. IsDir(t, i) /\ t.nodes[i] \notin FileNodes
    BY <1>4, SectionIsSane DEF DirNodes, FileNodes, IsDir, AllIds
  <2>. QED
    BY <2>1, <1>2, <1>3, <1>4 DEF DirNodes
<1>5. CASE t.nodes[i] \in FileNodes
  <2>1. ~IsDir(t, i) /\ t.nodes[i] \notin DirNodes
    BY <1>5, SectionIsSane DEF DirNodes, FileNodes, IsDir, AllIds
  <2>. QED
    BY <2>1, <1>2, <1>3, <1>5 DEF FileNodes
<1>. QED
  BY <1>2, <1>4, <1>5

\* View.drop: what is counted goes down by what is forgotten, for the directory of a file
\* that goes too.
LEMMA DropResult ==
    ASSUME NEW t, Sound(t), NEW c \in Counts, CountedBy(t, c),
           NEW i \in Inodes, NEW n \in Nat \ {0}, n <= c[i]
    PROVE  /\ Sound(Drop(t, i, n))
           /\ CountedBy(Drop(t, i, n), [c EXCEPT ![i] = @ - n])
           /\ SameDirs(t, Drop(t, i, n))
           /\ DOMAIN Drop(t, i, n).nodes \subseteq DOMAIN t.nodes
<1>. DEFINE d == [c EXCEPT ![i] = @ - n]
<1>. t \in Tables
  BY DEF Sound
<1>1. i \in DOMAIN t.nodes /\ i \in AllInodes /\ i # RootInode
  BY DEF CountedBy, Counts, Inodes
<1>2. /\ t.nodes[i].refs = c[i] + Cardinality(PinsIn(t, i))
      /\ c[i] \in Nat /\ t.nodes[i].refs \in Nat
      /\ Cardinality(PinsIn(t, i)) \in Nat /\ IsFiniteSet(PinsIn(t, i))
  BY <1>1, NodeTypes, PinsAreFinite DEF CountedBy, Counts
<1>3. d[i] = c[i] - n /\ \A j \in AllInodes \ {i} : d[j] = c[j]
  BY <1>1 DEF Counts
<1>4. CASE t.nodes[i].refs > n
  <2>. DEFINE u == Recounted(t, i, t.nodes[i].refs - n)
  <2>1. t.nodes[i].refs - n \in Nat
    BY <1>2, <1>4
  <2>2. DropOne(t, i, n) = u
    BY <1>1, <1>4 DEF DropOne, Recounted
  <2>3. /\ Sound(u) /\ DOMAIN u.nodes = DOMAIN t.nodes /\ u.nodes[i].refs = t.nodes[i].refs - n
        /\ \A j \in DOMAIN t.nodes \ {i} : u.nodes[j] = t.nodes[j]
        /\ \A j : PinsIn(u, j) = PinsIn(t, j)
        /\ SameDirs(t, u)
    BY <1>1, <2>1, RecountedResult
  <2>. HIDE DEF u, d
  <2>4. Drop(t, i, n) = u
    BY <2>2, <2>3 DEF Drop
  <2>5. u.nodes[i].refs = d[i] + Cardinality(PinsIn(u, i))
    BY <1>2, <1>3, <2>3
  <2>6. \A j \in DOMAIN u.nodes \ {RootInode, i} : u.nodes[j].refs = d[j] + Cardinality(PinsIn(u, j))
    BY <1>3, <2>3, NodeTypes DEF CountedBy
  <2>7. \A j \in AllInodes \ DOMAIN u.nodes : d[j] = 0
    BY <1>1, <1>3, <2>3 DEF CountedBy
  <2>8. CountedBy(u, d)
    BY <2>5, <2>6, <2>7 DEF CountedBy
  <2>. QED
    BY <2>3, <2>4, <2>8 DEF d
<1>5. CASE ~(t.nodes[i].refs > n)
  <2>. DEFINE u == Removed(t, i)
  <2>1. Cardinality(PinsIn(t, i)) = 0 /\ d[i] = 0
    BY <1>2, <1>3, <1>5
  <2>2. PinsIn(t, i) = {}
    BY <2>1, <1>2, FS_EmptySet
  <2>3. DropOne(t, i, n) = u
    BY <1>1, <1>5 DEF DropOne, Removed
  <2>4. /\ Sound(u) /\ DOMAIN u.nodes = DOMAIN t.nodes \ {i}
        /\ \A j \in DOMAIN t.nodes \ {i} : u.nodes[j] = t.nodes[j]
        /\ \A j : PinsIn(u, j) = PinsIn(t, j) \ {i}
        /\ SameDirs(t, u)
    BY <1>1, <2>2, RemovedResult
  <2>. HIDE DEF u, d
  <2>. DEFINE p == t.nodes[i].parent
  <2>5. \A j : i \in PinsIn(t, j) <=> j = p
    BY <1>1 DEF PinsIn
  <2>6. \A j \in DOMAIN t.nodes : j # p => PinsIn(u, j) = PinsIn(t, j)
    BY <2>4, <2>5
  <2>7. \A j \in AllInodes \ DOMAIN u.nodes : d[j] = 0
    BY <1>3, <2>1, <2>4 DEF CountedBy
  <2>8. ASSUME NEW j \in DOMAIN u.nodes \ {RootInode}, j # p
        PROVE  u.nodes[j].refs = d[j] + Cardinality(PinsIn(u, j))
    <3>1. j \in AllInodes \ {i}
      BY <2>4, NodeTypes
    <3>. QED
      BY <3>1, <1>3, <2>4, <2>6, <2>8 DEF CountedBy
  <2>9. CASE p = None
    <3>1. Drop(t, i, n) = u
      BY <2>3, <2>4, <2>9, <1>1 DEF Drop
    <3>2. \A j \in DOMAIN u.nodes : j # p
      BY <2>4, <2>9, NodeTypes
    <3>3. CountedBy(u, d)
      BY <3>2, <2>7, <2>8 DEF CountedBy
    <3>. QED
      BY <3>1, <3>3, <2>4 DEF d
  <2>10. CASE p # None
    <3>1. p \in DOMAIN t.nodes /\ p # i /\ p \in AllInodes
      <4>1. ~IsDir(t, i)
        BY <2>10, <1>1, NodeTypes
      <4>2. p \in DOMAIN t.nodes /\ IsDir(t, p)
        BY <4>1, <1>1 DEF Sound, ClosedIn
      <4>. QED
        BY <4>1, <4>2, NodeTypes
    <3>2. Drop(t, i, n) = DropOne(u, p, 1)
      BY <2>3, <2>4, <2>10, <1>1 DEF Drop
    <3>3. CASE p = RootInode
      <4>1. DropOne(u, p, 1) = u
        BY <3>3 DEF DropOne
      <4>2. CountedBy(u, d)
        BY <3>3, <2>7, <2>8 DEF CountedBy
      <4>. QED
        BY <4>1, <4>2, <3>2, <2>4 DEF d
    <3>4. CASE p # RootInode
      <4>1. /\ p \in DOMAIN u.nodes \ {RootInode} /\ u.nodes[p] = t.nodes[p]
            /\ d[p] = c[p] /\ c[p] \in Nat
            /\ u.nodes[p].refs = c[p] + Cardinality(PinsIn(t, p))
        BY <3>1, <3>4, <2>4, <1>3 DEF CountedBy, Counts
      <4>2. /\ IsFiniteSet(PinsIn(t, p)) /\ Cardinality(PinsIn(t, p)) \in Nat
            /\ Cardinality(PinsIn(u, p)) = Cardinality(PinsIn(t, p)) - 1
            /\ IsFiniteSet(PinsIn(u, p)) /\ Cardinality(PinsIn(u, p)) \in Nat
        <5>1. PinsIn(u, p) = PinsIn(t, p) \ {i} /\ i \in PinsIn(t, p)
          BY <2>4, <2>5
        <5>2. IsFiniteSet(PinsIn(t, p)) /\ Cardinality(PinsIn(t, p)) \in Nat
          BY PinsAreFinite
        <5>3. Cardinality(PinsIn(t, p) \ {i}) = Cardinality(PinsIn(t, p)) - 1
          BY <5>1, <5>2, FS_RemoveElement
        <5>4. u \in Tables
          BY <2>4 DEF Sound
        <5>. QED
          BY <5>1, <5>2, <5>3, <5>4, PinsAreFinite
      <4>3. CASE u.nodes[p].refs > 1
        <5>. DEFINE v == Recounted(u, p, u.nodes[p].refs - 1)
        <5>1. DropOne(u, p, 1) = v
          BY <4>1, <4>3 DEF DropOne, Recounted
        <5>2. u.nodes[p].refs - 1 \in Nat
          BY <4>1, <4>2, <4>3
        <5>3. /\ Sound(v) /\ DOMAIN v.nodes = DOMAIN u.nodes /\ v.nodes[p].refs = u.nodes[p].refs - 1
              /\ \A j \in DOMAIN u.nodes \ {p} : v.nodes[j] = u.nodes[j]
              /\ \A j : PinsIn(v, j) = PinsIn(u, j)
              /\ SameDirs(u, v)
          BY <4>1, <5>2, <2>4, RecountedResult
        <5>. HIDE DEF v
        <5>4. v.nodes[p].refs = d[p] + Cardinality(PinsIn(v, p))
          BY <4>1, <4>2, <5>3
        <5>5. CountedBy(v, d)
          BY <5>3, <5>4, <2>7, <2>8 DEF CountedBy
        <5>6. SameDirs(t, v)
          BY <5>3, <2>4 DEF SameDirs
        <5>. QED
          BY <5>1, <5>3, <5>5, <5>6, <3>2, <2>4 DEF d
      <4>4. CASE ~(u.nodes[p].refs > 1)
        <5>. DEFINE v == Removed(u, p)
        <5>1. DropOne(u, p, 1) = v
          BY <4>1, <4>4 DEF DropOne, Removed
        <5>2. d[p] = 0 /\ Cardinality(PinsIn(u, p)) = 0
          BY <4>1, <4>2, <4>4
        <5>3. PinsIn(u, p) = {}
          BY <5>2, <4>2, FS_EmptySet
        <5>4. /\ Sound(v) /\ DOMAIN v.nodes = DOMAIN u.nodes \ {p}
              /\ \A j \in DOMAIN u.nodes \ {p} : v.nodes[j] = u.nodes[j]
              /\ \A j : PinsIn(v, j) = PinsIn(u, j) \ {p}
              /\ SameDirs(u, v)
          BY <4>1, <5>3, <2>4, RemovedResult
        <5>. HIDE DEF v
        <5>5. \A j \in DOMAIN u.nodes : PinsIn(v, j) = PinsIn(u, j)
          <6>1. u.nodes[p].parent = None
            <7>1. ~IsDir(t, i)
              BY <2>10, <1>1, NodeTypes
            <7>2. IsDir(t, p)
              BY <7>1, <1>1 DEF Sound, ClosedIn
            <7>. QED
              BY <7>2, <3>1, <4>1, NodeTypes
          <6>2. \A j \in DOMAIN u.nodes : p \notin PinsIn(u, j)
            BY <6>1, <2>4, NodeTypes DEF PinsIn
          <6>. QED
            BY <6>2, <5>4
        <5>6. CountedBy(v, d)
          BY <5>2, <5>4, <5>5, <2>7, <2>8 DEF CountedBy
        <5>7. SameDirs(t, v)
          BY <5>4, <2>4 DEF SameDirs
        <5>. QED
          BY <5>1, <5>4, <5>6, <5>7, <3>2, <2>4 DEF d
      <4>. QED
        BY <4>3, <4>4
    <3>. QED
      BY <3>3, <3>4
  <2>. QED
    BY <2>9, <2>10
<1>. QED
  BY <1>4, <1>5

\* A set of natural numbers that is not empty has a least one.
LEMMA LeastExists ==
    ASSUME NEW T, T \subseteq Nat, T # {}
    PROVE  \E x \in T : \A y \in T : x <= y
<1>1. PICK x \in T : \A y \in T : ~(<<y, x>> \in OpToRel(<, Nat))
  BY NatLessThanWellFounded, WFMin, Zenon
<1>2. ASSUME NEW y \in T PROVE x <= y
  <2>1. <<y, x>> \notin OpToRel(<, Nat)
    BY <1>1
  <2>2. ~(y < x)
    BY <2>1 DEF OpToRel
  <2>. QED
    BY <2>2
<1>. QED
  BY <1>2

\* An inode number nobody knows is found if there is one.
LEMMA UnusedInode ==
    ASSUME NEW t, Unused(t) # {}
    PROVE  Min(Unused(t)) \in Unused(t)
<1>1. Unused(t) \subseteq Nat
  BY SectionIsSane DEF Unused, Inodes, AllInodes
<1>2. \E x \in Unused(t) : \A y \in Unused(t) : x <= y
  BY <1>1, LeastExists
<1>. QED
  BY <1>2 DEF Min

\* The inodes recorded in what is not in the table are none.
LEMMA NothingPinsTheUnknown ==
    ASSUME NEW t, Sound(t), NEW i, i \notin DOMAIN t.nodes, i # None
    PROVE  PinsIn(t, i) = {}
<1>1. ASSUME NEW j \in DOMAIN t.nodes PROVE t.nodes[j].parent # i
  <2>1. CASE IsDir(t, j)
    BY <2>1, NodeTypes DEF Sound
  <2>2. CASE ~IsDir(t, j)
    BY <2>2 DEF Sound, ClosedIn
  <2>. QED
    BY <2>1, <2>2
<1>. QED
  BY <1>1 DEF PinsIn

\* What may be admitted: an entry of a directory of the table, visible, which is the directory
\* it is opened as if it is one.
Admissible(t, p, name, st, at) ==
    /\ p \in DOMAIN t.nodes /\ IsDir(t, p)
    /\ name \in Names
    /\ st \in [key : Ids, dir : BOOLEAN]
    /\ st.dir => at \in Ids
    /\ Visible(Append(t.nodes[p].path, name), st.dir)

\* View.admit: one more lookup of one inode is counted, and a file holds its directory.
LEMMA AdmitResult ==
    ASSUME NEW t, Sound(t), NEW c \in Counts, CountedBy(t, c),
           NEW p, NEW name, NEW st, NEW at,
           CanAdmit(t, p, name, st),
           ~Reused(t, p, name, st) => Admissible(t, p, name, st, at),
           st.key \in Ids
    PROVE  LET a == Admit(t, p, name, st, at) IN
           /\ a.inode \in Inodes
           /\ Sound(a.t)
           /\ CountedBy(a.t, [c EXCEPT ![a.inode] = @ + 1])
           /\ SameDirs(t, a.t)
           /\ DOMAIN t.nodes \subseteq DOMAIN a.t.nodes
<1>. t \in Tables
  BY DEF Sound
<1>1. CASE Reused(t, p, name, st)
  <2>. DEFINE i == t.byKey[st.key]
              u == Recounted(t, i, t.nodes[i].refs + 1)
              d == [c EXCEPT ![i] = @ + 1]
  <2>1. i \in DOMAIN t.nodes /\ t.nodes[i].key = st.key
    BY <1>1 DEF Reused, Sound, ClosedIn, AllIds
  <2>2. i # RootInode
    BY <2>1, SectionIsSane DEF Sound, ClosedIn
  <2>3. i \in Inodes /\ t.nodes[i].refs \in Nat
    BY <2>1, <2>2, NodeTypes DEF Inodes
  <2>4. Admit(t, p, name, st, at) = [t |-> u, inode |-> i]
    BY <1>1 DEF Admit, Recounted
  <2>. HIDE DEF i
  <2>5. t.nodes[i].refs + 1 \in Nat
    BY <2>3
  <2>6. /\ Sound(u) /\ DOMAIN u.nodes = DOMAIN t.nodes /\ u.nodes[i].refs = t.nodes[i].refs + 1
        /\ \A j \in DOMAIN t.nodes \ {i} : u.nodes[j] = t.nodes[j]
        /\ \A j : PinsIn(u, j) = PinsIn(t, j)
        /\ SameDirs(t, u)
    BY <2>1, <2>5, RecountedResult
  <2>7. d[i] = c[i] + 1 /\ c[i] \in Nat /\ \A j \in AllInodes \ {i} : d[j] = c[j]
    BY <2>3 DEF Counts, Inodes
  <2>. HIDE DEF u, d
  <2>8. Cardinality(PinsIn(t, i)) \in Nat
    BY PinsAreFinite
  <2>9. u.nodes[i].refs = d[i] + Cardinality(PinsIn(u, i))
    BY <2>1, <2>2, <2>6, <2>7, <2>8 DEF CountedBy
  <2>10. \A j \in DOMAIN u.nodes \ {RootInode, i} : u.nodes[j].refs = d[j] + Cardinality(PinsIn(u, j))
    BY <2>6, <2>7, NodeTypes DEF CountedBy
  <2>11. \A j \in AllInodes \ DOMAIN u.nodes : d[j] = 0
    BY <2>1, <2>6, <2>7 DEF CountedBy
  <2>12. CountedBy(u, d)
    BY <2>9, <2>10, <2>11 DEF CountedBy
  <2>. QED
    BY <2>3, <2>4, <2>6, <2>12 DEF d
<1>2. CASE ~Reused(t, p, name, st)
  <2>. DEFINE i == Min(Unused(t))
              node == NodeFor(t, p, name, st, at)
              u == IF st.dir \/ p = RootInode THEN t ELSE Recounted(t, p, t.nodes[p].refs + 1)
              v == Extended(u, i, node)
              d == [c EXCEPT ![i] = @ + 1]
  <2>1. Admissible(t, p, name, st, at)
    BY <1>2
  <2>2. i \in Inodes \ DOMAIN t.nodes
    BY <1>2, UnusedInode DEF CanAdmit, Unused
  <2>3. p \in DOMAIN t.nodes /\ IsDir(t, p) /\ p \in AllInodes /\ t.nodes[p].path \in Seq(Names) /\ t.nodes[p].refs \in Nat
        /\ t.nodes[p].parent = None
    BY <2>1, NodeTypes DEF Admissible
  <2>4. p # i /\ i \in AllInodes /\ i # RootInode
    BY <2>2, <2>3 DEF Inodes
  <2>5. CASE st.dir
    <3>1. /\ node \in DirNodes /\ node.key = st.key /\ node.fd # None /\ node.parent = None /\ node.refs = 1
          /\ node.path = Append(t.nodes[p].path, name)
      <4>1. Append(t.nodes[p].path, name) \in Seq(Names)
        BY <2>1, <2>3, AppendProperties DEF Admissible
      <4>2. at \in AllIds /\ at # None /\ st.key \in AllIds
        BY <2>1, <2>5, SectionIsSane DEF Admissible, AllIds
      <4>. QED
        BY <2>5, <4>1, <4>2 DEF NodeFor, DirNodes
    <3>2. Admit(t, p, name, st, at) = [t |-> v, inode |-> i] /\ u = t
      BY <1>2, <2>5, <3>1 DEF Admit, Extended
    <3>3. Visible(node.path, TRUE)
      BY <2>1, <2>5, <3>1 DEF Admissible
    <3>. HIDE DEF i, node, u
    <3>4. /\ Sound(v) /\ DOMAIN v.nodes = DOMAIN t.nodes \union {i} /\ v.nodes[i] = node
          /\ \A j \in DOMAIN t.nodes : v.nodes[j] = t.nodes[j]
          /\ \A j : PinsIn(v, j) = IF j = node.parent THEN PinsIn(t, j) \union {i} ELSE PinsIn(t, j)
          /\ SameDirs(t, v)
      <4>1. v = Extended(t, i, node)
        BY <3>2
      <4>. HIDE DEF v
      <4>2. Addable(t, node)
        BY <2>1, <3>1, <3>3 DEF Admissible, Addable
      <4>. QED
        BY <2>2, <4>1, <4>2, ExtendedResult
    <3>5. d[i] = c[i] + 1 /\ \A j \in AllInodes \ {i} : d[j] = c[j]
      BY <2>4 DEF Counts
    <3>6. c[i] = 0 /\ PinsIn(t, i) = {}
      <4>1. PinsIn(t, i) = {}
        BY <2>2, <2>4, NothingPinsTheUnknown, SectionIsSane DEF AllInodes
      <4>. QED
        BY <2>2, <2>4, <4>1 DEF CountedBy
    <3>. HIDE DEF v, d
    <3>7. \A j \in AllInodes : PinsIn(v, j) = PinsIn(t, j)
      BY <3>1, <3>4, SectionIsSane DEF AllInodes
    <3>8. v.nodes[i].refs = d[i] + Cardinality(PinsIn(v, i))
      <4>1. PinsIn(v, i) = {} /\ Cardinality(PinsIn(v, i)) = 0
        BY <3>6, <3>7, <2>4, FS_EmptySet
      <4>2. v.nodes[i].refs = 1 /\ d[i] = 1
        BY <3>1, <3>4, <3>5, <3>6
      <4>. QED
        BY <4>1, <4>2
    <3>9. \A j \in DOMAIN v.nodes \ {RootInode, i} : v.nodes[j].refs = d[j] + Cardinality(PinsIn(v, j))
      BY <3>4, <3>5, <3>7, NodeTypes DEF CountedBy
    <3>10. \A j \in AllInodes \ DOMAIN v.nodes : d[j] = 0
      BY <3>4, <3>5 DEF CountedBy
    <3>11. CountedBy(v, d)
      BY <3>8, <3>9, <3>10 DEF CountedBy
    <3>. QED
      BY <2>2, <3>2, <3>4, <3>11 DEF d
  <2>6. CASE ~st.dir
    <3>1. /\ node \in FileNodes /\ node.key = st.key /\ node.fd = None /\ node.parent = p /\ node.refs = 1
          /\ node.name = name
      BY <2>1, <2>3, <2>6 DEF NodeFor, FileNodes, Admissible, AllIds
    <3>2. Admit(t, p, name, st, at) = [t |-> v, inode |-> i]
      <4>1. Pinned(t.nodes, p) = u.nodes /\ u.byKey = t.byKey
        BY <2>6 DEF Pinned, Recounted, Tables
      <4>. QED
        BY <1>2, <2>6, <3>1, <4>1 DEF Admit, Extended
    <3>3. Visible(Append(t.nodes[p].path, name), FALSE)
      BY <2>1, <2>6 DEF Admissible
    <3>4. /\ Sound(u) /\ DOMAIN u.nodes = DOMAIN t.nodes
          /\ p # RootInode => u.nodes[p].refs = t.nodes[p].refs + 1
          /\ \A j \in DOMAIN t.nodes \ {p} : u.nodes[j] = t.nodes[j]
          /\ \A j : PinsIn(u, j) = PinsIn(t, j)
          /\ SameDirs(t, u)
      <4>1. CASE p = RootInode
        BY <4>1, <2>6 DEF SameDirs
      <4>2. CASE p # RootInode
        <5>1. t.nodes[p].refs + 1 \in Nat /\ u = Recounted(t, p, t.nodes[p].refs + 1)
          BY <2>3, <2>6, <4>2
        <5>. HIDE DEF u
        <5>. QED
          BY <5>1, <2>3, RecountedResult
      <4>. QED
        BY <4>1, <4>2
    <3>. HIDE DEF i, node, u
    <3>5. IsDir(u, p) /\ u.nodes[p].path = t.nodes[p].path
      BY <2>3, <3>4 DEF SameDirs, IsDir
    <3>6. /\ Sound(v) /\ DOMAIN v.nodes = DOMAIN u.nodes \union {i} /\ v.nodes[i] = node
          /\ \A j \in DOMAIN u.nodes : v.nodes[j] = u.nodes[j]
          /\ \A j : PinsIn(v, j) = IF j = node.parent THEN PinsIn(u, j) \union {i} ELSE PinsIn(u, j)
          /\ SameDirs(u, v)
      <4>1. i \in Inodes \ DOMAIN u.nodes /\ p \in DOMAIN u.nodes
        BY <2>2, <2>3, <3>4
      <4>2. Visible(Append(u.nodes[p].path, name), FALSE)
        BY <3>3, <3>5
      <4>. QED
        <5>1. Addable(u, node)
          BY <2>1, <3>1, <4>1, <4>2, <3>5 DEF Admissible, Addable
        <5>. DEFINE w == Extended(u, i, node)
        <5>2. w = v
          OBVIOUS
        <5>. HIDE DEF v
        <5>. QED
          BY <4>1, <5>1, <5>2, <3>4, ExtendedResult
    <3>7. d[i] = c[i] + 1 /\ \A j \in AllInodes \ {i} : d[j] = c[j]
      BY <2>4 DEF Counts
    <3>8. c[i] = 0 /\ PinsIn(t, i) = {}
      <4>1. PinsIn(t, i) = {}
        BY <2>2, <2>4, NothingPinsTheUnknown, SectionIsSane DEF AllInodes
      <4>. QED
        BY <2>2, <2>4, <4>1 DEF CountedBy
    <3>. HIDE DEF v, d
    <3>9. v.nodes[i].refs = d[i] + Cardinality(PinsIn(v, i))
      BY <3>1, <3>4, <3>6, <3>7, <3>8, <2>4, FS_EmptySet
    <3>10. p # RootInode => v.nodes[p].refs = d[p] + Cardinality(PinsIn(v, p))
      <4>1. IsFiniteSet(PinsIn(t, p)) /\ Cardinality(PinsIn(t, p)) \in Nat
        BY PinsAreFinite
      <4>2. i \notin PinsIn(t, p)
        BY <2>2 DEF PinsIn
      <4>3. PinsIn(v, p) = PinsIn(t, p) \union {i}
        BY <3>1, <3>4, <3>6
      <4>4. Cardinality(PinsIn(v, p)) = Cardinality(PinsIn(t, p)) + 1
        BY <4>1, <4>2, <4>3, FS_AddElement
      <4>5. p # RootInode => t.nodes[p].refs = c[p] + Cardinality(PinsIn(t, p))
        BY <2>3 DEF CountedBy
      <4>6. d[p] = c[p] /\ c[p] \in Nat
        BY <2>3, <2>4, <3>7 DEF Counts
      <4>. QED
        <5>1. v.nodes[p] = u.nodes[p]
          BY <2>3, <3>4, <3>6
        <5>2. p # RootInode => v.nodes[p].refs = t.nodes[p].refs + 1
          BY <5>1, <3>4
        <5>. QED
          BY <4>1, <4>4, <4>5, <4>6, <5>2
    <3>11. \A j \in DOMAIN v.nodes \ {RootInode, i, p} : v.nodes[j].refs = d[j] + Cardinality(PinsIn(v, j))
      <4>. TAKE j \in DOMAIN v.nodes \ {RootInode, i, p}
      <4>1. j \in DOMAIN t.nodes /\ j \in AllInodes \ {i}
        BY <3>4, <3>6, NodeTypes
      <4>2. v.nodes[j] = t.nodes[j] /\ d[j] = c[j] /\ PinsIn(v, j) = PinsIn(t, j)
        BY <4>1, <3>1, <3>4, <3>6, <3>7
      <4>. QED
        BY <4>1, <4>2 DEF CountedBy
    <3>12. \A j \in AllInodes \ DOMAIN v.nodes : d[j] = 0
      BY <3>4, <3>6, <3>7 DEF CountedBy
    <3>13. CountedBy(v, d)
      BY <3>9, <3>10, <3>11, <3>12 DEF CountedBy
    <3>14. SameDirs(t, v)
      BY <3>4, <3>6 DEF SameDirs
    <3>. QED
      BY <2>2, <3>2, <3>4, <3>6, <3>13, <3>14 DEF d
  <2>. QED
    BY <2>5, <2>6
<1>. QED
  BY <1>1, <1>2

\* rename: the file found goes from one directory to the other, and so does what it holds.
LEMMA MovedResult ==
    ASSUME Sound(Current), NEW c \in Counts, CountedBy(Current, c),
           NEW p \in DOMAIN Current.nodes, IsDir(Current, p), p = RootInode \/ c[p] > 0,
           NEW q, NEW name, PlaceFor(Current, q, name), NEW old, NEW st, ~st.dir, st.key \in Ids
    PROVE  /\ Sound(Moved(p, old, q, name, st))
           /\ CountedBy(Moved(p, old, q, name, st), c)
           /\ SameDirs(Current, Moved(p, old, q, name, st))
           /\ DOMAIN Moved(p, old, q, name, st).nodes = DOMAIN Current.nodes
<1>. DEFINE i == byKey[st.key]
            t == Drop(Current, p, 1)
            w == Retargeted(t, i, q, name)
            u == Moved(p, old, q, name, st)
<1>1. CASE ~Reused(Current, p, old, st)
  BY <1>1 DEF Moved, SameDirs
<1>2. CASE Reused(Current, p, old, st)
  <2>. Current \in Tables /\ byKey = Current.byKey
    BY DEF Sound, Current
  <2>. q \in DOMAIN Current.nodes /\ IsDir(Current, q)
    BY DEF PlaceFor
  <2>1. i \in DOMAIN Current.nodes /\ ~IsDir(Current, i) /\ Current.nodes[i].parent = p
    BY <1>2 DEF Reused, RecordedAt, Sound, ClosedIn, AllIds
  <2>2. i # RootInode /\ i # p /\ i # q
    BY <2>1, SectionIsSane DEF Sound, ClosedIn, IsDir
  <2>3. u = [t EXCEPT !.nodes = Pinned([@ EXCEPT ![i].parent = q, ![i].name = name], q)]
    BY <1>2 DEF Moved
  <2>4. /\ \A j : IsFiniteSet(PinsIn(Current, j)) /\ Cardinality(PinsIn(Current, j)) \in Nat
        /\ i \in PinsIn(Current, p)
    BY <2>1, PinsAreFinite DEF PinsIn
  <2>5. p \in AllInodes /\ q \in AllInodes /\ i \in AllInodes /\ c[p] \in Nat /\ c[q] \in Nat
    BY <2>1, NodeTypes DEF Counts
  <2>6. p # RootInode => Current.nodes[p].refs > 1 /\ Current.nodes[p].refs \in Nat
    <3>1. Cardinality(PinsIn(Current, p)) # 0
      BY <2>4, FS_EmptySet
    <3>. QED
      BY <3>1, <2>4, <2>5 DEF CountedBy
  <2>7. /\ Sound(t) /\ DOMAIN t.nodes = DOMAIN Current.nodes
        /\ p # RootInode => t.nodes[p].refs = Current.nodes[p].refs - 1
        /\ p = RootInode => t = Current
        /\ \A j \in DOMAIN t.nodes \ {p} : t.nodes[j] = Current.nodes[j]
        /\ \A j : PinsIn(t, j) = PinsIn(Current, j)
        /\ SameDirs(Current, t)
    <3>1. CASE p = RootInode
      <4>1. t = Current
        BY <3>1 DEF Drop, DropOne
      <4>. QED
        BY <3>1, <4>1 DEF SameDirs
    <3>2. CASE p # RootInode
      <4>. DEFINE r == Recounted(Current, p, Current.nodes[p].refs - 1)
      <4>1. DropOne(Current, p, 1) = r
        BY <3>2, <2>6 DEF DropOne, Recounted
      <4>2. Current.nodes[p].refs - 1 \in Nat
        BY <3>2, <2>6
      <4>3. /\ Sound(r) /\ DOMAIN r.nodes = DOMAIN Current.nodes /\ r.nodes[p].refs = Current.nodes[p].refs - 1
            /\ \A j \in DOMAIN Current.nodes \ {p} : r.nodes[j] = Current.nodes[j]
            /\ \A j : PinsIn(r, j) = PinsIn(Current, j)
            /\ SameDirs(Current, r)
        BY <4>2, RecountedResult
      <4>. HIDE DEF r
      <4>4. t = r
        BY <4>1, <4>3 DEF Drop
      <4>. QED
        BY <3>2, <4>3, <4>4
    <3>. QED
      BY <3>1, <3>2
  <2>. HIDE DEF i, t
  <2>8. ~IsDir(t, i) /\ IsDir(t, q) /\ t.nodes[q].path = Current.nodes[q].path
    BY <2>1, <2>7 DEF SameDirs, IsDir
  <2>9. /\ Sound(w) /\ DOMAIN w.nodes = DOMAIN t.nodes /\ w.nodes[i].refs = t.nodes[i].refs
        /\ \A j \in DOMAIN t.nodes \ {i} : w.nodes[j] = t.nodes[j]
        /\ \A j : PinsIn(w, j) = IF j = q THEN PinsIn(t, j) \union {i} ELSE PinsIn(t, j) \ {i}
        /\ SameDirs(t, w)
    <3>1. i \in DOMAIN t.nodes /\ PlaceFor(t, q, name)
      BY <2>1, <2>7, <2>8 DEF PlaceFor
    <3>. QED
      BY <3>1, <2>7, <2>8, RetargetedResult
  <2>10. /\ Sound(u) /\ DOMAIN u.nodes = DOMAIN w.nodes
         /\ q # RootInode => u.nodes[q].refs = w.nodes[q].refs + 1
         /\ \A j \in DOMAIN w.nodes \ {q} : u.nodes[j] = w.nodes[j]
         /\ \A j : PinsIn(u, j) = PinsIn(w, j)
         /\ SameDirs(w, u)
    <3>1. t = [nodes |-> t.nodes, byKey |-> t.byKey]
      BY <2>7 DEF Sound, Tables
    <3>2. CASE q = RootInode
      <4>1. u = w
        BY <2>3, <3>2 DEF Pinned, Retargeted
      <4>. QED
        BY <3>2, <4>1, <2>9 DEF SameDirs
    <3>3. CASE q # RootInode
      <4>1. u = Recounted(w, q, w.nodes[q].refs + 1)
        <5>. DEFINE ns == [t.nodes EXCEPT ![i].parent = q, ![i].name = name]
        <5>1. w.nodes = ns /\ w.byKey = t.byKey /\ w = [nodes |-> w.nodes, byKey |-> w.byKey]
          BY <3>1 DEF Retargeted
        <5>2. u = [t EXCEPT !.nodes = [ns EXCEPT ![q].refs = @ + 1]]
          BY <2>3, <3>3 DEF Pinned
        <5>. HIDE DEF ns, u, w
        <5>. QED
          BY <5>1, <5>2, <3>1 DEF Recounted
      <4>2. q \in DOMAIN w.nodes /\ w.nodes[q].refs + 1 \in Nat
        <5>1. w \in Tables /\ q \in DOMAIN w.nodes
          BY <2>7, <2>9 DEF Sound
        <5>. QED
          BY <5>1, NodeTypes
      <4>. HIDE DEF u, w
      <4>. QED
        BY <3>3, <4>1, <4>2, <2>9, RecountedResult
    <3>. QED
      BY <3>2, <3>3
  <2>. HIDE DEF u, w
  <2>11. DOMAIN u.nodes = DOMAIN Current.nodes
    BY <2>7, <2>9, <2>10
  <2>12. SameDirs(Current, u)
    BY <2>7, <2>9, <2>10 DEF SameDirs
  <2>13. \A j : PinsIn(u, j) = IF j = q THEN PinsIn(Current, j) \union {i} ELSE PinsIn(Current, j) \ {i}
    BY <2>7, <2>9, <2>10
  <2>14. ASSUME NEW j \in DOMAIN u.nodes \ {RootInode}
         PROVE  u.nodes[j].refs = c[j] + Cardinality(PinsIn(u, j))
    <3>1. /\ j \in AllInodes /\ c[j] \in Nat
          /\ Current.nodes[j].refs = c[j] + Cardinality(PinsIn(Current, j))
      BY <2>11, NodeTypes DEF Counts, CountedBy
    <3>2. i \in PinsIn(Current, j) <=> j = p
      BY <2>1 DEF PinsIn
    <3>3. u.nodes[j].refs = IF j = p /\ j # q THEN Current.nodes[j].refs - 1
                            ELSE IF j # p /\ j = q THEN Current.nodes[j].refs + 1
                            ELSE Current.nodes[j].refs
      <4>1. w.nodes[j].refs = t.nodes[j].refs
        BY <2>7, <2>9, <2>11
      <4>2. t.nodes[j].refs = IF j = p THEN Current.nodes[j].refs - 1 ELSE Current.nodes[j].refs
        BY <2>7, <2>11
      <4>3. u.nodes[j].refs = IF j = q THEN w.nodes[j].refs + 1 ELSE w.nodes[j].refs
        BY <2>10, <2>11
      <4>4. Current.nodes[j].refs \in Nat
        BY <2>11, NodeTypes
      <4>. QED
        BY <4>1, <4>2, <4>3, <4>4
    <3>4. Cardinality(PinsIn(Current, j) \union {i}) =
            IF j = p THEN Cardinality(PinsIn(Current, j)) ELSE Cardinality(PinsIn(Current, j)) + 1
      BY <3>2, <2>4, FS_AddElement
    <3>5. Cardinality(PinsIn(Current, j) \ {i}) =
            IF j = p THEN Cardinality(PinsIn(Current, j)) - 1 ELSE Cardinality(PinsIn(Current, j))
      BY <3>2, <2>4, FS_RemoveElement
    <3>6. Cardinality(PinsIn(Current, j)) \in Nat
      BY <2>4
    <3>7. CASE j = q
      <4>1. PinsIn(u, j) = PinsIn(Current, j) \union {i}
        BY <3>7, <2>13
      <4>. QED
        BY <4>1, <3>1, <3>3, <3>4, <3>6, <3>7
    <3>8. CASE j # q
      <4>1. PinsIn(u, j) = PinsIn(Current, j) \ {i}
        BY <3>8, <2>13
      <4>. QED
        BY <4>1, <3>1, <3>3, <3>5, <3>6, <3>8
    <3>. QED
      BY <3>7, <3>8
  <2>15. CountedBy(u, c)
    BY <2>11, <2>14 DEF CountedBy
  <2>. QED
    BY <2>10, <2>11, <2>12, <2>15 DEF u
<1>. QED
  BY <1>1, <1>2

----------------------------------------------------------------------------
(* The entries of a directory, admitted one after the other.                *)

Entries == [name : Names, st : [key : Ids, dir : BOOLEAN]]

\* Types of everything but the table.
StateType ==
    /\ kind \in [AllIds -> {"file", "dir"}]
    /\ entry \in [Slots -> Ids \union {None}]
    /\ known \in [AllInodes -> 0..MaxLookups]
    /\ dentries \subseteq AllInodes \X Names
    /\ opened \subseteq Descriptors
    /\ scan \subseteq [inode : AllInodes, fd : AllIds, scanned : BOOLEAN, found : Seq(Entries)]
    /\ changed \subseteq AllIds

\* A name resolves to an inode number, under a name folding alike.
LEMMA ResolveResult ==
    ASSUME StateType, NEW dir \in AllIds, NEW name \in Names
    PROVE  /\ Stored(dir, name) \in Names
           /\ Fold[Stored(dir, name)] = Fold[name]
           /\ Resolve(dir, name) \in Ids \union {None}
<1>. DEFINE alike == {n \in Names : Fold[n] = Fold[name] /\ entry[<<dir, n>>] # None}
<1>1. Stored(dir, name) \in Names /\ Fold[Stored(dir, name)] = Fold[name]
  <2>1. CASE alike = {}
    BY <2>1 DEF Stored
  <2>2. CASE alike # {}
    <3>1. (CHOOSE n \in alike : TRUE) \in alike
      BY <2>2
    <3>. QED
      BY <2>2, <3>1 DEF Stored
  <2>. QED
    BY <2>1, <2>2
<1>. QED
  BY <1>1 DEF StateType, Resolve, Slots

\* The counts after a reply, as Replied has them for the kernel's.
Counted(c, inodes) ==
    [i \in AllInodes |-> c[i] + Cardinality({k \in DOMAIN inodes : inodes[k] = i})]

\* Counting inodes once more each only adds to their counts.
LEMMA CountedType ==
    ASSUME NEW c \in Counts, NEW s \in Seq(Inodes)
    PROVE  /\ Counted(c, s) \in Counts
           /\ \A i \in AllInodes : c[i] <= Counted(c, s)[i]
           /\ \A i : IsFiniteSet({k \in DOMAIN s : s[k] = i})
<1>1. IsFiniteSet(1..Len(s))
  BY FS_Interval, LenProperties
<1>2. \A i : {k \in DOMAIN s : s[k] = i} \subseteq 1..Len(s)
  BY LenProperties
<1>. DEFINE S(i) == {k \in DOMAIN s : s[k] = i}
<1>3. \A i : IsFiniteSet(S(i)) /\ Cardinality(S(i)) \in Nat
  BY <1>1, <1>2, FS_Subset, FS_CardinalityType
<1>4. Counted(c, s) = [i \in AllInodes |-> c[i] + Cardinality(S(i))]
  BY DEF Counted
<1>5. \A i : IsFiniteSet({k \in DOMAIN s : s[k] = i})
  BY <1>3
<1>. HIDE DEF S
<1>6. \A i \in AllInodes : Counted(c, s)[i] = c[i] + Cardinality(S(i)) /\ c[i] \in Nat
  BY <1>4 DEF Counts
<1>7. Counted(c, s) \in Counts
  BY <1>3, <1>4, <1>6 DEF Counts
<1>8. \A i \in AllInodes : c[i] <= Counted(c, s)[i]
  BY <1>3, <1>6
<1>. QED
  BY <1>5, <1>7, <1>8

\* No inodes add nothing.
LEMMA CountedNone ==
    ASSUME NEW c \in Counts
    PROVE  Counted(c, <<>>) = c
<1>1. \A i : {k \in DOMAIN <<>> : <<>>[k] = i} = {}
  OBVIOUS
<1>2. \A i : Cardinality({k \in DOMAIN <<>> : <<>>[k] = i}) = 0
  BY <1>1, FS_EmptySet
<1>. QED
  BY <1>2 DEF Counted, Counts

\* Another inode in the reply is counted once.
LEMMA CountedAppend ==
    ASSUME NEW c \in Counts, NEW s \in Seq(Inodes), NEW i \in Inodes
    PROVE  Counted(c, Append(s, i)) = [Counted(c, s) EXCEPT ![i] = @ + 1]
<1>. DEFINE S(j) == {k \in DOMAIN s : s[k] = j}
            T(j) == {k \in DOMAIN Append(s, i) : Append(s, i)[k] = j}
<1>1. /\ Len(s) \in Nat /\ DOMAIN s = 1..Len(s)
      /\ DOMAIN Append(s, i) = 1..(Len(s) + 1)
      /\ \A k \in 1..Len(s) : Append(s, i)[k] = s[k]
      /\ Append(s, i)[Len(s) + 1] = i
  BY LenProperties, AppendProperties
<1>2. \A j : T(j) = IF j = i THEN S(j) \union {Len(s) + 1} ELSE S(j)
  BY <1>1
<1>3. Len(s) + 1 \notin S(i)
  BY <1>1
<1>4. IsFiniteSet(S(i))
  BY CountedType
<1>5. Cardinality(S(i) \union {Len(s) + 1}) = Cardinality(S(i)) + 1
  BY <1>3, <1>4, FS_AddElement
<1>6. Cardinality(T(i)) = Cardinality(S(i)) + 1 /\ \A j \in AllInodes \ {i} : Cardinality(T(j)) = Cardinality(S(j))
  BY <1>2, <1>5
<1>7. Cardinality(S(i)) \in Nat
  BY <1>4, FS_CardinalityType
<1>8. /\ Counted(c, s) = [j \in AllInodes |-> c[j] + Cardinality(S(j))]
      /\ Counted(c, Append(s, i)) = [j \in AllInodes |-> c[j] + Cardinality(T(j))]
  BY DEF Counted
<1>. HIDE DEF S, T
<1>9. i \in AllInodes /\ c[i] \in Nat
  BY DEF Inodes, Counts
<1>10. ASSUME NEW j \in AllInodes
       PROVE  Counted(c, Append(s, i))[j] = [Counted(c, s) EXCEPT ![i] = @ + 1][j]
  <2>1. Counted(c, s)[j] = c[j] + Cardinality(S(j)) /\ Counted(c, Append(s, i))[j] = c[j] + Cardinality(T(j))
    BY <1>8
  <2>2. CASE j = i
    BY <2>1, <2>2, <1>6, <1>7, <1>8, <1>9
  <2>3. CASE j # i
    BY <2>1, <2>3, <1>6, <1>8
  <2>. QED
    BY <2>2, <2>3
<1>. QED
  BY <1>8, <1>10

\* What is known of a reply so far, unless an entry failed: n entries were admitted.
Admitted(acc, n, c) ==
    /\ acc = [t |-> acc.t, inodes |-> acc.inodes, failed |-> acc.failed]
    /\ acc.failed \in BOOLEAN
    /\ ~acc.failed => /\ acc.inodes \in Seq(Inodes) /\ Len(acc.inodes) = n
                      /\ Sound(acc.t)
                      /\ CountedBy(acc.t, Counted(c, acc.inodes))
                      /\ SameDirs(Current, acc.t)
                      /\ DOMAIN nodes \subseteq DOMAIN acc.t.nodes

\* One step of readdir's admissions leaves a sound table that counts one lookup more.
LEMMA AdmitNextResult ==
    ASSUME StateType, Sound(Current), NEW c \in Counts, NEW n \in Nat, NEW acc, Admitted(acc, n, c),
           NEW p \in DOMAIN nodes, IsDir(Current, p), NEW e \in Entries,
           Visible(Append(nodes[p].path, e.name), e.st.dir)
    PROVE  Admitted(AdmitNext(acc, p, e), n + 1, c)
<1>. DEFINE at == Resolve(FdOf(p), e.name)
            fails == acc.failed \/ AdmitFails(acc.t, p, e.name, e.st, at) \/ ~CanAdmit(acc.t, p, e.name, e.st)
            a == Admit(acc.t, p, e.name, e.st, at)
<1>1. CASE fails
  <2>1. AdmitNext(acc, p, e) = [acc EXCEPT !.failed = TRUE]
    BY <1>1 DEF AdmitNext
  <2>2. AdmitNext(acc, p, e) = [t |-> acc.t, inodes |-> acc.inodes, failed |-> TRUE]
    BY <2>1 DEF Admitted
  <2>. QED
    BY <2>2 DEF Admitted
<1>2. CASE ~fails
  <2>1. AdmitNext(acc, p, e) = [t |-> a.t, inodes |-> Append(acc.inodes, a.inode), failed |-> FALSE]
    BY <1>2 DEF AdmitNext
  <2>2. /\ acc.inodes \in Seq(Inodes) /\ Len(acc.inodes) = n
        /\ Sound(acc.t) /\ CountedBy(acc.t, Counted(c, acc.inodes))
        /\ SameDirs(Current, acc.t) /\ DOMAIN nodes \subseteq DOMAIN acc.t.nodes
        /\ CanAdmit(acc.t, p, e.name, e.st)
        /\ ~AdmitFails(acc.t, p, e.name, e.st, at)
    BY <1>2 DEF Admitted
  <2>3. e.name \in Names /\ e.st \in [key : Ids, dir : BOOLEAN] /\ e.st.key \in Ids
    BY DEF Entries
  <2>4. at \in Ids \union {None}
    <3>1. FdOf(p) \in AllIds
      BY NodeTypes DEF FdOf, Current, Sound
    <3>. QED
      BY <2>3, <3>1, ResolveResult
  <2>5. p \in DOMAIN acc.t.nodes /\ IsDir(acc.t, p) /\ acc.t.nodes[p].path = nodes[p].path
    BY <2>2 DEF SameDirs, Current, IsDir
  <2>6. ~Reused(acc.t, p, e.name, e.st) => Admissible(acc.t, p, e.name, e.st, at)
    BY <2>2, <2>3, <2>4, <2>5 DEF AdmitFails, Admissible
  <2>7. Counted(c, acc.inodes) \in Counts
    BY <2>2, CountedType
  <2>. HIDE DEF at
  <2>8. /\ a.inode \in Inodes
        /\ Sound(a.t)
        /\ CountedBy(a.t, [Counted(c, acc.inodes) EXCEPT ![a.inode] = @ + 1])
        /\ SameDirs(acc.t, a.t)
        /\ DOMAIN acc.t.nodes \subseteq DOMAIN a.t.nodes
    BY <2>2, <2>3, <2>6, <2>7, AdmitResult
  <2>. HIDE DEF a
  <2>9. Counted(c, Append(acc.inodes, a.inode)) = [Counted(c, acc.inodes) EXCEPT ![a.inode] = @ + 1]
    BY <2>2, <2>8, CountedAppend
  <2>10. Append(acc.inodes, a.inode) \in Seq(Inodes) /\ Len(Append(acc.inodes, a.inode)) = n + 1
    BY <2>2, <2>8, AppendProperties
  <2>11. SameDirs(Current, a.t) /\ DOMAIN nodes \subseteq DOMAIN a.t.nodes
    BY <2>2, <2>8 DEF SameDirs, Current
  <2>. QED
    BY <2>1, <2>8, <2>9, <2>10, <2>11 DEF Admitted
<1>. QED
  BY <1>1, <1>2

\* The recursion of AdmitAll has a solution: one entry more each time.
LEMMA AdmitAllSteps ==
    ASSUME NEW p, NEW found \in Seq(Entries)
    PROVE  \E f : /\ AdmitAll(p, found) = f[Len(found)]
                  /\ f[0] = [t |-> Current, inodes |-> <<>>, failed |-> FALSE]
                  /\ \A k \in 1..Len(found) : f[k] = AdmitNext(f[k - 1], p, found[k])
<1>. DEFINE start == [t |-> Current, inodes |-> <<>>, failed |-> FALSE]
            L == Len(found)
            Next1(f, k) == IF k = 0 THEN start ELSE AdmitNext(f[k - 1], p, found[k])
            Solved(n) == \E f : f = [k \in 0..n |-> Next1(f, k)]
            T == {n \in 0..L : ~Solved(n)}
<1>1. L \in Nat
  BY LenProperties
<1>. HIDE DEF L
<1>2. Solved(0)
  <2>. DEFINE g == [k \in 0..0 |-> start]
  <2>1. g = [k \in 0..0 |-> Next1(g, k)]
    OBVIOUS
  <2>. QED
    BY <2>1
<1>3. ASSUME NEW n \in Nat \ {0}, Solved(n - 1) PROVE Solved(n)
  <2>1. PICK f : f = [k \in 0..(n - 1) |-> Next1(f, k)]
    BY <1>3
  <2>. DEFINE g == [k \in 0..n |-> IF k = n THEN AdmitNext(f[n - 1], p, found[n]) ELSE f[k]]
  <2>2. \A k \in 0..n : g[k] = Next1(g, k)
    <3>. TAKE k \in 0..n
    <3>1. CASE k = n
      <4>1. g[n - 1] = f[n - 1]
        OBVIOUS
      <4>. QED
        BY <3>1, <4>1
    <3>2. CASE k # n
      <4>1. k \in 0..(n - 1) /\ g[k] = f[k] /\ (k # 0 => g[k - 1] = f[k - 1])
        BY <3>2
      <4>2. f[k] = Next1(f, k)
        <5>1. \A j \in 0..(n - 1) : f[j] = Next1(f, j)
          BY <2>1
        <5>. QED
          BY <4>1, <5>1, Zenon
      <4>. QED
        BY <3>2, <4>1, <4>2
    <3>. QED
      BY <3>1, <3>2
  <2>3. g = [k \in 0..n |-> g[k]]
    OBVIOUS
  <2>. HIDE DEF g
  <2>4. g = [k \in 0..n |-> Next1(g, k)]
    BY <2>2, <2>3
  <2>. QED
    BY <2>4
<1>. HIDE DEF Solved
<1>4. Solved(L)
  <2>1. SUFFICES ASSUME T # {} PROVE FALSE
    BY <1>1
  <2>0. T \subseteq Nat
    BY <1>1
  <2>2. PICK n \in T : \A m \in T : n <= m
    BY <2>0, <2>1, LeastExists, Zenon
  <2>3. n \in Nat \ {0} /\ n - 1 \in 0..L /\ n - 1 \notin T
    BY <1>1, <1>2, <2>2
  <2>. QED
    BY <1>3, <2>2, <2>3
<1>. USE DEF Solved
<1>. DEFINE f == CHOOSE f : f = [k \in 0..L |-> Next1(f, k)]
<1>5. f = [k \in 0..L |-> Next1(f, k)]
  BY <1>4
<1>6. AdmitAll(p, found) = f[L]
  BY DEF AdmitAll, L
<1>. HIDE DEF f
<1>7. \A k \in 0..L : f[k] = Next1(f, k)
  BY <1>5
<1>8. f[0] = start
  <2>1. 0 \in 0..L
    BY <1>1
  <2>2. f[0] = Next1(f, 0)
    BY <2>1, <1>7, Zenon
  <2>. QED
    BY <2>2, Zenon
<1>9. \A k \in 1..L : f[k] = AdmitNext(f[k - 1], p, found[k])
  BY <1>1, <1>7
<1>. QED
  BY <1>6, <1>8, <1>9 DEF L

\* A reply leaves the table sound, and counts what it admitted.
LEMMA AdmitAllResult ==
    ASSUME StateType, Sound(Current), NEW c \in Counts, CountedBy(Current, c),
           NEW p \in DOMAIN nodes, IsDir(Current, p), NEW found \in Seq(Entries),
           \A k \in DOMAIN found : Visible(Append(nodes[p].path, found[k].name), found[k].st.dir)
    PROVE  Admitted(AdmitAll(p, found), Len(found), c)
<1>1. Len(found) \in Nat /\ DOMAIN found = 1..Len(found) /\ \A k \in 1..Len(found) : found[k] \in Entries
  BY LenProperties
<1>2. PICK f : /\ AdmitAll(p, found) = f[Len(found)]
               /\ f[0] = [t |-> Current, inodes |-> <<>>, failed |-> FALSE]
               /\ \A k \in 1..Len(found) : f[k] = AdmitNext(f[k - 1], p, found[k])
  BY AdmitAllSteps
<1>. DEFINE T == {n \in 0..Len(found) : ~Admitted(f[n], n, c)}
<1>3. Admitted(f[0], 0, c)
  <2>1. <<>> \in Seq(Inodes) /\ Len(<<>>) = 0
    OBVIOUS
  <2>2. Counted(c, <<>>) = c
    BY CountedNone
  <2>. QED
    BY <1>2, <2>1, <2>2 DEF Admitted, SameDirs, Current
<1>4. ASSUME NEW n \in 1..Len(found), Admitted(f[n - 1], n - 1, c) PROVE Admitted(f[n], n, c)
  <2>1. n - 1 \in Nat /\ (n - 1) + 1 = n /\ found[n] \in Entries
    BY <1>1
  <2>2. Visible(Append(nodes[p].path, found[n].name), found[n].st.dir)
    BY <1>1
  <2>3. Admitted(AdmitNext(f[n - 1], p, found[n]), (n - 1) + 1, c)
    BY <1>4, <2>1, <2>2, AdmitNextResult
  <2>. QED
    BY <2>1, <2>3, <1>2
<1>5. T = {}
  <2>1. SUFFICES ASSUME T # {} PROVE FALSE
    OBVIOUS
  <2>0. T \subseteq Nat
    BY <1>1
  <2>2. PICK n \in T : \A m \in T : n <= m
    BY <2>0, <2>1, LeastExists, Zenon
  <2>3. n \in 1..Len(found) /\ n - 1 \in 0..Len(found) /\ n - 1 \notin T
    BY <1>1, <1>3, <2>2
  <2>. QED
    BY <1>4, <2>2, <2>3
<1>. QED
  BY <1>1, <1>2, <1>5

----------------------------------------------------------------------------
(* The inductive invariant.                                                 *)

\* c counts at least the lookups the kernel knows of.
Covers(c) ==
    /\ c \in Counts
    /\ CountedBy(Current, c)
    /\ \A i \in AllInodes : known[i] <= c[i]

\* An open directory is held, and what was found in it is visible.
HandlesInv ==
    \A h \in scan :
        /\ h.inode \in Held /\ IsDir(Current, h.inode)
        /\ \A k \in DOMAIN h.found :
              Visible(Append(nodes[h.inode].path, h.found[k].name), h.found[k].st.dir)

IInv == StateType /\ Sound(Current) /\ HandlesInv /\ \E c : Covers(c)

\* What is to be shown of a step: the invariant, and that exact counts stay so unless a
\* directory is read.
StepKeeps(c) ==
    /\ StateType' /\ Sound(Current') /\ HandlesInv'
    /\ \E d : Covers(d)' /\ (c = known /\ scan = {} => d = known')

\* What the kernel holds is in the table.
LEMMA HeldIsKnown ==
    ASSUME Sound(Current), NEW c, Covers(c), StateType, NEW i \in Held
    PROVE  i \in DOMAIN nodes /\ i \in AllInodes
<1>1. i \in AllInodes
  BY SectionIsSane DEF Held, AllInodes, RootInode
<1>2. CASE i = RootInode
  BY <1>1, <1>2 DEF Sound, ClosedIn, Current
<1>3. CASE known[i] > 0
  <2>1. c[i] \in Nat /\ known[i] \in Nat /\ known[i] <= c[i]
    BY <1>1, SectionIsSane DEF Covers, Counts, StateType
  <2>2. c[i] # 0
    BY <1>3, <2>1
  <2>. QED
    BY <1>1, <2>2 DEF Covers, CountedBy, Current
<1>. QED
  BY <1>2, <1>3 DEF Held

\* A handler that sets the table to u has u as its table afterwards.
LEMMA SetTableResult ==
    ASSUME NEW u, Sound(u), SetTable(u)
    PROVE  Current' = u
BY DEF Sound, Tables, SetTable, Current

\* A step that changes the table and the kernel's counts, and forgets no open directory.
LEMMA StepWithTable ==
    ASSUME Sound(Current), HandlesInv, NEW c, NEW d,
           StateType', Sound(Current'), SameDirs(Current, Current'), Covers(d)',
           c = known /\ scan = {} => d = known',
           scan' \subseteq scan, StateType, Covers(c), \A h \in scan : h.inode \in Held'
    PROVE  StepKeeps(c)
<1>1. ASSUME NEW h \in scan'
      PROVE  /\ h.inode \in Held' /\ IsDir(Current', h.inode)
             /\ \A k \in DOMAIN h.found :
                   Visible(Append(nodes'[h.inode].path, h.found[k].name), h.found[k].st.dir)
  <2>1. h \in scan /\ h.inode \in Held /\ IsDir(Current, h.inode) /\ h.inode \in Held'
    BY DEF HandlesInv
  <2>2. h.inode \in DOMAIN nodes /\ h.inode \in AllInodes
    BY <2>1, HeldIsKnown
  <2>3. h.inode \in DOMAIN nodes'
    <3>1. CASE h.inode = RootInode
      BY <3>1 DEF Sound, ClosedIn, Current
    <3>2. CASE h.inode # RootInode
      <4>1. known'[h.inode] > 0
        BY <3>2, <2>1 DEF Held
      <4>2. d[h.inode] \in Nat /\ known'[h.inode] <= d[h.inode] /\ known'[h.inode] \in Nat
        BY <2>2, SectionIsSane DEF Covers, Counts, StateType
      <4>3. d[h.inode] # 0
        BY <4>1, <4>2
      <4>. QED
        BY <2>2, <4>3 DEF Covers, CountedBy, Current
    <3>. QED
      BY <3>1, <3>2
  <2>4. nodes'[h.inode].fd = nodes[h.inode].fd /\ nodes'[h.inode].path = nodes[h.inode].path
    BY <2>2, <2>3 DEF SameDirs, Current
  <2>. QED
    BY <2>1, <2>4 DEF HandlesInv, IsDir, Current
<1>2. HandlesInv'
  BY <1>1 DEF HandlesInv
<1>. QED
  BY <1>2 DEF StepKeeps

\* A step that leaves the table, the kernel's counts and the handles alone.
LEMMA QuietStep ==
    ASSUME IInv, NEW c, Covers(c), StateType', UNCHANGED <<nodes, byKey, known, scan>>
    PROVE  StepKeeps(c)
<1>1. Current' = Current
  BY DEF Current
<1>2. Covers(c)' /\ HandlesInv'
  BY <1>1 DEF IInv, Covers, HandlesInv, Held
<1>. QED
  BY <1>1, <1>2 DEF IInv, StepKeeps

\* A reply with an entry: one more lookup is known to the kernel and counted in the table.
LEMMA ReplyEntryResult ==
    ASSUME IInv, NEW c, Covers(c), NEW p \in HeldDirs, NEW name \in Names,
           NEW st \in [key : Ids, dir : BOOLEAN],
           Visible(ChildPath(p, name), st.dir), ReplyEntry(p, name, st)
    PROVE  /\ Sound(Current') /\ SameDirs(Current, Current')
           /\ known' \in [AllInodes -> 0..MaxLookups]
           /\ dentries \subseteq AllInodes \X Names => dentries' \subseteq AllInodes \X Names
           /\ \A i \in AllInodes : known[i] <= known'[i]
           /\ \E d : Covers(d)' /\ (c = known => d = known')
<1>. DEFINE a == Admit(Current, p, name, st, st.key)
<1>. PICK d : d = [c EXCEPT ![a.inode] = @ + 1]
  OBVIOUS
<1>1. p \in DOMAIN nodes /\ p \in AllInodes /\ IsDir(Current, p)
  BY HeldIsKnown DEF HeldDirs, IInv
<1>2. Admissible(Current, p, name, st, st.key)
  BY <1>1 DEF Admissible, Current, ChildPath
<1>3. /\ CanAdmit(Current, p, name, st) /\ known[a.inode] < MaxLookups
      /\ known' = [known EXCEPT ![a.inode] = @ + 1] /\ dentries' = dentries \union {<<p, name>>}
      /\ SetTable(a.t)
  BY DEF ReplyEntry
<1>4. /\ a.inode \in Inodes /\ Sound(a.t) /\ CountedBy(a.t, [c EXCEPT ![a.inode] = @ + 1])
      /\ SameDirs(Current, a.t)
  <2>1. c \in Counts /\ CountedBy(Current, c) /\ Sound(Current) /\ st.key \in Ids
    BY DEF Covers, IInv
  <2>. QED
    BY <1>2, <1>3, <2>1, AdmitResult
<1>5. Current' = a.t
  BY <1>3, <1>4, SetTableResult
<1>. HIDE DEF a
<1>6. a.inode \in AllInodes /\ c \in [AllInodes -> Nat] /\ known \in [AllInodes -> 0..MaxLookups] /\ MaxLookups \in Nat
  BY <1>4, SectionIsSane DEF Inodes, Covers, Counts, IInv, StateType
<1>7. known' \in [AllInodes -> 0..MaxLookups] /\ \A i \in AllInodes : known[i] <= known'[i]
  BY <1>3, <1>6
<1>8. d \in Counts /\ \A i \in AllInodes : known'[i] <= d[i]
  <2>1. d \in Counts
    BY <1>6 DEF Counts
  <2>2. \A i \in AllInodes : known[i] <= c[i]
    BY DEF Covers
  <2>3. ASSUME NEW i \in AllInodes PROVE known'[i] <= d[i]
    <3>1. known[i] <= c[i] /\ known[i] \in Nat /\ c[i] \in Nat
      BY <2>2, <1>6
    <3>2. known'[i] = IF i = a.inode THEN known[i] + 1 ELSE known[i]
      BY <1>3, <1>6
    <3>3. d[i] = IF i = a.inode THEN c[i] + 1 ELSE c[i]
      BY <1>6
    <3>. QED
      BY <3>1, <3>2, <3>3
  <2>. QED
    BY <2>1, <2>3
<1>9. Covers(d)'
  BY <1>4, <1>5, <1>8 DEF Covers
<1>10. c = known => d = known'
  BY <1>3
<1>11. dentries \subseteq AllInodes \X Names => dentries' \subseteq AllInodes \X Names
  BY <1>1, <1>3
<1>. QED
  BY <1>4, <1>5, <1>7, <1>9, <1>10, <1>11

\* A handler that ends with such a reply, whatever else it changes.
LEMMA StepWithReply ==
    ASSUME IInv, NEW c, Covers(c), NEW p \in HeldDirs, NEW name \in Names,
           NEW st \in [key : Ids, dir : BOOLEAN],
           Visible(ChildPath(p, name), st.dir), ReplyEntry(p, name, st), scan' = scan, changed' = {},
           kind' \in [AllIds -> {"file", "dir"}], entry' \in [Slots -> Ids \union {None}],
           opened' \subseteq Descriptors
    PROVE  StepKeeps(c)
<1>1. /\ Sound(Current') /\ SameDirs(Current, Current')
      /\ known' \in [AllInodes -> 0..MaxLookups]
      /\ dentries \subseteq AllInodes \X Names => dentries' \subseteq AllInodes \X Names
      /\ \A i \in AllInodes : known[i] <= known'[i]
      /\ \E d : Covers(d)' /\ (c = known => d = known')
  BY ReplyEntryResult
<1>2. StateType'
  BY <1>1 DEF IInv, StateType
<1>3. \A h \in scan : h.inode \in Held'
  <2>. TAKE h \in scan
  <2>1. h.inode \in Held
    BY DEF IInv, HandlesInv
  <2>2. h.inode \in AllInodes
    BY <2>1, HeldIsKnown DEF IInv
  <2>3. known[h.inode] \in Nat /\ known'[h.inode] \in Nat
    BY <1>1, <2>2, SectionIsSane DEF IInv, StateType
  <2>. QED
    BY <1>1, <2>1, <2>2, <2>3 DEF Held
<1>. QED
  BY <1>1, <1>2, <1>3, StepWithTable DEF IInv

\* What may be written may be seen.
LEMMA WritableIsVisible ==
    ASSUME NEW path, MayWrite(path), NEW dir \in BOOLEAN
    PROVE  Visible(path, dir)
BY DEF MayWrite, Visible, DirVisible, Readable

\* lookup admits only a name whose own path is visible.
LEMMA LookupKeeps ==
    ASSUME IInv, NEW c, Covers(c), NEW p \in HeldDirs, NEW name \in Names, Lookup(p, name)
    PROVE  StepKeeps(c)
<1>. DEFINE id == Resolve(FdOf(p), name)
<1>1. FdOf(p) \in AllIds /\ StateType
  BY HeldIsKnown, NodeTypes DEF HeldDirs, IInv, Sound, FdOf, Current
<1>2. id \in Ids
  BY <1>1, ResolveResult DEF Lookup
<1>. HIDE DEF id
<1>3. StatOf(id) \in [key : Ids, dir : BOOLEAN] /\ StatOf(id).dir = (kind[id] = "dir")
  BY <1>2 DEF StatOf
<1>4. /\ Visible(ChildPath(p, name), kind[id] = "dir") /\ ReplyEntry(p, name, StatOf(id))
      /\ changed' = {} /\ UNCHANGED <<kind, entry, opened, scan>>
  BY DEF Lookup, id, tree
<1>5. Visible(ChildPath(p, name), StatOf(id).dir)
  BY <1>3, <1>4
<1>. QED
  BY <1>1, <1>3, <1>4, <1>5, StepWithReply DEF StateType

\* create, mkdir and symlink admit a name that may be written, hence seen.
LEMMA MakeKeeps ==
    ASSUME IInv, NEW c, Covers(c), NEW p \in HeldDirs, NEW name \in Names,
           NEW made \in {"file", "dir"}, Make(p, name, made)
    PROVE  StepKeeps(c)
<1>1. FdOf(p) \in AllIds /\ StateType
  BY HeldIsKnown, NodeTypes DEF HeldDirs, IInv, Sound, FdOf, Current
<1>2. PICK id \in Ids :
        /\ WritableName(p, name)
        /\ kind' = [kind EXCEPT ![id] = made]
        /\ entry' = [entry EXCEPT ![<<FdOf(p), name>>] = id]
        /\ ReplyEntry(p, name, [key |-> id, dir |-> made = "dir"])
        /\ changed' = {} /\ scan' = scan
        /\ opened' = opened \/ opened' = opened \union {Descriptor(id, TRUE)}
  BY DEF Make
<1>3. /\ kind' \in [AllIds -> {"file", "dir"}] /\ entry' \in [Slots -> Ids \union {None}]
      /\ opened' \subseteq Descriptors
  <2>1. kind' \in [AllIds -> {"file", "dir"}]
    BY <1>1, <1>2 DEF StateType
  <2>2. entry' \in [Slots -> Ids \union {None}]
    BY <1>1, <1>2 DEF StateType
  <2>3. Descriptor(id, TRUE) \in Descriptors
    BY DEF Descriptor, Descriptors
  <2>4. opened' \subseteq Descriptors
    BY <1>1, <1>2, <2>3, Zenon DEF StateType
  <2>. QED
    BY <2>1, <2>2, <2>4
<1>. DEFINE st == [key |-> id, dir |-> made = "dir"]
<1>4. st \in [key : Ids, dir : BOOLEAN] /\ st.dir \in BOOLEAN
  OBVIOUS
<1>5. ReplyEntry(p, name, st)
  BY <1>2
<1>. HIDE DEF st
<1>6. Visible(ChildPath(p, name), st.dir)
  BY <1>2, <1>4, WritableIsVisible DEF WritableName
<1>. QED
  BY <1>2, <1>3, <1>4, <1>5, <1>6, StepWithReply

\* link admits a writable name for a file of the table.
LEMMA LinkKeeps ==
    ASSUME IInv, NEW c, Covers(c), NEW p \in HeldDirs, NEW name \in Names, NEW i \in HeldFiles,
           Link(i, p, name)
    PROVE  StepKeeps(c)
<1>. DEFINE id == nodes[i].key
<1>1. FdOf(p) \in AllIds /\ StateType
  BY HeldIsKnown, NodeTypes DEF HeldDirs, IInv, Sound, FdOf, Current
<1>2. id \in Ids
  <2>1. i \in DOMAIN nodes /\ ~IsDir(Current, i)
    BY HeldIsKnown DEF HeldFiles, HeldDirs, IInv
  <2>. QED
    BY <2>1, SectionIsSane DEF IInv, Sound, ClosedIn, IsDir, Current
<1>. HIDE DEF id
<1>3. /\ WritableName(p, name) /\ ReplyEntry(p, name, StatOf(id))
      /\ entry' = [entry EXCEPT ![<<FdOf(p), name>>] = id]
      /\ changed' = {} /\ UNCHANGED <<kind, opened, scan>>
  BY DEF Link, id
<1>4. StatOf(id) \in [key : Ids, dir : BOOLEAN] /\ StatOf(id).dir \in BOOLEAN
  BY <1>2 DEF StatOf
<1>5. Visible(ChildPath(p, name), StatOf(id).dir)
  BY <1>3, <1>4, WritableIsVisible DEF WritableName
<1>6. kind' \in [AllIds -> {"file", "dir"}] /\ entry' \in [Slots -> Ids \union {None}]
  BY <1>1, <1>2, <1>3 DEF StateType
<1>7. opened' \subseteq Descriptors
  BY <1>1, <1>3 DEF StateType
<1>. QED
  BY <1>3, <1>4, <1>5, <1>6, <1>7, StepWithReply

\* rename changes where a file is recorded, to a writable name, and no count of lookups.
LEMMA RenameKeeps ==
    ASSUME IInv, NEW c, Covers(c), NEW p \in HeldDirs, NEW q \in HeldDirs,
           NEW old \in Names, NEW name \in Names, Rename(p, old, q, name)
    PROVE  StepKeeps(c)
<1>. DEFINE id == Resolve(FdOf(p), old)
            to == <<FdOf(q), name>>
            from == <<FdOf(p), Stored(FdOf(p), old)>>
            u == Moved(p, old, q, name, StatOf(id))
<1>1. /\ p \in DOMAIN nodes /\ q \in DOMAIN nodes /\ p \in AllInodes /\ q \in AllInodes
      /\ IsDir(Current, p) /\ IsDir(Current, q)
  BY HeldIsKnown DEF HeldDirs, IInv
<1>2. FdOf(p) \in AllIds /\ FdOf(q) \in AllIds /\ StateType
  BY <1>1, NodeTypes DEF IInv, Sound, FdOf, Current
<1>3. id \in Ids /\ from \in Slots /\ to \in Slots
  BY <1>2, ResolveResult DEF Rename, Slots
<1>. HIDE DEF id, to, from
<1>4. /\ kind[id] # "dir" /\ WritableName(q, name)
      /\ RenameEntry(from, to, id)
      /\ SetTable(u)
      /\ dentries' = (dentries \ {<<p, old>>}) \union {<<q, name>>}
      /\ changed' = {} /\ UNCHANGED <<kind, known, opened, scan>>
  BY DEF Rename, id, to, from
<1>5. StatOf(id).key = id /\ ~StatOf(id).dir
  BY <1>4 DEF StatOf
<1>6. PlaceFor(Current, q, name)
  BY <1>1, <1>4, WritableIsVisible DEF PlaceFor, WritableName, ChildPath, Current
<1>7. p = RootInode \/ c[p] > 0
  <2>1. p = RootInode \/ known[p] > 0
    BY DEF HeldDirs, Held
  <2>2. known[p] <= c[p] /\ known[p] \in Nat /\ c[p] \in Nat
    BY <1>1, <1>2, SectionIsSane DEF Covers, Counts, StateType
  <2>. QED
    BY <2>1, <2>2
<1>8. Sound(u) /\ CountedBy(u, c) /\ SameDirs(Current, u)
  <2>1. c \in Counts /\ CountedBy(Current, c) /\ Sound(Current) /\ p \in DOMAIN Current.nodes
    BY <1>1 DEF Covers, IInv, Current
  <2>. QED
    BY <1>1, <1>3, <1>5, <1>6, <1>7, <2>1, MovedResult
<1>9. Current' = u
  BY <1>4, <1>8, SetTableResult
<1>. HIDE DEF u
<1>10. Covers(c)'
  BY <1>4, <1>8, <1>9 DEF Covers
<1>11. StateType'
  <2>1. entry' \in [Slots -> Ids \union {None}]
    BY <1>2, <1>3, <1>4 DEF StateType, RenameEntry
  <2>2. dentries' \subseteq AllInodes \X Names
    BY <1>1, <1>2, <1>4 DEF StateType
  <2>. QED
    BY <1>2, <1>4, <2>1, <2>2 DEF StateType
<1>12. \A h \in scan : h.inode \in Held'
  BY <1>4 DEF IInv, HandlesInv, Held
<1>. QED
  BY <1>2, <1>4, <1>8, <1>9, <1>10, <1>11, <1>12, StepWithTable DEF IInv

\* Nothing else is known of an inode the kernel has forgotten.
LEMMA ForgetKeeps ==
    ASSUME IInv, NEW c, Covers(c), NEW i \in Inodes, NEW count \in 1..MaxLookups, Forget(i, count)
    PROVE  StepKeeps(c)
<1>. DEFINE u == Drop(Current, i, count)
<1>1. i \in AllInodes /\ i # RootInode /\ StateType /\ c \in [AllInodes -> Nat] /\ count \in Nat \ {0}
  BY SectionIsSane DEF Inodes, IInv, Covers, Counts
<1>2. /\ count <= known[i]
      /\ count = known[i] => \A h \in scan : h.inode # i
      /\ known' = [known EXCEPT ![i] = @ - count]
      /\ dentries' \subseteq dentries
      /\ SetTable(u)
      /\ changed' = {} /\ UNCHANGED <<kind, entry, opened, scan>>
  BY DEF Forget, tree
<1>3. \A j \in AllInodes : known[j] <= c[j] /\ known[j] \in 0..MaxLookups /\ known[j] \in Nat /\ c[j] \in Nat
  BY <1>1, SectionIsSane DEF Covers, StateType
<1>4. count <= c[i]
  BY <1>1, <1>2, <1>3
<1>. PICK d : d = [c EXCEPT ![i] = @ - count]
  OBVIOUS
<1>5. Sound(u) /\ CountedBy(u, d) /\ SameDirs(Current, u)
  BY <1>1, <1>4, DropResult DEF IInv, Covers
<1>6. Current' = u
  BY <1>2, <1>5, SetTableResult
<1>. HIDE DEF u
<1>7. \A j \in AllInodes : /\ known'[j] = IF j = i THEN known[j] - count ELSE known[j]
                           /\ d[j] = IF j = i THEN c[j] - count ELSE c[j]
  BY <1>1, <1>2 DEF StateType
<1>8. Covers(d)'
  <2>1. d \in Counts
    BY <1>1, <1>3, <1>4 DEF Counts
  <2>2. \A j \in AllInodes : known'[j] <= d[j]
    BY <1>1, <1>3, <1>7
  <2>. QED
    BY <1>5, <1>6, <2>1, <2>2 DEF Covers
<1>9. StateType'
  <2>1. known' \in [AllInodes -> 0..MaxLookups]
    BY <1>1, <1>2, <1>3, SectionIsSane DEF StateType
  <2>. QED
    BY <1>1, <1>2, <2>1 DEF StateType
<1>10. \A h \in scan : h.inode \in Held'
  <2>. TAKE h \in scan
  <2>1. h.inode \in Held /\ h.inode \in AllInodes
    BY HeldIsKnown DEF IInv, HandlesInv
  <2>. QED
    BY <1>1, <1>2, <1>3, <1>7, <2>1 DEF Held
<1>11. c = known => d = known'
  BY <1>2
<1>. QED
  BY <1>1, <1>2, <1>5, <1>6, <1>8, <1>9, <1>10, <1>11, StepWithTable DEF IInv

\* unlink and rmdir leave the table to the kernel's forgetting.
LEMMA UnlinkKeeps ==
    ASSUME IInv, NEW c, Covers(c), NEW p \in HeldDirs, NEW name \in Names, Unlink(p, name)
    PROVE  StepKeeps(c)
<1>1. FdOf(p) \in AllIds /\ StateType
  BY HeldIsKnown, NodeTypes DEF HeldDirs, IInv, Sound, FdOf, Current
<1>2. Stored(FdOf(p), name) \in Names
  BY <1>1, ResolveResult
<1>3. /\ entry' = [entry EXCEPT ![<<FdOf(p), Stored(FdOf(p), name)>>] = None]
      /\ dentries' \subseteq dentries /\ changed' = {}
      /\ UNCHANGED <<kind, nodes, byKey, known, opened, scan>>
  BY DEF Unlink, table
<1>4. entry' \in [Slots -> Ids \union {None}]
  BY <1>1, <1>3 DEF StateType
<1>5. StateType'
  BY <1>1, <1>3, <1>4 DEF StateType
<1>. QED
  BY <1>3, <1>5, QuietStep

\* open, write, release and setattr.
LEMMA FilesKeep ==
    ASSUME IInv, NEW c, Covers(c),
           \/ \E i \in HeldFiles, write \in BOOLEAN : Open(i, write)
           \/ \E h \in opened : Write(h) \/ Release(h)
           \/ \E i \in Held : Setattr(i)
    PROVE  StepKeeps(c)
<1>1. UNCHANGED <<kind, entry, nodes, byKey, known, dentries, scan>>
  BY DEF Open, Write, Release, Setattr, tree, table, kernel
<1>2. ASSUME NEW i \in Held PROVE i \in DOMAIN nodes /\ i \in AllInodes
  BY HeldIsKnown DEF IInv
<1>3. opened' \subseteq Descriptors /\ changed' \subseteq AllIds
  <2>1. ASSUME NEW i \in HeldFiles, NEW write \in BOOLEAN, Open(i, write)
        PROVE  opened' \subseteq Descriptors /\ changed' \subseteq AllIds
    <3>1. i \in DOMAIN nodes /\ ~IsDir(Current, i)
      BY <1>2 DEF HeldFiles, HeldDirs
    <3>2. nodes[i].key \in Ids
      BY <3>1, SectionIsSane DEF IInv, Sound, ClosedIn, IsDir, Current
    <3>3. Descriptor(nodes[i].key, write) \in Descriptors
      BY <3>2 DEF Descriptor, Descriptors
    <3>4. opened' = opened \union {Descriptor(nodes[i].key, write)} /\ changed' = {}
      BY <2>1 DEF Open
    <3>. QED
      BY <3>3, <3>4 DEF IInv, StateType
  <2>2. ASSUME NEW h \in opened, Write(h) \/ Release(h)
        PROVE  opened' \subseteq Descriptors /\ changed' \subseteq AllIds
    <3>1. h.id \in AllIds
      BY DEF IInv, StateType, AllIds, Descriptors
    <3>2. opened' \subseteq opened /\ changed' \subseteq {h.id}
      BY <2>2 DEF Write, Release
    <3>. QED
      BY <3>1, <3>2 DEF IInv, StateType
  <2>3. ASSUME NEW i \in Held, Setattr(i)
        PROVE  opened' \subseteq Descriptors /\ changed' \subseteq AllIds
    <3>1. opened' = opened /\ changed' = {IF IsDir(Current, i) THEN nodes[i].fd ELSE nodes[i].key}
      BY <2>3 DEF Setattr
    <3>2. i \in DOMAIN nodes
      BY <1>2
    <3>3. IsDir(Current, i) => nodes[i].fd \in AllIds
      BY <3>2, NodeTypes DEF IInv, Sound, Current
    <3>4. nodes[i].key \in AllIds
      BY <3>2 DEF IInv, Sound, ClosedIn, Current, AllIds
    <3>. QED
      BY <3>1, <3>3, <3>4 DEF IInv, StateType
  <2>. QED
    BY <2>1, <2>2, <2>3
<1>4. StateType'
  BY <1>1, <1>3 DEF IInv, StateType
<1>. QED
  BY <1>1, <1>4, QuietStep

\* What other processes do to the tree changes no table.
LEMMA OutsideKeeps ==
    ASSUME IInv, NEW c, Covers(c), Outside
    PROVE  StepKeeps(c)
<1>1. changed' = {} /\ UNCHANGED <<nodes, byKey, known, dentries, scan>>
  BY DEF Outside, table, kernel
<1>2. kind' \in [AllIds -> {"file", "dir"}] /\ entry' \in [Slots -> Ids \union {None}]
  <2>. kind \in [AllIds -> {"file", "dir"}] /\ entry \in [Slots -> Ids \union {None}]
    BY DEF IInv, StateType
  <2>1. CASE \E dir \in AllIds, n \in Names, made \in {"file", "dir"} : OutsideMake(dir, n, made)
    <3>1. PICK dir \in AllIds, n \in Names, made \in {"file", "dir"} : OutsideMake(dir, n, made)
      BY <2>1
    <3>2. PICK id \in Ids : kind' = [kind EXCEPT ![id] = made] /\ entry' = [entry EXCEPT ![<<dir, n>>] = id]
      BY <3>1 DEF OutsideMake
    <3>3. kind' \in [AllIds -> {"file", "dir"}]
      BY <3>2
    <3>4. entry' \in [Slots -> Ids \union {None}]
      BY <3>2
    <3>. QED
      BY <3>3, <3>4
  <2>2. CASE \E dir \in AllIds, n \in Names : OutsideRemove(dir, n)
    BY <2>2 DEF OutsideRemove
  <2>3. CASE \E id \in Ids, dir \in AllIds, n \in Names : OutsideLink(id, dir, n)
    BY <2>3 DEF OutsideLink
  <2>4. CASE \E from, to \in Slots : OutsideMove(from, to)
    BY <2>4 DEF OutsideMove
  <2>. QED
    BY <2>1, <2>2, <2>3, <2>4 DEF Outside
<1>3. opened' \subseteq Descriptors
  <2>. opened \subseteq Descriptors
    BY DEF IInv, StateType
  <2>1. ASSUME NEW id \in Ids, NEW dir \in AllIds, NEW n \in Names, OutsideLink(id, dir, n)
        PROVE  opened' \subseteq Descriptors
    <3>1. <<dir, n>> \in Slots
      BY DEF Slots
    <3>2. ASSUME NEW h \in opened PROVE Lent(h, id, <<dir, n>>) \in Descriptors
      BY <3>1 DEF Lent, Descriptors
    <3>3. opened' = {Lent(h, id, <<dir, n>>) : h \in opened}
      BY <2>1 DEF OutsideLink
    <3>. QED
      BY <3>2, <3>3
  <2>. QED
    BY <2>1 DEF Outside, OutsideMake, OutsideRemove, OutsideMove
<1>4. StateType'
  BY <1>1, <1>2, <1>3 DEF IInv, StateType
<1>. QED
  BY <1>1, <1>4, QuietStep

----------------------------------------------------------------------------
(* Open directories.                                                        *)

Handles == [inode : AllInodes, fd : AllIds, scanned : BOOLEAN, found : Seq(Entries)]

\* opendir and releasedir.
LEMMA OpendirKeeps ==
    ASSUME IInv, NEW c, Covers(c),
           (\E i \in HeldDirs : Opendir(i)) \/ (\E h \in scan : Releasedir(h))
    PROVE  StepKeeps(c)
<1>1. changed' = {} /\ UNCHANGED <<kind, entry, nodes, byKey, known, dentries, opened>>
  BY DEF Opendir, Releasedir, tree, table, kernel
<1>2. \/ scan' \subseteq scan
      \/ \E i \in HeldDirs : scan' = scan \union {[inode |-> i, fd |-> FdOf(i), scanned |-> FALSE, found |-> <<>>]}
  BY DEF Opendir, Releasedir
<1>3. ASSUME NEW h \in scan', h \notin scan
      PROVE  h \in Handles /\ h.inode \in HeldDirs /\ h.found = <<>>
  <2>1. PICK i \in HeldDirs : h = [inode |-> i, fd |-> FdOf(i), scanned |-> FALSE, found |-> <<>>]
    BY <1>2, <1>3
  <2>2. i \in AllInodes /\ FdOf(i) \in AllIds
    BY HeldIsKnown, NodeTypes DEF HeldDirs, IInv, Sound, FdOf, Current
  <2>3. <<>> \in Seq(Entries)
    OBVIOUS
  <2>. QED
    BY <2>1, <2>2, <2>3 DEF Handles
<1>4. StateType'
  <2>1. scan' \subseteq Handles
    BY <1>3 DEF IInv, StateType, Handles
  <2>. QED
    BY <1>1, <2>1 DEF IInv, StateType, Handles
<1>5. Current' = Current /\ Held' = Held
  BY <1>1 DEF Current, Held
<1>6. Covers(c)'
  BY <1>1, <1>5 DEF Covers
<1>7. HandlesInv'
  <2>1. ASSUME NEW h \in scan'
        PROVE  /\ h.inode \in Held /\ IsDir(Current, h.inode)
               /\ \A k \in DOMAIN h.found :
                     Visible(Append(nodes[h.inode].path, h.found[k].name), h.found[k].st.dir)
    <3>1. CASE h \in scan
      BY <3>1 DEF IInv, HandlesInv
    <3>2. CASE h \notin scan
      BY <3>2, <1>3 DEF HeldDirs
    <3>. QED
      BY <3>1, <3>2
  <2>. QED
    BY <1>1, <1>5, <2>1 DEF HandlesInv
<1>. QED
  BY <1>1, <1>4, <1>5, <1>6, <1>7 DEF IInv, StepKeeps

\* What a scan finds are entries of the directory, and visible.
LEMMA ScanResult ==
    ASSUME IInv, NEW h \in scan, NEW found \in SetToSeqs(VisibleEntries(h))
    PROVE  /\ found \in Seq(Entries)
           /\ \A k \in DOMAIN found : Visible(Append(nodes[h.inode].path, found[k].name), found[k].st.dir)
<1>. DEFINE shown == {n \in Names : /\ entry[<<h.fd, n>>] # None
                                    /\ Visible(ChildPath(h.inode, n), kind[entry[<<h.fd, n>>]] = "dir")}
            S == VisibleEntries(h)
            f == [n \in shown |-> [name |-> n, st |-> StatOf(entry[<<h.fd, n>>])]]
<1>1. h.fd \in AllIds /\ h.inode \in AllInodes
  BY DEF IInv, StateType
<1>2. S = {[name |-> n, st |-> StatOf(entry[<<h.fd, n>>])] : n \in shown}
  BY DEF VisibleEntries
<1>3. \A n \in shown : f[n] \in Entries /\ f[n].name = n
                       /\ f[n].st.dir = (kind[entry[<<h.fd, n>>]] = "dir")
  <2>. TAKE n \in shown
  <2>1. entry[<<h.fd, n>>] \in Ids
    BY <1>1 DEF IInv, StateType, Slots
  <2>. QED
    BY <2>1 DEF Entries, StatOf
<1>4. IsFiniteSet(S)
  <2>1. IsFiniteSet(shown)
    BY SectionIsSane, FS_Subset
  <2>2. f \in Surjection(shown, S)
    BY <1>2 DEF Surjection
  <2>. QED
    BY <2>1, <2>2, FS_Surjection
<1>5. \A e \in S : \E n \in shown : e = f[n]
  BY <1>2
<1>. HIDE DEF S, f
<1>6. \A e \in S : e \in Entries /\ Visible(Append(nodes[h.inode].path, e.name), e.st.dir)
  <2>. SUFFICES ASSUME NEW e \in S
                PROVE  e \in Entries /\ Visible(Append(nodes[h.inode].path, e.name), e.st.dir)
    OBVIOUS
  <2>1. PICK n \in shown : e = f[n]
    BY <1>5
  <2>2. Visible(Append(nodes[h.inode].path, n), kind[entry[<<h.fd, n>>]] = "dir")
    BY <2>1 DEF ChildPath
  <2>3. e.name = n /\ e.st.dir = (kind[entry[<<h.fd, n>>]] = "dir") /\ e \in Entries
    BY <1>3, <2>1
  <2>. QED
    BY <2>2, <2>3
<1>7. Cardinality(S) \in Nat
  BY <1>4, FS_CardinalityType
<1>8. found \in [1..Cardinality(S) -> S]
  BY DEF SetToSeqs, S
<1>. QED
  BY <1>6, <1>7, <1>8

\* The first readdir keeps in the handle what the filter lets through.
LEMMA ScanKeeps ==
    ASSUME IInv, NEW c, Covers(c), NEW h \in scan, Scan(h)
    PROVE  StepKeeps(c)
<1>1. changed' = {} /\ UNCHANGED <<kind, entry, nodes, byKey, known, dentries, opened>>
  BY DEF Scan, tree, table, kernel
<1>2. PICK found \in SetToSeqs(VisibleEntries(h)) :
        scan' = (scan \ {h}) \union {[h EXCEPT !.scanned = TRUE, !.found = found]}
  BY DEF Scan
<1>3. /\ found \in Seq(Entries)
      /\ \A k \in DOMAIN found : Visible(Append(nodes[h.inode].path, found[k].name), found[k].st.dir)
  BY ScanResult
<1>. DEFINE g == [h EXCEPT !.scanned = TRUE, !.found = found]
<1>4. g \in Handles /\ g.inode = h.inode /\ g.found = found
  BY <1>3 DEF IInv, StateType, Handles
<1>5. scan' \subseteq scan \union {g}
  BY <1>2
<1>. HIDE DEF g
<1>6. StateType'
  <2>1. scan' \subseteq Handles
    BY <1>4, <1>5 DEF IInv, StateType, Handles
  <2>. QED
    BY <1>1, <2>1 DEF IInv, StateType, Handles
<1>7. Current' = Current /\ Held' = Held
  BY <1>1 DEF Current, Held
<1>8. Covers(c)'
  BY <1>1, <1>7 DEF Covers
<1>9. HandlesInv'
  <2>1. ASSUME NEW o \in scan'
        PROVE  /\ o.inode \in Held /\ IsDir(Current, o.inode)
               /\ \A k \in DOMAIN o.found :
                     Visible(Append(nodes[o.inode].path, o.found[k].name), o.found[k].st.dir)
    <3>1. CASE o \in scan
      BY <3>1 DEF IInv, HandlesInv
    <3>2. CASE o = g
      BY <3>2, <1>3, <1>4 DEF IInv, HandlesInv
    <3>. QED
      BY <3>1, <3>2, <1>5
  <2>. QED
    BY <1>1, <1>7, <2>1 DEF HandlesInv
<1>. QED
  BY <1>1, <1>6, <1>7, <1>8, <1>9 DEF IInv, StepKeeps

\* Part of a scan, from `first` to `last` (which may be the one before).
LEMMA PartOfScan ==
    ASSUME IInv, NEW h \in scan,
           NEW first \in 1..Len(h.found), NEW last \in 0..Len(h.found), first <= last + 1
    PROVE  LET sub == SubSeq(h.found, first, last) IN
           /\ sub \in Seq(Entries)
           /\ Len(sub) = last + 1 - first
           /\ \A k \in DOMAIN sub : Visible(Append(nodes[h.inode].path, sub[k].name), sub[k].st.dir)
<1>. DEFINE sub == SubSeq(h.found, first, last)
<1>1. h.found \in Seq(Entries) /\ Len(h.found) \in Nat
  BY LenProperties DEF IInv, StateType
<1>2. first \in 1..(Len(h.found) + 1) /\ last \in (first - 1)..Len(h.found) /\ first \in Int /\ last \in Int
  BY <1>1
<1>3. /\ sub \in Seq(Entries)
      /\ Len(sub) = last + 1 - first
      /\ \A k \in 1..(last + 1 - first) : sub[k] = h.found[first + k - 1]
  BY <1>1, <1>2, SubSeqProperties, Z3
<1>4. ASSUME NEW k \in DOMAIN sub
      PROVE  Visible(Append(nodes[h.inode].path, sub[k].name), sub[k].st.dir)
  <2>1. k \in 1..(last + 1 - first)
    BY <1>3, LenProperties
  <2>2. first + k - 1 \in DOMAIN h.found
    BY <1>1, <1>2, <2>1, LenProperties
  <2>3. sub[k] = h.found[first + k - 1]
    BY <1>3, <2>1
  <2>. QED
    BY <2>2, <2>3 DEF IInv, HandlesInv
<1>. HIDE DEF sub
<1>. QED
  BY <1>3, <1>4 DEF sub

\* Part of a scan is admitted.
LEMMA AdmittedFromScan ==
    ASSUME IInv, NEW c, Covers(c), NEW h \in scan,
           NEW first \in 1..Len(h.found), NEW last \in 0..Len(h.found), first <= last + 1
    PROVE  Admitted(AdmitAll(h.inode, SubSeq(h.found, first, last)), last + 1 - first, c)
<1>. DEFINE sub == SubSeq(h.found, first, last)
<1>1. h.inode \in DOMAIN nodes /\ IsDir(Current, h.inode)
  BY HeldIsKnown DEF IInv, HandlesInv
<1>2. /\ sub \in Seq(Entries)
      /\ Len(sub) = last + 1 - first
      /\ \A k \in DOMAIN sub : Visible(Append(nodes[h.inode].path, sub[k].name), sub[k].st.dir)
  BY PartOfScan
<1>. HIDE DEF sub
<1>3. Admitted(AdmitAll(h.inode, sub), Len(sub), c)
  BY <1>1, <1>2, AdmitAllResult DEF IInv, Covers
<1>. QED
  BY <1>2, <1>3 DEF sub

\* The last of the inodes counted is dropped again.
LEMMA LastDropped ==
    ASSUME NEW c \in Counts, NEW s \in Seq(Inodes), Len(s) >= 1,
           NEW t, Sound(t), CountedBy(t, Counted(c, s))
    PROVE  LET u == Drop(t, Last(s), 1) IN
           /\ Front(s) \in Seq(Inodes) /\ Len(Front(s)) = Len(s) - 1
           /\ Sound(u) /\ CountedBy(u, Counted(c, Front(s)))
           /\ SameDirs(t, u) /\ DOMAIN u.nodes \subseteq DOMAIN t.nodes
<1>. DEFINE n == Len(s)
            x == Last(s)
            fit == Front(s)
            u == Drop(t, x, 1)
<1>1. n \in Nat /\ n >= 1
  BY LenProperties
<1>2. fit = SubSeq(s, 1, n - 1) /\ x = s[n]
  BY DEF Front, Last
<1>. HIDE DEF x, fit
<1>3. fit \in Seq(Inodes) /\ Len(fit) = n - 1 /\ \A k \in 1..(n - 1) : fit[k] = s[k]
  <2>. PICK m : m = n - 1
    OBVIOUS
  <2>1. m \in 0..n /\ m \in Int /\ m - 1 + 1 = m
    BY <1>1
  <2>2. /\ SubSeq(s, 1, m) \in Seq(Inodes)
        /\ Len(SubSeq(s, 1, m)) = m
        /\ \A k \in 1..m : SubSeq(s, 1, m)[k] = s[k]
    BY <1>1, <2>1, SubSeqProperties
  <2>. QED
    BY <2>2, <1>2
<1>4. x \in Inodes
  BY <1>1, <1>2, ElementOfSeq
<1>5. Append(fit, x) = s
  <2>1. Append(fit, x) \in Seq(Inodes) /\ Len(Append(fit, x)) = n
    BY <1>1, <1>3, <1>4, AppendProperties
  <2>2. \A k \in 1..n : Append(fit, x)[k] = s[k]
    BY <1>1, <1>2, <1>3, <1>4, AppendProperties
  <2>. QED
    BY <2>1, <2>2, SeqEqual
<1>6. Counted(c, fit) \in Counts /\ Counted(c, s) \in Counts
  BY <1>3, CountedType
<1>7. Counted(c, s) = [Counted(c, fit) EXCEPT ![x] = @ + 1]
  <2>1. Counted(c, Append(fit, x)) = [Counted(c, fit) EXCEPT ![x] = @ + 1]
    BY <1>3, <1>4, CountedAppend, Zenon
  <2>. QED
    BY <1>5, <2>1, Zenon
<1>. PICK e : e = Counted(c, s)
  OBVIOUS
<1>. PICK g : g = Counted(c, fit)
  OBVIOUS
<1>8. x \in AllInodes /\ e[x] = g[x] + 1 /\ g[x] \in Nat /\ 1 <= e[x]
  BY <1>4, <1>6, <1>7 DEF Counts, Inodes
<1>9. [e EXCEPT ![x] = @ - 1] = g
  <2>1. e \in [AllInodes -> Nat] /\ g \in [AllInodes -> Nat]
    BY <1>6 DEF Counts
  <2>2. \A i \in AllInodes \ {x} : e[i] = g[i]
    BY <1>7, <1>8, <2>1
  <2>3. \A i \in AllInodes : [e EXCEPT ![x] = @ - 1][i] = g[i]
    BY <1>8, <2>1, <2>2
  <2>. QED
    BY <2>1, <2>3
<1>. HIDE DEF u
<1>10. /\ Sound(u) /\ CountedBy(u, [e EXCEPT ![x] = @ - 1])
       /\ SameDirs(t, u) /\ DOMAIN u.nodes \subseteq DOMAIN t.nodes
  <2>1. CountedBy(t, e) /\ e \in Counts /\ 1 \in Nat \ {0} /\ 1 <= e[x] /\ x \in Inodes
    BY <1>4, <1>6, <1>8
  <2>. HIDE DEF x
  <2>2. /\ Sound(Drop(t, x, 1)) /\ CountedBy(Drop(t, x, 1), [e EXCEPT ![x] = @ - 1])
        /\ SameDirs(t, Drop(t, x, 1)) /\ DOMAIN Drop(t, x, 1).nodes \subseteq DOMAIN t.nodes
    BY <2>1, DropResult
  <2>. QED
    BY <2>2 DEF u
<1>. QED
  BY <1>3, <1>9, <1>10 DEF u, x, fit

\* A table that counts the inodes s on top of c, of which the kernel may know fewer.
LEMMA RepliesKeep ==
    ASSUME IInv, NEW c, Covers(c), NEW h \in scan, NEW s \in Seq(Inodes),
           NEW u, Sound(u), CountedBy(u, Counted(c, s)), SameDirs(Current, u), SetTable(u),
           known' \in [AllInodes -> 0..MaxLookups],
           \A i \in AllInodes : known[i] <= known'[i] /\ known'[i] <= Counted(c, s)[i],
           dentries' \subseteq AllInodes \X Names, changed' = {}, UNCHANGED <<kind, entry, opened, scan>>
    PROVE  StepKeeps(c)
<1>1. Current' = u
  BY SetTableResult
<1>2. StateType' /\ StateType
  BY DEF IInv, StateType
<1>. PICK d : d = Counted(c, s)
  OBVIOUS
<1>3. Covers(d)'
  BY <1>1, CountedType DEF Covers
<1>4. \A o \in scan : o.inode \in Held'
  <2>. TAKE o \in scan
  <2>1. o.inode \in Held /\ o.inode \in AllInodes
    BY HeldIsKnown DEF IInv, HandlesInv
  <2>2. known[o.inode] \in Nat /\ known'[o.inode] \in Nat /\ known[o.inode] <= known'[o.inode]
    BY <1>2, <2>1, SectionIsSane DEF StateType
  <2>. QED
    BY <2>1, <2>2 DEF Held
<1>5. scan # {}
  OBVIOUS
<1>. QED
  BY <1>1, <1>2, <1>3, <1>4, <1>5, StepWithTable DEF IInv

\* What the kernel knows covers what is replied to it, as the counts do.
LEMMA RepliedIsCounted ==
    ASSUME IInv, NEW c, Covers(c), NEW s \in Seq(Inodes)
    PROVE  /\ Replied(s) = Counted(known, s)
           /\ Replied(s) \in [AllInodes -> Nat]
           /\ \A i \in AllInodes : known[i] <= Replied(s)[i] /\ Replied(s)[i] <= Counted(c, s)[i]
<1>1. known \in Counts /\ c \in Counts
  BY SectionIsSane DEF IInv, StateType, Counts, Covers
<1>2. Replied(s) = Counted(known, s)
  BY DEF Replied, Counted
<1>3. Replied(s) \in [AllInodes -> Nat] /\ \A i \in AllInodes : known[i] <= Replied(s)[i]
  BY <1>1, <1>2, CountedType DEF Counts
<1>4. ASSUME NEW i \in AllInodes PROVE Replied(s)[i] <= Counted(c, s)[i]
  <2>1. Cardinality({k \in DOMAIN s : s[k] = i}) \in Nat
    BY <1>1, CountedType, FS_CardinalityType
  <2>2. known[i] \in Nat /\ c[i] \in Nat /\ known[i] <= c[i]
    BY <1>1 DEF Counts, Covers
  <2>. QED
    BY <2>1, <2>2 DEF Replied, Counted
<1>. QED
  BY <1>2, <1>3, <1>4

\* readdir counts the entries that fit, and drops again the one that did not.
LEMMA ReaddirKeeps ==
    ASSUME IInv, NEW c, Covers(c), NEW h \in scan,
           NEW first \in 1..Len(h.found), NEW last \in 1..Len(h.found), first <= last,
           Readdir(h, first, last)
    PROVE  StepKeeps(c)
<1>1. h.found \in Seq(Entries) /\ h.inode \in AllInodes /\ Len(h.found) \in Nat
  BY LenProperties DEF IInv, StateType
<1>. DEFINE whole == last = Len(h.found)
            upto == IF whole THEN last ELSE last + 1
            a == AdmitAll(h.inode, SubSeq(h.found, first, upto))
            fit == IF whole THEN a.inodes ELSE Front(a.inodes)
            u == IF whole THEN a.t ELSE Drop(a.t, Last(a.inodes), 1)
<1>2. /\ ~a.failed
      /\ known' = Replied(fit)
      /\ \A i \in AllInodes : known'[i] <= MaxLookups
      /\ dentries' = dentries \union {<<h.inode, h.found[k].name>> : k \in first..(first + Len(fit) - 1)}
      /\ SetTable(u)
      /\ changed' = {} /\ UNCHANGED <<kind, entry, opened, scan>>
  BY DEF Readdir, tree
<1>3. upto \in 0..Len(h.found) /\ upto \in Int /\ first \in Int /\ first <= upto /\ 1 <= first
  BY <1>1
<1>4. Admitted(a, upto + 1 - first, c)
  <2>. HIDE DEF upto
  <2>. QED
    BY <1>3, AdmittedFromScan
<1>5. /\ a.inodes \in Seq(Inodes) /\ Len(a.inodes) = upto + 1 - first
      /\ Sound(a.t) /\ CountedBy(a.t, Counted(c, a.inodes)) /\ SameDirs(Current, a.t)
  BY <1>2, <1>4 DEF Admitted
<1>6. c \in Counts
  BY DEF Covers
<1>. HIDE DEF a
<1>7. /\ fit \in Seq(Inodes)
      /\ Len(fit) = last + 1 - first
      /\ Sound(u) /\ CountedBy(u, Counted(c, fit)) /\ SameDirs(Current, u)
  <2>1. CASE whole
    BY <2>1, <1>1, <1>3, <1>5
  <2>2. CASE ~whole
    <3>1. Len(a.inodes) >= 1 /\ Len(a.inodes) - 1 = last + 1 - first
      BY <2>2, <1>1, <1>3, <1>5
    <3>2. fit = Front(a.inodes) /\ u = Drop(a.t, Last(a.inodes), 1)
      BY <2>2
    <3>. HIDE DEF fit, u
    <3>3. /\ fit \in Seq(Inodes) /\ Len(fit) = last + 1 - first
          /\ Sound(u) /\ CountedBy(u, Counted(c, fit))
          /\ SameDirs(a.t, u) /\ DOMAIN u.nodes \subseteq DOMAIN a.t.nodes
      BY <1>5, <1>6, <3>1, <3>2, LastDropped
    <3>4. DOMAIN Current.nodes \subseteq DOMAIN a.t.nodes
      BY <1>2, <1>4 DEF Admitted, Current
    <3>5. SameDirs(Current, u)
      BY <3>3, <3>4, <1>5 DEF SameDirs
    <3>. QED
      BY <3>3, <3>5
  <2>. QED
    BY <2>1, <2>2
<1>. HIDE DEF fit, u
<1>8. dentries' \subseteq AllInodes \X Names
  <2>1. first + Len(fit) - 1 = last
    BY <1>3, <1>7, <1>1
  <2>2. ASSUME NEW k \in first..last PROVE h.found[k].name \in Names
    <3>1. k \in 1..Len(h.found)
      BY <1>1, <1>3
    <3>2. h.found[k] \in Entries
      BY <1>1, <3>1, ElementOfSeq
    <3>. QED
      BY <3>2 DEF Entries
  <2>. QED
    BY <1>1, <1>2, <2>1, <2>2 DEF IInv, StateType
<1>9. /\ known' \in [AllInodes -> 0..MaxLookups]
      /\ \A i \in AllInodes : known[i] <= known'[i] /\ known'[i] <= Counted(c, fit)[i]
  <2>1. /\ Replied(fit) \in [AllInodes -> Nat]
        /\ \A i \in AllInodes : known[i] <= Replied(fit)[i] /\ Replied(fit)[i] <= Counted(c, fit)[i]
    BY <1>7, RepliedIsCounted
  <2>. QED
    BY <2>1, <1>2, SectionIsSane
<1>. QED
  BY <1>2, <1>7, <1>8, <1>9, RepliesKeep

\* A readdir that fails leaves its entries counted, and the kernel knows of none of them.
LEMMA ReaddirFailsKeeps ==
    ASSUME IInv, NEW c, Covers(c), NEW h \in scan,
           NEW first \in 1..Len(h.found), NEW last \in 1..Len(h.found), first <= last,
           ReaddirFails(h, first, last)
    PROVE  StepKeeps(c)
<1>1. h.found \in Seq(Entries) /\ Len(h.found) \in Nat
  BY LenProperties DEF IInv, StateType
<1>. DEFINE a == AdmitAll(h.inode, SubSeq(h.found, first, last - 1))
<1>2. /\ ~a.failed /\ SetTable(a.t)
      /\ changed' = {} /\ UNCHANGED <<kind, entry, known, dentries, opened, scan>>
  BY DEF ReaddirFails, tree, kernel
<1>. PICK upto : upto = last - 1
  OBVIOUS
<1>3. upto \in 0..Len(h.found) /\ first <= upto + 1
  BY <1>1
<1>4. Admitted(a, upto + 1 - first, c)
  BY <1>3, AdmittedFromScan
<1>5. a.inodes \in Seq(Inodes) /\ Sound(a.t) /\ CountedBy(a.t, Counted(c, a.inodes)) /\ SameDirs(Current, a.t)
  BY <1>2, <1>4 DEF Admitted
<1>. HIDE DEF a
<1>6. ASSUME NEW i \in AllInodes PROVE known[i] <= known'[i] /\ known'[i] <= Counted(c, a.inodes)[i]
  <2>1. known[i] \in Nat /\ known[i] <= Replied(a.inodes)[i]
        /\ Replied(a.inodes)[i] <= Counted(c, a.inodes)[i] /\ Replied(a.inodes)[i] \in Nat
    BY <1>5, RepliedIsCounted, SectionIsSane DEF IInv, StateType
  <2>2. Counted(c, a.inodes)[i] \in Nat
    BY <1>5, CountedType DEF Covers, Counts
  <2>. QED
    BY <1>2, <2>1, <2>2
<1>. QED
  BY <1>2, <1>5, <1>6, RepliesKeep DEF IInv, StateType

----------------------------------------------------------------------------
(* The theorems.                                                            *)

\* A step of a handler or of another process.
LEMMA NextKeeps ==
    ASSUME IInv, NEW c, Covers(c), Next
    PROVE  StepKeeps(c)
<1>1. CASE OnNames
  BY <1>1, LookupKeeps, MakeKeeps, LinkKeeps, UnlinkKeeps, RenameKeeps DEF OnNames
<1>2. CASE OnInodes
  BY <1>2, ForgetKeeps, FilesKeep DEF OnInodes
<1>3. CASE OnDirectories
  BY <1>3, OpendirKeeps, ScanKeeps, ReaddirKeeps, ReaddirFailsKeeps DEF OnDirectories
<1>4. CASE Outside
  BY <1>4, OutsideKeeps
<1>. QED
  BY <1>1, <1>2, <1>3, <1>4 DEF Next, Handler

\* Only the root is in the table at first, and the kernel knows of nothing.
LEMMA InitCovers ==
    ASSUME Init
    PROVE  StateType /\ Sound(Current) /\ scan = {} /\ Covers(known)
<1>1. RootInode \in AllInodes /\ RootInode \in Nat
  BY SectionIsSane DEF RootInode, AllInodes
<1>. DEFINE root == [fd |-> Root, path |-> <<>>, parent |-> None, name |-> None, key |-> Root, refs |-> 1]
<1>2. /\ nodes \in [{RootInode} -> {root}] /\ nodes[RootInode] = root /\ DOMAIN nodes = {RootInode}
      /\ byKey = [id \in AllIds |-> IF id = Root THEN RootInode ELSE None]
      /\ known = [i \in AllInodes |-> 0] /\ scan = {}
  BY DEF Init
<1>3. root \in DirNodes
  <2>1. <<>> \in Seq(Names) /\ Root \in AllIds
    BY EmptySeq DEF AllIds
  <2>. QED
    BY <2>1 DEF DirNodes
<1>4. root.fd = Root /\ root.path = <<>> /\ root.key = Root
  OBVIOUS
<1>. HIDE DEF root
<1>5. Root # None
  BY SectionIsSane
<1>6. StateType
  <2>1. /\ kind = [id \in AllIds |-> IF id = Root THEN "dir" ELSE "file"]
        /\ entry = [s \in Slots |-> None] /\ dentries = {} /\ opened = {} /\ changed = {}
    BY DEF Init
  <2>. QED
    BY <1>2, <2>1, SectionIsSane DEF StateType
<1>7. Current \in Tables
  <2>1. nodes \in [{RootInode} -> DirNodes \union FileNodes]
    BY <1>2, <1>3
  <2>2. {RootInode} \in SUBSET AllInodes
    BY <1>1
  <2>3. byKey \in [AllIds -> AllInodes \union {None}]
    BY <1>1, <1>2
  <2>. QED
    BY <2>1, <2>2, <2>3 DEF Current, Tables
<1>8. ClosedIn(Current)
  BY <1>2, <1>4, <1>5 DEF ClosedIn, Current, IsDir
<1>9. VisibleIn(Current)
  BY <1>2, <1>4, <1>5 DEF VisibleIn, Current, IsDir, PathIn, Visible, DirVisible
<1>10. Covers(known)
  <2>1. known \in Counts
    BY <1>2 DEF Counts
  <2>2. CountedBy(Current, known)
    BY <1>2 DEF CountedBy, Current
  <2>. QED
    BY <1>2, <2>1, <2>2 DEF Covers
<1>. QED
  BY <1>2, <1>6, <1>7, <1>8, <1>9, <1>10 DEF Sound

\* The table is sound and its counts cover what the kernel holds, through every handler and
\* whatever other processes do to the tree.
THEOREM TableInvariant == Spec => []IInv
<1>1. Init => IInv
  BY InitCovers DEF IInv, HandlesInv
<1>2. ASSUME IInv, [Next]_vars PROVE IInv'
  <2>1. PICK c : Covers(c)
    BY <1>2 DEF IInv
  <2>2. CASE Next
    <3>1. StepKeeps(c)
      BY <1>2, <2>1, <2>2, NextKeeps
    <3>. QED
      BY <3>1 DEF StepKeeps, IInv
  <2>3. CASE UNCHANGED vars
    <3>1. StateType'
      BY <1>2, <2>3 DEF vars, tree, table, kernel, IInv, StateType
    <3>2. StepKeeps(c)
      BY <1>2, <2>1, <2>3, <3>1, QuietStep DEF vars, table, kernel
    <3>. QED
      BY <3>2 DEF StepKeeps, IInv
  <2>. QED
    BY <1>2, <2>2, <2>3
<1>. QED
  BY <1>1, <1>2, PTL DEF Spec

\* Every variable stays of its type, and the kernel's counts within their bound.
THEOREM TypeCorrect == Spec => []TypeOK
<1>1. ASSUME IInv PROVE TypeOK
  <2>1. PICK D \in SUBSET AllInodes : nodes \in [D -> DirNodes \union FileNodes]
    BY <1>1 DEF IInv, Sound, Tables, Current
  <2>2. byKey \in [AllIds -> AllInodes \union {None}]
    BY <1>1 DEF IInv, Sound, Tables, Current
  <2>3. DirNodes \union FileNodes = Node
    BY DEF DirNodes, FileNodes, Node, AllIds
  <2>. QED
    BY <1>1, <2>1, <2>2, <2>3 DEF TypeOK, IInv, StateType
<1>. QED
  BY <1>1, TableInvariant, PTL

\* What the kernel holds is in the table, and so are the directory of every file in it and
\* the inode of every key: no request meets a KeyError.
THEOREM ClosedTable == Spec => []TableIsClosed
<1>1. ASSUME IInv PROVE TableIsClosed
  <2>1. Held \subseteq DOMAIN nodes
    BY <1>1, HeldIsKnown DEF IInv
  <2>. QED
    BY <1>1, <2>1 DEF IInv, Sound, ClosedIn, HandlesInv, Current, TableIsClosed
<1>. QED
  BY <1>1, TableInvariant, PTL

\* Whatever moved, was replaced or had its inode number used again, each inode is recorded
\* at a place the policy lets be seen.
THEOREM VisibleTable == Spec => []TableIsVisible
<1>1. ASSUME IInv PROVE TableIsVisible
  BY <1>1 DEF IInv, Sound, VisibleIn, TableIsVisible, PathOf, Current
<1>. QED
  BY <1>1, TableInvariant, PTL

\* An inode the kernel holds, or a file is recorded in, is never dropped: its count is at
\* least what both come to.
THEOREM CountsCover == Spec => []RefsCover
<1>1. ASSUME IInv PROVE RefsCover
  <2>1. PICK c : Covers(c)
    BY <1>1 DEF IInv
  <2>2. ASSUME NEW i \in DOMAIN nodes \ {RootInode}
        PROVE  nodes[i].refs >= known[i] + Cardinality(Pins(i))
    <3>1. Current \in Tables /\ i \in DOMAIN Current.nodes
      BY <1>1 DEF IInv, Sound, Current
    <3>2. i \in AllInodes /\ Cardinality(PinsIn(Current, i)) \in Nat
      BY <3>1, NodeTypes, PinsAreFinite
    <3>3. Pins(i) = PinsIn(Current, i)
      BY DEF Pins, PinsIn, Current
    <3>4. nodes[i].refs = c[i] + Cardinality(PinsIn(Current, i))
      BY <2>1 DEF Covers, CountedBy, Current
    <3>5. known[i] <= c[i] /\ c[i] \in Nat /\ known[i] \in Nat
      BY <1>1, <2>1, <3>2, SectionIsSane DEF Covers, Counts, IInv, StateType
    <3>. QED
      BY <3>2, <3>3, <3>4, <3>5
  <2>. QED
    BY <2>2 DEF RefsCover
<1>. QED
  BY <1>1, TableInvariant, PTL

\* Where no directory is read the counts are exact: nothing is kept for ever either.
THEOREM CountsAreExact ==
    ASSUME MaxScans = 0
    PROVE  Spec => []RefsExact
<1>. DEFINE Exact == StateType /\ Sound(Current) /\ scan = {} /\ Covers(known)
<1>1. Init => Exact
  BY InitCovers
<1>2. ASSUME Exact, [Next]_vars PROVE Exact'
  <2>1. PICK c : c = known
    OBVIOUS
  <2>2. IInv /\ Covers(c)
    BY <1>2, <2>1 DEF IInv, HandlesInv
  <2>3. CASE Next
    <3>1. scan' = {}
      <4>1. Cardinality(scan) = 0
        BY <1>2, FS_EmptySet
      <4>2. ASSUME NEW i \in HeldDirs PROVE ~Opendir(i)
        BY <4>1 DEF Opendir
      <4>3. CASE OnNames
        <5>1. ASSUME NEW p, NEW n, NEW q, NEW m,
                     \/ Lookup(p, n) \/ Make(p, n, q) \/ Link(m, p, n) \/ Unlink(p, n) \/ Rename(p, n, q, m)
              PROVE  scan' = scan
          BY <5>1 DEF Lookup, Make, Link, Unlink, Rename
        <5>. QED
          BY <1>2, <4>3, <5>1 DEF OnNames
      <4>4. CASE OnInodes
        BY <1>2, <4>4 DEF OnInodes, Forget, Open, Write, Release, Setattr
      <4>5. CASE OnDirectories
        BY <1>2, <4>2, <4>5 DEF OnDirectories
      <4>6. CASE Outside
        BY <1>2, <4>6 DEF Outside
      <4>. QED
        BY <2>3, <4>3, <4>4, <4>5, <4>6 DEF Next, Handler
    <3>2. StepKeeps(c)
      BY <2>2, <2>3, NextKeeps
    <3>3. PICK d : Covers(d)' /\ d = known'
      BY <1>2, <2>1, <3>2 DEF StepKeeps
    <3>4. Covers(known)'
      BY <3>3 DEF Covers
    <3>. QED
      BY <3>1, <3>2, <3>4 DEF StepKeeps
  <2>4. CASE UNCHANGED vars
    BY <1>2, <2>4 DEF vars, tree, table, kernel, StateType, Current, Covers
  <2>. QED
    BY <1>2, <2>3, <2>4
<1>3. ASSUME Exact PROVE RefsExact
  BY <1>3 DEF RefsExact, Covers, CountedBy, Current, Pins, PinsIn
<1>. QED
  BY <1>1, <1>2, <1>3, PTL DEF Spec

=============================================================================

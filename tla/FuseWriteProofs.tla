-------------------------- MODULE FuseWriteProofs --------------------------
(***************************************************************************)
(* Proofs about FuseView, for any names, inode numbers, sections and       *)
(* bounds, of what is changed through the view: only what the policy lets  *)
(* be written.  They ask for a backing filesystem that tells all names     *)
(* apart, since unlink and rename do not ask for the stored spelling, and  *)
(* for other processes that move nothing, since a directory moved away     *)
(* is still where the view recorded it, as far as the view knows.          *)
(***************************************************************************)
EXTENDS FuseViewProofs

\* No two names are alike to the backing filesystem.
NoFolding == \A m, n \in Names : Fold[m] = Fold[n] => m = n

----------------------------------------------------------------------------
(* The inductive invariant, on top of that of FuseViewProofs.  The parts    *)
(* about a table take the backing tree as arguments, the kinds kd and the   *)
(* entries en, since an admission follows the change it is a reply to.      *)

\* An open directory is where it is recorded, as long as it has a name at all.
Place(fd, path, kd, en) ==
    /\ fd = Root => path = <<>>
    /\ fd \in Ids => /\ kd[fd] = "dir"
                     /\ \A s \in Slots : en[s] = fd => s[1] = Root /\ path = <<s[2]>>

PlacedIn(t, kd, en) == \A i \in DOMAIN t.nodes : Place(t.nodes[i].fd, t.nodes[i].path, kd, en)

\* Directories have one name, and only they have entries.
TreeInv ==
    /\ \A d \in Ids : kind[d] = "dir" => \A s, r \in Links(d) : s[1] = Root /\ s = r
    /\ \A s \in Slots : entry[s] # None => s[1] \in Reachable

WritableFile(id) == \A s \in Slots : entry[s] = id => \A path \in PathsOf(s) : MayWrite(path)

\* A file open for writing has only names that may be written, but for those lent to it.
Writable(o) ==
    \A s \in Slots \ o.lent : entry[s] = o.id => \A path \in PathsOf(s) : MayWrite(path)

WriteInv == \A o \in opened : o.write => Writable(o)

WInv == PlacedIn(Current, kind, entry) /\ TreeInv /\ WriteInv

----------------------------------------------------------------------------
(* The table.                                                               *)

\* A table whose directories are those of another is placed as that one is.
LEMMA SameDirsPlaced ==
    ASSUME NEW t, NEW u, NEW kd, NEW en, PlacedIn(t, kd, en),
           SameDirs(t, u), DOMAIN u.nodes \subseteq DOMAIN t.nodes
    PROVE  PlacedIn(u, kd, en)
BY DEF PlacedIn, SameDirs

\* A directory to be added is opened where it is recorded.
FoundAt(t, p, name, st, at, kd, en) ==
    ~Reused(t, p, name, st) /\ st.dir => Place(at, Append(t.nodes[p].path, name), kd, en)

\* admit() adds directories where they are.
LEMMA AdmitPlaced ==
    ASSUME NEW t, Sound(t), NEW kd, NEW en, PlacedIn(t, kd, en),
           NEW p \in DOMAIN t.nodes, NEW name, NEW st, st.key \in Ids, NEW at,
           FoundAt(t, p, name, st, at, kd, en)
    PROVE  PlacedIn(Admit(t, p, name, st, at).t, kd, en)
<1>1. CASE Reused(t, p, name, st)
  <2>. DEFINE i == t.byKey[st.key]
              u == Recounted(t, i, t.nodes[i].refs + 1)
  <2>1. i \in DOMAIN t.nodes /\ t.nodes[i].refs + 1 \in Nat
    BY <1>1, NodeTypes DEF Reused, Sound, ClosedIn, AllIds
  <2>2. Admit(t, p, name, st, at).t = u
    BY <1>1 DEF Admit, Recounted
  <2>. HIDE DEF i
  <2>3. SameDirs(t, u) /\ DOMAIN u.nodes = DOMAIN t.nodes
    BY <2>1, RecountedResult
  <2>. HIDE DEF u
  <2>. QED
    BY <2>2, <2>3, SameDirsPlaced
<1>2. CASE ~Reused(t, p, name, st)
  <2>. DEFINE i == Min(Unused(t))
              node == NodeFor(t, p, name, st, at)
              u == IF st.dir \/ p = RootInode THEN t ELSE Recounted(t, p, t.nodes[p].refs + 1)
              v == Admit(t, p, name, st, at).t
  <2>1. t.nodes[p].refs + 1 \in Nat
    BY NodeTypes DEF Sound
  <2>2. /\ DOMAIN u.nodes = DOMAIN t.nodes
        /\ \A j \in DOMAIN t.nodes : u.nodes[j].fd = t.nodes[j].fd /\ u.nodes[j].path = t.nodes[j].path
    <3>1. /\ DOMAIN Recounted(t, p, t.nodes[p].refs + 1).nodes = DOMAIN t.nodes
          /\ SameDirs(t, Recounted(t, p, t.nodes[p].refs + 1))
      BY <2>1, RecountedResult
    <3>. QED
      BY <3>1 DEF SameDirs
  <2>3. v.nodes = [j \in DOMAIN u.nodes \union {i} |-> IF j = i THEN node ELSE u.nodes[j]]
    BY <1>2 DEF Admit, Pinned, Recounted
  <2>4. Place(node.fd, node.path, kd, en)
    <3>1. CASE st.dir
      <4>1. node.fd = at /\ node.path = Append(t.nodes[p].path, name)
        BY <3>1 DEF NodeFor
      <4>. QED
        BY <1>2, <3>1, <4>1 DEF FoundAt
    <3>2. CASE ~st.dir
      BY <3>2, SectionIsSane DEF NodeFor, Place
    <3>. QED
      BY <3>1, <3>2
  <2>. HIDE DEF i, node, u, v
  <2>5. ASSUME NEW j \in DOMAIN v.nodes PROVE Place(v.nodes[j].fd, v.nodes[j].path, kd, en)
    <3>1. CASE j = i
      BY <2>3, <2>4, <3>1
    <3>2. CASE j # i
      BY <2>2, <2>3, <3>2 DEF PlacedIn
    <3>. QED
      BY <3>1, <3>2
  <2>6. PlacedIn(v, kd, en)
    BY <2>5 DEF PlacedIn
  <2>. QED
    BY <2>6 DEF v
<1>. QED
  BY <1>1, <1>2

----------------------------------------------------------------------------
(* Names and the places they lead to.                                       *)

\* Where all names are told apart, a name is stored as it is given.
LEMMA NamesAreExact ==
    ASSUME NoFolding, NEW dir, NEW name \in Names
    PROVE  Stored(dir, name) = name /\ Resolve(dir, name) = entry[<<dir, name>>]
<1>. DEFINE alike == {n \in Names : Fold[n] = Fold[name] /\ entry[<<dir, n>>] # None}
<1>1. alike \subseteq {name}
  BY DEF NoFolding
<1>2. Stored(dir, name) = name
  BY <1>1 DEF Stored
<1>. QED
  BY <1>2 DEF Resolve

\* A path of one or two names.
LEMMA ShortPaths ==
    /\ \A n : Append(<<>>, n) = <<n>>
    /\ \A m, n : Append(<<m>>, n) = <<m, n>>
<1>1. ASSUME NEW n PROVE Append(<<>>, n) = <<n>>
  OBVIOUS
<1>2. ASSUME NEW m, NEW n PROVE Append(<<m>>, n) = <<m, n>>
  <2>1. /\ <<m>> \in Seq({m, n}) /\ <<m, n>> \in Seq({m, n})
        /\ Len(<<m>>) = 1 /\ Len(<<m, n>>) = 2
    OBVIOUS
  <2>2. /\ Append(<<m>>, n) \in Seq({m, n}) /\ Len(Append(<<m>>, n)) = 2
        /\ Append(<<m>>, n)[1] = m /\ Append(<<m>>, n)[2] = n
    BY <2>1, AppendProperties
  <2>3. \A k \in 1..2 : Append(<<m>>, n)[k] = <<m, n>>[k]
    BY <2>2
  <2>. QED
    BY <2>1, <2>2, <2>3, SeqEqual
<1>. QED
  BY <1>1, <1>2

\* A slot of the root or of a directory in use.
Inside(s) ==
    /\ s \in Slots
    /\ \/ s[1] = Root
       \/ s[1] \in Ids /\ kind[s[1]] = "dir" /\ InUse(s[1])

\* A name in a directory of the table leads to the path the view takes it for, and no other.
LEMMA SlotOfName ==
    ASSUME Sound(Current), PlacedIn(Current, kind, entry),
           NEW p \in DOMAIN nodes, IsDir(Current, p), NEW name \in Names
    PROVE  /\ Inside(<<FdOf(p), name>>)
           /\ FdOf(p) \in AllIds
           /\ \A path \in PathsOf(<<FdOf(p), name>>) : path = ChildPath(p, name)
<1>1. FdOf(p) \in AllIds /\ nodes[p].fd = FdOf(p) /\ nodes[p].path \in Seq(Names)
  BY NodeTypes DEF Sound, Current, FdOf
<1>2. Place(FdOf(p), nodes[p].path, kind, entry)
  BY <1>1 DEF PlacedIn, Current
<1>3. InUse(FdOf(p))
  BY <1>1 DEF InUse
<1>4. Inside(<<FdOf(p), name>>)
  <2>1. FdOf(p) = Root \/ (FdOf(p) \in Ids /\ kind[FdOf(p)] = "dir")
    <3>1. FdOf(p) \in Ids => kind[FdOf(p)] = "dir"
      BY <1>2, Zenon DEF Place
    <3>. QED
      BY <1>1, <3>1, Zenon DEF AllIds
  <2>2. <<FdOf(p), name>> \in Slots
    BY <1>1 DEF Slots
  <2>. QED
    BY <1>3, <2>1, <2>2 DEF Inside
<1>5. CASE FdOf(p) = Root
  <2>1. ChildPath(p, name) = <<name>>
    BY <1>2, <1>5, ShortPaths DEF ChildPath, Place
  <2>. QED
    BY <1>1, <1>4, <1>5, <2>1 DEF PathsOf
<1>6. CASE FdOf(p) # Root
  <2>1. FdOf(p) \in Ids
    BY <1>1, <1>6 DEF AllIds
  <2>2. \A s \in Links(FdOf(p)) : nodes[p].path = <<s[2]>>
    BY <1>2, <2>1 DEF Place, Links
  <2>3. PathsOf(<<FdOf(p), name>>) = {<<s[2], name>> : s \in Links(FdOf(p))}
    BY <1>6 DEF PathsOf
  <2>4. \A s \in Links(FdOf(p)) : ChildPath(p, name) = <<s[2], name>>
    BY <2>2, ShortPaths DEF ChildPath
  <2>. QED
    BY <1>1, <1>4, <2>3, <2>4
<1>. QED
  BY <1>5, <1>6

\* A directory found by a name in another is where that name says.
LEMMA FoundInPlace ==
    ASSUME StateType, Sound(Current), PlacedIn(Current, kind, entry), TreeInv,
           NEW p \in DOMAIN nodes, IsDir(Current, p), NEW name \in Names,
           NEW at, at = entry[<<FdOf(p), name>>], at # None, kind[at] = "dir"
    PROVE  Place(at, ChildPath(p, name), kind, entry)
<1>1. Inside(<<FdOf(p), name>>) /\ FdOf(p) \in AllIds
  BY SlotOfName
<1>2. at \in Ids /\ at # Root
  BY <1>1, SectionIsSane DEF Inside, StateType
<1>3. <<FdOf(p), name>> \in Links(at)
  BY <1>1 DEF Links, Inside
<1>4. \A s \in Links(at) : s = <<FdOf(p), name>> /\ FdOf(p) = Root
  BY <1>2, <1>3 DEF TreeInv
<1>5. nodes[p].path = <<>>
  BY <1>3, <1>4 DEF PlacedIn, Place, Current, FdOf
<1>6. ChildPath(p, name) = <<name>>
  BY <1>5, ShortPaths DEF ChildPath
<1>. QED
  BY <1>2, <1>4, <1>6 DEF Place, Links

\* A tree has finitely many slots.
LEMMA SlotsAreFinite == IsFiniteSet(Slots)
<1>1. IsFiniteSet(AllIds)
  BY SectionIsSane, FS_AddElement DEF AllIds
<1>. QED
  BY <1>1, SectionIsSane, FS_Product DEF Slots

\* writable_inode: whatever is changed through the inode has only names that may be written.
LEMMA WritableInodeResult ==
    ASSUME NoFolding, StateType, Sound(Current), PlacedIn(Current, kind, entry), TreeInv,
           NEW i \in DOMAIN nodes, WritableInode(i)
    PROVE  WritableFile(IF IsDir(Current, i) THEN nodes[i].fd ELSE nodes[i].key)
<1>1. MayWrite(PathOf(i)) /\ i # RootInode /\ Present(i)
  BY DEF WritableInode
<1>2. CASE IsDir(Current, i)
  <2>1. PathOf(i) = nodes[i].path /\ nodes[i].path # <<>>
    BY <1>1, <1>2 DEF PathOf, PathIn, Current, MayWrite
  <2>2. Place(nodes[i].fd, nodes[i].path, kind, entry) /\ nodes[i].fd \in AllIds
    BY <1>2, NodeTypes DEF PlacedIn, Current, Sound
  <2>3. nodes[i].fd \in Ids
    BY <2>1, <2>2 DEF Place, AllIds
  <2>4. ASSUME NEW s \in Slots, entry[s] = nodes[i].fd PROVE PathsOf(s) = {nodes[i].path}
    BY <2>2, <2>3, <2>4 DEF Place, PathsOf
  <2>. QED
    BY <1>1, <1>2, <2>1, <2>4 DEF WritableFile
<1>3. CASE ~IsDir(Current, i)
  <2>. DEFINE q == nodes[i].parent
              name == nodes[i].name
              id == nodes[i].key
  <2>1. q \in DOMAIN nodes /\ IsDir(Current, q) /\ name \in Names
    BY <1>3, NodeTypes DEF Sound, ClosedIn, Current
  <2>2. id \in Ids
    BY <1>1 DEF Sound, ClosedIn, Current
  <2>3. entry[<<FdOf(q), name>>] = id
    BY <1>1, <1>3, <2>1, NamesAreExact DEF Present
  <2>4. Inside(<<FdOf(q), name>>) /\ \A path \in PathsOf(<<FdOf(q), name>>) : path = ChildPath(q, name)
    BY <2>1, SlotOfName
  <2>5. ChildPath(q, name) = PathOf(i)
    BY <1>3 DEF ChildPath, PathOf, PathIn, Current
  <2>6. <<FdOf(q), name>> \in Links(id)
    BY <2>3, <2>4 DEF Links, Inside
  <2>7. \A s \in Links(id) : s = <<FdOf(q), name>>
    <3>1. CASE kind[id] = "dir"
      BY <2>2, <2>6, <3>1 DEF TreeInv
    <3>2. CASE kind[id] # "dir"
      <4>1. kind[id] = "file"
        BY <2>2, <3>2 DEF StateType, AllIds
      <4>2. Cardinality(Links(id)) = 1
        BY <1>3, <4>1 DEF WritableInode
      <4>3. IsFiniteSet(Links(id))
        BY SlotsAreFinite, FS_Subset DEF Links
      <4>4. \E x : Links(id) = {x}
        BY <4>2, <4>3, FS_Singleton
      <4>. QED
        BY <2>6, <4>4
    <3>. QED
      BY <3>1, <3>2
  <2>. QED
    BY <1>1, <1>3, <2>4, <2>5, <2>7 DEF WritableFile, Links
<1>. QED
  BY <1>2, <1>3

----------------------------------------------------------------------------
(* Changes of the backing tree.                                             *)

\* Directories that somebody knows stay directories, and get no names.
Shrinks ==
    \A d \in Ids : kind[d] = "dir" /\ InUse(d) =>
        /\ kind'[d] = "dir"
        /\ \A s \in Slots : entry'[s] = d => entry[s] = d

\* A new entry: of a new file or directory, or another name of a file.
Added(s, id, made) ==
    /\ s[1] \in Reachable
    /\ entry[s] = None
    /\ \/ ~InUse(id) /\ (made = "dir" => s[1] = Root)
       \/ kind[id] = "file" /\ made = "file"
    /\ \A d \in AllIds : kind'[d] = IF d = id THEN made ELSE kind[d]
    /\ \A r \in Slots : entry'[r] = IF r = s THEN id ELSE entry[r]

\* Adding an entry keeps the tree a tree.
LEMMA AddedTree ==
    ASSUME StateType, TreeInv, NEW s \in Slots, NEW id \in Ids, NEW made \in {"file", "dir"},
           Added(s, id, made)
    PROVE  TreeInv' /\ Shrinks
<1>1. /\ s[1] \in Reachable /\ entry[s] = None
      /\ \A d \in AllIds : kind'[d] = IF d = id THEN made ELSE kind[d]
      /\ \A r \in Slots : entry'[r] = IF r = s THEN id ELSE entry[r]
  BY DEF Added
<1>2. \A d \in Ids : d \in AllIds /\ d # None /\ d # Root
  BY SectionIsSane DEF AllIds
<1>3. ASSUME NEW d \in Ids, d # id PROVE kind'[d] = kind[d] /\ Links(d)' = Links(d)
  BY <1>1, <1>2, <1>3 DEF Links
<1>4. CASE ~InUse(id) /\ (made = "dir" => s[1] = Root)
  <2>1. Links(id) = {} /\ Links(id)' = {s}
    BY <1>1, <1>4 DEF InUse, Links
  <2>2. ASSUME NEW x \in Reachable PROVE x # id /\ x \in Reachable'
    BY <1>2, <1>3, <2>1 DEF Reachable
  <2>3. ASSUME NEW d \in Ids, kind'[d] = "dir", NEW r \in Links(d)', NEW q \in Links(d)'
        PROVE  r[1] = Root /\ r = q
    <3>1. CASE d = id
      BY <1>1, <1>2, <1>4, <2>1, <2>3, <3>1
    <3>2. CASE d # id
      BY <1>3, <2>3, <3>2 DEF TreeInv
    <3>. QED
      BY <3>1, <3>2
  <2>4. ASSUME NEW r \in Slots, entry'[r] # None PROVE r[1] \in Reachable'
    BY <1>1, <2>2, <2>4 DEF TreeInv
  <2>5. Shrinks
    BY <1>1, <1>2, <1>3, <1>4 DEF Shrinks
  <2>. QED
    BY <2>3, <2>4, <2>5 DEF TreeInv
<1>5. CASE kind[id] = "file" /\ made = "file"
  <2>1. kind'[id] = kind[id]
    BY <1>1, <1>2, <1>5
  <2>2. ASSUME NEW x \in Reachable PROVE x # id /\ x \in Reachable'
    BY <1>2, <1>3, <1>5 DEF Reachable
  <2>3. ASSUME NEW d \in Ids, kind'[d] = "dir", NEW r \in Links(d)', NEW q \in Links(d)'
        PROVE  r[1] = Root /\ r = q
    <3>1. d # id
      BY <1>5, <2>1, <2>3
    <3>. QED
      BY <1>3, <2>3, <3>1 DEF TreeInv
  <2>4. ASSUME NEW r \in Slots, entry'[r] # None PROVE r[1] \in Reachable'
    BY <1>1, <2>2, <2>4 DEF TreeInv
  <2>5. Shrinks
    BY <1>1, <1>2, <1>3, <1>5 DEF Shrinks
  <2>. QED
    BY <2>3, <2>4, <2>5 DEF TreeInv
<1>. QED
  BY <1>4, <1>5 DEF Added

\* A step that leaves the names of directories alone keeps the tree a tree.
LEMMA FilesOnlyTree ==
    ASSUME StateType, TreeInv, kind' = kind,
           \A d \in Ids : kind[d] = "dir" => Links(d)' = Links(d),
           \A r \in Slots : entry'[r] # None => r[1] \in Reachable
    PROVE  TreeInv' /\ Shrinks
<1>1. Reachable' = Reachable
  BY DEF Reachable
<1>2. TreeInv'
  BY <1>1 DEF TreeInv
<1>3. Shrinks
  BY DEF Shrinks, Links
<1>. QED
  BY <1>2, <1>3

\* Renaming a file, over another one or not, keeps the tree a tree.
LEMMA RenamedTree ==
    ASSUME StateType, TreeInv, NEW from \in Slots, NEW to \in Slots, NEW id \in Ids,
           entry[from] = id, kind[id] = "file", to[1] \in Reachable,
           entry[to] # None => kind[entry[to]] = "file", RenameEntry(from, to, id), kind' = kind
    PROVE  TreeInv' /\ Shrinks
<1>1. \A r \in Slots : entry'[r] = entry[r] \/ (r \in {from, to} /\ entry'[r] \in {None, id})
  BY DEF RenameEntry, StateType
<1>2. \A r \in {from, to} : entry[r] = None \/ kind[entry[r]] = "file"
  OBVIOUS
<1>3. id # None /\ \A d \in Ids : d # None
  BY SectionIsSane
<1>4. ASSUME NEW d \in Ids, kind[d] = "dir" PROVE Links(d)' = Links(d)
  BY <1>1, <1>2, <1>3, <1>4 DEF Links
<1>5. ASSUME NEW r \in Slots, entry'[r] # None PROVE r[1] \in Reachable
  BY <1>1, <1>3, <1>5 DEF TreeInv
<1>. QED
  BY <1>4, <1>5, FilesOnlyTree

\* Removing an entry keeps the tree a tree, since a directory is empty when it goes.
LEMMA RemovedTree ==
    ASSUME StateType, TreeInv, NEW s \in Slots, entry[s] \in Ids, kind' = kind,
           kind[entry[s]] = "dir" => IsEmpty(entry[s]), entry' = [entry EXCEPT ![s] = None]
    PROVE  TreeInv' /\ Shrinks
<1>1. \A r \in Slots : entry'[r] = IF r = s THEN None ELSE entry[r]
  BY DEF StateType
<1>2. \A d \in Ids : d # None /\ d # Root
  BY SectionIsSane
<1>3. ASSUME NEW d \in Ids PROVE Links(d)' = Links(d) \ {s}
  BY <1>1, <1>2 DEF Links
<1>4. ASSUME NEW r \in Slots, entry'[r] # None PROVE r[1] \in Reachable'
  <2>1. r # s /\ entry[r] # None /\ r[1] \in Reachable
    BY <1>1, <1>4 DEF TreeInv
  <2>2. CASE r[1] = Root
    BY <2>2 DEF Reachable
  <2>3. CASE r[1] # Root
    <3>1. r[1] \in Ids /\ kind[r[1]] = "dir" /\ Links(r[1]) # {}
      BY <2>1, <2>3 DEF Reachable
    <3>2. ~IsEmpty(r[1])
      BY <2>1 DEF IsEmpty, Slots
    <3>3. s \notin Links(r[1])
      BY <3>1, <3>2 DEF Links
    <3>. QED
      BY <1>3, <3>1, <3>3 DEF Reachable
  <2>. QED
    BY <2>2, <2>3
<1>5. ASSUME NEW d \in Ids, kind'[d] = "dir", NEW r \in Links(d)', NEW q \in Links(d)'
      PROVE  r[1] = Root /\ r = q
  BY <1>3, <1>5 DEF TreeInv
<1>6. Shrinks
  BY <1>1, <1>2 DEF Shrinks
<1>. QED
  BY <1>4, <1>5, <1>6 DEF TreeInv

----------------------------------------------------------------------------
(* What such a change leaves alone.                                         *)

\* An entry is in a directory.
LEMMA LinkedInside ==
    ASSUME TreeInv, NEW s \in Slots, entry[s] # None
    PROVE  Inside(s)
BY DEF TreeInv, Reachable, Inside, InUse

\* A slot leads to no path that it did not lead to.
LEMMA PathsShrink ==
    ASSUME Shrinks, NEW s, Inside(s)
    PROVE  PathsOf(s)' \subseteq PathsOf(s)
<1>1. CASE s[1] = Root
  BY <1>1 DEF PathsOf
<1>2. CASE s[1] # Root
  <2>1. Links(s[1])' \subseteq Links(s[1])
    BY <1>2 DEF Inside, Shrinks, Links
  <2>2. PathsOf(s)' = {<<r[2], s[2]>> : r \in Links(s[1])'} /\ PathsOf(s) = {<<r[2], s[2]>> : r \in Links(s[1])}
    BY <1>2 DEF PathsOf
  <2>. QED
    BY <2>1, <2>2
<1>. QED
  BY <1>1, <1>2

\* The table is placed as it was.
LEMMA PlacedStays ==
    ASSUME PlacedIn(Current, kind, entry), Shrinks
    PROVE  PlacedIn(Current, kind', entry')
<1>1. ASSUME NEW i \in DOMAIN nodes PROVE Place(nodes[i].fd, nodes[i].path, kind', entry')
  <2>1. Place(nodes[i].fd, nodes[i].path, kind, entry)
    BY DEF PlacedIn, Current
  <2>2. InUse(nodes[i].fd)
    BY DEF InUse
  <2>. QED
    BY <2>1, <2>2 DEF Place, Shrinks
<1>. QED
  BY <1>1 DEF PlacedIn, Current

\* The file will have only names that could be written before, and those lent to it.
Granted(o) ==
    \A s \in Slots \ o.lent : entry'[s] = o.id => Inside(s) /\ \A path \in PathsOf(s) : MayWrite(path)

\* A step keeps the invariant if it grants the files then open for writing.
LEMMA StepKeepsWrites ==
    ASSUME TreeInv', Shrinks, PlacedIn(Current', kind', entry'),
           \A o \in opened' : o.write => Granted(o)
    PROVE  WInv'
<1>1. ASSUME NEW o \in opened', o.write PROVE Writable(o)'
  BY <1>1, PathsShrink DEF Granted, Writable
<1>. QED
  BY <1>1 DEF WInv, WriteInv

\* A file open for writing is granted if it gets no name.
LEMMA StillGranted ==
    ASSUME WInv, NEW o \in opened, o.write, o.id # None,
           \A s \in Slots : entry'[s] = o.id => entry[s] = o.id
    PROVE  Granted(o)
BY LinkedInside DEF WInv, WriteInv, Writable, Granted

\* It is granted if it gets a name that may be written.
LEMMA GrantedByName ==
    ASSUME Sound(Current), WInv, NEW p \in DOMAIN nodes, IsDir(Current, p), NEW name \in Names,
           WritableName(p, name), NEW o \in opened, o.write, o.id # None,
           \A s \in Slots : entry'[s] = o.id => entry[s] = o.id \/ s = <<FdOf(p), name>>
    PROVE  Granted(o)
<1>1. /\ Inside(<<FdOf(p), name>>)
      /\ \A path \in PathsOf(<<FdOf(p), name>>) : MayWrite(path)
  BY SlotOfName DEF WInv, WritableName
<1>. QED
  BY <1>1, LinkedInside DEF WInv, WriteInv, Writable, Granted

----------------------------------------------------------------------------
(* The handlers and the other processes.                                    *)

\* A file a descriptor is open on has an inode number.
LEMMA OpenedIds ==
    ASSUME StateType, NEW o \in opened
    PROVE  o.id \in Ids /\ o.id # None
BY SectionIsSane DEF StateType, Descriptors

\* While the backing tree stays, so does what may be written.
LEMMA QuietTree ==
    ASSUME UNCHANGED <<kind, entry>>
    PROVE  /\ TreeInv' = TreeInv
           /\ \A id : WritableFile(id)' = WritableFile(id)
           /\ \A o : Writable(o)' = Writable(o)
<1>1. \A id : Links(id)' = Links(id)
  BY DEF Links
<1>2. \A s : PathsOf(s)' = PathsOf(s)
  BY <1>1 DEF PathsOf
<1>3. Reachable' = Reachable
  BY <1>1 DEF Reachable
<1>. QED
  BY <1>1, <1>2, <1>3 DEF TreeInv, WritableFile, Writable

\* A step that leaves the backing tree alone.
LEMMA QuietKeepsWrites ==
    ASSUME WInv, UNCHANGED <<kind, entry>>, PlacedIn(Current', kind, entry),
           \A o \in opened' : o.write => Writable(o)
    PROVE  WInv'
BY QuietTree DEF WInv, WriteInv

\* A step that leaves the directories of the table alone too.
LEMMA QuietTableKeepsWrites ==
    ASSUME WInv, UNCHANGED <<kind, entry, opened>>, SameDirs(Current, Current'),
           DOMAIN nodes' \subseteq DOMAIN nodes
    PROVE  WInv'
<1>1. DOMAIN (Current').nodes \subseteq DOMAIN Current.nodes
  BY DEF Current
<1>2. PlacedIn(Current', kind, entry)
  BY <1>1, SameDirsPlaced DEF WInv
<1>. QED
  BY <1>2, QuietKeepsWrites DEF WInv, WriteInv

\* A reply with an entry, after the change it is a reply to.
LEMMA ReplyPlaced ==
    ASSUME Sound(Current), PlacedIn(Current, kind', entry'), NEW p \in DOMAIN nodes, NEW name,
           NEW st, st.key \in Ids, ReplyEntry(p, name, st),
           FoundAt(Current, p, name, st, st.key, kind', entry')
    PROVE  PlacedIn(Current', kind', entry')
<1>1. p \in DOMAIN Current.nodes
  BY DEF Current
<1>2. PlacedIn(Admit(Current, p, name, st, st.key).t, kind', entry')
  BY <1>1, AdmitPlaced
<1>3. nodes' = Admit(Current, p, name, st, st.key).t.nodes
  BY DEF ReplyEntry, SetTable
<1>4. (Current').nodes = Admit(Current, p, name, st, st.key).t.nodes
  BY <1>3 DEF Current
<1>. QED
  BY <1>2, <1>4 DEF PlacedIn

\* lookup finds a directory where its name says.
LEMMA LookupWrites ==
    ASSUME NoFolding, IInv, WInv, NEW p \in HeldDirs, NEW name \in Names, Lookup(p, name)
    PROVE  WInv'
<1>. DEFINE id == Resolve(FdOf(p), name)
            st == StatOf(id)
<1>1. p \in DOMAIN nodes /\ IsDir(Current, p)
  BY HeldIsKnown DEF HeldDirs, IInv
<1>2. /\ id # None /\ ReplyEntry(p, name, st) /\ UNCHANGED <<kind, entry, opened>>
      /\ id = entry[<<FdOf(p), name>>]
  BY NamesAreExact DEF Lookup, tree
<1>3. id \in Ids /\ st.key = id /\ st.dir = (kind[id] = "dir")
  <2>1. <<FdOf(p), name>> \in Slots
    BY <1>1, SlotOfName DEF Inside, IInv, WInv
  <2>. QED
    BY <1>2, <2>1 DEF IInv, StateType, StatOf
<1>. HIDE DEF st, id
<1>4. FoundAt(Current, p, name, st, st.key, kind, entry)
  <2>1. kind[id] = "dir" => Place(id, ChildPath(p, name), kind, entry)
    BY <1>1, <1>2, FoundInPlace DEF IInv, WInv
  <2>. QED
    BY <1>3, <2>1 DEF FoundAt, ChildPath, Current
<1>5. PlacedIn(Current', kind, entry)
  BY <1>1, <1>2, <1>3, <1>4, ReplyPlaced DEF IInv, WInv
<1>. QED
  BY <1>2, <1>5, QuietKeepsWrites DEF WInv, WriteInv

\* forget takes inodes out of the table.
LEMMA ForgetWrites ==
    ASSUME IInv, WInv, NEW i \in Inodes, NEW count \in 1..MaxLookups, Forget(i, count)
    PROVE  WInv'
<1>1. PICK c : Covers(c)
  BY DEF IInv
<1>2. count <= known[i] /\ SetTable(Drop(Current, i, count)) /\ UNCHANGED <<kind, entry, opened>>
  BY DEF Forget, tree
<1>3. count \in Nat \ {0} /\ count <= c[i]
  <2>1. i \in AllInodes /\ count \in Nat \ {0} /\ known[i] \in Nat /\ c[i] \in Nat /\ known[i] <= c[i]
    BY <1>1, SectionIsSane DEF Inodes, IInv, StateType, Covers, Counts
  <2>. QED
    BY <1>2, <2>1
<1>4. /\ Sound(Drop(Current, i, count)) /\ SameDirs(Current, Drop(Current, i, count))
      /\ DOMAIN Drop(Current, i, count).nodes \subseteq DOMAIN Current.nodes
  BY <1>1, <1>3, DropResult DEF IInv, Covers
<1>5. Current' = Drop(Current, i, count)
  BY <1>2, <1>4, SetTableResult
<1>. QED
  BY <1>2, <1>4, <1>5, QuietTableKeepsWrites DEF Current

\* create, mkdir and symlink give a number nobody has a name that may be written.
LEMMA MakeWrites ==
    ASSUME NoFolding, IInv, WInv, NEW p \in HeldDirs, NEW name \in Names,
           NEW made \in {"file", "dir"}, Make(p, name, made)
    PROVE  WInv'
<1>1. p \in DOMAIN nodes /\ IsDir(Current, p)
  BY HeldIsKnown DEF HeldDirs, IInv
<1>. DEFINE s == <<FdOf(p), name>>
<1>2. PICK id \in Ids :
        /\ WritableName(p, name) /\ NameIsFree(p, name) /\ FdOf(p) \in Reachable
        /\ made = "dir" => FdOf(p) = Root
        /\ ~InUse(id)
        /\ kind' = [kind EXCEPT ![id] = made]
        /\ entry' = [entry EXCEPT ![<<FdOf(p), name>>] = id]
        /\ ReplyEntry(p, name, [key |-> id, dir |-> made = "dir"])
        /\ opened' \subseteq opened \union {Descriptor(id, TRUE)}
  BY DEF Make
<1>. DEFINE st == [key |-> id, dir |-> made = "dir"]
<1>3. /\ Inside(s) /\ s \in Slots /\ s[1] = FdOf(p) /\ entry[s] = None
      /\ \A path \in PathsOf(s) : MayWrite(path)
  <2>1. Inside(s) /\ \A path \in PathsOf(s) : path = ChildPath(p, name)
    BY <1>1, SlotOfName DEF IInv, WInv
  <2>. QED
    BY <1>2, <2>1, NamesAreExact DEF WritableName, NameIsFree, Inside
<1>. HIDE DEF s
<1>4. /\ \A d \in AllIds : kind'[d] = IF d = id THEN made ELSE kind[d]
      /\ \A r \in Slots : entry'[r] = IF r = s THEN id ELSE entry[r]
  BY <1>2, <1>3 DEF IInv, StateType, s
<1>5. Added(s, id, made)
  BY <1>2, <1>3, <1>4 DEF Added
<1>6. TreeInv' /\ Shrinks
  BY <1>3, <1>5, AddedTree DEF IInv, WInv
<1>7. PlacedIn(Current', kind', entry')
  <2>1. PlacedIn(Current, kind', entry')
    BY <1>6, PlacedStays DEF WInv
  <2>2. FoundAt(Current, p, name, st, st.key, kind', entry')
    <3>1. CASE made = "dir"
      <4>1. FdOf(p) = Root /\ nodes[p].path = <<>>
        BY <1>1, <1>2, <3>1 DEF WInv, PlacedIn, Place, Current, FdOf
      <4>2. Append(nodes[p].path, name) = <<name>>
        BY <4>1, ShortPaths
      <4>3. \A r \in Slots : entry'[r] = id => r = s
        BY <1>2, <1>4 DEF InUse, Links
      <4>4. id # Root /\ kind'[id] = "dir"
        BY <1>4, <3>1, SectionIsSane DEF AllIds
      <4>5. Place(id, <<name>>, kind', entry')
        BY <4>1, <4>3, <4>4 DEF Place, s
      <4>. QED
        BY <4>2, <4>5 DEF FoundAt, Current
    <3>2. CASE made # "dir"
      BY <3>2 DEF FoundAt
    <3>. QED
      BY <3>1, <3>2
  <2>. QED
    BY <1>1, <1>2, <2>1, <2>2, ReplyPlaced DEF IInv
<1>8. ASSUME NEW o \in opened', o.write PROVE Granted(o)
  <2>1. CASE o \in opened
    <3>1. o.id # id
      BY <1>2, <2>1 DEF InUse
    <3>2. \A r \in Slots : entry'[r] = o.id => entry[r] = o.id
      BY <1>4, <3>1
    <3>. QED
      BY <1>8, <2>1, <3>2, OpenedIds, StillGranted DEF IInv
  <2>2. CASE o \notin opened
    <3>1. o.id = id
      BY <1>2, <2>2 DEF Descriptor
    <3>2. \A r \in Slots : entry'[r] = id => r = s
      BY <1>2, <1>4 DEF InUse, Links
    <3>. QED
      BY <1>3, <3>1, <3>2 DEF Granted
  <2>. QED
    BY <2>1, <2>2
<1>. QED
  BY <1>6, <1>7, <1>8, StepKeepsWrites

\* link gives a file another name that may be written.
LEMMA LinkWrites ==
    ASSUME NoFolding, IInv, WInv, NEW p \in HeldDirs, NEW name \in Names, NEW i \in HeldFiles,
           Link(i, p, name)
    PROVE  WInv'
<1>1. p \in DOMAIN nodes /\ IsDir(Current, p) /\ i \in DOMAIN nodes /\ ~IsDir(Current, i)
  BY HeldIsKnown DEF HeldDirs, HeldFiles, IInv
<1>. DEFINE s == <<FdOf(p), name>>
            id == nodes[i].key
<1>2. /\ WritableName(p, name) /\ NameIsFree(p, name) /\ FdOf(p) \in Reachable
      /\ kind[id] = "file"
      /\ entry' = [entry EXCEPT ![<<FdOf(p), name>>] = id]
      /\ ReplyEntry(p, name, StatOf(id))
      /\ UNCHANGED <<kind, opened>>
  BY DEF Link
<1>3. id \in Ids
  BY <1>1, SectionIsSane DEF IInv, Sound, ClosedIn, IsDir, Current
<1>4. Inside(s) /\ s \in Slots /\ s[1] = FdOf(p) /\ entry[s] = None
  BY <1>1, <1>2, SlotOfName, NamesAreExact DEF IInv, WInv, NameIsFree, Inside
<1>. HIDE DEF s, id
<1>5. /\ \A d \in AllIds : kind'[d] = IF d = id THEN "file" ELSE kind[d]
      /\ \A r \in Slots : entry'[r] = IF r = s THEN id ELSE entry[r]
  BY <1>2, <1>3, <1>4 DEF IInv, StateType, s
<1>6. Added(s, id, "file")
  BY <1>2, <1>4, <1>5 DEF Added
<1>7. TreeInv' /\ Shrinks
  BY <1>3, <1>4, <1>6, AddedTree DEF IInv, WInv
<1>8. PlacedIn(Current', kind', entry')
  <2>1. PlacedIn(Current, kind', entry')
    BY <1>7, PlacedStays DEF WInv
  <2>2. StatOf(id).key = id /\ StatOf(id).dir = FALSE
    BY <1>2 DEF StatOf
  <2>3. FoundAt(Current, p, name, StatOf(id), StatOf(id).key, kind', entry')
    BY <2>2 DEF FoundAt
  <2>. QED
    BY <1>1, <1>2, <1>3, <2>1, <2>2, <2>3, ReplyPlaced DEF IInv
<1>9. ASSUME NEW o \in opened', o.write PROVE Granted(o)
  <2>1. o \in opened /\ o.id # None
    BY <1>2, OpenedIds DEF IInv
  <2>2. \A r \in Slots : entry'[r] = o.id => entry[r] = o.id \/ r = <<FdOf(p), name>>
    BY <1>5 DEF s
  <2>. QED
    BY <1>1, <1>2, <1>9, <2>1, <2>2, GrantedByName DEF IInv
<1>. QED
  BY <1>7, <1>8, <1>9, StepKeepsWrites

\* rename moves a name of a file to one that may be written.
LEMMA RenameWrites ==
    ASSUME NoFolding, IInv, WInv, NEW p \in HeldDirs, NEW q \in HeldDirs,
           NEW old \in Names, NEW name \in Names, Rename(p, old, q, name)
    PROVE  /\ WInv'
           /\ \A s \in Slots : entry'[s] # entry[s] => \A path \in PathsOf(s) : MayWrite(path)
<1>1. /\ p \in DOMAIN nodes /\ IsDir(Current, p) /\ p \in AllInodes
      /\ q \in DOMAIN nodes /\ IsDir(Current, q)
  BY HeldIsKnown DEF HeldDirs, IInv
<1>. DEFINE from == <<FdOf(p), old>>
            to == <<FdOf(q), name>>
            id == entry[from]
            u == Moved(p, old, q, name, StatOf(id))
<1>2. /\ Inside(from) /\ \A path \in PathsOf(from) : path = ChildPath(p, old)
      /\ Inside(to) /\ \A path \in PathsOf(to) : path = ChildPath(q, name)
      /\ from \in Slots /\ to \in Slots /\ to[1] = FdOf(q)
  BY <1>1, SlotOfName DEF IInv, WInv, Inside
<1>3. Stored(FdOf(p), old) = old /\ Resolve(FdOf(p), old) = id
  BY NamesAreExact
<1>4. /\ MayWrite(ChildPath(p, old)) /\ MayWrite(ChildPath(q, name)) /\ WritableName(q, name)
      /\ id # None /\ kind[id] # "dir"
      /\ entry[to] # None => kind[entry[to]] = "file"
      /\ FdOf(q) \in Reachable
      /\ RenameEntry(from, to, id)
      /\ SetTable(u)
      /\ UNCHANGED <<kind, opened>>
  BY <1>3 DEF Rename, WritableName
<1>. HIDE DEF from, to, id
<1>5. id \in Ids /\ kind[id] = "file"
  BY <1>2, <1>4 DEF IInv, StateType, AllIds, id
<1>6. \A s \in Slots : entry'[s] = entry[s] \/ s \in {from, to}
  BY <1>4 DEF RenameEntry, IInv, StateType
<1>7. TreeInv' /\ Shrinks
  <2>1. entry[from] = id
    BY DEF id
  <2>. QED
    BY <1>2, <1>4, <1>5, <2>1, RenamedTree DEF IInv, WInv
<1>8. SameDirs(Current, u) /\ DOMAIN u.nodes = DOMAIN Current.nodes
  <2>1. PICK c : Covers(c)
    BY DEF IInv
  <2>2. c \in Counts /\ CountedBy(Current, c) /\ Sound(Current) /\ p \in DOMAIN Current.nodes
    BY <1>1, <2>1 DEF Covers, IInv, Current
  <2>3. PlaceFor(Current, q, name)
    BY <1>1, <1>4, WritableIsVisible DEF PlaceFor, ChildPath, Current
  <2>4. StatOf(id).key = id /\ ~StatOf(id).dir
    BY <1>4 DEF StatOf
  <2>5. p = RootInode \/ c[p] > 0
    <3>1. p = RootInode \/ known[p] > 0
      BY DEF HeldDirs, Held
    <3>2. known[p] <= c[p] /\ known[p] \in Nat /\ c[p] \in Nat
      BY <1>1, <2>1, SectionIsSane DEF Covers, Counts, IInv, StateType
    <3>. QED
      BY <3>1, <3>2
  <2>. QED
    BY <1>1, <1>5, <2>2, <2>3, <2>4, <2>5, MovedResult
<1>9. PlacedIn(Current', kind', entry')
  <2>1. PlacedIn(Current, kind', entry')
    BY <1>7, PlacedStays DEF WInv
  <2>2. PlacedIn(u, kind', entry')
    <3>. HIDE DEF u
    <3>. QED
      BY <1>8, <2>1, SameDirsPlaced
  <2>3. (Current').nodes = u.nodes
    BY <1>4 DEF SetTable, Current
  <2>. HIDE DEF u
  <2>. QED
    BY <2>2, <2>3 DEF PlacedIn
<1>10. ASSUME NEW o \in opened', o.write PROVE Granted(o)
  <2>1. o \in opened /\ o.id # None
    BY <1>4, OpenedIds DEF IInv
  <2>2. \A r \in Slots : entry'[r] = o.id => entry[r] = o.id \/ r = <<FdOf(q), name>>
    BY <1>4, <2>1 DEF RenameEntry, IInv, StateType, to
  <2>. QED
    BY <1>1, <1>4, <1>10, <2>1, <2>2, GrantedByName DEF IInv
<1>. QED
  BY <1>2, <1>4, <1>6, <1>7, <1>9, <1>10, StepKeepsWrites

\* A file loses a name, or an empty directory its only one.
LEMMA RemovalWrites ==
    ASSUME IInv, WInv, NEW s \in Slots, entry[s] \in Ids, kind[entry[s]] = "dir" => IsEmpty(entry[s]),
           entry' = [entry EXCEPT ![s] = None], UNCHANGED <<kind, nodes, byKey, opened>>
    PROVE  WInv'
<1>1. TreeInv' /\ Shrinks
  BY RemovedTree DEF IInv, WInv
<1>2. Current' = Current
  BY DEF Current
<1>3. PlacedIn(Current', kind', entry')
  BY <1>1, <1>2, PlacedStays DEF WInv
<1>4. ASSUME NEW o \in opened', o.write PROVE Granted(o)
  <2>1. o \in opened /\ o.id # None
    BY OpenedIds DEF IInv
  <2>2. \A r \in Slots : entry'[r] = o.id => entry[r] = o.id
    BY <2>1 DEF IInv, StateType
  <2>. QED
    BY <1>4, <2>1, <2>2, StillGranted
<1>. QED
  BY <1>1, <1>3, <1>4, StepKeepsWrites

\* unlink and rmdir remove a name that may be written.
LEMMA UnlinkWrites ==
    ASSUME NoFolding, IInv, WInv, NEW p \in HeldDirs, NEW name \in Names, Unlink(p, name)
    PROVE  /\ WInv'
           /\ \A s \in Slots : entry'[s] # entry[s] => \A path \in PathsOf(s) : MayWrite(path)
<1>1. p \in DOMAIN nodes /\ IsDir(Current, p)
  BY HeldIsKnown DEF HeldDirs, IInv
<1>. DEFINE s == <<FdOf(p), name>>
<1>2. s \in Slots /\ \A path \in PathsOf(s) : path = ChildPath(p, name)
  BY <1>1, SlotOfName DEF IInv, WInv, Inside
<1>3. Stored(FdOf(p), name) = name /\ Resolve(FdOf(p), name) = entry[s]
  BY NamesAreExact
<1>4. /\ MayWrite(ChildPath(p, name)) /\ entry[s] # None
      /\ kind[entry[s]] = "dir" => IsEmpty(entry[s])
      /\ entry' = [entry EXCEPT ![s] = None]
      /\ UNCHANGED <<kind, nodes, byKey, opened>>
  BY <1>3 DEF Unlink, WritableName, table
<1>. HIDE DEF s
<1>5. entry[s] \in Ids /\ \A r \in Slots : entry'[r] # entry[r] => r = s
  BY <1>2, <1>4 DEF IInv, StateType
<1>6. WInv'
  BY <1>2, <1>4, <1>5, RemovalWrites
<1>. QED
  BY <1>2, <1>4, <1>5, <1>6

\* open for writing, write and setattr change only files with names that may be written.
LEMMA FilesWrite ==
    ASSUME NoFolding, IInv, WInv,
           \/ \E i \in HeldFiles, write \in BOOLEAN : Open(i, write)
           \/ \E h \in opened : Write(h) \/ Release(h)
           \/ \E i \in Held : Setattr(i)
    PROVE  WInv' /\ ChangedIsWritable'
<1>1. UNCHANGED <<kind, entry, nodes, byKey>>
  BY DEF Open, Write, Release, Setattr, tree, table
<1>2. Current' = Current
  BY <1>1 DEF Current
<1>3. ASSUME NEW i \in Held, WritableInode(i)
      PROVE  WritableFile(IF IsDir(Current, i) THEN nodes[i].fd ELSE nodes[i].key)
  BY <1>3, HeldIsKnown, WritableInodeResult DEF IInv, WInv
<1>4. \A o \in opened' : o.write => Writable(o)
  <2>1. ASSUME NEW i \in HeldFiles, NEW write \in BOOLEAN, Open(i, write)
        PROVE  \A o \in opened' : o.write => Writable(o)
    <3>1. opened' = opened \union {Descriptor(nodes[i].key, write)}
      BY <2>1 DEF Open
    <3>2. write => WritableFile(nodes[i].key)
      BY <1>3, <2>1 DEF Open, HeldFiles, HeldDirs
    <3>3. write => Writable(Descriptor(nodes[i].key, write))
      BY <3>2 DEF WritableFile, Writable, Descriptor
    <3>4. Descriptor(nodes[i].key, write).write = write
      BY DEF Descriptor
    <3>. QED
      BY <3>1, <3>3, <3>4 DEF WInv, WriteInv
  <2>2. ASSUME NEW h \in opened, Write(h) \/ Release(h) PROVE opened' \subseteq opened
    BY <2>2 DEF Write, Release
  <2>3. ASSUME NEW i \in Held, Setattr(i) PROVE opened' = opened
    BY <2>3 DEF Setattr
  <2>. QED
    BY <2>1, <2>2, <2>3 DEF WInv, WriteInv
<1>5. \A id \in changed' : WritableFile(id) \/ \E h \in opened' : h.id = id /\ Writable(h)
  <2>1. ASSUME NEW i \in HeldFiles, NEW write \in BOOLEAN, Open(i, write) PROVE changed' = {}
    BY <2>1 DEF Open
  <2>2. ASSUME NEW h \in opened, Write(h) \/ Release(h)
        PROVE  changed' = {} \/ (changed' = {h.id} /\ h \in opened' /\ Writable(h))
    BY <2>2 DEF Write, Release, WInv, WriteInv
  <2>3. ASSUME NEW i \in Held, Setattr(i) PROVE \A id \in changed' : WritableFile(id)
    BY <1>3, <2>3 DEF Setattr
  <2>. QED
    BY <2>1, <2>2, <2>3
<1>6. WInv'
  BY <1>1, <1>2, <1>4, QuietKeepsWrites DEF WInv
<1>7. ChangedIsWritable'
  <2>1. \A id \in changed' : WritableFile(id)' \/ \E h \in opened' : h.id = id /\ Writable(h)'
    BY <1>1, <1>5, QuietTree
  <2>. QED
    BY <2>1 DEF ChangedIsWritable, WritableFile, Writable
<1>. QED
  BY <1>6, <1>7

\* Other processes that move nothing give a file open for writing no name that it is not lent.
LEMMA OutsideWrites ==
    ASSUME NoFolding, "move" \notin Others, IInv, WInv, Outside
    PROVE  WInv'
<1>1. UNCHANGED <<nodes, byKey>> /\ Current' = Current
  BY DEF Outside, table, Current
<1>2. ASSUME NEW s \in Slots, NEW id \in Ids, NEW made \in {"file", "dir"}, Added(s, id, made),
             \A o \in opened' : o.write => Granted(o)
      PROVE  WInv'
  <2>1. TreeInv' /\ Shrinks
    BY <1>2, AddedTree DEF IInv, WInv
  <2>2. PlacedIn(Current', kind', entry')
    BY <1>1, <2>1, PlacedStays DEF WInv
  <2>. QED
    BY <1>2, <2>1, <2>2, StepKeepsWrites
<1>3. ASSUME NEW dir \in AllIds, NEW n \in Names, NEW made \in {"file", "dir"}, OutsideMake(dir, n, made)
      PROVE  WInv'
  <2>1. PICK id \in Ids : /\ dir \in Reachable
                          /\ made = "dir" => dir = Root
                          /\ Resolve(dir, n) = None
                          /\ ~InUse(id)
                          /\ kind' = [kind EXCEPT ![id] = made]
                          /\ entry' = [entry EXCEPT ![<<dir, n>>] = id]
                          /\ opened' = opened
    BY <1>3 DEF OutsideMake
  <2>. DEFINE s == <<dir, n>>
  <2>2. s \in Slots /\ s[1] = dir /\ entry[s] = None
    BY <2>1, NamesAreExact DEF Slots
  <2>3. \A r \in Slots : entry'[r] = IF r = s THEN id ELSE entry[r]
    BY <2>1, <2>2 DEF IInv, StateType
  <2>4. Added(s, id, made)
    <3>1. \A d \in AllIds : kind'[d] = IF d = id THEN made ELSE kind[d]
      BY <2>1, <2>2 DEF IInv, StateType
    <3>. HIDE DEF s
    <3>. QED
      BY <2>1, <2>2, <2>3, <3>1 DEF Added
  <2>. HIDE DEF s
  <2>5. ASSUME NEW o \in opened', o.write PROVE Granted(o)
    <3>1. o \in opened /\ o.id # None /\ o.id # id
      BY <2>1, OpenedIds DEF IInv, InUse
    <3>2. \A r \in Slots : entry'[r] = o.id => entry[r] = o.id
      BY <2>3, <3>1
    <3>. QED
      BY <2>5, <3>1, <3>2, StillGranted
  <2>. QED
    BY <1>2, <2>2, <2>4, <2>5
<1>4. ASSUME NEW dir \in AllIds, NEW n \in Names, OutsideRemove(dir, n) PROVE WInv'
  <2>. DEFINE s == <<dir, n>>
  <2>1. s \in Slots
    BY DEF Slots
  <2>2. /\ entry[s] # None /\ (kind[entry[s]] = "dir" => IsEmpty(entry[s]))
        /\ entry' = [entry EXCEPT ![s] = None] /\ UNCHANGED <<kind, opened>>
    BY <1>4 DEF OutsideRemove
  <2>. HIDE DEF s
  <2>3. entry[s] \in Ids
    BY <2>1, <2>2 DEF IInv, StateType
  <2>. QED
    BY <1>1, <2>1, <2>2, <2>3, RemovalWrites
<1>5. ASSUME NEW id \in Ids, NEW dir \in AllIds, NEW n \in Names, OutsideLink(id, dir, n) PROVE WInv'
  <2>. DEFINE s == <<dir, n>>
  <2>1. /\ dir \in Reachable /\ kind[id] = "file"
        /\ entry[s] = None /\ entry' = [entry EXCEPT ![s] = id] /\ UNCHANGED kind
        /\ opened' = {Lent(h, id, s) : h \in opened}
    BY <1>5, NamesAreExact DEF OutsideLink
  <2>2. s \in Slots /\ s[1] = dir
    BY DEF Slots
  <2>. HIDE DEF s
  <2>3. \A r \in Slots : entry'[r] = IF r = s THEN id ELSE entry[r]
    BY <2>1, <2>2 DEF IInv, StateType
  <2>4. Added(s, id, "file")
    <3>1. \A d \in AllIds : kind'[d] = IF d = id THEN "file" ELSE kind[d]
      BY <2>1, <2>2 DEF IInv, StateType
    <3>. QED
      BY <2>1, <2>2, <2>3, <3>1 DEF Added
  <2>5. ASSUME NEW o \in opened', o.write PROVE Granted(o)
    <3>1. PICK h \in opened : o = Lent(h, id, s)
      BY <2>1
    <3>2. h \in Descriptors /\ h.id # None
      BY OpenedIds DEF IInv, StateType
    <3>3. /\ o.id = h.id /\ h.write
          /\ o.lent = IF h.id = id THEN h.lent \union {s} ELSE h.lent
      BY <2>5, <3>1, <3>2 DEF Lent, Descriptors
    <3>4. Writable(h)
      BY <3>3 DEF WInv, WriteInv
    <3>5. ASSUME NEW r \in Slots \ o.lent, entry'[r] = o.id
          PROVE  Inside(r) /\ \A path \in PathsOf(r) : MayWrite(path)
      <4>1. r \notin h.lent /\ entry[r] = h.id
        BY <2>3, <3>3, <3>5
      <4>. QED
        BY <3>2, <3>4, <4>1, LinkedInside DEF WInv, Writable
    <3>. QED
      BY <3>5 DEF Granted
  <2>. QED
    BY <1>2, <2>2, <2>4, <2>5
<1>. QED
  BY <1>3, <1>4, <1>5 DEF Outside, OutsideMove

\* The directories a readdir admits are where their names say.
LEMMA AdmitAllPlaced ==
    ASSUME NoFolding, IInv, WInv, NEW p \in DOMAIN nodes, IsDir(Current, p), NEW found \in Seq(Entries),
           \A k \in DOMAIN found : Visible(Append(nodes[p].path, found[k].name), found[k].st.dir),
           ~AdmitAll(p, found).failed
    PROVE  PlacedIn(AdmitAll(p, found).t, kind, entry)
<1>1. Len(found) \in Nat /\ DOMAIN found = 1..Len(found) /\ \A k \in 1..Len(found) : found[k] \in Entries
  BY LenProperties
<1>2. PICK f : /\ AdmitAll(p, found) = f[Len(found)]
               /\ f[0] = [t |-> Current, inodes |-> <<>>, failed |-> FALSE]
               /\ \A k \in 1..Len(found) : f[k] = AdmitNext(f[k - 1], p, found[k])
  BY AdmitAllSteps
<1>3. PICK c : Covers(c)
  BY DEF IInv
<1>4. c \in Counts /\ CountedBy(Current, c) /\ Sound(Current) /\ StateType
  BY <1>3 DEF Covers, IInv
<1>. DEFINE Good(n) == Admitted(f[n], n, c) /\ (~f[n].failed => PlacedIn(f[n].t, kind, entry))
            T == {n \in 0..Len(found) : ~Good(n)}
<1>5. Good(0)
  <2>1. <<>> \in Seq(Inodes) /\ Len(<<>>) = 0
    OBVIOUS
  <2>2. Counted(c, <<>>) = c
    BY <1>4, CountedNone
  <2>3. Admitted(f[0], 0, c)
    BY <1>2, <1>4, <2>1, <2>2 DEF Admitted, SameDirs, Current
  <2>4. PlacedIn(f[0].t, kind, entry)
    BY <1>2 DEF WInv
  <2>. QED
    BY <2>3, <2>4
<1>6. ASSUME NEW n \in 1..Len(found), Good(n - 1) PROVE Good(n)
  <2>. DEFINE b == f[n - 1]
              e == found[n]
              at == Resolve(FdOf(p), e.name)
  <2>1. n - 1 \in Nat /\ (n - 1) + 1 = n /\ e \in Entries /\ e.name \in Names /\ e.st.key \in Ids
    BY <1>1 DEF Entries
  <2>2. Visible(Append(nodes[p].path, e.name), e.st.dir)
    BY <1>1
  <2>3. f[n] = AdmitNext(b, p, e)
    BY <1>2
  <2>4. Admitted(b, n - 1, c) /\ (~b.failed => PlacedIn(b.t, kind, entry))
    BY <1>6
  <2>. HIDE DEF b, e
  <2>5. Admitted(AdmitNext(b, p, e), (n - 1) + 1, c)
    BY <1>4, <2>1, <2>2, <2>4, AdmitNextResult
  <2>6. ASSUME ~f[n].failed PROVE PlacedIn(f[n].t, kind, entry)
    <3>1. /\ ~b.failed /\ ~AdmitFails(b.t, p, e.name, e.st, at)
          /\ f[n].t = Admit(b.t, p, e.name, e.st, at).t
      BY <2>3, <2>4, <2>6 DEF AdmitNext, Admitted
    <3>2. /\ Sound(b.t) /\ PlacedIn(b.t, kind, entry) /\ p \in DOMAIN b.t.nodes
          /\ b.t.nodes[p].path = nodes[p].path
      BY <2>4, <3>1 DEF Admitted, SameDirs, Current
    <3>3. FoundAt(b.t, p, e.name, e.st, at, kind, entry)
      <4>1. SUFFICES ASSUME ~Reused(b.t, p, e.name, e.st), e.st.dir
                     PROVE  Place(at, Append(b.t.nodes[p].path, e.name), kind, entry)
        BY DEF FoundAt
      <4>2. at # None /\ kind[at] = "dir"
        BY <3>1, <4>1 DEF AdmitFails
      <4>3. at = entry[<<FdOf(p), e.name>>]
        BY <2>1, NamesAreExact
      <4>. HIDE DEF at
      <4>4. Place(at, ChildPath(p, e.name), kind, entry)
        BY <2>1, <4>2, <4>3, FoundInPlace DEF IInv, WInv
      <4>. QED
        BY <3>2, <4>4 DEF ChildPath
    <3>. HIDE DEF at
    <3>. QED
      BY <2>1, <3>1, <3>2, <3>3, AdmitPlaced
  <2>. QED
    BY <2>1, <2>3, <2>5, <2>6
<1>. HIDE DEF Good
<1>7. T = {}
  <2>1. SUFFICES ASSUME T # {} PROVE FALSE
    OBVIOUS
  <2>2. T \subseteq Nat
    BY <1>1
  <2>3. PICK n \in T : \A m \in T : n <= m
    BY <2>1, <2>2, LeastExists, Zenon
  <2>4. n \in 1..Len(found) /\ n - 1 \in 0..Len(found) /\ n - 1 \notin T
    BY <1>1, <1>5, <2>3
  <2>. QED
    BY <1>6, <2>3, <2>4
<1>8. Good(Len(found))
  BY <1>1, <1>7
<1>. QED
  BY <1>2, <1>8 DEF Good

\* Part of a scan, when it is admitted.
LEMMA PartPlaced ==
    ASSUME NoFolding, IInv, WInv, NEW h \in scan,
           NEW first \in 1..Len(h.found), NEW last \in 0..Len(h.found), first <= last + 1,
           ~AdmitAll(h.inode, SubSeq(h.found, first, last)).failed
    PROVE  PlacedIn(AdmitAll(h.inode, SubSeq(h.found, first, last)).t, kind, entry)
<1>. DEFINE sub == SubSeq(h.found, first, last)
<1>1. h.inode \in DOMAIN nodes /\ IsDir(Current, h.inode)
  BY HeldIsKnown DEF IInv, HandlesInv
<1>2. /\ sub \in Seq(Entries)
      /\ \A k \in DOMAIN sub : Visible(Append(nodes[h.inode].path, sub[k].name), sub[k].st.dir)
  BY PartOfScan
<1>. HIDE DEF sub
<1>3. ~AdmitAll(h.inode, sub).failed => PlacedIn(AdmitAll(h.inode, sub).t, kind, entry)
  BY <1>1, <1>2, AdmitAllPlaced
<1>. QED
  BY <1>3 DEF sub

\* readdir admits directories where they are, and what it drops again is gone.
LEMMA ReaddirWrites ==
    ASSUME NoFolding, IInv, WInv, NEW h \in scan,
           NEW first \in 1..Len(h.found), NEW last \in 1..Len(h.found), first <= last,
           Readdir(h, first, last) \/ ReaddirFails(h, first, last)
    PROVE  WInv'
<1>1. UNCHANGED <<kind, entry, opened>>
  BY DEF Readdir, ReaddirFails, tree
<1>2. Len(h.found) \in Nat
  BY LenProperties DEF IInv, StateType
<1>3. SUFFICES ASSUME NEW v, PlacedIn(v, kind, entry), nodes' = v.nodes PROVE WInv'
  <2>1. SUFFICES \E v : PlacedIn(v, kind, entry) /\ nodes' = v.nodes
    BY <1>3
  <2>2. CASE ReaddirFails(h, first, last)
    <3>. PICK upto : upto = last - 1
      OBVIOUS
    <3>1. upto \in 0..Len(h.found) /\ first <= upto + 1
      BY <1>2
    <3>2. /\ ~AdmitAll(h.inode, SubSeq(h.found, first, upto)).failed
          /\ nodes' = AdmitAll(h.inode, SubSeq(h.found, first, upto)).t.nodes
      BY <2>2 DEF ReaddirFails, SetTable
    <3>. QED
      BY <3>1, <3>2, PartPlaced
  <2>3. CASE Readdir(h, first, last)
    <3>. PICK upto : upto = IF last = Len(h.found) THEN last ELSE last + 1
      OBVIOUS
    <3>. DEFINE a == AdmitAll(h.inode, SubSeq(h.found, first, upto))
    <3>1. upto \in 0..Len(h.found) /\ first <= upto + 1 /\ upto + 1 - first >= 1
      BY <1>2
    <3>2. ~a.failed /\ (nodes' = a.t.nodes \/ nodes' = Drop(a.t, Last(a.inodes), 1).nodes)
      BY <2>3 DEF Readdir, SetTable
    <3>3. PlacedIn(a.t, kind, entry)
      BY <3>1, <3>2, PartPlaced
    <3>4. PICK c : Covers(c)
      BY DEF IInv
    <3>5. Admitted(a, upto + 1 - first, c)
      BY <3>1, <3>4, AdmittedFromScan
    <3>. HIDE DEF a
    <3>6. /\ a.inodes \in Seq(Inodes) /\ Len(a.inodes) >= 1 /\ Sound(a.t)
          /\ CountedBy(a.t, Counted(c, a.inodes)) /\ c \in Counts
      BY <3>1, <3>2, <3>4, <3>5 DEF Admitted, Covers
    <3>7. /\ SameDirs(a.t, Drop(a.t, Last(a.inodes), 1))
          /\ DOMAIN Drop(a.t, Last(a.inodes), 1).nodes \subseteq DOMAIN a.t.nodes
      BY <3>6, LastDropped
    <3>8. PlacedIn(Drop(a.t, Last(a.inodes), 1), kind, entry)
      BY <3>3, <3>7, SameDirsPlaced
    <3>. QED
      BY <3>2, <3>3, <3>8
  <2>. QED
    BY <2>2, <2>3
<1>4. PlacedIn(Current', kind, entry)
  BY <1>3 DEF PlacedIn, Current
<1>. QED
  BY <1>1, <1>4, QuietKeepsWrites DEF WInv, WriteInv

\* opendir, the scan and releasedir leave the table alone.
LEMMA HandlesWrite ==
    ASSUME WInv, (\E i \in HeldDirs : Opendir(i)) \/ (\E h \in scan : Scan(h) \/ Releasedir(h))
    PROVE  WInv'
<1>1. UNCHANGED <<kind, entry, nodes, byKey, opened>>
  BY DEF Opendir, Scan, Releasedir, tree, table
<1>2. SameDirs(Current, Current')
  BY <1>1 DEF SameDirs, Current
<1>. QED
  BY <1>1, <1>2, QuietTableKeepsWrites

\* The handlers of directory handles change nothing in the tree.
LEMMA DirectoriesQuiet ==
    ASSUME OnDirectories
    PROVE  changed' = {} /\ UNCHANGED <<kind, entry>>
<1>1. ASSUME NEW h, NEW i, NEW j,
             \/ Opendir(h) \/ Scan(h) \/ Readdir(h, i, j) \/ ReaddirFails(h, i, j) \/ Releasedir(h)
      PROVE  changed' = {} /\ UNCHANGED <<kind, entry>>
  BY <1>1 DEF Opendir, Scan, Readdir, ReaddirFails, Releasedir, tree
<1>. QED
  BY <1>1 DEF OnDirectories

----------------------------------------------------------------------------
(* The theorems.                                                            *)

\* What a step leaves of the invariant.
LEMMA NextWrites ==
    ASSUME NoFolding, "move" \notin Others, IInv, WInv, Next
    PROVE  WInv' /\ ChangedIsWritable'
<1>1. CASE OnNames
  <2>1. WInv'
    BY <1>1, LookupWrites, MakeWrites, LinkWrites, UnlinkWrites, RenameWrites DEF OnNames
  <2>2. changed' = {}
    <3>1. ASSUME NEW p, NEW n, NEW q, NEW m,
                 \/ Lookup(p, n) \/ Make(p, n, q) \/ Link(m, p, n) \/ Unlink(p, n) \/ Rename(p, n, q, m)
          PROVE  changed' = {}
      BY <3>1 DEF Lookup, Make, Link, Unlink, Rename
    <3>. QED
      BY <1>1, <3>1 DEF OnNames
  <2>. QED
    BY <2>1, <2>2 DEF ChangedIsWritable
<1>2. CASE OnInodes
  <2>1. CASE \E i \in Inodes, count \in 1..MaxLookups : Forget(i, count)
    <3>1. WInv'
      BY <2>1, ForgetWrites
    <3>2. changed' = {}
      BY <2>1 DEF Forget
    <3>. QED
      BY <3>1, <3>2 DEF ChangedIsWritable
  <2>2. CASE \/ \E i \in HeldFiles, write \in BOOLEAN : Open(i, write)
             \/ \E h \in opened : Write(h) \/ Release(h)
             \/ \E i \in Held : Setattr(i)
    BY <2>2, FilesWrite
  <2>. QED
    BY <1>2, <2>1, <2>2 DEF OnInodes
<1>3. CASE OnDirectories
  <2>1. WInv'
    BY <1>3, HandlesWrite, ReaddirWrites DEF OnDirectories
  <2>2. changed' = {}
    BY <1>3, DirectoriesQuiet
  <2>. QED
    BY <2>1, <2>2 DEF ChangedIsWritable
<1>4. CASE Outside
  <2>1. WInv'
    BY <1>4, OutsideWrites
  <2>2. changed' = {}
    BY <1>4 DEF Outside
  <2>. QED
    BY <2>1, <2>2 DEF ChangedIsWritable
<1>. QED
  BY <1>1, <1>2, <1>3, <1>4 DEF Next, Handler

\* A handler changes entries at paths that may be written, and no others.
LEMMA HandlerWritesNames ==
    ASSUME NoFolding, IInv, WInv, Handler, NEW s \in Slots, entry'[s] # entry[s], NEW path \in PathsOf(s)
    PROVE  MayWrite(path)
<1>1. ASSUME NEW p \in HeldDirs, NEW name \in Names, NEW id,
             WritableName(p, name), entry' = [entry EXCEPT ![<<FdOf(p), name>>] = id]
      PROVE  MayWrite(path)
  <2>1. p \in DOMAIN nodes /\ IsDir(Current, p)
    BY HeldIsKnown DEF HeldDirs, IInv
  <2>2. \A q \in PathsOf(<<FdOf(p), name>>) : q = ChildPath(p, name)
    BY <2>1, SlotOfName DEF IInv, WInv
  <2>3. s = <<FdOf(p), name>>
    BY <1>1 DEF IInv, StateType
  <2>. QED
    BY <1>1, <2>2, <2>3 DEF WritableName
<1>2. CASE OnNames
  <2>1. ASSUME NEW p \in HeldDirs, NEW n \in Names, Lookup(p, n) PROVE FALSE
    BY <2>1 DEF Lookup, tree
  <2>2. ASSUME NEW p \in HeldDirs, NEW n \in Names, NEW made \in {"file", "dir"}, Make(p, n, made)
        PROVE  MayWrite(path)
    BY <1>1, <2>2 DEF Make
  <2>3. ASSUME NEW p \in HeldDirs, NEW n \in Names, NEW i \in HeldFiles, Link(i, p, n)
        PROVE  MayWrite(path)
    BY <1>1, <2>3 DEF Link
  <2>. QED
    BY <1>2, <2>1, <2>2, <2>3, UnlinkWrites, RenameWrites DEF OnNames
<1>3. CASE OnInodes
  BY <1>3 DEF OnInodes, Forget, Open, Write, Release, Setattr, tree
<1>4. CASE OnDirectories
  BY <1>4, DirectoriesQuiet
<1>. QED
  BY <1>2, <1>3, <1>4 DEF Handler

\* The invariant holds throughout.
LEMMA WriteInvariant ==
    ASSUME NoFolding, "move" \notin Others
    PROVE  Spec => [](IInv /\ WInv /\ ChangedIsWritable)
<1>1. Init => WInv /\ ChangedIsWritable
  <2>. SUFFICES ASSUME Init PROVE WInv /\ ChangedIsWritable
    OBVIOUS
  <2>1. /\ entry = [s \in Slots |-> None] /\ opened = {} /\ changed = {}
        /\ nodes = [i \in {RootInode} |-> [fd |-> Root, path |-> <<>>, parent |-> None,
                                           name |-> None, key |-> Root, refs |-> 1]]
    BY DEF Init
  <2>2. \A d \in Ids : Links(d) = {} /\ d # Root /\ d # None
    BY <2>1, SectionIsSane DEF Links
  <2>3. PlacedIn(Current, kind, entry)
    BY <2>1, <2>2 DEF PlacedIn, Place, Current
  <2>. QED
    BY <2>1, <2>2, <2>3 DEF WInv, TreeInv, WriteInv, ChangedIsWritable
<1>2. ASSUME IInv, WInv, ChangedIsWritable, [Next]_vars PROVE WInv' /\ ChangedIsWritable'
  <2>1. CASE Next
    BY <1>2, <2>1, NextWrites
  <2>2. CASE UNCHANGED vars
    <3>1. UNCHANGED <<kind, entry, nodes, byKey, opened, changed>>
      BY <2>2 DEF vars, tree, table
    <3>2. SameDirs(Current, Current')
      BY <3>1 DEF SameDirs, Current
    <3>3. WInv'
      BY <1>2, <3>1, <3>2, QuietTableKeepsWrites
    <3>4. \A s : PathsOf(s)' = PathsOf(s)
      BY <3>1 DEF PathsOf, Links
    <3>. QED
      BY <1>2, <3>1, <3>3, <3>4 DEF ChangedIsWritable
  <2>. QED
    BY <1>2, <2>1, <2>2
<1>. QED
  BY <1>1, <1>2, TableInvariant, PTL DEF Spec

\* Where all names are told apart and others move nothing, the content and attributes that
\* are changed through the view are those of files whose every name may be written, except
\* for the names other processes linked to a file while the view had it open for writing.
THEOREM OnlyWritableChanges ==
    ASSUME NoFolding, "move" \notin Others
    PROVE  Spec => []ChangedIsWritable
BY WriteInvariant, PTL

\* There too, no handler creates, replaces or removes a name that may not be written.
THEOREM OnlyWritableNames ==
    ASSUME NoFolding, "move" \notin Others
    PROVE  Spec => NamesAreWritable
<1>. DEFINE Touches == \E s \in Slots : /\ entry'[s] # entry[s]
                                        /\ \E path \in PathsOf(s) : ~MayWrite(path)
<1>1. ASSUME IInv, WInv PROVE [Touches => ~Handler]_vars
  BY <1>1, HandlerWritesNames
<1>. QED
  BY <1>1, WriteInvariant, PTL DEF NamesAreWritable

=============================================================================

------------------------------ MODULE FuseView ------------------------------
(***************************************************************************)
(* The filtered passthrough filesystem (certorail/fuseview.py): the inode  *)
(* table of one View, the kernel that holds its inodes, the filter over    *)
(* names, and the backing tree that other processes change meanwhile.      *)
(*                                                                         *)
(* Handlers have no `await`, so each is one step; another process runs     *)
(* between two handlers, and between the scan of an open directory and its *)
(* continuations.  Directories lie in the root only (a path has one or two *)
(* names), and a symbolic link is a file.  Handlers that change neither    *)
(* the tree nor the table (getattr, readlink, read, statfs) are left out.  *)
(***************************************************************************)
EXTENDS Naturals, FiniteSets, Sequences, SequencesExt, FiniteSetsExt, Functions

CONSTANTS
    Names,
    Fold,         \* the backing filesystem's folding: names alike resolve to each other
    Ids,          \* inode numbers of the backing filesystem, free to be used again
    Root,         \* the root directory's
    None,         \* no inode number, no inode, no name
    MaxInodes,    \* bound: FUSE inodes in the table at once
    Reads, Writes, NoWrites,   \* the policy's filesystem section: sets of locations
    Others,       \* what other processes do to the tree: "make", "remove", "link", "move"
    MaxLookups,   \* bound: the kernel's count of lookups of one inode
    MaxOpen,      \* bound: file descriptors open at once
    MaxScans      \* bound: directory handles open at once (0 or 1)

ASSUME SectionIsSane ==
    /\ Root \notin Ids
    /\ None \notin Names \union Ids \union {Root} \union Nat
    /\ Fold \in [Names -> Names]
    /\ MaxInodes \in Nat \ {0}
    /\ MaxLookups \in Nat
    /\ IsFiniteSet(Names) /\ IsFiniteSet(Ids)

VARIABLES
    kind,      \* what each inode number in use is
    entry,     \* the entries of each directory
    nodes,     \* View.inodes
    byKey,     \* View.by_key
    known,     \* the kernel's lookup count of each inode
    dentries,  \* the names it was shown in each directory and may go on using
    opened,    \* open I/O descriptors: the file, whether it may be written, and, for the
               \* properties only, the names that others gave it while it could be
    scan,      \* View.dir_handles
    changed    \* the files the last handler changed the content or attributes of

tree == <<kind, entry>>
table == <<nodes, byKey>>
kernel == <<known, dentries>>
vars == <<tree, table, kernel, opened, scan, changed>>

AllIds == Ids \union {Root}
RootInode == 1
AllInodes == 1..MaxInodes
Inodes == AllInodes \ {RootInode}
Slots == AllIds \X Names

----------------------------------------------------------------------------
(* Filter.  A location is a path of components, each the set of names it    *)
(* subsumes: exactly that path ("static"), it and everything below it       *)
(* ("tree"), or the paths strictly below it whose last name is in `leaf`    *)
(* ("splat").                                                               *)

Fits(path, prefix) == \A k \in DOMAIN path \intersect DOMAIN prefix : path[k] \in prefix[k]

Within(path, loc) ==
    /\ Len(path) >= Len(loc.prefix)
    /\ Fits(path, loc.prefix)
    /\ \/ loc.form = "tree"
       \/ loc.form = "static" /\ Len(path) = Len(loc.prefix)
       \/ loc.form = "splat" /\ Len(path) > Len(loc.prefix) /\ Last(path) \in loc.leaf

NamesBelow(path, loc) ==
    /\ Fits(path, loc.prefix)
    /\ loc.form = "static" => Len(loc.prefix) > Len(path)

Readable(path) == \E g \in Reads \union Writes : Within(path, g)

DirVisible(path) ==
    \/ path = <<>>
    \/ Readable(path)
    \/ \E g \in Reads \union Writes : NamesBelow(path, g)

Visible(path, isDir) ==
    \/ path # <<>> /\ Readable(Front(path))
    \/ IF isDir THEN DirVisible(path) ELSE Readable(path)

MayWrite(path) ==
    /\ path # <<>>
    /\ \E w \in Writes : Within(path, w)
    /\ \A p \in NoWrites, k \in 1..Len(path) : ~Within(SubSeq(path, 1, k), p)

----------------------------------------------------------------------------
(* The backing tree.                                                        *)

\* The slot a name resolves to in a directory: its own, or that of a name folding alike.
Stored(dir, name) ==
    LET alike == {n \in Names : Fold[n] = Fold[name] /\ entry[<<dir, n>>] # None}
    IN  IF alike = {} THEN name ELSE CHOOSE n \in alike : TRUE

Resolve(dir, name) == entry[<<dir, Stored(dir, name)>>]

Links(id) == {s \in Slots : entry[s] = id}

\* An inode number is in use while it is linked or some descriptor is open on it.
InUse(id) ==
    \/ Links(id) # {}
    \/ \E i \in DOMAIN nodes : nodes[i].fd = id
    \/ \E h \in opened : h.id = id
    \/ \E h \in scan : h.fd = id

Reachable == {Root} \union {id \in Ids : kind[id] = "dir" /\ Links(id) # {}}

IsEmpty(dir) == \A n \in Names : entry[<<dir, n>>] = None

\* Where a slot really is, whatever the view recorded: no path when its directory is gone.
PathsOf(slot) ==
    IF slot[1] = Root THEN {<<slot[2]>>} ELSE {<<s[2], slot[2]>> : s \in Links(slot[1])}

----------------------------------------------------------------------------
(* The inode table, as functions of the table t = [nodes, byKey].           *)

IsDir(t, i) == t.nodes[i].fd # None
PathIn(t, i) ==
    LET n == t.nodes[i] IN IF IsDir(t, i) THEN n.path ELSE Append(t.nodes[n.parent].path, n.name)

Current == [nodes |-> nodes, byKey |-> byKey]
PathOf(i) == PathIn(Current, i)
ChildPath(p, name) == Append(nodes[p].path, name)
FdOf(p) == nodes[p].fd

StatOf(id) == [key |-> id, dir |-> kind[id] = "dir"]

\* The same kind of entry, at the place the view recorded?
RecordedAt(t, i, p, name, st) ==
    IF st.dir
      THEN IsDir(t, i) /\ t.nodes[i].path = Append(t.nodes[p].path, name)
      ELSE ~IsDir(t, i) /\ t.nodes[i].parent = p /\ t.nodes[i].name = name

Reused(t, p, name, st) ==
    t.byKey[st.key] # None /\ RecordedAt(t, t.byKey[st.key], p, name, st)

\* A directory is opened by name: `at` is what the name resolves to by then.
AdmitFails(t, p, name, st, at) ==
    ~Reused(t, p, name, st) /\ st.dir /\ (at # None => kind[at] # "dir")

\* An inode number is never used twice; one nobody knows any more stands for the next.
Unused(t) == Inodes \ DOMAIN t.nodes
CanAdmit(t, p, name, st) == Reused(t, p, name, st) \/ Unused(t) # {}

\* Mutant of NodeFor: a file keeps a descriptor too.
NodeWithFd(t, p, name, st, at) ==
    [fd |-> at, path |-> IF st.dir THEN Append(t.nodes[p].path, name) ELSE <<>>,
     parent |-> IF st.dir THEN None ELSE p, name |-> IF st.dir THEN None ELSE name,
     key |-> st.key, refs |-> 1]

NodeFor(t, p, name, st, at) ==
    IF st.dir
      THEN [fd |-> at, path |-> Append(t.nodes[p].path, name),
            parent |-> None, name |-> None, key |-> st.key, refs |-> 1]
      ELSE [fd |-> None, path |-> <<>>, parent |-> p, name |-> name, key |-> st.key, refs |-> 1]

\* Mutant of Pinned: a file does not hold the directory it was found in.
NotPinned(ns, p) == ns

\* drop() never reads the root's count, which only grows: it is left at one.
Pinned(ns, p) == IF p = RootInode THEN ns ELSE [ns EXCEPT ![p].refs = @ + 1]

\* Mutant of Admit: an inode that is used again is not counted again.
AdmitUncounted(t, p, name, st, at) ==
    IF Reused(t, p, name, st)
      THEN [t |-> t, inode |-> t.byKey[st.key]]
      ELSE LET i == Min(Unused(t))
               pinned == IF st.dir THEN t.nodes ELSE Pinned(t.nodes, p)
           IN  [t |-> [nodes |-> [j \in DOMAIN pinned \union {i} |->
                                     IF j = i THEN NodeFor(t, p, name, st, at) ELSE pinned[j]],
                       byKey |-> [t.byKey EXCEPT ![st.key] = i]],
                inode |-> i]

\* The table and the inode after admit(): reuse and count, or a new inode, which takes
\* the key and, for a file, pins the directory it was found in.
Admit(t, p, name, st, at) ==
    IF Reused(t, p, name, st)
      THEN LET i == t.byKey[st.key] IN [t |-> [t EXCEPT !.nodes[i].refs = @ + 1], inode |-> i]
      ELSE LET i == Min(Unused(t))
               pinned == IF st.dir THEN t.nodes ELSE Pinned(t.nodes, p)
               node == NodeFor(t, p, name, st, at)
           IN  [t |-> [nodes |-> [j \in DOMAIN pinned \union {i} |->
                                     IF j = i THEN node ELSE pinned[j]],
                       byKey |-> [t.byKey EXCEPT ![st.key] = i]],
                inode |-> i]

DropOne(t, i, count) ==
    IF i = RootInode \/ i \notin DOMAIN t.nodes THEN t
    ELSE IF t.nodes[i].refs > count THEN [t EXCEPT !.nodes[i].refs = @ - count]
    ELSE [nodes |-> Restrict(t.nodes, DOMAIN t.nodes \ {i}),
          byKey |-> [t.byKey EXCEPT ![t.nodes[i].key] = IF @ = i THEN None ELSE @]]

\* A file that goes lets its directory go; a directory pins nothing.
Drop(t, i, count) ==
    LET u == DropOne(t, i, count)
        gone == i \in DOMAIN t.nodes \ DOMAIN u.nodes
    IN  IF gone /\ t.nodes[i].parent # None THEN DropOne(u, t.nodes[i].parent, 1) ELSE u

SetTable(t) == nodes' = t.nodes /\ byKey' = t.byKey

----------------------------------------------------------------------------
(* What a handler asks before it acts.                                      *)

Held == {i \in AllInodes : i = RootInode \/ known[i] > 0}
HeldDirs == {i \in Held : IsDir(Current, i)}
HeldFiles == Held \ HeldDirs

\* Mutant of WritableName: the directory is asked about, not the name.
WritableDir(p, name) == MayWrite(nodes[p].path)

WritableName(p, name) == MayWrite(ChildPath(p, name))
Alias(p, name) == Stored(FdOf(p), name) # name
NameIsFree(p, name) == Resolve(FdOf(p), name) = None

\* stat_of and fd_of: what is at the recorded place is the file that was admitted.
Present(i) == ~IsDir(Current, i) => Resolve(FdOf(nodes[i].parent), nodes[i].name) = nodes[i].key

\* Mutant of WritableInode: a file's other links are not counted.
WritableAnyLinks(i) == i # RootInode /\ MayWrite(PathOf(i)) /\ Present(i)

WritableInode(i) ==
    /\ i # RootInode
    /\ MayWrite(PathOf(i))
    /\ Present(i)
    /\ ~IsDir(Current, i) /\ kind[nodes[i].key] = "file" => Cardinality(Links(nodes[i].key)) = 1

Descriptor(id, write) == [id |-> id, write |-> write, lent |-> {}]

\* A handler that ends by admitting an entry: the reply hands the kernel one more lookup
\* of its inode.
ReplyEntry(p, name, st) ==
    LET a == Admit(Current, p, name, st, st.key) IN
    /\ CanAdmit(Current, p, name, st)
    /\ known[a.inode] < MaxLookups
    /\ known' = [known EXCEPT ![a.inode] = @ + 1]
    /\ dentries' = dentries \union {<<p, name>>}
    /\ SetTable(a.t)

----------------------------------------------------------------------------
(* Handlers on names.                                                       *)

\* Mutant of Lookup: the filter is not asked.
LookupHidden(p, name) ==
    LET id == Resolve(FdOf(p), name) IN
    /\ id # None
    /\ ~Alias(p, name)
    /\ ReplyEntry(p, name, StatOf(id))
    /\ changed' = {}
    /\ UNCHANGED <<tree, opened, scan>>

Lookup(p, name) ==
    LET id == Resolve(FdOf(p), name) IN
    /\ id # None
    /\ ~Alias(p, name)
    /\ Visible(ChildPath(p, name), kind[id] = "dir")
    /\ ReplyEntry(p, name, StatOf(id))
    /\ changed' = {}
    /\ UNCHANGED <<tree, opened, scan>>

\* The kernel forgets some lookups; with the last one go the names that need the inode, and
\* it never forgets a directory it has open.
Forget(i, count) ==
    /\ count <= known[i]
    /\ count = known[i] => \A h \in scan : h.inode # i
    /\ known' = [known EXCEPT ![i] = @ - count]
    /\ dentries' = IF count < known[i] THEN dentries
                    ELSE {d \in dentries : d[1] # i /\ ChildPath(d[1], d[2]) # PathOf(i)}
    /\ SetTable(Drop(Current, i, count))
    /\ changed' = {}
    /\ UNCHANGED <<tree, opened, scan>>

\* create (which also opens the file), mkdir and symlink.
Make(p, name, made) ==
    \E id \in Ids :
        /\ WritableName(p, name)
        /\ NameIsFree(p, name)
        /\ FdOf(p) \in Reachable
        /\ made = "dir" => FdOf(p) = Root
        /\ ~InUse(id)
        /\ kind' = [kind EXCEPT ![id] = made]
        /\ entry' = [entry EXCEPT ![<<FdOf(p), name>>] = id]
        /\ ReplyEntry(p, name, [key |-> id, dir |-> made = "dir"])
        /\ changed' = {}
        /\ \/ UNCHANGED opened
           \/ /\ made = "file"
              /\ Cardinality(opened) < MaxOpen
              /\ opened' = opened \union {Descriptor(id, TRUE)}
        /\ UNCHANGED scan

Link(i, p, name) ==
    LET id == nodes[i].key IN
    /\ WritableName(p, name)
    /\ NameIsFree(p, name)
    /\ WritableInode(i)
    /\ kind[id] = "file"
    /\ FdOf(p) \in Reachable
    /\ entry' = [entry EXCEPT ![<<FdOf(p), name>>] = id]
    /\ ReplyEntry(p, name, StatOf(id))
    /\ changed' = {}
    /\ UNCHANGED <<kind, opened, scan>>

\* Mutant of Moved: the new directory is not pinned.
MovedUnpinned(p, old, q, fresh, st) ==
    LET i == byKey[st.key]
        t == Drop(Current, p, 1)
    IN  IF Reused(Current, p, old, st)
          THEN [t EXCEPT !.nodes = [@ EXCEPT ![i].parent = q, ![i].name = fresh]]
          ELSE Current

\* The inode found by the file's key moves with the name, if it is recorded there.
Moved(p, old, q, fresh, st) ==
    LET i == byKey[st.key]
        t == Drop(Current, p, 1)
    IN  IF Reused(Current, p, old, st)
          THEN [t EXCEPT !.nodes = Pinned([@ EXCEPT ![i].parent = q, ![i].name = fresh], q)]
          ELSE Current

RenameEntry(from, to, id) ==
    entry' = IF entry[to] = id THEN entry ELSE [entry EXCEPT ![from] = None, ![to] = id]

Rename(p, old, q, fresh) ==
    LET id == Resolve(FdOf(p), old)
        from == <<FdOf(p), Stored(FdOf(p), old)>>
        to == <<FdOf(q), fresh>>
    IN  /\ WritableName(p, old)
        /\ WritableName(q, fresh)
        /\ ~Alias(q, fresh)
        /\ id # None
        /\ kind[id] # "dir"
        /\ entry[to] # None => kind[entry[to]] = "file"
        /\ FdOf(q) \in Reachable
        /\ RenameEntry(from, to, id)
        /\ SetTable(Moved(p, old, q, fresh, StatOf(id)))
        /\ dentries' = (dentries \ {<<p, old>>}) \union {<<q, fresh>>}
        /\ changed' = {}
        /\ UNCHANGED <<kind, known, opened, scan>>

\* unlink and rmdir.
Unlink(p, name) ==
    LET id == Resolve(FdOf(p), name) IN
    /\ WritableName(p, name)
    /\ id # None
    /\ kind[id] = "dir" => IsEmpty(id)
    /\ entry' = [entry EXCEPT ![<<FdOf(p), Stored(FdOf(p), name)>>] = None]
    /\ dentries' = dentries \ {<<p, name>>}
    /\ changed' = {}
    /\ UNCHANGED <<kind, table, known, opened, scan>>

----------------------------------------------------------------------------
(* Handlers on inodes and handles.                                          *)

Open(i, write) ==
    /\ IF write THEN WritableInode(i) /\ kind[nodes[i].key] = "file" ELSE Readable(PathOf(i))
    /\ Present(i)
    /\ Cardinality(opened) < MaxOpen
    /\ opened' = opened \union {Descriptor(nodes[i].key, write)}
    /\ changed' = {}
    /\ UNCHANGED <<tree, table, kernel, scan>>

Write(h) ==
    /\ h.write
    /\ changed' = {h.id}
    /\ UNCHANGED <<tree, table, kernel, opened, scan>>

Release(h) ==
    /\ opened' = opened \ {h}
    /\ changed' = {}
    /\ UNCHANGED <<tree, table, kernel, scan>>

Setattr(i) ==
    /\ WritableInode(i)
    /\ changed' = {IF IsDir(Current, i) THEN nodes[i].fd ELSE nodes[i].key}
    /\ UNCHANGED <<tree, table, kernel, opened, scan>>

----------------------------------------------------------------------------
(* An open directory: scanned at its first readdir, replied from that scan. *)

Opendir(i) ==
    /\ Cardinality(scan) < MaxScans
    /\ scan' = scan \union {[inode |-> i, fd |-> FdOf(i), scanned |-> FALSE, found |-> <<>>]}
    /\ changed' = {}
    /\ UNCHANGED <<tree, table, kernel, opened>>

\* Mutant of VisibleEntries: a directory's entries are not filtered.
AllEntries(h) ==
    {[name |-> n, st |-> StatOf(entry[<<h.fd, n>>])] : n \in {n \in Names : entry[<<h.fd, n>>] # None}}

VisibleEntries(h) ==
    {[name |-> n, st |-> StatOf(entry[<<h.fd, n>>])] : n \in
        {n \in Names : /\ entry[<<h.fd, n>>] # None
                       /\ Visible(ChildPath(h.inode, n), kind[entry[<<h.fd, n>>]] = "dir")}}

\* The first call scans; what follows is the reply to it.
Scan(h) ==
    /\ ~h.scanned
    /\ \E found \in SetToSeqs(VisibleEntries(h)) :
          scan' = (scan \ {h}) \union {[h EXCEPT !.scanned = TRUE, !.found = found]}
    /\ changed' = {}
    /\ UNCHANGED <<tree, table, kernel, opened>>

\* One more entry is admitted: the table, the inodes, and whether one failed.
AdmitNext(acc, p, e) ==
    LET at == Resolve(FdOf(p), e.name) IN
    IF \/ acc.failed
       \/ AdmitFails(acc.t, p, e.name, e.st, at)
       \/ ~CanAdmit(acc.t, p, e.name, e.st)
      THEN [acc EXCEPT !.failed = TRUE]
      ELSE LET a == Admit(acc.t, p, e.name, e.st, at)
           IN  [t |-> a.t, inodes |-> Append(acc.inodes, a.inode), failed |-> FALSE]

\* The entries admitted one after the other.
AdmitAll(p, found) ==
    LET acc[k \in 0..Len(found)] ==
            IF k = 0 THEN [t |-> Current, inodes |-> <<>>, failed |-> FALSE]
            ELSE AdmitNext(acc[k - 1], p, found[k])
    IN  acc[Len(found)]

Replied(inodes) ==
    [i \in AllInodes |-> known[i] + Cardinality({k \in DOMAIN inodes : inodes[k] = i})]

\* Entries from `first` on are admitted and put in the reply until it is full; the one
\* that did not fit is dropped again.
Readdir(h, first, last) ==
    LET whole == last = Len(h.found)
        admitted == AdmitAll(h.inode, SubSeq(h.found, first, IF whole THEN last ELSE last + 1))
    IN  /\ h.scanned
        /\ ~admitted.failed
        /\ LET fit == IF whole THEN admitted.inodes ELSE Front(admitted.inodes)
           IN  /\ known' = Replied(fit)
               /\ \A i \in AllInodes : known'[i] <= MaxLookups
               /\ dentries' = dentries \union
                       {<<h.inode, h.found[k].name>> : k \in first..(first + Len(fit) - 1)}
               /\ SetTable(IF whole THEN admitted.t ELSE Drop(admitted.t, Last(admitted.inodes), 1))
        /\ changed' = {}
        /\ UNCHANGED <<tree, opened, scan>>

\* A directory of the scan is gone: the call fails, and pyfuse3 replies with the error
\* alone, so the kernel never hears of the entries already in the reply.
ReaddirFails(h, first, last) ==
    LET e == h.found[last]
        admitted == AdmitAll(h.inode, SubSeq(h.found, first, last - 1))
    IN  /\ h.scanned
        /\ ~admitted.failed
        /\ AdmitFails(admitted.t, h.inode, e.name, e.st, Resolve(FdOf(h.inode), e.name))
        /\ SetTable(admitted.t)
        /\ changed' = {}
        /\ UNCHANGED <<tree, kernel, opened, scan>>

Releasedir(h) ==
    /\ scan' = scan \ {h}
    /\ changed' = {}
    /\ UNCHANGED <<tree, table, kernel, opened>>

----------------------------------------------------------------------------
(* Other processes, on the backing tree itself.                             *)

OutsideMake(dir, name, made) ==
    \E id \in Ids :
        /\ "make" \in Others
        /\ dir \in Reachable
        /\ made = "dir" => dir = Root
        /\ Resolve(dir, name) = None
        /\ ~InUse(id)
        /\ kind' = [kind EXCEPT ![id] = made]
        /\ entry' = [entry EXCEPT ![<<dir, name>>] = id]
        /\ UNCHANGED opened

OutsideRemove(dir, name) ==
    /\ "remove" \in Others
    /\ entry[<<dir, name>>] # None
    /\ kind[entry[<<dir, name>>]] = "dir" => IsEmpty(entry[<<dir, name>>])
    /\ entry' = [entry EXCEPT ![<<dir, name>>] = None]
    /\ UNCHANGED <<kind, opened>>

\* The view does not hear of the name, and a write asks nothing again.
Lent(h, id, slot) == IF h.write /\ h.id = id THEN [h EXCEPT !.lent = @ \union {slot}] ELSE h

OutsideLink(id, dir, name) ==
    /\ "link" \in Others
    /\ dir \in Reachable
    /\ Links(id) # {}
    /\ kind[id] = "file"
    /\ Resolve(dir, name) = None
    /\ entry' = [entry EXCEPT ![<<dir, name>>] = id]
    /\ opened' = {Lent(h, id, <<dir, name>>) : h \in opened}
    /\ UNCHANGED kind

OutsideMove(from, to) ==
    /\ "move" \in Others
    /\ to[1] \in Reachable
    /\ entry[from] # None
    /\ kind[entry[from]] = "dir" => to[1] = Root
    /\ Resolve(to[1], to[2]) = None
    /\ entry' = [entry EXCEPT ![from] = None, ![to] = entry[from]]
    /\ UNCHANGED <<kind, opened>>

Outside ==
    /\ \/ \E dir \in AllIds, n \in Names, made \in {"file", "dir"} : OutsideMake(dir, n, made)
       \/ \E dir \in AllIds, n \in Names : OutsideRemove(dir, n)
       \/ \E id \in Ids, dir \in AllIds, n \in Names : OutsideLink(id, dir, n)
       \/ \E from, to \in Slots : OutsideMove(from, to)
    /\ changed' = {}
    /\ UNCHANGED <<table, kernel, scan>>

----------------------------------------------------------------------------

Init ==
    /\ kind = [id \in AllIds |-> IF id = Root THEN "dir" ELSE "file"]
    /\ entry = [s \in Slots |-> None]
    /\ nodes = [i \in {RootInode} |-> [fd |-> Root, path |-> <<>>, parent |-> None,
                                       name |-> None, key |-> Root, refs |-> 1]]
    /\ byKey = [id \in AllIds |-> IF id = Root THEN RootInode ELSE None]
    /\ known = [i \in AllInodes |-> 0]
    /\ dentries = {}
    /\ opened = {}
    /\ scan = {}
    /\ changed = {}

\* The kernel asks to remove or rename only a name it was shown.
OnNames ==
    \E p \in HeldDirs, n \in Names :
        \/ Lookup(p, n)
        \/ \E made \in {"file", "dir"} : Make(p, n, made)
        \/ \E i \in HeldFiles : Link(i, p, n)
        \/ <<p, n>> \in dentries /\ Unlink(p, n)
        \/ \E q \in HeldDirs, m \in Names : <<p, n>> \in dentries /\ Rename(p, n, q, m)

OnInodes ==
    \/ \E i \in Inodes, count \in 1..MaxLookups : Forget(i, count)
    \/ \E i \in HeldFiles, write \in BOOLEAN : Open(i, write)
    \/ \E h \in opened : Write(h) \/ Release(h)
    \/ \E i \in Held : Setattr(i)

OnDirectories ==
    \/ \E i \in HeldDirs : Opendir(i)
    \/ \E h \in scan :
          \/ Scan(h)
          \/ \E first \in 1..Len(h.found), last \in 1..Len(h.found) :
                first <= last /\ (Readdir(h, first, last) \/ ReaddirFails(h, first, last))
          \/ Releasedir(h)

Handler == OnNames \/ OnInodes \/ OnDirectories

Next == Handler \/ Outside

Spec == Init /\ [][Next]_vars

----------------------------------------------------------------------------
(* Properties.                                                              *)

Node ==
    [fd : {Root} \union Ids, path : Seq(Names), parent : {None}, name : {None}, key : AllIds, refs : Nat]
      \union
    [fd : {None}, path : {<<>>}, parent : AllInodes, name : Names, key : AllIds, refs : Nat]

Descriptors == [id : Ids, write : BOOLEAN, lent : SUBSET Slots]

TypeOK ==
    /\ kind \in [AllIds -> {"file", "dir"}]
    /\ entry \in [Slots -> Ids \union {None}]
    /\ DOMAIN nodes \subseteq AllInodes
    /\ \A i \in DOMAIN nodes : nodes[i] \in Node
    /\ byKey \in [AllIds -> AllInodes \union {None}]
    /\ known \in [AllInodes -> 0..MaxLookups]
    /\ dentries \subseteq AllInodes \X Names
    /\ opened \subseteq Descriptors
    /\ changed \subseteq AllIds

\* The files recorded in a directory pin it.
Pins(i) == {j \in DOMAIN nodes : nodes[j].parent = i}

\* View.drop forgets an inode when its count is used up: the count is what the kernel
\* still holds plus the files recorded in the directory, through every admission, rename
\* and forget, so nothing is forgotten early and nothing is kept for ever.
RefsExact ==
    \A i \in DOMAIN nodes \ {RootInode} :
        nodes[i].refs = known[i] + Cardinality(Pins(i))

\* Where directories are read too, the count may only be too high (NothingOutlivesTheKernel):
\* an inode the kernel holds is never dropped under it.
RefsCover ==
    \A i \in DOMAIN nodes \ {RootInode} :
        nodes[i].refs >= known[i] + Cardinality(Pins(i))

\* admit's docstring: an inode "stays, unfindable by key, until the kernel forgets it".
NothingOutlivesTheKernel ==
    \A i \in DOMAIN nodes \ {RootInode} : known[i] > 0 \/ Pins(i) # {}

\* What the kernel holds is in the table, and so is the directory of every file in it:
\* no request can meet a KeyError or a failed assertion (parent_fd, path_of).  by_key never
\* leads to an inode that was dropped, nor to one of another identity.
TableIsClosed ==
    /\ Held \subseteq DOMAIN nodes
    /\ \A i \in DOMAIN nodes :
          ~IsDir(Current, i) => nodes[i].parent \in DOMAIN nodes /\ IsDir(Current, nodes[i].parent)
    /\ \A h \in scan : h.inode \in DOMAIN nodes
    /\ \A id \in AllIds :
          byKey[id] # None => byKey[id] \in DOMAIN nodes /\ nodes[byKey[id]].key = id

\* The kernel is only ever shown what the policy lets it see: whatever moved, was
\* replaced or had its inode number used again, each inode's recorded place is visible.
TableIsVisible ==
    \A i \in DOMAIN nodes : Visible(PathOf(i), IsDir(Current, i))

\* A file changed through the view has only names the policy lets be written -- also
\* when the view gave it another name, or its name to another file, after it was opened.
\* The names that another process gave it while it was open for writing are excepted: a
\* write goes through the descriptor and asks nothing of the file's names again.
ChangedIsWritable ==
    \A id \in changed, s \in Slots :
        entry[s] = id =>
            \/ \E h \in opened : h.id = id /\ s \in h.lent
            \/ \A path \in PathsOf(s) : MayWrite(path)

\* No handler creates, replaces or removes an entry at a path that may not be written, where
\* the backing filesystem tells the spellings of a name apart (Fold): unlink, rmdir and a
\* rename's source do not ask for the stored spelling.
NamesAreWritable ==
    [][(\E s \in Slots : /\ entry'[s] # entry[s]
                         /\ \E path \in PathsOf(s) : ~MayWrite(path))
          => ~Handler]_vars
=============================================================================

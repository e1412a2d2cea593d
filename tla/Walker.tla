------------------------------- MODULE Walker -------------------------------
(***************************************************************************)
(* The dataflow walker of walker.py with the kills of enforcement.py, the  *)
(* summaries of summaries.py and the effects of effects.py.                *)
(*                                                                         *)
(* A program is a tree of records: P.main is a block, P.fns its module-    *)
(* level functions.  Every statement has a label l.  The walk yields at[l],*)
(* the facts it has about the variables when it reaches l.                 *)
(*                                                                         *)
(* The definitions are operators on a record w, the walker's registers:    *)
(* st (the state), seen (the kill since the measure began), at, ok (no     *)
(* violation yet), res and guar (the function's), and what is fixed during *)
(* a walk: fns, sums, consts.                                              *)
(***************************************************************************)
EXTENDS Naturals, Sequences, FiniteSets, Functions, TLC

CONSTANTS
    Texts, AnyText, \* the texts, and the shape of a text nothing is known about
    Atoms, PureAtoms,
    PureOf,         \* the pure atoms that are true of a text
    Reads,          \* what an environmental atom depends on; absent: on everything
    Regions, Media, MediumOf,
    ExecWrites,     \* what the rule of every exec writes
    CheckWrites     \* what a validation's evaluator writes

Everything == Media
NoKill == [writes |-> {}, opens |-> FALSE]
Opening == [writes |-> {}, opens |-> TRUE]
Opaque == [writes |-> Everything, opens |-> TRUE]
Writes(w) == [writes |-> w, opens |-> FALSE]
FileWrite == Writes({"fs"})
Or(k1, k2) == [writes |-> k1.writes \cup k2.writes, opens |-> k1.opens \/ k2.opens]

(***************************************************************************)
(* Entries of the state.  A state is a function on the names it knows.     *)
(***************************************************************************)
Fact(shape, atoms) == [d |-> "fact", shape |-> shape, atoms |-> atoms]
Std(kind, closed) == [d |-> "std", kind |-> kind, closed |-> closed]
Data(writes) == [d |-> "data", writes |-> writes, closed |-> TRUE]
Cont(atoms) == [d |-> "cont", atoms |-> atoms]
Unknown == [d |-> "none"]
Never == [d |-> "never"]

NoState == [x \in {} |-> Unknown]
Get(st, x) == IF x \in DOMAIN st THEN st[x] ELSE Unknown
Put(st, x, entry) ==
    [y \in DOMAIN st \cup {x} |-> IF y = x THEN entry ELSE st[y]]
Set(st, x, entry) ==
    IF entry = Unknown THEN Restrict(st, DOMAIN st \ {x}) ELSE Put(st, x, entry)
Drop(st, names) == Restrict(st, DOMAIN st \ names)

Inert(entry) ==
    \/ entry.d \in {"fact", "cont"}
    \/ entry.d \in {"std", "data"} /\ entry.closed
InertReceiver(entry) ==
    \/ Inert(entry)
    \/ entry.d = "std" /\ entry.kind # "any"
Opened(entry) ==
    IF entry.d = "std" /\ entry.kind = "number" THEN entry
    ELSE [entry EXCEPT !.closed = FALSE]

(***************************************************************************)
(* Effects.meets, Enforcement.survivors, _killed.                          *)
(***************************************************************************)
\* Mutant: a region and the medium it is part of do not meet.
MeetsByName(w, r) == w \cap r # {}

Meets(w, r) ==
    \/ w \cap r # {}
    \/ \E u \in w \cap Regions : MediumOf[u] \in r
    \/ \E u \in r \cap Regions : MediumOf[u] \in w

Survivors(atoms, kill) ==
    IF kill.writes = {} THEN atoms
    ELSE {a \in atoms : \/ a \in PureAtoms
                        \/ a \in DOMAIN Reads /\ ~Meets(kill.writes, Reads[a])}

Forget(fact, kill) == [fact EXCEPT !.atoms = Survivors(@, kill)]

AfterKill(entry, kill) ==
    CASE entry.d \in {"fact", "cont"} -> Forget(entry, kill)
      [] entry.d \in {"std", "data"} -> IF kill.opens THEN Opened(entry) ELSE entry

Killed(st, kill) == [x \in DOMAIN st |-> AfterKill(st[x], kill)]

KillState(w, kill) == [w EXCEPT !.st = Killed(@, kill), !.seen = Or(@, kill)]

(***************************************************************************)
(* _join: what holds on both paths.                                        *)
(***************************************************************************)
JoinEntry(a, b) ==
    CASE a = b -> a
      [] a.d = "std" /\ b.d = "std" ->
            Std(IF a.kind = b.kind THEN a.kind ELSE "any", a.closed /\ b.closed)
      [] a.d = "data" /\ b.d = "data" /\ a # b ->
            [a EXCEPT !.closed = @ /\ b.closed, !.writes = @ \/ b.writes]
      [] {a.d, b.d} \cap {"cont", "data"} # {} /\ a.d # b.d -> Unknown
      [] a.d = "cont" /\ b.d = "cont" /\ a # b -> Unknown
      [] "std" \in {a.d, b.d} /\ "fact" \in {a.d, b.d} -> Std("any", Inert(a) /\ Inert(b))
      [] a.d = "fact" /\ b.d = "fact" /\ a # b ->
            IF a.shape = b.shape THEN Fact(a.shape, a.atoms \cap b.atoms) ELSE Std("any", TRUE)

Join(st1, st2) ==
    LET Both == {x \in DOMAIN st1 \cap DOMAIN st2 : JoinEntry(st1[x], st2[x]) # Unknown}
    IN  [x \in Both |-> JoinEntry(st1[x], st2[x])]

JoinAll(states) ==
    IF states = <<>> THEN NoState
    ELSE LET J[i \in 1..Len(states)] ==
                 IF i = 1 THEN states[1] ELSE Join(J[i - 1], states[i])
         IN  J[Len(states)]

JoinResult(a, b) ==
    CASE a = Never -> b
      [] b = Never /\ a # Never -> a
      [] Unknown \in {a, b} /\ Never \notin {a, b} -> Unknown
      [] {Unknown, Never} \cap {a, b} = {} ->
            Std(IF a.kind = b.kind THEN a.kind ELSE "any", a.closed /\ b.closed)

OrSummary(s1, s2) == [kill |-> Or(s1.kill, s2.kill), result |-> JoinResult(s1.result, s2.result)]
Bottom == [kill |-> NoKill, result |-> Never]
Havoc == [kill |-> Opaque, result |-> Unknown]

(***************************************************************************)
(* Expressions.  Operands are names, as in the intermediate form a program *)
(* with longer expressions abbreviates.  Forms: text(t), input, lambda,    *)
(* name(x), list(of), item(x), getter(x), comp(z, over, elt), and the      *)
(* calls exec, open, single(v, x), sorted(x), len(x), method(x, m, y),     *)
(* call(f, y).                                                             *)
(***************************************************************************)
Calls == {"exec", "open", "single", "sorted", "len", "method", "call"}
Roster == {"append", "extend", "sort", "pop"}     \* container methods

RECURSIVE Interp(_, _)

\* The facts a for header or a comprehension binds its target to.
Element(st, over) ==
    LET it == Get(st, over)
    IN  CASE it.d = "cont" -> Fact(AnyText, it.atoms)
          [] it.d = "data" -> Fact(AnyText, {})
          [] it.d \notin {"cont", "data"} -> IF Inert(it) THEN Std("any", TRUE) ELSE Unknown

ItemOf(whole) ==
    CASE whole.d = "cont" -> Fact(AnyText, whole.atoms)
      [] whole.d = "fact" -> Fact(AnyText, {})
      [] whole.d \notin {"cont", "fact"} -> IF Inert(whole) THEN Std("any", TRUE) ELSE Unknown

\* A result of unknown kind holds what the method was handed.
MethodResult(recv, m, arg) ==
    CASE recv.d = "cont" -> IF m = "pop" THEN Fact(AnyText, recv.atoms) ELSE Unknown
      [] recv.d # "cont" -> IF Inert(recv) /\ Inert(arg) THEN Std("any", TRUE) ELSE Unknown

Interp(st, e) ==
    CASE e.e = "text" -> Fact(e.t, {})
      [] e.e = "input" -> Fact(AnyText, {})
      [] e.e = "name" -> Get(st, e.x)
      [] e.e = "list" -> Std("list", \A i \in DOMAIN e.of : Inert(Get(st, e.of[i])))
      [] e.e = "item" -> ItemOf(Get(st, e.x))
      [] e.e = "getter" ->
            IF Inert(Get(st, e.x)) /\ Get(st, e.x).d # "cont" THEN Std("any", TRUE) ELSE Unknown
      [] e.e = "comp" ->
            Std("list", Inert(Interp(Set(Drop(st, {e.z}), e.z, Element(Drop(st, {e.z}), e.over)),
                                     e.elt)))
      [] e.e = "sorted" -> Std("list", Inert(Get(st, e.x)))
      [] e.e = "len" -> Std("number", TRUE)
      [] e.e = "method" -> MethodResult(Get(st, e.x), e.m, Get(st, e.y))
      [] e.e \in {"lambda", "exec", "open", "single", "call"} -> Unknown

\* Vocabulary.missing for one required set: what the value carries, a pure atom also by its text.
Carried(entry) ==
    entry.atoms \cup (IF entry.shape = AnyText THEN {} ELSE PureOf[entry.shape])
Establishes(entry, atoms) == entry.d = "fact" /\ atoms \subseteq Carried(entry)

(***************************************************************************)
(* enforcement.kill_of with walker._kill_of: what a call does to the state. *)
(***************************************************************************)
InertArg(st, y) == Inert(Get(st, y))

MethodKill(st, e) ==
    LET recv == Get(st, e.x)
        inert == InertArg(st, e.y)
    IN  CASE recv.d = "cont" -> IF e.m \in Roster THEN NoKill ELSE Opaque
          [] recv.d = "data" /\ recv.writes /\ e.m = "write" -> IF inert THEN FileWrite ELSE Opaque
          [] recv.d # "cont" /\ ~(recv.d = "data" /\ recv.writes /\ e.m = "write") ->
                IF ~InertReceiver(recv) THEN Opaque
                ELSE IF inert THEN NoKill
                ELSE IF e.m \in {"append", "pop"} THEN Opening ELSE Opaque

KillOf(w, e) ==
    CASE e.e = "exec" -> Writes(ExecWrites)
      [] e.e = "open" -> FileWrite
      [] e.e = "single" -> Writes(CheckWrites[e.v])
      [] e.e = "sorted" -> IF InertArg(w.st, e.x) THEN NoKill ELSE Opaque
      [] e.e = "len" -> NoKill
      [] e.e = "method" -> MethodKill(w.st, e)
      [] e.e = "call" -> (IF e.f \in DOMAIN w.sums THEN w.sums[e.f] ELSE Havoc).kill

(***************************************************************************)
(* Containers: the one use that escapes, and the obligations of a write.   *)
(***************************************************************************)
Violated(w, names) == [w EXCEPT !.ok = FALSE, !.st = Drop(@, names)]

Load(w, x) == IF Get(w.st, x).d = "cont" THEN Violated(w, {x}) ELSE w

LoadAll(w, xs) ==
    LET L[i \in 0..Len(xs)] == IF i = 0 THEN w ELSE Load(L[i - 1], xs[i])
    IN  L[Len(xs)]

Extend(w, x, y) ==
    LET src == Get(w.st, y)
    IN  IF src.d = "cont" /\ w.st[x].atoms \subseteq src.atoms THEN w ELSE Violated(w, {x})

ContainerCall(w, e) ==
    IF e.e # "method" \/ Get(w.st, e.x).d # "cont" THEN w
    ELSE CASE e.m = "append" ->
                IF Establishes(Get(w.st, e.y), w.st[e.x].atoms) THEN w ELSE Violated(w, {e.x})
           [] e.m = "extend" -> Extend(w, e.x, e.y)
           [] e.m \notin {"append", "extend"} -> w

\* The names a call reads outside the roster positions (_roster_blessings).
Loads(e) ==
    CASE e.e \in {"exec", "open", "sorted", "len"} -> <<>>
      [] e.e = "single" -> <<e.x>>
      [] e.e = "method" -> (IF e.m \in Roster THEN <<>> ELSE <<e.x>>)
                           \o (IF e.m = "extend" THEN <<>> ELSE <<e.y>>)
      [] e.e = "call" -> <<e.y>>

\* _check_rely: the argument of a contracted function establishes what it relies on.
RelyHolds(w, e) ==
    e.e = "call" /\ e.f \in DOMAIN w.fns => Establishes(Get(w.st, e.y), w.fns[e.f].rely)
                                            \/ w.fns[e.f].rely = {}

(***************************************************************************)
(* Blocks and statements.  Forms: assign(x, e), annot(x, atoms, e) (a      *)
(* typed container), aug(x, y), store(x, y), attr(x, y), expr(e),          *)
(* check(v, x), assert(t), if, while, for, try (star), with, match,        *)
(* return(e), yield(x), and raise, break, continue, pass.  A test t is     *)
(* guard(x, atom, pos), which establishes a pure atom where it is true, or *)
(* do(e).  An assignment with a scalar annotation is an assign.            *)
(***************************************************************************)
NoName == "-"
Blocks(s) ==
    CASE s.s = "if" -> {s.then, s.orelse}
      [] s.s \in {"while", "for"} -> {s.body, s.orelse}
      [] s.s = "try" -> {s.body, s.orelse, s.final} \cup {s.handlers[i].body : i \in DOMAIN s.handlers}
      [] s.s = "with" -> {s.body}
      [] s.s = "match" -> {s.cases[i].body : i \in DOMAIN s.cases}
      [] s.s \notin {"if", "while", "for", "try", "with", "match"} -> {}

Binds(s) ==
    (CASE s.s \in {"assign", "annot", "aug", "for", "with"} -> {s.x}
       [] s.s = "try" -> {s.handlers[i].x : i \in DOMAIN s.handlers}
       [] s.s = "match" -> UNION {s.cases[i].caps : i \in DOMAIN s.cases}
       [] s.s \notin {"assign", "annot", "aug", "for", "with", "try", "match"} -> {}) \ {NoName}

RECURSIVE AssignedNames(_), FallsThrough(_), HasBreak(_)
AssignedNames(stmts) ==
    UNION {Binds(stmts[i]) \cup UNION {AssignedNames(b) : b \in Blocks(stmts[i])} : i \in DOMAIN stmts}

FallsThrough(stmts) ==
    stmts = <<>> \/
    LET s == stmts[Len(stmts)]
    IN  CASE s.s \in {"raise", "return", "continue", "break"} -> FALSE
          [] s.s = "if" -> FallsThrough(s.then) \/ FallsThrough(s.orelse)
          [] s.s \notin {"raise", "return", "continue", "break", "if"} -> TRUE

\* summaries.is_generator.
RECURSIVE IsGenerator(_)
IsGenerator(stmts) ==
    \E i \in DOMAIN stmts : stmts[i].s = "yield" \/ \E b \in Blocks(stmts[i]) : IsGenerator(b)

HasBreak(stmts) ==
    \E i \in DOMAIN stmts : stmts[i].s = "break" \/ \E b \in Blocks(stmts[i]) : HasBreak(b)

\* _refine with guards.apply: what the test being true establishes.
Refine(st, t) ==
    IF t.t # "guard" \/ ~t.pos \/ Get(st, t.x).d \in {"cont", "data"} THEN st
    ELSE LET old == Get(st, t.x)
         IN  Put(st, t.x, IF old.d = "fact" THEN Fact(old.shape, old.atoms \cup {t.atom})
                          ELSE Fact(AnyText, {t.atom}))
Refined(w, t) == [w EXCEPT !.st = Refine(@, t)]
Negated(t) == IF t.t = "guard" THEN [t EXCEPT !.pos = ~@] ELSE t
NoTest == [t |-> "none"]

RECURSIVE VisitExpr(_, _), Visit(_, _), Block(_, _), Iteration(_, _, _)

VisitTest(w, t) ==
    CASE t.t = "do" -> VisitExpr(w, t.e)
      [] t.t = "guard" -> Load(w, t.x)
      [] t.t = "none" -> w

\* _rehearse and _every_iteration, of a for, a while or a comprehension.
Rehearse(w, node, st) == Iteration([w EXCEPT !.st = st, !.seen = NoKill], node, TRUE).seen
\* Mutant: one rehearsal, whatever it opened.
OneRehearsal(w, node, boundary) == Rehearse(w, node, boundary)

EveryIteration(w, node, boundary) ==
    LET Again(once) == IF once.opens THEN Or(once, Rehearse(w, node, Killed(boundary, once))) ELSE once
    IN  Again(Rehearse(w, node, boundary))

\* What a loop target is bound to as an iteration starts: a fact is the one read before the loop,
\* a standard value is read again.
BindTarget(st, node) ==
    IF node.bind.d = "std" THEN Set(st, node.x, Element(st, node.over)) ELSE Set(st, node.x, node.bind)

Iteration(w, node, header) ==
    CASE node.s = "while" ->
            Block(Refined(IF header THEN VisitTest(w, node.t) ELSE w, node.t), node.body)
      [] node.s = "for" -> Block([w EXCEPT !.st = BindTarget(@, node)], node.body)
      [] node.s = "comp" ->
            LET inner == Drop(w.st, {node.z})
            IN  VisitExpr([w EXCEPT !.st = Set(inner, node.z, Element(inner, node.over))], node.elt)

Consume(w, over) == IF Inert(Get(w.st, over)) THEN w ELSE KillState(w, Opaque)

Gathered(w, every, walked) == KillState([w EXCEPT !.ok = walked.ok], Or(every, walked.seen))
OnceMore(w, node, every) ==
    Gathered(w, every, Iteration([w EXCEPT !.st = Killed(@, every), !.seen = NoKill], node, TRUE))
Comprehend(w, node) == OnceMore(w, node, EveryIteration(w, node, w.st))
Comprehension(w, e) ==
    Comprehend(Consume(w, e.over), [s |-> "comp", z |-> e.z, over |-> e.over, elt |-> e.elt])

VisitExpr(w, e) ==
    CASE e.e \in {"text", "input", "lambda", "item"} -> w
      [] e.e = "name" -> Load(w, e.x)
      [] e.e = "list" -> LoadAll(w, e.of)
      [] e.e = "getter" ->
            LET loaded == Load(w, e.x)
            IN  IF Inert(Get(loaded.st, e.x)) THEN loaded ELSE KillState(loaded, Opaque)
      [] e.e = "comp" -> Comprehension(w, e)
      [] e.e \in Calls ->
            LET read == LoadAll(ContainerCall(w, e), Loads(e))
            IN  KillState([read EXCEPT !.ok = @ /\ RelyHolds(read, e)], KillOf(read, e))

(***************************************************************************)
(* _assign: what the target is known to be after the value was visited.    *)
(***************************************************************************)
ValueOf(w, e) ==
    LET known == Interp(w.st, e)
    IN  CASE e.e = "exec" -> Data(FALSE)
          [] e.e = "open" -> Data(TRUE)
          [] e.e \notin {"exec", "open"} /\ known.d \notin {"none", "cont"} -> known
          [] e.e = "single" ->
                LET v == Get(w.st, e.x)
                IN  IF v.d = "fact" THEN [v EXCEPT !.atoms = @ \cup {e.v}] ELSE Fact(AnyText, {e.v})
          [] e.e = "call" ->
                IF e.f \in DOMAIN w.fns /\ w.fns[e.f].guar # {} THEN Fact(AnyText, w.fns[e.f].guar)
                ELSE IF e.f \in DOMAIN w.sums /\ w.sums[e.f].result.d = "std" THEN w.sums[e.f].result
                ELSE Unknown
          [] e.e \notin {"exec", "open", "single", "call"} /\ known.d \in {"none", "cont"} -> Unknown

\* _construct_container and _constructed: every element establishes the declared atoms.
ElementOfComp(w, c) ==
    LET Made(inner) == IF c.elt.e = "single" THEN ValueOf([w EXCEPT !.st = inner], c.elt)
                       ELSE Interp(inner, c.elt)
        Kept(made, every) == IF made.d = "fact" THEN Forget(made, every) ELSE Unknown
    IN  Kept(Made(Set(Drop(w.st, {c.z}), c.z, Element(w.st, c.over))),
             Comprehension([w EXCEPT !.seen = NoKill], c).seen)

Constructed(w, s) ==
    CASE s.e.e = "list" -> \A i \in DOMAIN s.e.of : Establishes(Get(w.st, s.e.of[i]), s.atoms)
      [] s.e.e = "name" -> /\ Get(w.st, s.e.x).d = "cont"            \* list(xs), the copy
                           /\ s.atoms \subseteq w.st[s.e.x].atoms
      [] s.e.e = "comp" -> Establishes(ElementOfComp(w, s.e), s.atoms)
      [] s.e.e \notin {"list", "name", "comp"} -> FALSE

Held(w, s) ==
    IF Constructed(w, s) THEN [w EXCEPT !.st = Put(@, s.x, Cont(s.atoms))] ELSE Violated(w, {s.x})
Construct(w, s) == Held(IF s.e.e = "name" THEN w ELSE VisitExpr(w, s.e), s)

\* x += y: a container is extended, anything else rebound to what x + y is.
AugAssign(w, s) ==
    LET left == Get(w.st, s.x)
        right == Get(w.st, s.y)
        sum == IF "fact" \in {left.d, right.d} THEN Fact(AnyText, {})
               ELSE IF Inert(left) /\ Inert(right) THEN Std("any", TRUE) ELSE Unknown
        rebound == [w EXCEPT !.st = Set(@, s.x, sum)]
    IN  IF left.d = "cont" THEN Extend(w, s.x, s.y)
        ELSE IF Inert(right) THEN rebound ELSE KillState(rebound, Opening)

Store(w, s) ==
    LET into == Get(w.st, s.x)
        read == Load(w, s.y)
    IN  IF into.d = "cont"
        THEN IF Establishes(Get(read.st, s.y), into.atoms) THEN read ELSE Violated(read, {s.x})
        ELSE IF Inert(Get(read.st, s.y)) THEN read ELSE KillState(read, Opening)

\* certora.check: the evaluator kills, then its success establishes.
Check(w, s) ==
    LET run == KillState(Load(w, s.x), Writes(CheckWrites[s.v]))
        v == Get(run.st, s.x)
    IN  IF v.d # "fact" THEN run ELSE [run EXCEPT !.st[s.x].atoms = @ \cup {s.v}]

(***************************************************************************)
(* Compound statements.  A walk with several parts is a chain: each part   *)
(* takes the state the part before it left.                                *)
(***************************************************************************)
At(w, st) == [w EXCEPT !.st = st]

AfterIf(s, then, else) ==
    LET ends == (IF FallsThrough(s.then) THEN {then.st} ELSE {})
                \cup (IF FallsThrough(s.orelse) THEN {else.st} ELSE {})
    IN  At(else, CASE Cardinality(ends) = 2 -> Join(then.st, else.st)
                   [] Cardinality(ends) = 1 -> CHOOSE st \in ends : TRUE
                   [] ends = {} -> NoState)

\* tested is the state after the test, then the one after the first branch.
ElseBranch(tested, s, then) ==
    AfterIf(s, then, Block(At(then, Refine(tested.st, Negated(s.t))), s.orelse))
Branches(tested, s) == ElseBranch(tested, s, Block(Refined(tested, s.t), s.then))
VisitIf(w, s) == Branches(VisitTest(w, s.t), s)

\* boundary is what holds as any iteration starts.
AfterLoop(s, boundary, else) ==
    At(else, IF HasBreak(s.body) THEN Join(else.st, boundary) ELSE else.st)
LoopFrom(w, s, boundary) ==
    AfterLoop(s, boundary,
              Block(At(Iteration(At(w, boundary), s, FALSE), boundary), s.orelse))
Unassigned(w, s) == Drop(w.st, AssignedNames(<<s>>))
Loop(w, s) ==
    LoopFrom(w, s, Killed(Unassigned(w, s), EveryIteration(w, s, Unassigned(w, s))))

Header(w, s) == s @@ [bind |-> Element(Drop(w.st, {s.x}), s.over)]
EnterFor(w, s) == Loop(At(w, Drop(w.st, {s.x})), Header(w, s))
VisitFor(w, s) == EnterFor(Consume(w, s.over), s)

\* A manager of the standard library cannot suppress; one the program defines may.
AfterWith(entered, s, body) ==
    LET counted == [body EXCEPT !.seen = Or(entered.seen, @)]
        escaped == Killed(Unassigned(entered, s), body.seen)
    IN  IF s.e.e = "open" THEN counted ELSE At(counted, Join(body.st, escaped))
Managed(entered, s) ==
    LET bound == Set(entered.st, s.x, IF s.e.e = "open" THEN Data(TRUE) ELSE Unknown)
    IN  AfterWith(entered, s, Block([At(entered, bound) EXCEPT !.seen = NoKill], s.body))
VisitWith(w, s) == Managed(VisitExpr(w, s.e), s)

\* The handlers one after another, each from the entry state; the ends of those that fall through.
HandlerEnds(w, s, entry) ==
    LET start(i) == IF s.handlers[i].x = NoName THEN entry ELSE Drop(entry, {s.handlers[i].x})
        H[i \in 0..Len(s.handlers)] ==
            IF i = 0 THEN [w |-> w, ends |-> <<>>]
            ELSE LET h == Block(At(H[i - 1].w, start(i)), s.handlers[i].body)
                 IN  [w |-> h, ends |-> IF FallsThrough(s.handlers[i].body)
                                        THEN Append(H[i - 1].ends, h.st) ELSE H[i - 1].ends]
    IN  H[Len(s.handlers)]

\* except*: what the handlers before this one may have done.
ChainKilled(w, s, entry) ==
    LET C[i \in 0..Len(s.handlers)] ==
            IF i = 0 THEN entry
            ELSE Killed(C[i - 1],
                        Block([At(w, C[i - 1]) EXCEPT !.seen = NoKill], s.handlers[i].body).seen)
    IN  C[Len(s.handlers)]

\* The final block is walked for what may hold there, and again for what holds after it.
Finally(s, w, normal, entry) ==
    LET final == Block(At(w, Join(normal, entry)), s.final)
    IN  IF s.final = <<>> THEN At(w, normal)
        ELSE [Block(At(final, normal), s.final) EXCEPT !.at = final.at, !.ok = final.ok]

\* entry is the state a handler may be entered in.
Handled(s, else, entry) ==
    LET handled == HandlerEnds(else, s, entry)
    IN  Finally(s, handled.w, JoinAll(<<else.st>> \o handled.ends), entry)
Handlers(s, else, left) == Handled(s, else, IF s.star THEN ChainKilled(else, s, left) ELSE left)
AfterTry(w, s, body) ==
    LET lost == AssignedNames(s.body)
                \cup (IF s.star THEN UNION {AssignedNames(s.handlers[i].body) : i \in DOMAIN s.handlers}
                      ELSE {})
    IN  Handlers(s, Block([body EXCEPT !.seen = Or(w.seen, @)], s.orelse),
                 Killed(Drop(w.st, lost), body.seen))
VisitTry(w, s) == AfterTry(w, s, Block([w EXCEPT !.seen = NoKill], s.body))

VisitMatch(w, s) ==
    LET start(c) == LET st == Drop(w.st, c.caps) IN Refine(st, c.t)
        M[i \in 0..Len(s.cases)] ==
            IF i = 0 THEN [w |-> w, ends |-> <<>>]
            ELSE LET c == Block(At(M[i - 1].w, start(s.cases[i])), s.cases[i].body)
                 IN  [w |-> c, ends |-> IF FallsThrough(s.cases[i].body)
                                        THEN Append(M[i - 1].ends, c.st) ELSE M[i - 1].ends]
        last == M[Len(s.cases)]
        irrefutable == \E i \in DOMAIN s.cases : s.cases[i].all
    IN  At(last.w, JoinAll(IF irrefutable THEN last.ends ELSE Append(last.ends, w.st)))

\* What a return hands back, for the callee analysis; a container moves out.
ResultOf(w, e, known) ==
    CASE known.d = "std" -> known
      [] known.d = "none" ->
            IF e.e = "call" /\ e.f \in DOMAIN w.sums THEN w.sums[e.f].result ELSE Unknown
      [] known.d \in {"fact", "cont", "data"} -> Std("any", TRUE)

HandsBack(w, e, known) ==
    [w EXCEPT !.res = JoinResult(@, ResultOf(w, e, known)),
              !.ok = @ /\ (w.guar = {} \/ Establishes(known, w.guar))]
Hand(w, e) == HandsBack(w, e, Interp(w.st, e))
Return(w, s) == Hand(VisitExpr(w, s.e), s.e)

Assigned(w, s) == [w EXCEPT !.st = Set(@, s.x, ValueOf(w, s.e))]

Visit(w0, s) ==
    LET w == [w0 EXCEPT !.at = @ @@ (s.l :> {}), !.at[s.l] = w0.st]
    IN  CASE s.s = "assign" -> Assigned(VisitExpr(w, s.e), s)
          [] s.s = "annot" -> Construct(w, s)
          [] s.s = "aug" -> AugAssign(w, s)
          [] s.s = "store" -> Store(w, s)
          [] s.s = "attr" -> KillState(Load(Load(w, s.y), s.x), Opening)
          [] s.s = "expr" -> VisitExpr(w, s.e)
          [] s.s = "check" -> Check(w, s)
          [] s.s = "assert" -> Refined(VisitTest(w, s.t), s.t)
          [] s.s = "if" -> VisitIf(w, s)
          [] s.s = "while" -> Loop(VisitTest(w, s.t), s)
          [] s.s = "for" -> VisitFor(w, s)
          [] s.s = "with" -> VisitWith(w, s)
          [] s.s = "try" -> VisitTry(w, s)
          [] s.s = "match" -> VisitMatch(Load(w, s.x), s)
          [] s.s = "return" -> Return(w, s)
          [] s.s = "yield" -> Load(w, s.x)
          [] s.s \in {"raise", "break", "continue", "pass"} -> w

Block(w, stmts) ==
    IF stmts = <<>> THEN w ELSE Block(Visit(w, Head(stmts)), Tail(stmts))

(***************************************************************************)
(* Functions and the module: P.fns[f] = [param, rely, guar, body], with    *)
(* {} for no rely and no guarantee.                                        *)
(***************************************************************************)
Locals(fn) == {fn.param} \cup AssignedNames(fn.body)

\* Every binding in the program counts; a constant is bound once, at the top level.
RECURSIVE Bindings(_, _)
Bindings(stmts, x) ==
    LET here(s) == (IF x \in Binds(s) THEN 1 ELSE 0)
        B[i \in 0..Len(stmts)] ==
            IF i = 0 THEN 0
            ELSE B[i - 1] + here(stmts[i])
                 + (IF \E b \in Blocks(stmts[i]) : Bindings(b, x) > 0 THEN 1 ELSE 0)
    IN  B[Len(stmts)]

BoundOnce(P, x) ==
    /\ Bindings(P.main, x) = 1
    /\ \A f \in DOMAIN P.fns : x \notin Locals(P.fns[f])

\* What the value is known to be, or else what the function it calls vouches for.
ConstantOf(P, st, e) ==
    LET known == Interp(st, e)
    IN  IF known = Unknown /\ e.e = "call" /\ e.f \in DOMAIN P.fns /\ P.fns[e.f].guar # {}
        THEN Fact(AnyText, P.fns[e.f].guar) ELSE known

ModuleConstants(P) ==
    LET C[i \in 0..Len(P.main)] ==
            IF i = 0 THEN NoState
            ELSE LET s == P.main[i]
                     value == IF s.s = "assign" THEN ConstantOf(P, C[i - 1], s.e) ELSE Unknown
                 IN  IF /\ s.s = "assign"
                        /\ BoundOnce(P, s.x)
                        /\ \/ value.d = "fact"
                           \/ value.d = "std" /\ value.kind = "number"
                     THEN Put(C[i - 1], s.x, value) ELSE C[i - 1]
    IN  C[Len(P.main)]

\* _seed with _deferred_scope: the constants a body does not shadow, and its rely.
Seed(w, fn) ==
    LET outer == Drop(w.consts, Locals(fn))
        kept == [x \in DOMAIN outer |->
                    IF outer[x].d = "fact" THEN Forget(outer[x], Opaque) ELSE outer[x]]
    IN  IF fn.rely = {} THEN kept ELSE Put(kept, fn.param, Fact(AnyText, fn.rely))

\* A generator's body counts where it is created, and the generator is a program object.
Summary(fn, walked) ==
    [kill |-> walked.seen,
     result |-> CASE IsGenerator(fn.body) -> Unknown
                  [] ~IsGenerator(fn.body) ->
                        IF FallsThrough(fn.body) THEN JoinResult(walked.res, Std("number", TRUE))
                        ELSE walked.res]
Summarize(w, fn) ==
    Summary(fn, Block([w EXCEPT !.st = Seed(w, fn), !.seen = NoKill, !.res = Never, !.guar = {}],
                      fn.body))

\* Mutant: one round, whatever it changed.
OneRound(w) ==
    [w EXCEPT !.sums = [f \in DOMAIN w.fns |-> OrSummary(w.sums[f], Summarize(w, w.fns[f]))]]

RECURSIVE Fixpoint(_)
Fixpoint(w) ==
    LET Onward(round) == IF round = w.sums THEN w ELSE Fixpoint([w EXCEPT !.sums = round])
    IN  Onward([f \in DOMAIN w.fns |-> OrSummary(w.sums[f], Summarize(w, w.fns[f]))])

AfterBody(w, fn, body) ==
    [w EXCEPT !.at = body.at, !.ok = body.ok /\ (fn.guar # {} => ~FallsThrough(fn.body))]
VisitFunction(w, fn) ==
    AfterBody(w, fn, Block([w EXCEPT !.st = Seed(w, fn), !.guar = fn.guar, !.res = Never], fn.body))

RECURSIVE VisitFunctions(_, _)
VisitFunctions(w, fs) ==
    IF fs = {} THEN w
    ELSE LET f == CHOOSE f \in fs : TRUE IN VisitFunctions(VisitFunction(w, w.fns[f]), fs \ {f})

\* ContainerClosureAnalysis: no function names a container the module declares, unless it binds it.
Names(e) ==
    CASE e.e \in {"text", "input", "lambda", "exec", "open"} -> {}
      [] e.e = "list" -> {e.of[i] : i \in DOMAIN e.of}
      [] e.e = "comp" -> {e.over}
      [] e.e \in {"name", "item", "getter", "single", "sorted", "len"} -> {e.x}
      [] e.e = "method" -> {e.x, e.y}
      [] e.e = "call" -> {e.y}

RECURSIVE Mentions(_)
Mentions(stmts) ==
    LET own(s) == {s[f] : f \in DOMAIN s \cap {"x", "y", "over"}}
                  \cup (IF "e" \in DOMAIN s THEN Names(s.e) ELSE {})
                  \cup (IF "t" \notin DOMAIN s THEN {}
                        ELSE IF s.t.t = "do" THEN Names(s.t.e) ELSE IF s.t.t = "guard" THEN {s.t.x} ELSE {})
    IN  UNION {own(stmts[i]) \cup UNION {Mentions(b) : b \in Blocks(stmts[i])} : i \in DOMAIN stmts}

RECURSIVE Declared(_)
Declared(stmts) ==
    UNION {(IF stmts[i].s = "annot" THEN {stmts[i].x} ELSE {})
           \cup UNION {Declared(b) : b \in Blocks(stmts[i])} : i \in DOMAIN stmts}

ClosesOverNoContainer(P) ==
    \A f \in DOMAIN P.fns :
        (Mentions(P.fns[f].body) \ Locals(P.fns[f])) \cap Declared(P.main) = {}

Entered(P) ==
    VisitFunctions(
        Fixpoint([st |-> NoState, seen |-> NoKill, at |-> NoState, ok |-> ClosesOverNoContainer(P),
                  res |-> Never, guar |-> {}, fns |-> P.fns,
                  sums |-> [f \in DOMAIN P.fns |-> Bottom], consts |-> ModuleConstants(P)]),
        DOMAIN P.fns)

\* Does a third rehearsal of each loop at the top level find no more than two?
NoMore(w, node, every) ==
    Or(every, Rehearse(w, node, Killed(Unassigned(w, node), every))) = every
TwoRounds(w, node) == NoMore(w, node, EveryIteration(w, node, Unassigned(w, node)))
ForSettles(w, s) == TwoRounds(w, Header(w, s))
SettledAt(w, s) ==
    IF s.s = "for" THEN ForSettles(Consume(w, s.over), s) ELSE TwoRounds(VisitTest(w, s.t), s)
Settles(entered, main) ==
    \A i \in DOMAIN main :
        main[i].s \in {"while", "for"} =>
            SettledAt(Block(entered, SubSeq(main, 1, i - 1)), main[i])
=============================================================================

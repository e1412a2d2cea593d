----------------------------- MODULE WalkerRun ------------------------------
(***************************************************************************)
(* An execution of a program the walk of Walker.tla has accepted, step by  *)
(* step beside what the walk says of it.  The execution is adversarial:    *)
(* whatever may happen by the rules of the language does, a write spoils   *)
(* every check that depends on what is written, and program code the walk  *)
(* cannot see spoils everything it can reach.                              *)
(***************************************************************************)
EXTENDS Walker

CONSTANTS
    Programs,       \* the programs that are walked and, if accepted, executed
    Prog, Plain,    \* a program object (function, generator, instance); a number or None
    MaxObjects,     \* bound on the lists and handles made in one run
    MaxControl      \* bound on the control stack, hence on recursion

(***************************************************************************)
(* The execution.  A value is a text, Plain, Prog or the index of an       *)
(* object of the heap: a list, a container (a list nothing else refers     *)
(* to), a read or a write handle; has is what program code or the program  *)
(* put in it.  truth holds the environmental atoms that are true of a      *)
(* text.  The control stack k holds the statements to run and the marks an *)
(* exception, a return, a break or a continue unwinds to.  prog is the     *)
(* program with the report of the walk that accepted it.                   *)
(***************************************************************************)
VARIABLES prog, k, jump, fn, glob, loc, heap, truth
vars == <<prog, k, jump, fn, glob, loc, heap, truth>>

Main == "main"
NoJump == [j |-> "none"]
Raising == [j |-> "raise"]
Kinds == {"list", "cont", "rd", "wr"}
EnvAtoms == Atoms \ PureAtoms
Fns == prog.fns
Facts == prog.at

Env ==  \* the variables in scope: the names a function binds are its own
    IF fn = Main THEN glob ELSE loc @@ Drop(glob, Locals(Fns[fn]))

\* The pieces of the environment; a write spoils every check that depends on a written piece.
Pieces(ws) == ws \cup {r \in Regions : MediumOf[r] \in ws}
Spoiled(tr, ws) ==
    IF ws = {} THEN tr
    ELSE {p \in tr : p[1] \in DOMAIN Reads /\ Pieces(ws) \cap Pieces(Reads[p[1]]) = {}}

(***************************************************************************)
(* Outcomes of evaluating an expression: a value, the heap, the truths,    *)
(* and whether an exception leaves it with the effects done.               *)
(***************************************************************************)
Gives(v, h, tr) == {[v |-> v, h |-> h, tr |-> tr, fails |-> b] : b \in BOOLEAN}
Fails(h, tr) == {[v |-> Plain, h |-> h, tr |-> tr, fails |-> TRUE]}

Fresh(h, kind, has, tr) ==
    IF Len(h) = MaxObjects THEN Fails(h, tr)
    ELSE Gives(Len(h) + 1, Append(h, [kind |-> kind, has |-> has]), tr)

\* Program code reaches every object but the containers, and everything in the environment.
Tainted(h) ==
    [i \in DOMAIN h |-> IF h[i].kind = "cont" THEN h[i] ELSE [h[i] EXCEPT !.has = @ \cup {Prog}]]
CodeGives(v, h, tr) == Gives(v, Tainted(h), Spoiled(tr, Everything))

\* A plain use of a container makes it an ordinary list.
Escape(h, vs) ==
    [i \in DOMAIN h |-> IF i \in vs /\ h[i].kind = "cont" THEN [h[i] EXCEPT !.kind = "list"] ELSE h[i]]

Holds(h, v, kinds) == \E i \in DOMAIN h : v = i /\ h[i].kind \in kinds
Reach(h, v) ==
    LET R[n \in 0..Len(h)] ==
            IF n = 0 THEN {v}
            ELSE R[n - 1] \cup UNION {h[i].has : i \in {j \in DOMAIN h : j \in R[n - 1]}}
    IN  R[Len(h)]

MethodOutcomes(e, recv, arg, h, tr) ==
    LET lists == {"list", "cont"}
        into == IF e.m = "extend" THEN IF Holds(h, arg, lists) THEN h[arg].has ELSE {} ELSE {arg}
        stored == Escape([h EXCEPT ![recv].has = @ \cup into], {arg})
    IN  IF Holds(h, recv, lists)
        THEN CASE e.m = "append" -> Gives(Plain, stored, tr)
               [] e.m = "extend" -> IF arg = Prog THEN CodeGives(Plain, h, tr)
                                    ELSE Gives(Plain, [h EXCEPT ![recv].has = @ \cup into], tr)
               [] e.m = "sort" -> IF arg = Prog THEN CodeGives(Plain, h, tr)     \* the key
                                  ELSE Gives(Plain, h, tr)
               [] e.m = "pop" -> UNION {Gives(v, h, tr) : v \in h[recv].has} \cup Fails(h, tr)
               [] e.m \notin Roster -> Fails(h, tr)
        ELSE IF Holds(h, recv, {"rd", "wr"})
        THEN LET written == Spoiled(tr, IF e.m = "write" /\ h[recv].kind = "wr" THEN {"fs"} ELSE {})
             IN  IF Prog \in h[recv].has \/ Prog \in Reach(h, arg) THEN CodeGives(Plain, h, written)
                 ELSE Gives(Plain, Escape(h, {arg}), written)
        ELSE IF recv = Prog \/ (Prog \in Reach(h, arg) /\ e.m # "append") THEN CodeGives(Prog, h, tr)
        ELSE Gives(Plain, Escape(h, {arg}), tr)

\* Every expression but a comprehension and a call of a function of the program.
Simple(e, env, h, tr) ==
    LET v(x) == env[x]
        unbound == \E x \in Names(e) : x \notin DOMAIN env
    IN  IF unbound THEN Fails(h, tr)
        ELSE CASE e.e = "text" -> Gives(e.t, h, tr)
          [] e.e = "input" -> UNION {Gives(t, h, tr) : t \in Texts}
          [] e.e = "lambda" -> Gives(Prog, h, tr)
          [] e.e = "name" -> Gives(v(e.x), Escape(h, {v(e.x)}), tr)
          [] e.e = "list" ->
                LET parts == {v(e.of[i]) : i \in DOMAIN e.of} IN Fresh(Escape(h, parts), "list", parts, tr)
          [] e.e = "item" ->
                IF Holds(h, v(e.x), {"list", "cont"}) THEN UNION {Gives(u, h, tr) : u \in h[v(e.x)].has}
                                                      \cup Fails(h, tr)
                ELSE IF v(e.x) \in Texts THEN UNION {Gives(t, h, tr) : t \in Texts}
                ELSE Fails(h, tr)
          [] e.e = "getter" ->
                IF v(e.x) = Prog THEN CodeGives(Prog, h, tr)
                ELSE IF Holds(h, v(e.x), {"rd", "wr"}) /\ Prog \in h[v(e.x)].has THEN Gives(Prog, h, tr)
                ELSE Gives(Plain, Escape(h, {v(e.x)}), tr)
          [] e.e = "exec" -> Fresh(h, "rd", {}, Spoiled(tr, ExecWrites))
          [] e.e = "open" -> Fresh(h, "wr", {}, Spoiled(tr, {"fs"}))
          [] e.e = "single" ->
                LET run == Spoiled(tr, CheckWrites[e.v])
                IN  IF v(e.x) \in Texts /\ (e.v \in PureAtoms => e.v \in PureOf[v(e.x)])
                    THEN Gives(v(e.x), h, run \cup (IF e.v \in EnvAtoms THEN {<<e.v, v(e.x)>>} ELSE {}))
                    ELSE Fails(Escape(h, {v(e.x)}), run)
          [] e.e = "sorted" ->
                IF v(e.x) = Prog THEN CodeGives(Prog, h, tr)
                ELSE IF Holds(h, v(e.x), {"list", "cont"})
                THEN Fresh(h, "list", h[v(e.x)].has, tr)
                ELSE Fresh(h, "list", Texts, tr)
          [] e.e = "len" -> Gives(Plain, h, tr)
          [] e.e = "method" -> MethodOutcomes(e, v(e.x), v(e.y), h, tr)

\* What one step of an iteration over a value hands out.
Steps(it, h, tr) ==
    IF it = Prog THEN CodeGives(Prog, h, tr)
    ELSE IF Holds(h, it, {"list", "cont"}) THEN UNION {Gives(v, h, tr) : v \in h[it].has}
    ELSE IF Holds(h, it, {"rd", "wr"})
    THEN UNION {IF Prog \in h[it].has THEN CodeGives(t, h, tr) ELSE Gives(t, h, tr) : t \in Texts}
    ELSE IF it \in Texts THEN UNION {Gives(t, h, tr) : t \in Texts}
    ELSE Fails(h, tr)

\* A comprehension of up to two elements.
Elements(e, env, h, tr) ==
    UNION {IF got.fails THEN {got} ELSE Simple(e.elt, (e.z :> got.v) @@ env, got.h, got.tr)
           : got \in Steps(env[e.over], h, tr)}
Listed(e, env, h, tr) ==
    LET none == {[has |-> {}, h |-> h, tr |-> tr, fails |-> FALSE]}
        more(o) == IF o.fails THEN {o}
                   ELSE {[has |-> o.has \cup {p.v}, h |-> p.h, tr |-> p.tr, fails |-> p.fails]
                         : p \in Elements(e, env, o.h, o.tr)}
        one == none \cup UNION {more(o) : o \in none}
    IN  one \cup UNION {more(o) : o \in one}

Outcomes(e, env, h, tr) ==
    IF e.e # "comp" THEN Simple(e, env, h, tr)
    ELSE IF e.over \notin DOMAIN env THEN Fails(h, tr)
    ELSE UNION {IF o.fails THEN Fails(o.h, o.tr) ELSE Fresh(o.h, "list", o.has, o.tr)
                : o \in Listed(e, env, h, tr)}

(***************************************************************************)
(* Control.  A statement is taken off the stack, and its outcome binds or  *)
(* raises; a compound statement puts its block and its mark on the stack.  *)
(***************************************************************************)
S == Head(k)
Rest == Tail(k)
Here(kind) == jump = NoJump /\ k # <<>> /\ S.s = kind

\* Beyond the bound a block is not entered: the interpreter's recursion limit.
Push(items, h, tr) ==
    /\ heap' = h /\ truth' = tr
    /\ IF Len(items) + Len(Rest) > MaxControl THEN k' = Rest /\ jump' = Raising
       ELSE k' = items \o Rest /\ jump' = NoJump
    /\ UNCHANGED <<prog, fn, glob, loc>>

Throw(h, tr) ==
    k' = Rest /\ jump' = Raising /\ heap' = h /\ truth' = tr /\ UNCHANGED <<prog, fn, glob, loc>>

BindName(x, v) ==
    IF x = NoName THEN UNCHANGED <<glob, loc>>
    ELSE IF fn = Main THEN glob' = Put(glob, x, v) /\ UNCHANGED loc
    ELSE loc' = Put(loc, x, v) /\ UNCHANGED glob

\* Bind a name, then run items.
PushBound(x, v, items, h, tr) ==
    /\ heap' = h /\ truth' = tr
    /\ BindName(x, v)
    /\ k' = items \o Rest
    /\ UNCHANGED <<prog, jump, fn>>

Settle(o, x) == IF o.fails THEN Throw(o.h, o.tr) ELSE PushBound(x, o.v, <<>>, o.h, o.tr)

\* Is a test true?  A guard speaks of a text.
Holding(t, v) == (v \in Texts /\ t.atom \in PureOf[v]) = t.pos
Tested(t) ==    \* outcomes whose value is Plain for true and Prog for false
    CASE t.t = "none" -> Gives(Plain, heap, truth)
      [] t.t = "guard" ->
            IF t.x \notin DOMAIN Env THEN Fails(heap, truth)
            ELSE Gives(IF Holding(t, Env[t.x]) THEN Plain ELSE Prog, heap, truth)
      [] t.t = "do" -> UNION {{[o EXCEPT !.v = b] : b \in {Plain, Prog}} : o \in Outcomes(t.e, Env, heap, truth)}

\* A call of a generator function makes the generator; its body runs where it is iterated over, as
\* any program code does.
IsCall(s) == s.e.e = "call"
Invoke(callee, y, then) ==
    LET f == Fns[callee]
        mark == [s |-> "called", fn |-> fn, loc |-> loc, then |-> then, callee |-> callee, tr |-> truth]
        run == IF IsGenerator(f.body) THEN <<>> ELSE f.body
    IN  IF y \notin DOMAIN Env \/ Len(run) + 1 + Len(Rest) > MaxControl THEN Throw(heap, truth)
        ELSE /\ k' = Append(run, mark) \o Rest
             /\ jump' = IF IsGenerator(f.body) THEN [j |-> "return", v |-> Prog] ELSE NoJump
             /\ fn' = callee
             /\ loc' = (f.param :> Env[y])
             /\ heap' = Escape(heap, {Env[y]})
             /\ UNCHANGED <<prog, glob, truth>>

Assign ==
    /\ Here("assign")
    /\ IF IsCall(S) THEN Invoke(S.e.f, S.e.y, [c |-> "bind", x |-> S.x])
       ELSE \E o \in Outcomes(S.e, Env, heap, truth) : Settle(o, S.x)

Evaluate ==
    /\ Here("expr")
    /\ IF IsCall(S) THEN Invoke(S.e.f, S.e.y, [c |-> "bind", x |-> NoName])
       ELSE \E o \in Outcomes(S.e, Env, heap, truth) : Settle(o, NoName)

\* xs: list[T] = [...], list(ys) or a comprehension: a new list nothing else refers to.
Declare ==
    /\ Here("annot")
    /\ LET made == IF S.e.e # "name" THEN Outcomes(S.e, Env, heap, truth)
                   ELSE IF S.e.x \in DOMAIN Env /\ Holds(heap, Env[S.e.x], {"list", "cont"})
                   THEN Fresh(heap, "list", heap[Env[S.e.x]].has, truth) ELSE Fails(heap, truth)
       IN  \E o \in made : Settle(IF o.fails THEN o ELSE [o EXCEPT !.h[o.v].kind = "cont"], S.x)

Augment ==
    /\ Here("aug")
    /\ IF {S.x, S.y} \subseteq DOMAIN Env
       THEN LET l == Env[S.x]
                r == Env[S.y]
                more == IF Holds(heap, r, {"list", "cont"}) THEN heap[r].has ELSE {}
            IN  IF Holds(heap, l, {"list", "cont"})
                THEN \E o \in (IF r = Prog THEN CodeGives(l, heap, truth)
                               ELSE Gives(l, [heap EXCEPT ![l].has = @ \cup more], truth)) : Settle(o, S.x)
                ELSE \E v \in (IF l \in Texts THEN Texts ELSE IF l = Prog THEN {Prog} ELSE {Plain}) :
                        \E o \in Gives(v, heap, truth) : Settle(o, S.x)
       ELSE Throw(heap, truth)

StoreItem ==
    /\ Here("store")
    /\ IF {S.x, S.y} \subseteq DOMAIN Env /\ Holds(heap, Env[S.x], {"list", "cont"})
       THEN \E o \in Gives(Plain, [Escape(heap, {Env[S.y]}) EXCEPT ![Env[S.x]].has = @ \cup {Env[S.y]}],
                           truth) : Settle(o, NoName)
       ELSE Throw(heap, truth)

\* x.field = y: a handle, or what it refers to, now calls y.
StoreAttribute ==
    /\ Here("attr")
    /\ IF {S.x, S.y} \subseteq DOMAIN Env
       THEN LET h == Escape(heap, {Env[S.x], Env[S.y]})
            IN  \E o \in Gives(Plain, [i \in DOMAIN h |-> IF i = Env[S.x]
                                                          THEN [h[i] EXCEPT !.has = @ \cup {Env[S.y]}]
                                                          ELSE h[i]], truth) : Settle(o, NoName)
       ELSE Throw(heap, truth)

RunCheck ==
    /\ Here("check")
    /\ \E o \in Outcomes([e |-> "single", v |-> S.v, x |-> S.x], Env, heap, truth) : Settle(o, NoName)

Assertion ==
    /\ Here("assert")
    /\ \E o \in Tested(S.t) :
          IF o.fails \/ o.v = Prog THEN Throw(o.h, o.tr) ELSE Push(<<>>, o.h, o.tr)

If ==
    /\ Here("if")
    /\ \E o \in Tested(S.t) :
          IF o.fails THEN Throw(o.h, o.tr)
          ELSE Push(IF o.v = Plain THEN S.then ELSE S.orelse, o.h, o.tr)

\* The header of a while, the first time and every later one.
While ==
    /\ Here("while") \/ (Here("again") /\ S.node.s = "while")
    /\ LET node == IF S.s = "while" THEN S ELSE S.node
       IN  \E o \in Tested(node.t) :
              IF o.fails THEN Throw(o.h, o.tr)
              ELSE Push(IF o.v = Plain THEN Append(node.body, [s |-> "again", node |-> node])
                        ELSE node.orelse, o.h, o.tr)

For ==
    /\ Here("for") \/ (Here("again") /\ S.node.s = "for")
    /\ IF S.s = "for" /\ S.over \notin DOMAIN Env THEN Throw(heap, truth)
       ELSE LET node == IF S.s = "for" THEN S ELSE S.node
                it == IF S.s = "for" THEN Env[S.over] ELSE S.it
            IN  \/ Push(node.orelse, heap, truth)
                \/ \E o \in Steps(it, heap, truth) :
                      IF o.fails \/ Len(node.body) + 1 + Len(Rest) > MaxControl THEN Throw(o.h, o.tr)
                      ELSE PushBound(node.x, o.v, Append(node.body, [s |-> "again", node |-> node, it |-> it]),
                                     o.h, o.tr)

Try ==
    /\ Here("try")
    /\ Push(S.body \o <<[s |-> "body", node |-> S], [s |-> "final", node |-> S]>>, heap, truth)

\* The ends of a try body, of a handler of an except*, of a try statement, and of a finally block.
BodyEnds == Here("body") /\ Push(S.node.orelse, heap, truth)
HandlerOf(node, i, pending) ==
    IF node.star THEN Append(node.handlers[i].body, [s |-> "next", node |-> node, i |-> i, raised |-> pending])
    ELSE node.handlers[i].body
NextHandler(node, i, pending) ==
    \/ \E j \in (i + 1)..Len(node.handlers) : \E p \in (IF i = 0 THEN BOOLEAN ELSE {pending}) :
          /\ k' = HandlerOf(node, j, p) \o Rest
          /\ jump' = NoJump
          /\ BindName(node.handlers[j].x, Plain)
          /\ UNCHANGED <<prog, fn, heap, truth>>
    \/ /\ k' = Rest
       /\ jump' = IF pending THEN Raising ELSE NoJump
       /\ UNCHANGED <<prog, fn, glob, loc, heap, truth>>
StarEnds == Here("next") /\ NextHandler(S.node, S.i, S.raised)
FinallyRuns ==
    /\ k # <<>> /\ S.s = "final"
    /\ k' = S.node.final \o <<[s |-> "resume", jump |-> jump]>> \o Rest
    /\ jump' = NoJump
    /\ UNCHANGED <<prog, fn, glob, loc, heap, truth>>
Resume ==
    /\ Here("resume")
    /\ k' = Rest /\ jump' = S.jump
    /\ UNCHANGED <<prog, fn, glob, loc, heap, truth>>

\* with f(y): the manager's code runs as the block is entered or as it is left, and may swallow
\* an exception; the manager of open(p) does neither.
With ==
    /\ Here("with")
    /\ IF ~IsCall(S)
       THEN \E o \in Outcomes(S.e, Env, heap, truth) :
               IF o.fails THEN Throw(o.h, o.tr) ELSE PushBound(S.x, o.v, S.body, o.h, o.tr)
       ELSE \/ Invoke(S.e.f, S.e.y, [c |-> "enter", node |-> S])
            \/ IF S.e.y \notin DOMAIN Env THEN Throw(heap, truth)
               ELSE PushBound(S.x, Prog, Append(S.body, [s |-> "leave", node |-> S, late |-> TRUE]),
                              heap, truth)

Swallowed(j) == IF j = Raising THEN {j, NoJump} ELSE {j}
Leave ==
    /\ k # <<>> /\ S.s = "leave"
    /\ IF S.late /\ S.node.e.y \in DOMAIN Env
       THEN LET f == Fns[S.node.e.f]
                mark == [s |-> "called", fn |-> fn, loc |-> loc, then |-> [c |-> "bind", x |-> NoName],
                         callee |-> S.node.e.f, tr |-> truth]
            IN  \E j \in {jump, NoJump} :
                  /\ k' = f.body \o <<mark, [s |-> "resume", jump |-> j]>> \o Rest
                  /\ jump' = NoJump /\ fn' = S.node.e.f /\ loc' = (f.param :> Env[S.node.e.y])
                  /\ UNCHANGED <<prog, glob, heap, truth>>
       ELSE /\ k' = Rest /\ jump' \in Swallowed(jump)
            /\ UNCHANGED <<prog, fn, glob, loc, heap, truth>>

\* The cases in their order, each bound to a part of the subject: a case whose pattern matches
\* binds its captures before its guard is asked, and they stay bound when the guard fails.
Bound(env, c, u) == [x \in DOMAIN env \cup c.caps |-> IF x \in c.caps THEN u ELSE env[x]]
Passes(env, c) ==
    c.t.t = "guard" => c.t.x \in DOMAIN (env @@ Env) /\ Holding(c.t, (env @@ Env)[c.t.x])

RECURSIVE Tried(_, _, _)
\* The variables after the first n cases were tried and not taken.
Tried(env, parts, n) ==
    IF n = 0 THEN {env}
    ELSE LET c == S.cases[n]
         IN  UNION {(IF c.all THEN {} ELSE {before})
                    \cup {Bound(before, c, u) : u \in {p \in parts : ~Passes(Bound(before, c, p), c)}}
                    : before \in Tried(env, parts, n - 1)}

BoundTo(env) == IF fn = Main THEN glob' = env /\ UNCHANGED loc ELSE loc' = env /\ UNCHANGED glob

Match ==
    /\ Here("match")
    /\ IF S.x \notin DOMAIN Env THEN Throw(heap, truth)
       ELSE LET v == Env[S.x]
                parts == {v} \cup (IF Holds(heap, v, {"list"}) THEN heap[v].has ELSE {})
                own == IF fn = Main THEN glob ELSE loc
            IN  /\ \/ \E i \in DOMAIN S.cases : \E u \in parts : \E before \in Tried(own, parts, i - 1) :
                        /\ Passes(Bound(before, S.cases[i], u), S.cases[i])
                        /\ k' = S.cases[i].body \o Rest
                        /\ BoundTo(Bound(before, S.cases[i], u))
                   \/ \E env \in Tried(own, parts, Len(S.cases)) : k' = Rest /\ BoundTo(env)
                /\ UNCHANGED <<prog, jump, fn, heap, truth>>

ReturnValue ==
    /\ Here("return")
    /\ IF IsCall(S) THEN Invoke(S.e.f, S.e.y, [c |-> "return"])
       ELSE \E o \in Outcomes(S.e, Env, heap, truth) :
               IF o.fails THEN Throw(o.h, o.tr)
               ELSE /\ k' = Rest /\ jump' = [j |-> "return", v |-> o.v]
                    /\ heap' = Escape(o.h, {o.v}) /\ truth' = o.tr
                    /\ UNCHANGED <<prog, fn, glob, loc>>

Leap ==    \* raise, break, continue and pass
    /\ jump = NoJump /\ k # <<>> /\ S.s \in {"raise", "break", "continue", "pass"}
    /\ k' = Rest
    /\ jump' = IF S.s = "pass" THEN NoJump ELSE [j |-> S.s]
    /\ UNCHANGED <<prog, fn, glob, loc, heap, truth>>

\* The end of a call: the caller's variables again, and what it does with the value.
Returned ==
    /\ k # <<>> /\ S.s = "called" /\ jump.j \in {"none", "return", "raise"}
    /\ LET v == IF jump.j = "return" THEN jump.v ELSE Plain
       IN  /\ fn' = S.fn
           /\ IF jump.j = "raise" THEN k' = Rest /\ loc' = S.loc /\ UNCHANGED <<jump, glob>>
              ELSE CASE S.then.c = "bind" ->
                          /\ k' = Rest /\ jump' = NoJump
                          /\ glob' = IF S.fn = Main /\ S.then.x # NoName THEN Put(glob, S.then.x, v) ELSE glob
                          /\ loc' = IF S.fn # Main /\ S.then.x # NoName THEN Put(S.loc, S.then.x, v) ELSE S.loc
                     [] S.then.c = "return" ->
                          k' = Rest /\ jump' = [j |-> "return", v |-> v] /\ loc' = S.loc /\ UNCHANGED glob
                     [] S.then.c = "enter" ->
                          /\ k' = Append(S.then.node.body, [s |-> "leave", node |-> S.then.node, late |-> FALSE])
                                  \o Rest
                          /\ jump' = NoJump
                          /\ LET x == S.then.node.x
                             IN  /\ glob' = IF S.fn = Main /\ x # NoName THEN Put(glob, x, Prog) ELSE glob
                                 /\ loc' = IF S.fn # Main /\ x # NoName THEN Put(S.loc, x, Prog) ELSE S.loc
           /\ UNCHANGED <<prog, heap, truth>>

\* An exception reaches a try body: a handler takes it, or none does.
Caught ==
    /\ jump = Raising /\ k # <<>> /\ S.s = "body"
    /\ \/ /\ S.node.star
          /\ NextHandler(S.node, 0, TRUE)
       \/ /\ ~S.node.star
          /\ \E i \in DOMAIN S.node.handlers :
                /\ k' = S.node.handlers[i].body \o Rest
                /\ jump' = NoJump
                /\ BindName(S.node.handlers[i].x, Plain)
                /\ UNCHANGED <<prog, fn, heap, truth>>
       \/ /\ k' = Rest
          /\ UNCHANGED <<prog, jump, fn, glob, loc, heap, truth>>
\* A handler of an except* that raises lets the later ones run.
CaughtAgain == jump = Raising /\ k # <<>> /\ S.s = "next" /\ NextHandler(S.node, S.i, TRUE)

LoopLeft ==
    /\ jump.j \in {"break", "continue"} /\ k # <<>> /\ S.s = "again"
    /\ k' = IF jump.j = "break" THEN Rest ELSE k
    /\ jump' = NoJump
    /\ UNCHANGED <<prog, fn, glob, loc, heap, truth>>

\* Everything else is passed over.
Stops(mark) ==
    \/ mark.s \in {"final", "leave"}
    \/ mark.s = "called" /\ jump.j \in {"return", "raise"}
    \/ mark.s \in {"body", "next"} /\ jump = Raising
    \/ mark.s = "again" /\ jump.j \in {"break", "continue"}
Unwind ==
    /\ jump # NoJump /\ k # <<>> /\ ~Stops(S)
    /\ k' = Rest
    /\ UNCHANGED <<prog, jump, fn, glob, loc, heap, truth>>

Init ==
    /\ \E P \in Programs : \E entered \in {Entered(P)} : \E w \in {Block(entered, P.main)} :
          /\ w.ok
          /\ prog = [fns |-> P.fns, at |-> w.at, sums |-> w.sums,
                     settles |-> Settles(entered, P.main)]
          /\ k = P.main
    /\ jump = NoJump
    /\ fn = Main /\ glob = NoState /\ loc = NoState
    /\ heap = <<>> /\ truth = {}

Next ==
    \/ Assign \/ Evaluate \/ Declare \/ Augment \/ StoreItem \/ StoreAttribute \/ RunCheck \/ Assertion
    \/ If \/ While \/ For \/ Try \/ BodyEnds \/ StarEnds \/ FinallyRuns \/ Resume \/ With \/ Leave
    \/ Match \/ ReturnValue \/ Leap \/ Returned \/ Caught \/ CaughtAgain \/ LoopLeft \/ Unwind

Spec == Init /\ [][Next]_vars

(***************************************************************************)
(* Properties.                                                             *)
(***************************************************************************)
True(atom, t) == IF atom \in PureAtoms THEN atom \in PureOf[t] ELSE <<atom, t>> \in truth

\* What an entry of the state says of a value.
Denotes(entry, v) ==
    CASE entry.d = "fact" ->
            /\ v \in Texts /\ entry.shape \in {AnyText, v}
            /\ \A a \in entry.atoms : True(a, v)
      [] entry.d = "cont" ->
            /\ Holds(heap, v, {"cont"})
            /\ \A t \in heap[v].has : t \in Texts /\ \A a \in entry.atoms : True(a, t)
      [] entry.d = "data" ->
            /\ Holds(heap, v, IF entry.writes THEN {"rd", "wr"} ELSE {"rd"})
            /\ entry.closed => Prog \notin heap[v].has
      [] entry.d = "std" ->
            /\ ~Holds(heap, v, {"wr"})
            /\ entry.closed => Prog \notin Reach(heap, v)
            /\ entry.kind = "list" => Holds(heap, v, {"list"})
            /\ entry.kind = "number" => v = Plain

\* Whatever the walk says of a variable where a statement is reached is so, each time the
\* execution reaches it: through joins, loops, handlers, calls and the code the walk cannot see
\* (walker.py: the state; enforcement.py kill_of: what survives).
FactsHold ==
    (jump = NoJump /\ k # <<>> /\ "l" \in DOMAIN S /\ S.l \in DOMAIN Facts) =>
        \A x \in DOMAIN Facts[S.l] \cap DOMAIN Env : Denotes(Facts[S.l][x], Env[x])

\* A call loses no more checks than the summary of the function says (walker.py
\* _compute_summaries): true when called, of an atom the kill spares, true when it is over.
SummaryCoversTheCall ==
    (k # <<>> /\ S.s = "called") =>
        \A p \in S.tr : p[1] \in Survivors({p[1]}, prog.sums[S.callee].kill) => p \in truth

\* What two rehearsals of an iteration find, a third finds too, for every loop at the top level of
\* an accepted program (walker.py _every_iteration: "no third can differ").
RehearsalIsEnough == prog.settles
=============================================================================

------------------------------- MODULE Broker -------------------------------
(***************************************************************************)
(* One confined run's channel: the program with its end of the socketpair  *)
(* (markers._BrokerChannel), the broker thread that serves the other end   *)
(* (broker.Broker.serve and the work it does for a request), the hangup    *)
(* watcher beside that work, and the host that owns the run (host._run).   *)
(*                                                                         *)
(* A request is "exec" (an exec'd child, or a check's evaluator), "net" (a *)
(* request upstream, hop by hop) or "huge" (a frame over the limit).  What *)
(* it asks for and whether the policy permits it are left open.  A frame   *)
(* is sent and received whole.                                             *)
(***************************************************************************)
EXTENDS Naturals, Sequences

CONSTANTS
    MaxCalls,       \* bound: how many requests the program makes
    MaxRedirects,   \* MAX_REDIRECTS
    Unruly          \* may the program be killed, or the host interrupted?

ASSUME BoundsAreNumbers ==
    MaxCalls \in Nat /\ MaxRedirects \in Nat /\ Unruly \in BOOLEAN

VARIABLES
    host,       \* where the host is in _run
    hostFd,     \* is the host's end open?
    ends,       \* the open descriptors of the program's end
    prog,       \* what the program is doing
    dead,       \* _BrokerChannel._dead: every later call fails
    sent,       \* how many requests it has sent
    got,        \* the last one it has the reply to
    toBroker,   \* requests on their way
    toProg,     \* replies on their way: the numbers of the requests they answer
    serve,      \* where the broker thread is
    req,        \* the request it has taken up last
    hops,       \* redirects followed for it
    work,       \* the blocking work: a child, or the exchange upstream
    watcher,    \* the thread watching the client meanwhile
    cancelled   \* did it see a hangup?

hostVars == <<host, hostFd>>
progVars == <<prog, dead, sent, got>>
wire == <<toBroker, toProg>>
workVars == <<hops, work, watcher, cancelled>>
vars == <<hostVars, ends, progVars, wire, serve, req, workVars>>

Kinds == {"exec", "net", "huge"}
Requests == [id : 1..MaxCalls, kind : Kinds]
NoRequest == [id |-> 0, kind |-> "exec"]

TypeOK ==
    /\ host \in {"starting", "running", "closing", "joining", "done"}
    /\ hostFd \in BOOLEAN
    /\ ends \subseteq {"childEnd", "inherited", "dup"}
    /\ prog \in {"none", "ready", "waiting", "exited", "killed"}
    /\ dead \in BOOLEAN
    /\ sent \in 0..MaxCalls
    /\ got \in 0..MaxCalls
    /\ toBroker \in Seq(Requests)
    /\ toProg \in Seq(1..MaxCalls)
    /\ serve \in {"recv", "working", "sending", "ended"}
    /\ req \in Requests \union {NoRequest}
    /\ hops \in 0..MaxRedirects
    /\ work \in {"none", "setup", "connecting", "running", "finished", "cut"}
    /\ watcher \in {"off", "watching", "retrying", "crashed"}
    /\ cancelled \in BOOLEAN

Init ==
    /\ host = "starting"
    /\ hostFd = TRUE
    /\ ends = {"childEnd"}
    /\ prog = "none"
    /\ dead = FALSE
    /\ sent = 0
    /\ got = 0
    /\ toBroker = <<>>
    /\ toProg = <<>>
    /\ serve = "recv"
    /\ req = NoRequest
    /\ hops = 0
    /\ work = "none"
    /\ watcher = "off"
    /\ cancelled = FALSE

----------------------------------------------------------------------------
(* The host: spawn the program, wait for it, close up.                      *)

\* The child holds its own copies now, or nothing does, if the spawn failed.
SpawnProgram ==
    /\ host = "starting"
    /\ \/ host' = "running" /\ prog' = "ready" /\ ends' = {"inherited"}
       \/ host' = "closing" /\ prog' = "exited" /\ ends' = {}
    /\ UNCHANGED <<hostFd, dead, sent, got, wire, serve, req, workVars>>

\* proc.wait() returns, or is interrupted while the program goes on.
StopWaiting ==
    /\ host = "running"
    /\ prog \in {"exited", "killed"} \/ Unruly
    /\ host' = "closing"
    /\ UNCHANGED <<hostFd, ends, progVars, wire, serve, req, workVars>>

CloseHostEnd ==
    /\ host = "closing"
    /\ host' = "joining"
    /\ hostFd' = FALSE
    /\ UNCHANGED <<ends, progVars, wire, serve, req, workVars>>

\* The broker thread has ended, or five seconds have passed; the lease on the view goes,
\* and the process ends, its daemon threads and their sockets with it, but no child.
Joined ==
    /\ host = "joining"
    /\ host' = "done"
    /\ serve' = "ended"
    /\ watcher' = "off"
    /\ work' = IF req.kind = "exec" THEN work ELSE "none"
    /\ UNCHANGED <<hostFd, ends, progVars, wire, req, hops, cancelled>>

----------------------------------------------------------------------------
(* The program's calls.                                                     *)

\* A call duplicates the inherited descriptor, once, sends the frame and waits.
Call(kind) ==
    /\ prog = "ready"
    /\ ~dead
    /\ sent < MaxCalls
    /\ prog' = "waiting"
    /\ sent' = sent + 1
    /\ ends' = ends \union {"dup"}
    /\ toBroker' = Append(toBroker, [id |-> sent + 1, kind |-> kind])
    /\ UNCHANGED <<hostVars, dead, got, toProg, serve, req, workVars>>

Receive ==
    /\ prog = "waiting"
    /\ toProg # <<>>
    /\ prog' = "ready"
    /\ got' = Head(toProg)
    /\ toProg' = Tail(toProg)
    /\ UNCHANGED <<hostVars, ends, dead, sent, toBroker, serve, req, workVars>>

\* Mutant of FailCall: the channel is opened again by the next call.
FailCallReopens ==
    /\ prog' = "ready"
    /\ ends' = ends \ {"dup"}
    /\ UNCHANGED <<hostVars, dead, sent, got, wire, serve, req, workVars>>

\* The socket -- the duplicate -- is closed, and no later call is made.
FailCall ==
    /\ prog' = "ready"
    /\ dead' = TRUE
    /\ ends' = ends \ {"dup"}
    /\ UNCHANGED <<hostVars, sent, got, wire, serve, req, workVars>>

CallFails ==
    /\ prog = "waiting"
    /\ toProg = <<>>
    /\ ~hostFd
    /\ FailCall

\* Only a network call has a timeout.
CallTimesOut ==
    /\ prog = "waiting"
    /\ [id |-> sent, kind |-> "net"] \in {req} \union {toBroker[k] : k \in DOMAIN toBroker}
    /\ FailCall

Leave(how) ==
    /\ prog' = how
    /\ ends' = ends \ {"inherited", "dup"}
    /\ UNCHANGED <<hostVars, dead, sent, got, wire, serve, req, workVars>>

Exit == prog = "ready" /\ Leave("exited")

Killed == Unruly /\ prog \in {"ready", "waiting"} /\ Leave("killed")

----------------------------------------------------------------------------
(* The broker thread.                                                       *)

\* serve() returns; the `finally` closes the connection.
EndServing ==
    /\ serve' = "ended"
    /\ hostFd' = FALSE

\* Mutant of TakeUp: the request is read and not consumed.
TakeUpAgain ==
    /\ serve = "recv"
    /\ hostFd
    /\ toBroker # <<>>
    /\ req' = Head(toBroker)
    /\ hops' = 0
    /\ serve' = "working"
    /\ work' = "setup"
    /\ UNCHANGED <<hostVars, ends, progVars, wire, watcher, cancelled>>

TakeUp ==
    /\ serve = "recv"
    /\ hostFd
    /\ toBroker # <<>>
    /\ req' = Head(toBroker)
    /\ toBroker' = Tail(toBroker)
    /\ hops' = 0
    /\ IF req'.kind = "huge"
         THEN /\ EndServing
              /\ toProg' = IF ends = {} THEN toProg ELSE Append(toProg, req'.id)
              /\ UNCHANGED work
         ELSE /\ serve' = "working"
              /\ work' = "setup"
              /\ UNCHANGED <<hostFd, toProg>>
    /\ UNCHANGED <<host, ends, progVars, watcher, cancelled>>

\* End of file, or its own end closed under it.
NothingToServe ==
    /\ serve = "recv"
    /\ (ends = {} /\ toBroker = <<>>) \/ ~hostFd
    /\ EndServing
    /\ UNCHANGED <<host, ends, progVars, wire, req, workVars>>

\* Denied by the policy, malformed, not spawned: an error reply, and nothing has run.
Refuse ==
    /\ serve = "working"
    /\ work = "setup"
    /\ serve' = "sending"
    /\ work' = "none"
    /\ UNCHANGED <<hostVars, ends, progVars, wire, req, hops, watcher, cancelled>>

\* A child runs before its watcher does; a hop is watched from before its connection.
Begin ==
    /\ serve = "working"
    /\ work = "setup"
    /\ IF req.kind = "exec"
         THEN work' = "running" /\ UNCHANGED watcher
         ELSE work' = "connecting" /\ watcher' = "watching"
    /\ UNCHANGED <<hostVars, ends, progVars, wire, serve, req, hops, cancelled>>

WatchChild ==
    /\ serve = "working"
    /\ req.kind = "exec"
    /\ work \in {"running", "finished"}
    /\ watcher = "off"
    /\ watcher' = "watching"
    /\ UNCHANGED <<hostVars, ends, progVars, wire, serve, req, hops, work, cancelled>>

Connect ==
    /\ work = "connecting"
    /\ work' \in {"running", "finished"}
    /\ UNCHANGED <<hostVars, ends, progVars, wire, serve, req, hops, watcher, cancelled>>

\* The child exits, the response is read, or a timeout ends either (a child is killed).
WorkEnds ==
    /\ work = "running"
    /\ work' = "finished"
    /\ UNCHANGED <<hostVars, ends, progVars, wire, serve, req, hops, watcher, cancelled>>

\* Mutant of Unwatch: EXEC_TIMEOUT ends the wait and not the child.
UnwatchRunning ==
    /\ serve = "working"
    /\ work \in {"running", "finished", "cut"}
    /\ watcher # "off"
    /\ watcher' = "off"
    /\ cancelled' = FALSE
    /\ IF cancelled THEN EndServing ELSE serve' = "sending" /\ UNCHANGED hostFd
    /\ UNCHANGED <<host, ends, progVars, wire, req, hops, work>>

\* Mutant of Unwatch: the redirects are counted one too late.
UnwatchLate ==
    /\ serve = "working"
    /\ work \in {"finished", "cut"}
    /\ watcher # "off"
    /\ watcher' = "off"
    /\ cancelled' = FALSE
    /\ IF cancelled
         THEN EndServing /\ work' = "none" /\ UNCHANGED hops
         ELSE /\ \/ serve' = "sending" /\ work' = "none" /\ UNCHANGED hops
                 \/ /\ req.kind = "net"
                    /\ hops <= MaxRedirects
                    /\ hops' = hops + 1
                    /\ work' = "setup"
                    /\ UNCHANGED serve
              /\ UNCHANGED hostFd
    /\ UNCHANGED <<host, ends, progVars, wire, req>>

\* The watcher is joined; what it saw supersedes what the work came to.
Unwatch ==
    /\ serve = "working"
    /\ work \in {"finished", "cut"}
    /\ watcher # "off"
    /\ watcher' = "off"
    /\ cancelled' = FALSE
    /\ IF cancelled
         THEN EndServing /\ work' = "none" /\ UNCHANGED hops
         ELSE /\ \/ serve' = "sending" /\ work' = "none" /\ UNCHANGED hops
                 \/ /\ req.kind = "net"
                    /\ hops < MaxRedirects
                    /\ hops' = hops + 1
                    /\ work' = "setup"
                    /\ UNCHANGED serve
              /\ UNCHANGED hostFd
    /\ UNCHANGED <<host, ends, progVars, wire, req>>

\* Mutant of SendReply: a reply is lost.
SendNothing ==
    /\ serve = "sending"
    /\ serve' = "recv"
    /\ UNCHANGED <<hostVars, ends, progVars, wire, req, workVars>>

\* A reply nobody can read ends the connection.
SendReply ==
    /\ serve = "sending"
    /\ IF hostFd /\ ends # {}
         THEN serve' = "recv" /\ toProg' = Append(toProg, req.id) /\ UNCHANGED hostFd
         ELSE EndServing /\ UNCHANGED toProg
    /\ UNCHANGED <<host, ends, progVars, toBroker, req, workVars>>

----------------------------------------------------------------------------
(* The hangup watcher.                                                      *)

\* Mutant of SeeHangup: a poll that found nothing to read counts as a hangup.
SeeSilence ==
    /\ watcher = "watching"
    /\ hostFd
    /\ cancelled' = TRUE
    /\ watcher' = "retrying"
    /\ UNCHANGED <<hostVars, ends, progVars, wire, serve, req, hops, work>>

\* Any readability is a hangup; a cancellation before there is a socket is tried again.
SeeHangup ==
    /\ watcher = "watching"
    /\ hostFd
    /\ (ends = {} \/ toBroker # <<>>)
    /\ cancelled' = TRUE
    /\ watcher' = "retrying"
    /\ UNCHANGED <<hostVars, ends, progVars, wire, serve, req, hops, work>>

Cancel ==
    /\ watcher = "retrying"
    /\ work = "running"
    /\ work' = "cut"
    /\ UNCHANGED <<hostVars, ends, progVars, wire, serve, req, hops, watcher, cancelled>>

\* select() on a closed socket raises: the thread ends and has cancelled nothing.
WatcherFails ==
    /\ watcher = "watching"
    /\ ~hostFd
    /\ watcher' = "crashed"
    /\ UNCHANGED <<hostVars, ends, progVars, wire, serve, req, hops, work, cancelled>>

----------------------------------------------------------------------------

HostStep == SpawnProgram \/ StopWaiting \/ CloseHostEnd \/ Joined

ProgramStep ==
    \/ \E kind \in Kinds : Call(kind)
    \/ Receive \/ CallFails \/ CallTimesOut \/ Exit \/ Killed

ServeStep ==
    TakeUp \/ NothingToServe \/ Refuse \/ Begin \/ WatchChild \/ Unwatch \/ SendReply

WorkStep == Connect \/ WorkEnds

WatcherStep == SeeHangup \/ Cancel \/ WatcherFails

Next == HostStep \/ ProgramStep \/ ServeStep \/ WorkStep \/ WatcherStep

Spec == Init /\ [][Next]_vars

(***************************************************************************)
(* Fairness.  Threads and processes that can go on do; the program waits   *)
(* in recv and gets what arrives; work ends by itself or at its timeout    *)
(* (EXEC_TIMEOUT, total_timeout).  The program need not call or exit.      *)
(***************************************************************************)
Fairness ==
    /\ WF_vars(SpawnProgram) /\ WF_vars(CloseHostEnd) /\ WF_vars(Joined)
    /\ WF_vars(StopWaiting /\ prog \in {"exited", "killed"})
    /\ WF_vars(Receive) /\ WF_vars(CallFails)
    /\ WF_vars(ServeStep) /\ WF_vars(Connect) /\ WF_vars(WatcherStep)
    /\ WF_vars(WorkEnds /\ host # "done")

FairSpec == Spec /\ Fairness

----------------------------------------------------------------------------
(* Properties.                                                              *)

\* A reply on its way, and what runs outside the jail, are for the call the program is
\* waiting in: a call that failed or timed out makes every later one fail, so no later
\* call can read its reply or be served by its work.
WorkServesTheCall ==
    prog \in {"ready", "waiting"} /\ ~dead =>
        /\ toProg # <<>> => prog = "waiting" /\ toProg = <<sent>>
        /\ work \in {"connecting", "running"} => prog = "waiting" /\ req.id = sent

\* The watcher takes any readability for a hangup, and it is right: work is cut only when
\* no descriptor of the program's end is left.
CutOnlyByHangup == (cancelled \/ work = "cut") => ends = {}

\* A program that exits between its calls leaves nothing running when the run is over and
\* the lease on its view is released.
OrderlyRunEndsItsWork ==
    host = "done" /\ prog = "exited" /\ ~dead => work \notin {"connecting", "running"}

\* A call comes back: with its reply, an error or a timeout.
CallsReturn == prog = "waiting" ~> prog # "waiting"

\* broker.py: "When the connection drops -- the program's call timed out and it closed the
\* channel ...": a call that timed out leaves no descriptor of the program's end open.
TimeoutHangsUp == dead => ends = {}

\* broker.py: "A client hangup mid-exec kills the child's whole process group."
NoChildOutlivesTheRun ==
    host = "done" /\ req.kind = "exec" => work # "running"

Promise == INSTANCE Calls WITH
    asked <- sent,
    taken <- sent - Len(toBroker),
    answered <- got

\* The channel implements one call at a time, each taken up at most once and answered
\* with its own reply.
ImplementsCalls == Promise!Spec
=============================================================================

---------------------------- MODULE BrokerProofs ----------------------------
(***************************************************************************)
(* Proofs about Broker, for any number of calls and redirects, whether or  *)
(* not the run is unruly: types, the single call that is ever under way    *)
(* and what follows from it, and that the channel implements Calls.        *)
(***************************************************************************)
EXTENDS Broker, TLAPS

----------------------------------------------------------------------------
(* The inductive invariant, in parts.                                       *)

\* A request is being served only if one was taken up.
TakenUp == serve \in {"working", "sending"} => req \in Requests

\* Nothing waits to be taken up behind the request being served.
OneRequest ==
    /\ Len(toBroker) <= 1
    /\ serve \in {"working", "sending"} => toBroker = <<>>

\* Work and its watcher belong to the request being served.
WorkInv ==
    /\ serve \in {"recv", "sending"} => work = "none"
    /\ watcher # "off" => serve = "working" /\ work \notin {"none", "setup"}
    /\ watcher = "retrying" => cancelled

\* The program has its end from the spawn until it leaves; once every descriptor of it is
\* gone none comes back.
EndsInv ==
    /\ host = "starting" <=> prog = "none"
    /\ prog = "none" => ends = {"childEnd"}
    /\ prog \in {"ready", "waiting"} => "inherited" \in ends
    /\ cancelled \/ work = "cut" => ends = {}

\* Between calls nothing is on its way, and nothing works.
BetweenCalls ==
    prog \in {"none", "ready", "exited"} /\ ~dead =>
        /\ got = sent
        /\ toBroker = <<>> /\ toProg = <<>>
        /\ serve \in {"recv", "ended"}
        /\ work = "none"

\* While the program waits, its request is in one place, or nobody will answer it.
InCall ==
    prog = "waiting" =>
        /\ ~dead
        /\ got < sent
        /\ \/ /\ toBroker # <<>> /\ toBroker[1].id = sent
              /\ toProg = <<>> /\ serve \in {"recv", "ended"} /\ work = "none"
           \/ /\ toBroker = <<>> /\ toProg = <<>>
              /\ serve \in {"working", "sending"} /\ req.id = sent
           \/ /\ toBroker = <<>> /\ toProg = <<sent>>
              /\ serve \in {"recv", "ended"} /\ work = "none"
           \/ /\ toBroker = <<>> /\ toProg = <<>>
              /\ serve = "ended" /\ req.id = sent

IInv == TypeOK /\ TakenUp /\ OneRequest /\ WorkInv /\ EndsInv /\ BetweenCalls /\ InCall

----------------------------------------------------------------------------
(* Sequences.                                                               *)

\* The head of a queue is one of its elements, and the tail holds the others.
LEMMA HeadAndTail ==
    ASSUME NEW S, NEW q \in Seq(S), q # <<>>
    PROVE  Head(q) \in S /\ Tail(q) \in Seq(S) /\ Len(Tail(q)) = Len(q) - 1 /\ Head(q) = q[1]
  BY SMT

\* A queue of one is empty without its head.
LEMMA TailOfOne ==
    ASSUME NEW S, NEW q \in Seq(S), q # <<>>, Len(q) <= 1
    PROVE  Tail(q) = <<>> /\ Len(q) = 1 /\ Len(Tail(q)) = 0
<1>1. Tail(q) = <<>>
  BY SMT
<1>2. Len(Tail(q)) = Len(q) - 1 /\ Tail(q) \in Seq(S)
  BY HeadAndTail
<1>3. Len(q) \in Nat /\ Len(Tail(q)) \in Nat
  BY <1>2, SMT
<1>. QED
  BY <1>1, <1>2, <1>3, SMT

\* The replies with one more are replies.
LEMMA AppendType ==
    ASSUME toProg \in Seq(1..MaxCalls), NEW i \in 1..MaxCalls
    PROVE  Append(toProg, i) \in Seq(1..MaxCalls)
  BY SMT

\* The first in a queue is alone there.
LEMMA AppendToEmpty ==
    ASSUME NEW S, NEW e \in S
    PROVE  Append(<<>>, e) = <<e>>
  BY SMT

----------------------------------------------------------------------------
(* Types.                                                                   *)

\* The host's steps: it opens no descriptor of the program's end but at the spawn.
LEMMA HostStepType ==
    ASSUME TypeOK, TakenUp, HostStep
    PROVE  TypeOK' /\ TakenUp'
<1>. USE BoundsAreNumbers DEF TypeOK, TakenUp, Requests, Kinds, NoRequest, hostVars, progVars, wire, workVars
<1>1. CASE SpawnProgram
  BY <1>1 DEF SpawnProgram
<1>2. CASE StopWaiting
  BY <1>2 DEF StopWaiting
<1>3. CASE CloseHostEnd
  <2>1. hostFd' \in BOOLEAN /\ host' = "joining"
    BY <1>3, Zenon DEF CloseHostEnd
  <2>. QED
    BY <1>3, <2>1 DEF CloseHostEnd
<1>4. CASE Joined
  BY <1>4 DEF Joined
<1>. QED
  BY <1>1, <1>2, <1>3, <1>4 DEF HostStep

\* The program calls only between calls, and gives a descriptor back for good.
LEMMA ProgramStepType ==
    ASSUME TypeOK, TakenUp, ProgramStep
    PROVE  TypeOK' /\ TakenUp'
<1>. USE BoundsAreNumbers DEF TypeOK, TakenUp, Requests, Kinds, NoRequest, hostVars, progVars, wire, workVars
<1>1. ASSUME NEW kind \in Kinds, Call(kind) PROVE TypeOK' /\ TakenUp'
  BY <1>1 DEF Call
<1>2. CASE Receive
  BY <1>2 DEF Receive
<1>3. CASE CallFails
  BY <1>3 DEF CallFails, FailCall
<1>4. CASE CallTimesOut
  BY <1>4 DEF CallTimesOut, FailCall
<1>5. CASE Exit
  BY <1>5 DEF Exit, Leave
<1>6. CASE Killed
  BY <1>6 DEF Killed, Leave
<1>. QED
  BY <1>1, <1>2, <1>3, <1>4, <1>5, <1>6 DEF ProgramStep

\* The broker thread takes a request up, works and answers, and only then receives again.
LEMMA ServeStepType ==
    ASSUME TypeOK, TakenUp, ServeStep
    PROVE  TypeOK' /\ TakenUp'
<1>. USE BoundsAreNumbers DEF TypeOK, TakenUp, Requests, Kinds, NoRequest, hostVars, progVars, wire, workVars
<1>1. CASE TakeUp
  <2>1. Head(toBroker) \in Requests /\ Tail(toBroker) \in Seq(Requests)
    BY <1>1, HeadAndTail DEF TakeUp
  <2>2. req' \in Requests /\ toBroker' \in Seq(Requests) /\ hops' \in 0..MaxRedirects
    BY <1>1, <2>1 DEF TakeUp
  <2>3. req'.id \in 1..MaxCalls
    BY <2>2
  <2>4. toProg' \in Seq(1..MaxCalls)
    <3>1. toProg' = toProg \/ toProg' = Append(toProg, req'.id)
      BY <1>1, Zenon DEF TakeUp
    <3>. QED
      BY <2>3, <3>1, AppendType
  <2>5. hostFd' \in BOOLEAN
    BY <1>1, Zenon DEF TakeUp, EndServing
  <2>. QED
    BY <1>1, <2>2, <2>4, <2>5 DEF TakeUp, EndServing
<1>2. CASE NothingToServe
  <2>1. hostFd' \in BOOLEAN /\ serve' = "ended"
    BY <1>2, Zenon DEF NothingToServe, EndServing
  <2>. QED
    BY <1>2, <2>1 DEF NothingToServe
<1>3. CASE Refuse
  BY <1>3 DEF Refuse
<1>4. CASE Begin
  BY <1>4 DEF Begin
<1>5. CASE WatchChild
  BY <1>5 DEF WatchChild
<1>6. CASE Unwatch
  <2>1. hostFd' \in BOOLEAN /\ cancelled' \in BOOLEAN
    BY <1>6, Zenon DEF Unwatch, EndServing
  <2>2. hops' \in 0..MaxRedirects
    BY <1>6 DEF Unwatch
  <2>3. serve' \in {"working", "sending", "ended"} /\ work' \in {"none", "setup"}
    BY <1>6 DEF Unwatch, EndServing
  <2>. QED
    BY <1>6, <2>1, <2>2, <2>3 DEF Unwatch
<1>7. CASE SendReply
  <2>1. req.id \in 1..MaxCalls
    BY <1>7 DEF SendReply
  <2>2. toProg' \in Seq(1..MaxCalls)
    <3>1. toProg' = toProg \/ toProg' = Append(toProg, req.id)
      BY <1>7, Zenon DEF SendReply
    <3>. QED
      BY <2>1, <3>1, AppendType
  <2>3. hostFd' \in BOOLEAN /\ serve' \in {"recv", "ended"}
    BY <1>7, Zenon DEF SendReply, EndServing
  <2>. QED
    BY <1>7, <2>2, <2>3 DEF SendReply
<1>. QED
  BY <1>1, <1>2, <1>3, <1>4, <1>5, <1>6, <1>7 DEF ServeStep

\* What runs outside the jail ends by itself.
LEMMA WorkStepType ==
    ASSUME TypeOK, TakenUp, WorkStep
    PROVE  TypeOK' /\ TakenUp'
<1>. USE BoundsAreNumbers DEF TypeOK, TakenUp, Requests, Kinds, NoRequest, hostVars, progVars, wire, workVars
<1>1. CASE Connect
  BY <1>1 DEF Connect
<1>2. CASE WorkEnds
  BY <1>2 DEF WorkEnds
<1>. QED
  BY <1>1, <1>2 DEF WorkStep

\* The watcher finds a hangup only when there is one: while it watches, no request is on its way.
LEMMA WatcherStepType ==
    ASSUME TypeOK, TakenUp, WatcherStep
    PROVE  TypeOK' /\ TakenUp'
<1>. USE BoundsAreNumbers DEF TypeOK, TakenUp, Requests, Kinds, NoRequest, hostVars, progVars, wire, workVars
<1>1. CASE SeeHangup
  BY <1>1 DEF SeeHangup
<1>2. CASE Cancel
  BY <1>2 DEF Cancel
<1>3. CASE WatcherFails
  BY <1>3 DEF WatcherFails
<1>. QED
  BY <1>1, <1>2, <1>3 DEF WatcherStep

\* The initial values have their types.
LEMMA InitType ==
    ASSUME Init
    PROVE  TypeOK /\ TakenUp
<1>1. toBroker \in Seq(Requests) /\ toProg \in Seq(1..MaxCalls)
  BY SMT DEF Init
<1>2. sent \in 0..MaxCalls /\ got \in 0..MaxCalls /\ hops \in 0..MaxRedirects
  BY BoundsAreNumbers, SMT DEF Init
<1>3. hostFd \in BOOLEAN /\ dead \in BOOLEAN /\ cancelled \in BOOLEAN
  BY Zenon DEF Init
<1>. QED
  BY <1>1, <1>2, <1>3 DEF Init, TypeOK, TakenUp

\* The variables keep their types, for any number of calls and redirects, whatever is
\* killed or interrupted.
THEOREM TypeCorrect == Spec => [](TypeOK /\ TakenUp)
<1>1. Init => TypeOK /\ TakenUp
  BY InitType
<1>2. TypeOK /\ TakenUp /\ [Next]_vars => TypeOK' /\ TakenUp'
  <2>. SUFFICES ASSUME TypeOK, TakenUp, [Next]_vars PROVE TypeOK' /\ TakenUp'
    OBVIOUS
  <2>1. CASE UNCHANGED vars
    BY <2>1 DEF vars, hostVars, progVars, wire, workVars, TypeOK, TakenUp
  <2>2. CASE Next
    BY <2>2, HostStepType, ProgramStepType, ServeStepType, WorkStepType, WatcherStepType DEF Next
  <2>. QED
    BY <2>1, <2>2
<1>. QED
  BY <1>1, <1>2, PTL DEF Spec

----------------------------------------------------------------------------
(* One call at a time.                                                      *)

\* The host's steps: it opens no descriptor of the program's end but at the spawn.
LEMMA HostStepInv ==
    ASSUME IInv, HostStep
    PROVE  (OneRequest /\ WorkInv /\ EndsInv /\ BetweenCalls /\ InCall)'
<1>. USE BoundsAreNumbers DEF IInv, TypeOK, TakenUp, OneRequest, WorkInv, EndsInv, BetweenCalls, InCall, Requests, Kinds, NoRequest, hostVars, progVars, wire, workVars
<1>1. CASE SpawnProgram
  BY <1>1 DEF SpawnProgram
<1>2. CASE StopWaiting
  BY <1>2 DEF StopWaiting
<1>3. CASE CloseHostEnd
  BY <1>3 DEF CloseHostEnd
<1>4. CASE Joined
  BY <1>4 DEF Joined
<1>. QED
  BY <1>1, <1>2, <1>3, <1>4 DEF HostStep

\* The program calls only between calls, and gives a descriptor back for good.
LEMMA ProgramStepInv ==
    ASSUME IInv, ProgramStep
    PROVE  (OneRequest /\ WorkInv /\ EndsInv /\ BetweenCalls /\ InCall)'
<1>. USE BoundsAreNumbers DEF IInv, TypeOK, TakenUp, OneRequest, WorkInv, EndsInv, BetweenCalls, InCall, Requests, Kinds, NoRequest, hostVars, progVars, wire, workVars
<1>1. ASSUME NEW kind \in Kinds, Call(kind)
      PROVE  (OneRequest /\ WorkInv /\ EndsInv /\ BetweenCalls /\ InCall)'
  <2>1. toBroker' = <<[id |-> sent + 1, kind |-> kind]>> /\ toProg = <<>>
    BY <1>1 DEF Call
  <2>2. OneRequest' /\ WorkInv' /\ EndsInv'
    BY <1>1, <2>1 DEF Call
  <2>3. BetweenCalls'
    BY <1>1 DEF Call
  <2>4. toBroker' # <<>> /\ toBroker'[1].id = sent'
    BY <1>1, <2>1 DEF Call
  <2>5. InCall'
    BY <1>1, <2>4 DEF Call
  <2>. QED
    BY <2>2, <2>3, <2>5
<1>2. CASE Receive
  BY <1>2 DEF Receive
<1>3. CASE CallFails
  BY <1>3 DEF CallFails, FailCall
<1>4. CASE CallTimesOut
  BY <1>4 DEF CallTimesOut, FailCall
<1>5. CASE Exit
  BY <1>5 DEF Exit, Leave
<1>6. CASE Killed
  BY <1>6 DEF Killed, Leave
<1>. QED
  BY <1>1, <1>2, <1>3, <1>4, <1>5, <1>6 DEF ProgramStep

\* The broker thread takes a request up, works and answers, and only then receives again.
LEMMA ServeStepInv ==
    ASSUME IInv, ServeStep
    PROVE  (OneRequest /\ WorkInv /\ EndsInv /\ BetweenCalls /\ InCall)'
<1>. USE BoundsAreNumbers DEF IInv, TypeOK, TakenUp, OneRequest, WorkInv, EndsInv, BetweenCalls, InCall, Requests, Kinds, NoRequest, hostVars, progVars, wire, workVars
<1>1. CASE TakeUp
  <2>1. toBroker' = <<>> /\ req' = toBroker[1]
    BY <1>1, HeadAndTail, TailOfOne DEF TakeUp
  <2>2. OneRequest' /\ WorkInv'
    <3>1. watcher' = "off" /\ serve' \in {"working", "ended"}
      BY <1>1 DEF TakeUp, EndServing
    <3>. QED
      BY <2>1, <3>1
  <2>3. EndsInv'
    BY <1>1 DEF TakeUp, EndServing
  <2>4. BetweenCalls'
    BY <1>1 DEF TakeUp
  <2>5. ASSUME prog = "waiting" PROVE InCall'
    <3>1. req'.id = sent /\ toProg = <<>> /\ work = "none" /\ ends # {}
      BY <1>1, <2>1, <2>5 DEF TakeUp
    <3>2. CASE req'.kind = "huge"
      <4>1. toProg' = <<sent>> /\ serve' = "ended" /\ work' = "none"
        <5>1. toProg' = Append(<<>>, req'.id)
          BY <1>1, <3>1, <3>2, Zenon DEF TakeUp
        <5>. QED
          BY <1>1, <3>1, <3>2, <5>1, AppendToEmpty DEF TakeUp, EndServing
      <4>. QED
        BY <1>1, <2>1, <2>5, <4>1 DEF TakeUp
    <3>3. CASE req'.kind # "huge"
      <4>1. toProg' = <<>> /\ serve' = "working"
        BY <1>1, <3>1, <3>3 DEF TakeUp
      <4>. QED
        BY <1>1, <2>1, <2>5, <3>1, <4>1 DEF TakeUp
    <3>. QED
      BY <3>2, <3>3
  <2>. QED
    BY <1>1, <2>2, <2>3, <2>4, <2>5 DEF TakeUp
<1>2. CASE NothingToServe
  BY <1>2 DEF NothingToServe, EndServing
<1>3. CASE Refuse
  BY <1>3 DEF Refuse
<1>4. CASE Begin
  BY <1>4 DEF Begin
<1>5. CASE WatchChild
  BY <1>5 DEF WatchChild
<1>6. CASE Unwatch
  BY <1>6 DEF Unwatch, EndServing
<1>7. CASE SendReply
  <2>1. OneRequest' /\ WorkInv' /\ EndsInv' /\ BetweenCalls'
    BY <1>7 DEF SendReply, EndServing
  <2>2. ASSUME prog = "waiting" PROVE InCall'
    <3>1. toBroker = <<>> /\ toProg = <<>> /\ req.id = sent /\ work = "none"
      BY <1>7, <2>2 DEF SendReply
    <3>2. CASE hostFd /\ ends # {}
      <4>1. toProg' = <<sent>> /\ serve' = "recv"
        BY <1>7, <3>1, <3>2 DEF SendReply
      <4>. QED
        BY <1>7, <2>2, <3>1, <4>1 DEF SendReply
    <3>3. CASE ~(hostFd /\ ends # {})
      <4>1. toProg' = <<>> /\ serve' = "ended"
        BY <1>7, <3>1, <3>3 DEF SendReply, EndServing
      <4>. QED
        BY <1>7, <2>2, <3>1, <4>1 DEF SendReply
    <3>. QED
      BY <3>2, <3>3
  <2>. QED
    BY <1>7, <2>1, <2>2 DEF SendReply
<1>. QED
  BY <1>1, <1>2, <1>3, <1>4, <1>5, <1>6, <1>7 DEF ServeStep

\* What runs outside the jail ends by itself.
LEMMA WorkStepInv ==
    ASSUME IInv, WorkStep
    PROVE  (OneRequest /\ WorkInv /\ EndsInv /\ BetweenCalls /\ InCall)'
<1>. USE BoundsAreNumbers DEF IInv, TypeOK, TakenUp, OneRequest, WorkInv, EndsInv, BetweenCalls, InCall, Requests, Kinds, NoRequest, hostVars, progVars, wire, workVars
<1>1. CASE Connect
  BY <1>1 DEF Connect
<1>2. CASE WorkEnds
  BY <1>2 DEF WorkEnds
<1>. QED
  BY <1>1, <1>2 DEF WorkStep

\* The watcher finds a hangup only when there is one: while it watches, no request is on its way.
LEMMA WatcherStepInv ==
    ASSUME IInv, WatcherStep
    PROVE  (OneRequest /\ WorkInv /\ EndsInv /\ BetweenCalls /\ InCall)'
<1>. USE BoundsAreNumbers DEF IInv, TypeOK, TakenUp, OneRequest, WorkInv, EndsInv, BetweenCalls, InCall, Requests, Kinds, NoRequest, hostVars, progVars, wire, workVars
<1>1. CASE SeeHangup
  BY <1>1 DEF SeeHangup
<1>2. CASE Cancel
  BY <1>2 DEF Cancel
<1>3. CASE WatcherFails
  BY <1>3 DEF WatcherFails
<1>. QED
  BY <1>1, <1>2, <1>3 DEF WatcherStep

\* The channel carries one call at a time: the request, its service and its reply are never
\* in two places, and work and watcher are those of the request being served.
THEOREM ChannelInvariant == Spec => []IInv
<1>1. Init => IInv
  <2>. SUFFICES ASSUME Init PROVE IInv
    OBVIOUS
  <2>1. Len(toBroker) <= 1
    BY DEF Init
  <2>. QED
    BY <2>1, InitType DEF Init, IInv, OneRequest, WorkInv, EndsInv, BetweenCalls, InCall
<1>2. IInv /\ (TypeOK /\ TakenUp)' /\ [Next]_vars => IInv'
  <2>. SUFFICES ASSUME IInv, [Next]_vars
                PROVE  (OneRequest /\ WorkInv /\ EndsInv /\ BetweenCalls /\ InCall)'
    BY DEF IInv
  <2>1. CASE UNCHANGED vars
    BY <2>1 DEF vars, hostVars, progVars, wire, workVars, IInv, OneRequest, WorkInv, EndsInv, BetweenCalls, InCall
  <2>2. CASE Next
    BY <2>2, HostStepInv, ProgramStepInv, ServeStepInv, WorkStepInv, WatcherStepInv DEF Next
  <2>. QED
    BY <2>1, <2>2
<1>. QED
  BY <1>1, <1>2, TypeCorrect, PTL DEF Spec

----------------------------------------------------------------------------
(* What follows.                                                            *)

\* No call reads another call's reply, and nothing runs outside the jail on behalf of a
\* call the program has left: one call at a time, and a failed one makes the channel dead
\* (_BrokerChannel.call).
THEOREM RepliesAndWorkServeTheCall == Spec => []WorkServesTheCall
<1>1. IInv => WorkServesTheCall
  BY DEF IInv, WorkServesTheCall, WorkInv, BetweenCalls, InCall
<1>. QED
  BY <1>1, ChannelInvariant, PTL

\* The watcher may take any readability for a hangup: while it watches there is no request
\* it could be, so that only a program without descriptors has its work cut
\* (_watch_for_hangup).
THEOREM HangupIsTheOnlyCut == Spec => []CutOnlyByHangup
<1>1. IInv => CutOnlyByHangup
  BY DEF IInv, CutOnlyByHangup, EndsInv
<1>. QED
  BY <1>1, ChannelInvariant, PTL

\* A program that exits between its calls leaves nothing running behind the run.
THEOREM OrderlyRunsEndClean == Spec => []OrderlyRunEndsItsWork
<1>1. IInv => OrderlyRunEndsItsWork
  BY DEF IInv, OrderlyRunEndsItsWork, BetweenCalls
<1>. QED
  BY <1>1, ChannelInvariant, PTL

----------------------------------------------------------------------------
(* The channel implements Calls.                                            *)

\* The abstract call sees a call, a request taken up and a reply received.
LEMMA StepRefines ==
    ASSUME IInv, Next
    PROVE  [Promise!Next]_(Promise!vars)
<1>. USE BoundsAreNumbers DEF IInv, TypeOK, hostVars, progVars, wire, workVars, Promise!vars
<1>1. CASE HostStep
  BY <1>1 DEF HostStep, SpawnProgram, StopWaiting, CloseHostEnd, Joined
<1>2. ASSUME NEW kind \in Kinds, Call(kind) PROVE Promise!Ask
  <2>1. got = sent /\ toBroker = <<>>
    BY <1>2 DEF Call, BetweenCalls
  <2>2. Len(toBroker') = 1
    BY <1>2, <2>1 DEF Call
  <2>. QED
    BY <1>2, <2>1, <2>2 DEF Call, Promise!Ask
<1>3. CASE Receive
  <2>1. toBroker = <<>> /\ toProg = <<sent>> /\ got < sent
    BY <1>3 DEF Receive, InCall
  <2>. QED
    BY <1>3, <2>1 DEF Receive, Promise!Next, Promise!Answer
<1>4. CASE CallFails \/ CallTimesOut \/ Exit \/ Killed
  BY <1>4 DEF CallFails, CallTimesOut, FailCall, Exit, Killed, Leave
<1>5. CASE TakeUp
  <2>1. Len(toBroker) = 1 /\ Len(toBroker') = 0
    <3>1. toBroker # <<>> /\ Len(toBroker) <= 1 /\ toBroker' = Tail(toBroker)
      BY <1>5 DEF TakeUp, OneRequest
    <3>. QED
      BY <3>1, TailOfOne
  <2>2. sent' = sent /\ got' = got
    BY <1>5 DEF TakeUp
  <2>. QED
    BY <2>1, <2>2 DEF Promise!Next, Promise!Take
<1>6. CASE ServeStep /\ ~TakeUp
  BY <1>6 DEF ServeStep, NothingToServe, Refuse, Begin, WatchChild, Unwatch, SendReply
<1>7. CASE WorkStep \/ WatcherStep
  BY <1>7 DEF WorkStep, WatcherStep, Connect, WorkEnds, SeeHangup, Cancel, WatcherFails
<1>. QED
  BY <1>1, <1>2, <1>3, <1>4, <1>5, <1>6, <1>7 DEF Next, ProgramStep, Promise!Next

\* broker.py's loop, its watcher and markers.py's channel implement one call at a time,
\* each taken up at most once and answered with its own reply.
THEOREM ChannelImplementsCalls == Spec => ImplementsCalls
<1>1. Init => Promise!Init
  <2>. SUFFICES ASSUME Init PROVE Promise!Init
    OBVIOUS
  <2>1. sent = 0 /\ got = 0 /\ Len(toBroker) = 0
    BY DEF Init
  <2>. QED
    BY <2>1 DEF Promise!Init
<1>2. IInv /\ [Next]_vars => [Promise!Next]_(Promise!vars)
  <2>. SUFFICES ASSUME IInv, [Next]_vars PROVE [Promise!Next]_(Promise!vars)
    OBVIOUS
  <2>1. CASE UNCHANGED vars
    BY <2>1 DEF vars, progVars, wire, Promise!vars
  <2>. QED
    BY <2>1, StepRefines
<1>. QED
  BY <1>1, <1>2, ChannelInvariant, PTL DEF Spec, ImplementsCalls, Promise!Spec
=============================================================================

-------------------------- MODULE ViewDaemonProofs --------------------------
(***************************************************************************)
(* Proofs about ViewDaemon, for any numbers of runs, daemons and stop      *)
(* verbs: types, who may decide, that a view is retired only while nobody  *)
(* leases it, and that the protocol implements ViewLease.                  *)
(***************************************************************************)
EXTENDS ViewDaemon, TLAPS

----------------------------------------------------------------------------
(* The mountpoint.                                                          *)

\* Unmounting keeps `mounts` a sequence of daemons.
LEMMA UnmountTopType ==
    ASSUME mounts \in Seq(Daemons), UnmountTop
    PROVE  mounts' \in Seq(Daemons)
  BY SMT DEF UnmountTop, Front

\* Mounting does too.
LEMMA MountType ==
    ASSUME mounts \in Seq(Daemons), NEW d \in Daemons
    PROVE  Append(mounts, d) \in Seq(Daemons)
  BY SMT

\* The visible daemon is a daemon.
LEMMA VisibleType ==
    ASSUME mounts \in Seq(Daemons), mounts # <<>>
    PROVE  Last(mounts) \in Daemons
  BY SMT DEF Last

----------------------------------------------------------------------------
(* Types.                                                                   *)

\* The initial values have their types.
LEMMA InitType ==
    ASSUME Init
    PROVE  TypeOK
<1>1. mounts \in Seq(Daemons)
  BY SMT DEF Init
<1>2. crashes \in 0..MaxCrashes
  BY PartiesAreDistinct, SMT DEF Init
<1>. QED
  BY <1>1, <1>2 DEF Init, TypeOK, RunPC, DaemonPC, StopPC

\* No step of a run changes the type of a variable.
LEMMA RunStepType ==
    ASSUME TypeOK, NEW r \in Runs, RunStep(r)
    PROVE  TypeOK'
<1>. USE PartiesAreDistinct DEF TypeOK, RunPC, Deciding, DaemonPC, daemonVars, mishaps
<1>1. CASE Request(r)
  BY <1>1 DEF Request
<1>2. CASE AcquireLock(r)
  BY <1>2 DEF AcquireLock
<1>3. CASE Probe(r)
  BY <1>3 DEF Probe
<1>4. CASE RecoverUnmount(r)
  BY <1>4, UnmountTopType DEF RecoverUnmount
<1>14. CASE OrphanUnmount(r)
  BY <1>14, UnmountTopType DEF OrphanUnmount
<1>5. CASE Reprobe(r)
  BY <1>5 DEF Reprobe
<1>6. CASE Spawn(r)
  BY <1>6 DEF Spawn
<1>7. CASE WaitLive(r)
  BY <1>7 DEF WaitLive
<1>8. CASE Unavailable(r)
  BY <1>8 DEF Unavailable, GiveUp
<1>9. CASE TakeLease(r)
  BY <1>9 DEF TakeLease
<1>10. CASE Unlock(r)
  BY <1>10 DEF Unlock
<1>11. CASE Use(r)
  BY <1>11, VisibleType DEF Use, Live, runVars
<1>12. CASE Detach(r)
  BY <1>12 DEF Detach
<1>13. CASE CrashRun(r)
  BY <1>13 DEF CrashRun
<1>. QED
  BY <1>1, <1>2, <1>3, <1>4, <1>5, <1>6, <1>7, <1>8, <1>9, <1>10, <1>11, <1>12, <1>13, <1>14
     DEF RunStep, AttachStep

\* No step of a daemon does.
LEMMA DaemonStepType ==
    ASSUME TypeOK, NEW d \in Daemons, DaemonStep(d)
    PROVE  TypeOK'
<1>. USE PartiesAreDistinct DEF TypeOK, DaemonPC, Alive, runVars, mishaps, Move
<1>1. CASE Mount(d)
  BY <1>1, MountType DEF Mount
<1>2. CASE FailStart(d)
  BY <1>2 DEF FailStart
<1>3. CASE WritePid(d)
  BY <1>3 DEF WritePid
<1>4. CASE Serve(d)
  BY <1>4 DEF Serve
<1>5. CASE GoIdle(d)
  BY <1>5 DEF GoIdle
<1>6. CASE TickLocked(d)
  BY <1>6 DEF TickLocked
<1>7. CASE TickRefused(d)
  BY <1>7 DEF TickRefused
<1>8. CASE Stay(d)
  BY <1>8 DEF Stay
<1>9. CASE Retire(d)
  BY <1>9 DEF Retire
<1>10. CASE Unmount(d)
  BY <1>10, UnmountTopType DEF Unmount
<1>11. CASE TruncatePid(d)
  BY <1>11 DEF TruncatePid
<1>12. CASE Exit(d)
  BY <1>12 DEF Exit
<1>13. CASE CrashDaemon(d)
  BY <1>13 DEF CrashDaemon
<1>. QED
  BY <1>1, <1>2, <1>3, <1>4, <1>5, <1>6, <1>7, <1>8, <1>9, <1>10, <1>11, <1>12, <1>13
     DEF DaemonStep, StartStep, TickStep, DecideStep, LeaveStep

\* Nor does a step of `view stop`.
LEMMA StopStepType ==
    ASSUME TypeOK, NEW s \in Stoppers, StopStep(s)
    PROVE  TypeOK'
<1>. USE PartiesAreDistinct DEF TypeOK, StopPC, DaemonPC, Alive, runVars, daemonVars, mishaps
<1>1. CASE StopSignal(s)
  BY <1>1 DEF StopSignal
<1>2. CASE StopWaited(s)
  BY <1>2 DEF StopWaited
<1>3. CASE StopCheck(s)
  BY <1>3 DEF StopCheck
<1>4. CASE StopUnmount(s)
  BY <1>4, UnmountTopType DEF StopUnmount
<1>. QED
  BY <1>1, <1>2, <1>3, <1>4 DEF StopStep

\* The variables keep their types, whatever the numbers of runs, daemons and stop verbs
\* and whatever is killed.
THEOREM TypeCorrect == Spec => []TypeOK
<1>1. Init => TypeOK
  BY InitType
<1>2. TypeOK /\ [Next]_vars => TypeOK'
  <2>. SUFFICES ASSUME TypeOK, [Next]_vars PROVE TypeOK'
    OBVIOUS
  <2>1. CASE UNCHANGED vars
    BY <2>1 DEF vars, runVars, daemonVars, mishaps, TypeOK
  <2>2. CASE Next
    BY <2>2, RunStepType, DaemonStepType, StopStepType DEF Next
  <2>. QED
    BY <2>1, <2>2
<1>. QED
  BY <1>1, <1>2, PTL DEF Spec

----------------------------------------------------------------------------
(* The lock.                                                                *)

\* Whoever holds the lock is where the code holds it, and the other way round; a
\* daemon that kept it to leave found no lease, and none was taken since.
LockInv ==
    /\ \A r \in Runs : rpc[r] \in Deciding <=> lock = r
    /\ \A d \in Daemons : dpc[d] \in {"deciding", "retiring"} => lock = d
    /\ \A d \in Daemons : lock = d => dpc[d] \in {"deciding"} \union Leaving
    /\ \A d \in Daemons : lock = d /\ dpc[d] \in Leaving => lease = {}

IInv == TypeOK /\ LockInv

\* A run takes the lock only when it is free, leases only while it holds it, and lets
\* it go when it stops deciding.
LEMMA RunStepLock ==
    ASSUME IInv, NEW r \in Runs, RunStep(r)
    PROVE  LockInv'
<1>. USE PartiesAreDistinct DEF IInv, TypeOK, LockInv, Deciding, Leaving, daemonVars, mishaps
<1>1. CASE Request(r)
  BY <1>1 DEF Request
<1>2. CASE AcquireLock(r)
  BY <1>2 DEF AcquireLock
<1>3. CASE Probe(r)
  BY <1>3 DEF Probe
<1>4. CASE RecoverUnmount(r)
  BY <1>4 DEF RecoverUnmount
<1>14. CASE OrphanUnmount(r)
  BY <1>14 DEF OrphanUnmount
<1>5. CASE Reprobe(r)
  BY <1>5 DEF Reprobe
<1>6. CASE Spawn(r)
  BY <1>6 DEF Spawn
<1>7. CASE WaitLive(r)
  BY <1>7 DEF WaitLive
<1>8. CASE Unavailable(r)
  BY <1>8 DEF Unavailable, GiveUp
<1>9. CASE TakeLease(r)
  BY <1>9 DEF TakeLease
<1>10. CASE Unlock(r)
  BY <1>10 DEF Unlock
<1>11. CASE Use(r)
  BY <1>11 DEF Use, runVars
<1>12. CASE Detach(r)
  BY <1>12 DEF Detach
<1>13. CASE CrashRun(r)
  BY <1>13 DEF CrashRun
<1>. QED
  BY <1>1, <1>2, <1>3, <1>4, <1>5, <1>6, <1>7, <1>8, <1>9, <1>10, <1>11, <1>12, <1>13, <1>14
     DEF RunStep, AttachStep

\* A daemon takes it only when it is free, and keeps it past its decision only when it
\* found no lease.
LEMMA DaemonStepLock ==
    ASSUME IInv, NEW d \in Daemons, DaemonStep(d)
    PROVE  LockInv'
<1>. USE PartiesAreDistinct DEF IInv, TypeOK, LockInv, Deciding, Leaving, Alive, DaemonPC, runVars, mishaps, Move
<1>1. CASE Mount(d)
  BY <1>1 DEF Mount
<1>2. CASE FailStart(d)
  BY <1>2 DEF FailStart
<1>3. CASE WritePid(d)
  BY <1>3 DEF WritePid
<1>4. CASE Serve(d)
  BY <1>4 DEF Serve
<1>5. CASE GoIdle(d)
  BY <1>5 DEF GoIdle
<1>6. CASE TickLocked(d)
  BY <1>6 DEF TickLocked
<1>7. CASE TickRefused(d)
  BY <1>7 DEF TickRefused
<1>8. CASE Stay(d)
  BY <1>8 DEF Stay
<1>9. CASE Retire(d)
  BY <1>9 DEF Retire
<1>10. CASE Unmount(d)
  BY <1>10 DEF Unmount
<1>11. CASE TruncatePid(d)
  BY <1>11 DEF TruncatePid
<1>12. CASE Exit(d)
  BY <1>12 DEF Exit
<1>13. CASE CrashDaemon(d)
  BY <1>13 DEF CrashDaemon
<1>. QED
  BY <1>1, <1>2, <1>3, <1>4, <1>5, <1>6, <1>7, <1>8, <1>9, <1>10, <1>11, <1>12, <1>13
     DEF DaemonStep, StartStep, TickStep, DecideStep, LeaveStep

\* `view stop` takes no lock, and kills outright no daemon that holds it.
LEMMA StopStepLock ==
    ASSUME IInv, NEW s \in Stoppers, StopStep(s)
    PROVE  LockInv'
<1>. USE PartiesAreDistinct DEF IInv, TypeOK, LockInv, Deciding, Leaving, Alive, runVars, daemonVars, mishaps
<1>1. CASE StopSignal(s)
  BY <1>1 DEF StopSignal
<1>2. CASE StopWaited(s)
  BY <1>2 DEF StopWaited
<1>3. CASE StopCheck(s)
  BY <1>3 DEF StopCheck
<1>4. CASE StopUnmount(s)
  BY <1>4 DEF StopUnmount
<1>. QED
  BY <1>1, <1>2, <1>3, <1>4 DEF StopStep

\* The strengthened invariant.
THEOREM LockInvariant == Spec => []IInv
<1>1. Init => IInv
  <2>. SUFFICES ASSUME Init PROVE LockInv
    BY InitType DEF IInv
  <2>. QED
    BY PartiesAreDistinct DEF Init, LockInv, Deciding, Leaving
<1>2. IInv /\ TypeOK' /\ [Next]_vars => IInv'
  <2>. SUFFICES ASSUME IInv, [Next]_vars PROVE LockInv'
    BY DEF IInv
  <2>1. CASE UNCHANGED vars
    BY <2>1 DEF vars, runVars, daemonVars, mishaps, IInv, LockInv, Deciding, Leaving
  <2>2. CASE Next
    BY <2>2, RunStepLock, DaemonStepLock, StopStepLock DEF Next
  <2>. QED
    BY <2>1, <2>2
<1>. QED
  BY <1>1, <1>2, TypeCorrect, PTL DEF Spec

\* A daemon leaves by its own decision only while no run leases the view: the decision
\* to retire and the grant of a lease exclude each other (retire_if_idle, attach).
THEOREM RetirementIsSafe == Spec => []RetiresOnlyUnleased
<1>1. IInv => RetiresOnlyUnleased
  BY DEF IInv, LockInv, RetiresOnlyUnleased
<1>. QED
  BY <1>1, LockInvariant, PTL

\* At most one process is between probing the view and leasing or retiring it.
THEOREM DecisionsAreExclusive == Spec => []DecidesAlone
<1>1. IInv => DecidesAlone
  BY DEF IInv, LockInv, DecidesAlone
<1>. QED
  BY <1>1, LockInvariant, PTL

----------------------------------------------------------------------------
(* The protocol implements the abstract lease.                              *)

\* A run's step is a grant while nobody retires, a release, or nothing to the lease.
LEMMA RunStepRefines ==
    ASSUME IInv, NEW r \in Runs, RunStep(r)
    PROVE  [Lease!Next]_(Lease!vars)
<1>. USE PartiesAreDistinct DEF IInv, TypeOK, LockInv, Deciding, Leaving, daemonVars, mishaps,
         Lease!Next, Lease!Grant, Lease!Release, Lease!vars
<1>1. CASE Request(r)
  BY <1>1 DEF Request
<1>2. CASE AcquireLock(r)
  BY <1>2 DEF AcquireLock
<1>3. CASE Probe(r)
  BY <1>3 DEF Probe
<1>4. CASE RecoverUnmount(r)
  BY <1>4 DEF RecoverUnmount
<1>14. CASE OrphanUnmount(r)
  BY <1>14 DEF OrphanUnmount
<1>5. CASE Reprobe(r)
  BY <1>5 DEF Reprobe
<1>6. CASE Spawn(r)
  BY <1>6 DEF Spawn
<1>7. CASE WaitLive(r)
  BY <1>7 DEF WaitLive
<1>8. CASE Unavailable(r)
  BY <1>8 DEF Unavailable, GiveUp
<1>9. CASE TakeLease(r)
  BY <1>9 DEF TakeLease
<1>10. CASE Unlock(r)
  BY <1>10 DEF Unlock
<1>11. CASE Use(r)
  BY <1>11 DEF Use, runVars
<1>12. CASE Detach(r)
  BY <1>12 DEF Detach
<1>13. CASE CrashRun(r)
  BY <1>13 DEF CrashRun
<1>. QED
  BY <1>1, <1>2, <1>3, <1>4, <1>5, <1>6, <1>7, <1>8, <1>9, <1>10, <1>11, <1>12, <1>13, <1>14
     DEF RunStep, AttachStep

\* A daemon's step begins its retirement with no lease out, ends it, or is nothing to
\* the lease.
LEMMA DaemonStepRefines ==
    ASSUME IInv, NEW d \in Daemons, DaemonStep(d)
    PROVE  [Lease!Next]_(Lease!vars)
<1>. USE PartiesAreDistinct DEF IInv, TypeOK, LockInv, Leaving, Alive, DaemonPC, runVars, mishaps, Move,
         Lease!Next, Lease!BeginRetire, Lease!EndRetire, Lease!vars
<1>1. CASE Mount(d)
  BY <1>1 DEF Mount
<1>2. CASE FailStart(d)
  BY <1>2 DEF FailStart
<1>3. CASE WritePid(d)
  BY <1>3 DEF WritePid
<1>4. CASE Serve(d)
  BY <1>4 DEF Serve
<1>5. CASE GoIdle(d)
  BY <1>5 DEF GoIdle
<1>6. CASE TickLocked(d)
  BY <1>6 DEF TickLocked
<1>7. CASE TickRefused(d)
  BY <1>7 DEF TickRefused
<1>8. CASE Stay(d)
  BY <1>8 DEF Stay
<1>9. CASE Retire(d)
  BY <1>9 DEF Retire
<1>10. CASE Unmount(d)
  BY <1>10 DEF Unmount
<1>11. CASE TruncatePid(d)
  BY <1>11 DEF TruncatePid
<1>12. CASE Exit(d)
  BY <1>12 DEF Exit
<1>13. CASE CrashDaemon(d)
  BY <1>13 DEF CrashDaemon
<1>. QED
  BY <1>1, <1>2, <1>3, <1>4, <1>5, <1>6, <1>7, <1>8, <1>9, <1>10, <1>11, <1>12, <1>13
     DEF DaemonStep, StartStep, TickStep, DecideStep, LeaveStep

\* `view stop` does nothing to the lease.
LEMMA StopStepRefines ==
    ASSUME IInv, NEW s \in Stoppers, StopStep(s)
    PROVE  UNCHANGED Lease!vars
<1>. USE DEF IInv, TypeOK, LockInv, Leaving, Alive, runVars, daemonVars, mishaps, Lease!vars
<1>1. CASE StopSignal(s)
  BY <1>1 DEF StopSignal
<1>2. CASE StopWaited(s)
  BY <1>2 DEF StopWaited
<1>3. CASE StopCheck(s)
  BY <1>3 DEF StopCheck
<1>4. CASE StopUnmount(s)
  BY <1>4 DEF StopUnmount
<1>. QED
  BY <1>1, <1>2, <1>3, <1>4 DEF StopStep

\* The processes, files and mounts of viewdaemon.py implement the lease its docstring
\* promises: nobody is granted the view while a daemon retires, and a daemon begins to
\* retire only while nobody holds it.
THEOREM ProtocolImplementsLease == Spec => ImplementsLease
<1>1. Init => Lease!Init
  BY PartiesAreDistinct DEF Init, Lease!Init, Leaving
<1>2. IInv /\ [Next]_vars => [Lease!Next]_(Lease!vars)
  <2>. SUFFICES ASSUME IInv, [Next]_vars PROVE [Lease!Next]_(Lease!vars)
    OBVIOUS
  <2>1. CASE UNCHANGED vars
    BY <2>1 DEF vars, runVars, daemonVars, mishaps, Lease!vars
  <2>2. CASE Next
    BY <2>2, RunStepRefines, DaemonStepRefines, StopStepRefines DEF Next
  <2>. QED
    BY <2>1, <2>2
<1>. QED
  BY <1>1, <1>2, LockInvariant, PTL DEF Spec, ImplementsLease, Lease!Spec

----------------------------------------------------------------------------
(* One view at a time.                                                      *)

Coming == {"starting", "mounted", "announced"}
Up == {"mounted", "announced", "serving", "deciding", "retiring"}
Announced == {"announced", "serving", "deciding", "retiring", "unmounted"}

\* What the daemons have to do with the mountpoint, the lock and the pid file: one is alive
\* at a time, it is mounted or not, and until it serves, a run waits for it.  The one mount
\* there is may be of a daemon that was killed.
DaemonInv ==
    /\ \A d, e \in Daemons : dpc[d] \in Alive /\ dpc[e] \in Alive => d = e
    /\ \A d \in Daemons :
         /\ dpc[d] # "stopping"
         /\ ~signalled[d]
         /\ dpc[d] = "starting" => mounts = <<>>
         /\ dpc[d] \in Up => mounts = <<d>>
         /\ dpc[d] \in Coming => \E r \in Runs : rpc[r] = "wait" /\ spawned[r] = d
         /\ dpc[d] \in Leaving => lock = d
         /\ dpc[d] \in Announced => pid = d
    /\ mounts = <<>> \/ \E d \in Daemons : mounts = <<d>> /\ dpc[d] \in Up \union {"dead"}

\* What a run that decides knows of the daemons: none is alive while it clears a dead view
\* away and when it spawns its own, and then it waits for that one.
KnownInv ==
    \A r \in Runs :
       /\ rpc[r] \in {"unmount", "reprobe", "spawn"} => \A d \in Daemons : dpc[d] \notin Alive
       /\ rpc[r] = "spawn" => mounts = <<>>
       /\ rpc[r] = "wait" => spawned[r] \in Daemons /\ \A d \in Daemons \ {spawned[r]} : dpc[d] \notin Alive

AttendedInv == Attended => DaemonInv /\ KnownInv

\* What a mountpoint with one mount looks like.
LEMMA OneMount ==
    ASSUME NEW d \in Daemons
    PROVE  /\ Last(<<d>>) = d /\ Front(<<d>>) = <<>> /\ Contains(<<d>>, d)
           /\ Append(<<>>, d) = <<d>> /\ <<d>> # <<>>
           /\ \A e \in Daemons : <<e>> = <<d>> => e = d
<1>1. Len(<<d>>) = 1 /\ <<d>>[1] = d
  OBVIOUS
<1>2. Front(<<d>>) = <<>>
  BY <1>1, SMT DEF Front
<1>3. Contains(<<d>>, d)
  BY <1>1 DEF Contains
<1>. QED
  BY <1>1, <1>2, <1>3 DEF Last

\* With one daemon alive at most, what is live is that daemon, and where something is stale
\* no daemon is up.
LEMMA OneDaemon ==
    ASSUME DaemonInv
    PROVE  /\ Live => \E d \in Daemons : mounts = <<d>> /\ dpc[d] = "serving"
           /\ Absent \/ Stale => \A d \in Daemons : dpc[d] \notin Up
           /\ \A d \in Daemons : dpc[d] = "serving" => Live
<1>1. \A d \in Daemons : Last(<<d>>) = d /\ <<d>> # <<>>
  BY OneMount
<1>2. ASSUME Absent \/ Stale, NEW d \in Daemons, dpc[d] \in Up PROVE FALSE
  <2>1. mounts = <<d>>
    BY <1>2 DEF DaemonInv
  <2>. QED
    BY <1>1, <1>2, <2>1 DEF Absent, Stale, Up
<1>3. Live => \E d \in Daemons : mounts = <<d>> /\ dpc[d] = "serving"
  BY <1>1 DEF DaemonInv, Live
<1>4. \A d \in Daemons : dpc[d] = "serving" => Live
  BY <1>1 DEF DaemonInv, Live, Up
<1>. QED
  BY <1>2, <1>3, <1>4

\* A run that holds the lock and waits for no daemon meets none that is not up.
LEMMA NobodyElse ==
    ASSUME IInv, DaemonInv, NEW r \in Runs, rpc[r] \in Deciding, rpc[r] # "wait", NEW d \in Daemons, dpc[d] \in Alive
    PROVE  dpc[d] \in Up
<1>1. lock = r /\ \A q \in Runs : rpc[q] = "wait" => q = r
  BY DEF IInv, LockInv, Deciding
<1>2. dpc[d] \notin Coming
  BY <1>1 DEF DaemonInv
<1>3. dpc[d] \notin Leaving
  BY <1>1, PartiesAreDistinct DEF DaemonInv
<1>. QED
  BY <1>2, <1>3 DEF DaemonInv, Alive, DaemonPC, Up, Coming, Leaving

\* Attended now, attended before.
LEMMA AttendedSteps ==
    ASSUME TypeOK, Next, Attended'
    PROVE  /\ Attended
           /\ UNCHANGED <<late, spc>>
           /\ \A s \in Stoppers : ~StopStep(s)
           /\ \A r \in Runs : ~CrashRun(r) /\ ~OrphanUnmount(r)
<1>1. ASSUME NEW s \in Stoppers, StopStep(s) PROVE FALSE
  <2>1. spc' = [spc EXCEPT ![s] = spc'[s]] /\ spc'[s] # "fresh"
    BY <1>1 DEF TypeOK, StopStep, StopSignal, StopWaited, StopCheck, StopUnmount
  <2>. QED
    BY <2>1 DEF Attended
<1>2. ASSUME NEW r \in Runs, CrashRun(r) \/ OrphanUnmount(r) PROVE FALSE
  <2>1. rpc'[r] \in {"orphaned", "dead"}
    BY <1>2 DEF TypeOK, CrashRun, OrphanUnmount
  <2>. QED
    BY <2>1 DEF Attended
<1>3. ASSUME NEW r \in Runs, RunStep(r)
      PROVE  UNCHANGED <<late, spc>> /\ \A q \in Runs : rpc[q] \in {"orphaned", "dead"} => rpc'[q] = rpc[q]
  <2>. USE <1>2 DEF TypeOK, mishaps, daemonVars, runVars
  <2>1. CASE Unavailable(r)
    BY <2>1 DEF Unavailable, GiveUp, Attended
  <2>2. CASE Request(r) \/ AcquireLock(r) \/ Use(r) \/ Detach(r)
    BY <2>2 DEF Request, AcquireLock, Use, Detach
  <2>3. CASE Probe(r) \/ RecoverUnmount(r) \/ Reprobe(r) \/ Spawn(r)
    BY <2>3 DEF Probe, RecoverUnmount, Reprobe, Spawn
  <2>4. CASE WaitLive(r) \/ TakeLease(r) \/ Unlock(r)
    BY <2>4 DEF WaitLive, TakeLease, Unlock
  <2>. QED
    BY <1>3, <2>1, <2>2, <2>3, <2>4 DEF RunStep, AttachStep
<1>4. ASSUME NEW d \in Daemons, DaemonStep(d) PROVE UNCHANGED <<late, spc, rpc>>
  BY <1>4 DEF DaemonStep, StartStep, TickStep, DecideStep, LeaveStep, Mount, FailStart, WritePid, Serve,
         GoIdle, TickLocked, TickRefused, Stay, Retire, Unmount, TruncatePid, Exit, CrashDaemon, mishaps, runVars
<1>. QED
  BY <1>1, <1>2, <1>3, <1>4 DEF Next, Attended

\* A run's step, while every spawner stays with its daemon.
LEMMA RunStepAttended ==
    ASSUME IInv, DaemonInv, KnownInv, NEW r \in Runs, RunStep(r), ~late', ~CrashRun(r), ~OrphanUnmount(r)
    PROVE  DaemonInv' /\ KnownInv'
<1>. USE PartiesAreDistinct DEF IInv, TypeOK, LockInv, Deciding, daemonVars, mishaps,
         DaemonInv, KnownInv, Alive, DaemonPC, Coming, Up, Announced, Leaving
<1>1. CASE Request(r)
  BY <1>1 DEF Request
<1>2. CASE AcquireLock(r)
  BY <1>2 DEF AcquireLock
<1>3. CASE Probe(r)
  <2>1. Absent \/ Stale => \A d \in Daemons : dpc[d] \notin Alive
    BY <1>3, NobodyElse, OneDaemon DEF Probe
  <2>. QED
    BY <1>3, <2>1 DEF Probe, Absent
<1>4. CASE RecoverUnmount(r)
  <2>1. mounts' = <<>> \/ mounts' = mounts
    BY <1>4, OneMount DEF RecoverUnmount, UnmountTop
  <2>2. \A d \in Daemons : dpc[d] \notin Alive
    BY <1>4 DEF RecoverUnmount
  <2>. QED
    BY <1>4, <2>1, <2>2 DEF RecoverUnmount
<1>5. CASE Reprobe(r)
  <2>1. Absent
    BY <1>5, OneDaemon DEF Reprobe
  <2>. QED
    BY <1>5, <2>1 DEF Reprobe, Absent
<1>6. CASE Spawn(r)
  BY <1>6 DEF Spawn
<1>7. CASE WaitLive(r)
  BY <1>7, OneDaemon DEF WaitLive
<1>8. CASE Unavailable(r)
  <2>1. GiveUp(r) /\ \A d \in Daemons : dpc[d] \notin Alive
    BY <1>8 DEF Unavailable
  <2>. QED
    BY <2>1 DEF GiveUp
<1>9. CASE TakeLease(r)
  BY <1>9 DEF TakeLease
<1>10. CASE Unlock(r)
  BY <1>10 DEF Unlock
<1>11. CASE Use(r)
  BY <1>11 DEF Use, runVars
<1>12. CASE Detach(r)
  BY <1>12 DEF Detach
<1>. QED
  BY <1>1, <1>2, <1>3, <1>4, <1>5, <1>6, <1>7, <1>8, <1>9, <1>10, <1>11, <1>12 DEF RunStep, AttachStep

\* A daemon's step, its being killed among them.
LEMMA DaemonStepAttended ==
    ASSUME IInv, DaemonInv, KnownInv, NEW d \in Daemons, DaemonStep(d)
    PROVE  DaemonInv' /\ KnownInv'
<1>. USE PartiesAreDistinct, OneMount DEF IInv, TypeOK, LockInv, Deciding, runVars, mishaps, Move,
         DaemonInv, KnownInv, Alive, DaemonPC, Coming, Up, Announced, Leaving
<1>1. CASE Mount(d)
  <2>1. mounts = <<>>
    BY <1>1 DEF Mount
  <2>2. mounts' = <<d>>
    BY <1>1, <2>1 DEF Mount
  <2>3. dpc' = [dpc EXCEPT ![d] = "mounted"]
    BY <1>1 DEF Mount
  <2>. QED
    BY <1>1, <2>2, <2>3 DEF Mount
<1>2. CASE FailStart(d)
  BY <1>2 DEF FailStart
<1>3. CASE WritePid(d)
  BY <1>3 DEF WritePid
<1>4. CASE Serve(d)
  BY <1>4 DEF Serve
<1>5. CASE GoIdle(d)
  BY <1>5 DEF GoIdle
<1>6. CASE TickLocked(d)
  BY <1>6 DEF TickLocked
<1>7. CASE TickRefused(d)
  BY <1>7 DEF TickRefused
<1>8. CASE Stay(d)
  BY <1>8 DEF Stay
<1>9. CASE Retire(d)
  BY <1>9 DEF Retire
<1>10. CASE Unmount(d)
  BY <1>10 DEF Unmount, UnmountTop
<1>11. CASE TruncatePid(d)
  BY <1>11 DEF TruncatePid
<1>12. CASE Exit(d)
  BY <1>12 DEF Exit
<1>13. CASE CrashDaemon(d)
  BY <1>13 DEF CrashDaemon
<1>. QED
  BY <1>1, <1>2, <1>3, <1>4, <1>5, <1>6, <1>7, <1>8, <1>9, <1>10, <1>11, <1>12, <1>13
     DEF DaemonStep, StartStep, TickStep, DecideStep, LeaveStep

\* One view at a time, however many daemons are killed, as long as every spawner stays with
\* its daemon and nobody stops a view.
THEOREM OneViewAtATime == Spec => []AttendedInv
<1>1. Init => AttendedInv
  BY DEF Init, AttendedInv, DaemonInv, KnownInv, Alive, DaemonPC, Coming, Up, Announced, Leaving
<1>2. IInv /\ AttendedInv /\ [Next]_vars => AttendedInv'
  <2>. SUFFICES ASSUME IInv, AttendedInv, [Next]_vars, Attended' PROVE DaemonInv' /\ KnownInv'
    BY DEF AttendedInv
  <2>1. CASE UNCHANGED vars
    <3>1. Attended
      BY <2>1 DEF vars, runVars, mishaps, Attended
    <3>. QED
      BY <2>1, <3>1 DEF vars, runVars, daemonVars, mishaps, AttendedInv, DaemonInv, KnownInv
  <2>2. CASE Next
    <3>1. /\ Attended
          /\ \A s \in Stoppers : ~StopStep(s)
          /\ \A r \in Runs : ~CrashRun(r) /\ ~OrphanUnmount(r)
      BY <2>2, AttendedSteps DEF IInv
    <3>2. DaemonInv /\ KnownInv /\ ~late'
      BY <3>1 DEF AttendedInv, Attended
    <3>. QED
      BY <2>2, <3>1, <3>2, RunStepAttended, DaemonStepAttended DEF Next
  <2>. QED
    BY <2>1, <2>2
<1>. QED
  BY <1>1, <1>2, LockInvariant, PTL DEF Spec

\* Nobody else moves a run, and only its unmounts change the mountpoint.
LEMMA RunStepMounts ==
    ASSUME TypeOK, [Next]_vars, NEW r \in Runs, rpc'[r] # rpc[r], mounts' # mounts
    PROVE  RecoverUnmount(r) \/ OrphanUnmount(r)
<1>1. ASSUME NEW q \in Runs, RunStep(q) PROVE RecoverUnmount(r) \/ OrphanUnmount(r)
  <2>1. RecoverUnmount(q) \/ OrphanUnmount(q)
    BY <1>1 DEF RunStep, AttachStep, Request, AcquireLock, Probe, Reprobe, Spawn, WaitLive, Unavailable,
         GiveUp, TakeLease, Unlock, Use, Detach, CrashRun
  <2>2. q = r
    BY <2>1 DEF TypeOK, RecoverUnmount, OrphanUnmount
  <2>. QED
    BY <2>1, <2>2
<1>2. ASSUME NEW d \in Daemons, DaemonStep(d) PROVE rpc' = rpc
  BY <1>2 DEF DaemonStep, StartStep, TickStep, DecideStep, LeaveStep, Mount, FailStart, WritePid, Serve, GoIdle,
              TickLocked, TickRefused, Stay, Retire, Unmount, TruncatePid, Exit, CrashDaemon, runVars
<1>3. ASSUME NEW s \in Stoppers, StopStep(s) PROVE rpc' = rpc
  BY <1>3 DEF StopStep, StopSignal, StopWaited, StopCheck, StopUnmount, runVars
<1>. QED
  BY <1>1, <1>2, <1>3 DEF Next, vars, runVars

\* What a run takes from the mountpoint some time after it found a dead view there is dead
\* still, as long as every spawner stays with its daemon and nobody stops a view: nothing
\* mounts meanwhile, since whoever mounts has a run waiting for it that holds the lock.
THEOREM RunsTakeDownOnlyDead == Spec => RunsUnmountOnlyDead
<1>1. ASSUME IInv, AttendedInv, [Next]_vars, NEW r \in Runs, Attended, rpc'[r] # rpc[r], mounts' # mounts
      PROVE  dpc[Last(mounts)] = "dead"
  <2>1. RecoverUnmount(r)
    BY <1>1, RunStepMounts DEF IInv, OrphanUnmount, Attended
  <2>2. \A d \in Daemons : dpc[d] \notin Alive
    BY <1>1, <2>1 DEF AttendedInv, KnownInv, RecoverUnmount
  <2>3. mounts # <<>>
    BY <1>1, <2>1 DEF RecoverUnmount, UnmountTop
  <2>4. PICK d \in Daemons : mounts = <<d>> /\ dpc[d] \in Up \union {"dead"}
    BY <1>1, <2>3 DEF AttendedInv, DaemonInv
  <2>. QED
    BY <2>2, <2>4, OneMount DEF Up, Alive, DaemonPC
<1>2. IInv /\ AttendedInv /\ [Next]_vars =>
        \A r \in Runs : Attended /\ rpc'[r] # rpc[r] /\ mounts' # mounts => dpc[Last(mounts)] = "dead"
  BY <1>1
<1>. QED
  BY <1>2, LockInvariant, OneViewAtATime, PTL DEF Spec, RunsUnmountOnlyDead

----------------------------------------------------------------------------
(* Left alone.                                                              *)

\* While nothing is killed, no run is dead; and a run that leases the view, or is about to,
\* has a daemon that serves.
AloneInv ==
    /\ crashes = 0 => \A r \in Runs : rpc[r] \notin {"orphaned", "dead"}
    /\ Undisturbed =>
         /\ \A r \in Runs : rpc[r] \in {"lease", "unlock"} => \E d \in Daemons : dpc[d] = "serving"
         /\ lease # {} => \E d \in Daemons : dpc[d] \in {"serving", "deciding"}

\* Left alone, every spawner stays with its daemon.
LEMMA AloneAttended ==
    ASSUME AloneInv, Undisturbed
    PROVE  Attended
  BY DEF AloneInv, Undisturbed, Attended

\* Left alone now, left alone before.
LEMMA AloneSteps ==
    ASSUME TypeOK, [Next]_vars
    PROVE  /\ crashes' = 0 => crashes = 0 /\ \A r \in Runs : ~CrashRun(r)
           /\ Undisturbed' => Undisturbed /\ UNCHANGED spc /\ \A d \in Daemons : ~CrashDaemon(d)
<1>. USE DEF TypeOK, mishaps
<1>1. CASE UNCHANGED vars
  <2>1. \A r \in Runs : ~CrashRun(r)
    BY <1>1 DEF vars, CrashRun
  <2>2. \A d \in Daemons : ~CrashDaemon(d)
    BY <1>1 DEF vars, CrashDaemon
  <2>. QED
    BY <1>1, <2>1, <2>2 DEF vars, Undisturbed
<1>2. \A r \in Runs : CrashRun(r) => crashes' # 0
  BY DEF CrashRun
<1>3. \A d \in Daemons : CrashDaemon(d) => crashes' # 0
  BY DEF CrashDaemon
<1>4. ASSUME NEW r \in Runs, RunStep(r), ~CrashRun(r) PROVE crashes' = crashes /\ spc' = spc /\ (late => late')
  BY <1>4 DEF RunStep, AttachStep, Request, AcquireLock, Probe, RecoverUnmount, OrphanUnmount, Reprobe, Spawn,
         WaitLive, Unavailable, GiveUp, TakeLease, Unlock, Use, Detach
<1>5. ASSUME NEW d \in Daemons, DaemonStep(d), ~CrashDaemon(d) PROVE UNCHANGED <<crashes, late, spc>>
  BY <1>5 DEF DaemonStep, StartStep, TickStep, DecideStep, LeaveStep, Mount, FailStart, WritePid, Serve,
         GoIdle, TickLocked, TickRefused, Stay, Retire, Unmount, TruncatePid, Exit
<1>6. ASSUME NEW s \in Stoppers, StopStep(s) PROVE crashes' = crashes /\ ~Undisturbed'
  <2>1. spc' = [spc EXCEPT ![s] = spc'[s]] /\ spc'[s] # "fresh" /\ crashes' = crashes
    BY <1>6 DEF StopStep, StopSignal, StopWaited, StopCheck, StopUnmount
  <2>. QED
    BY <2>1 DEF Undisturbed
<1>7. CASE Next
  <2>1. CASE \E r \in Runs : RunStep(r)
    <3>1. PICK r \in Runs : RunStep(r)
      BY <2>1
    <3>2. \A d \in Daemons : CrashDaemon(d) => crashes' # 0
      BY <1>3
    <3>3. CASE CrashRun(r)
      BY <1>2, <3>3 DEF Undisturbed
    <3>4. CASE ~CrashRun(r)
      BY <1>2, <1>3, <1>4, <3>1, <3>4 DEF Undisturbed
    <3>. QED
      BY <3>3, <3>4
  <2>2. CASE \E d \in Daemons : DaemonStep(d)
    <3>1. PICK d \in Daemons : DaemonStep(d)
      BY <2>2
    <3>3. CASE CrashDaemon(d)
      BY <1>3, <3>3 DEF Undisturbed
    <3>4. CASE ~CrashDaemon(d)
      BY <1>2, <1>3, <1>5, <3>1, <3>4 DEF Undisturbed
    <3>. QED
      BY <3>3, <3>4
  <2>3. CASE \E s \in Stoppers : StopStep(s)
    BY <1>2, <1>6, <2>3
  <2>. QED
    BY <1>7, <2>1, <2>2, <2>3 DEF Next
<1>. QED
  BY <1>1, <1>7

\* A run that is left alone.
LEMMA RunStepAlone ==
    ASSUME IInv, AloneInv, NEW r \in Runs, RunStep(r), ~CrashRun(r), Undisturbed' => Undisturbed /\ DaemonInv
    PROVE  AloneInv'
<1>0. crashes' = crashes /\ \A q \in Runs : rpc'[q] \in {"orphaned", "dead"} => rpc[q] \in {"orphaned", "dead"}
  <2>. USE DEF IInv, TypeOK, mishaps, runVars
  <2>1. CASE Unavailable(r)
    BY <2>1 DEF Unavailable, GiveUp
  <2>2. CASE Request(r) \/ AcquireLock(r) \/ Use(r) \/ Detach(r)
    BY <2>2 DEF Request, AcquireLock, Use, Detach
  <2>3. CASE Probe(r) \/ RecoverUnmount(r) \/ OrphanUnmount(r) \/ Reprobe(r) \/ Spawn(r)
    BY <2>3 DEF Probe, RecoverUnmount, OrphanUnmount, Reprobe, Spawn
  <2>4. CASE WaitLive(r) \/ TakeLease(r) \/ Unlock(r)
    BY <2>4 DEF WaitLive, TakeLease, Unlock
  <2>. QED
    BY <2>1, <2>2, <2>3, <2>4 DEF RunStep, AttachStep
<1>. SUFFICES ASSUME Undisturbed'
     PROVE  /\ \A q \in Runs : rpc'[q] \in {"lease", "unlock"} => \E d \in Daemons : dpc'[d] = "serving"
            /\ lease' # {} => \E d \in Daemons : dpc'[d] \in {"serving", "deciding"}
  BY <1>0 DEF AloneInv
<1>. USE PartiesAreDistinct DEF IInv, TypeOK, LockInv, Deciding, daemonVars, mishaps, AloneInv
<1>1. CASE Request(r)
  BY <1>1 DEF Request
<1>2. CASE AcquireLock(r)
  BY <1>2 DEF AcquireLock
<1>3. CASE Probe(r)
  BY <1>3, OneDaemon DEF Probe
<1>4. CASE RecoverUnmount(r)
  BY <1>4 DEF RecoverUnmount
<1>5. CASE OrphanUnmount(r)
  BY <1>5 DEF OrphanUnmount
<1>6. CASE Reprobe(r)
  BY <1>6 DEF Reprobe
<1>7. CASE Spawn(r)
  <2>1. \A d \in Daemons : dpc[d] # "none" => dpc'[d] = dpc[d]
    BY <1>7 DEF Spawn
  <2>. QED
    BY <1>7, <2>1 DEF Spawn
<1>8. CASE WaitLive(r)
  BY <1>8, OneDaemon DEF WaitLive
<1>9. CASE Unavailable(r)
  BY <1>9 DEF Unavailable, GiveUp
<1>10. CASE TakeLease(r)
  BY <1>10 DEF TakeLease
<1>11. CASE Unlock(r)
  BY <1>11 DEF Unlock
<1>12. CASE Use(r)
  BY <1>12 DEF Use, runVars
<1>13. CASE Detach(r)
  BY <1>13 DEF Detach
<1>. QED
  BY <1>1, <1>2, <1>3, <1>4, <1>5, <1>6, <1>7, <1>8, <1>9, <1>10, <1>11, <1>12, <1>13 DEF RunStep, AttachStep

\* A daemon that is left alone: one that serves or decides goes on, unless nobody leases.
LEMMA DaemonStepAlone ==
    ASSUME IInv, AloneInv, NEW d \in Daemons, DaemonStep(d), ~CrashDaemon(d),
           Undisturbed' => Undisturbed /\ DaemonInv
    PROVE  AloneInv'
<1>0. crashes' = crashes /\ rpc' = rpc /\ lease' = lease
  BY DEF DaemonStep, StartStep, TickStep, DecideStep, LeaveStep, Mount, FailStart, WritePid, Serve,
         GoIdle, TickLocked, TickRefused, Stay, Retire, Unmount, TruncatePid, Exit, mishaps, runVars
<1>. SUFFICES ASSUME Undisturbed, DaemonInv
     PROVE  /\ \A q \in Runs : rpc[q] \in {"lease", "unlock"} => \E e \in Daemons : dpc'[e] = "serving"
            /\ lease # {} => \E e \in Daemons : dpc'[e] \in {"serving", "deciding"}
  BY <1>0 DEF AloneInv
<1>1. \A q \in Runs : rpc[q] \in {"lease", "unlock"} => lock = q /\ lock # d /\ lock # NoOne
  BY PartiesAreDistinct DEF IInv, LockInv, Deciding
<1>2. ~signalled[d] /\ dpc[d] # "stopping"
  BY DEF DaemonInv
<1>3. \A q \in Runs : rpc[q] \in {"lease", "unlock"} /\ dpc[d] = "serving" => dpc'[d] = "serving"
  BY <1>1, <1>2 DEF IInv, TypeOK, DaemonStep, StartStep, TickStep, DecideStep, LeaveStep, Mount, FailStart, WritePid,
         Serve, GoIdle, TickLocked, TickRefused, Stay, Retire, Unmount, TruncatePid, Exit, Move
<1>4. lease # {} /\ dpc[d] \in {"serving", "deciding"} => dpc'[d] \in {"serving", "deciding"}
  BY <1>2 DEF IInv, TypeOK, DaemonStep, StartStep, TickStep, DecideStep, LeaveStep, Mount, FailStart, WritePid,
         Serve, GoIdle, TickLocked, TickRefused, Stay, Retire, Unmount, TruncatePid, Exit, Move
<1>5. \A e \in Daemons : e # d => dpc'[e] = dpc[e]
  BY DEF IInv, TypeOK, DaemonStep, StartStep, TickStep, DecideStep, LeaveStep, Mount, FailStart, WritePid,
         Serve, GoIdle, TickLocked, TickRefused, Stay, Retire, Unmount, TruncatePid, Exit, Move
<1>. QED
  BY <1>3, <1>4, <1>5 DEF AloneInv

\* What is known of a view that is left alone.
THEOREM LeftAlone == Spec => []AloneInv
<1>1. Init => AloneInv
  BY DEF Init, AloneInv
<1>2. IInv /\ AttendedInv /\ AloneInv /\ [Next]_vars => AloneInv'
  <2>. SUFFICES ASSUME IInv, AttendedInv, AloneInv, [Next]_vars PROVE AloneInv'
    OBVIOUS
  <2>1. Undisturbed' => Undisturbed /\ DaemonInv
    BY AloneSteps, AloneAttended DEF IInv, AttendedInv
  <2>2. CASE UNCHANGED vars
    BY <2>2 DEF vars, runVars, daemonVars, mishaps, AloneInv, Undisturbed
  <2>3. CASE \E r \in Runs : CrashRun(r)
    <3>1. crashes' # 0
      BY <2>3, AloneSteps DEF IInv
    <3>. QED
      BY <3>1 DEF AloneInv, Undisturbed
  <2>4. CASE \E d \in Daemons : CrashDaemon(d)
    <3>1. ~Undisturbed'
      BY <2>4, AloneSteps DEF IInv
    <3>2. rpc' = rpc
      BY <2>4 DEF CrashDaemon, runVars
    <3>3. crashes' = 0 => crashes = 0
      BY AloneSteps DEF IInv
    <3>. QED
      BY <3>1, <3>2, <3>3 DEF AloneInv
  <2>5. CASE \E s \in Stoppers : StopStep(s)
    <3>1. ~Undisturbed'
      BY <2>5, AloneSteps DEF IInv, Undisturbed, StopStep, StopSignal, StopWaited, StopCheck, StopUnmount, TypeOK
    <3>2. rpc' = rpc
      BY <2>5 DEF StopStep, StopSignal, StopWaited, StopCheck, StopUnmount, runVars
    <3>3. crashes' = 0 => crashes = 0
      BY AloneSteps DEF IInv
    <3>. QED
      BY <3>1, <3>2, <3>3 DEF AloneInv
  <2>6. CASE \E r \in Runs : RunStep(r) /\ ~CrashRun(r)
    BY <2>1, <2>6, RunStepAlone
  <2>7. CASE \E d \in Daemons : DaemonStep(d) /\ ~CrashDaemon(d)
    BY <2>1, <2>7, DaemonStepAlone
  <2>. QED
    BY <2>2, <2>3, <2>4, <2>5, <2>6, <2>7 DEF Next
<1>. QED
  BY <1>1, <1>2, LockInvariant, OneViewAtATime, PTL DEF Spec

\* A run that leases the view has it, answering: a daemon that serves or is within a tick is
\* mounted (attach takes the lease under the lock, after it found the view live).
THEOREM LeasedViewsAreUp == Spec => []LeasedViewIsUp
<1>1. AttendedInv /\ AloneInv => LeasedViewIsUp
  BY OneMount, AloneAttended DEF AttendedInv, AloneInv, DaemonInv, LeasedViewIsUp, Up
<1>. QED
  BY <1>1, OneViewAtATime, LeftAlone, PTL

\* One mount at most, by the daemon whose pid is in the file.
THEOREM OneMountAtATime == Spec => []OneMountOnePid
<1>1. AttendedInv /\ AloneInv => OneMountOnePid
  <2>1. \A d \in Daemons : Len(<<d>>) <= 1
    OBVIOUS
  <2>2. Len(<<>>) <= 1
    OBVIOUS
  <2>. QED
    BY <2>1, <2>2, AloneAttended DEF AttendedInv, DaemonInv, OneMountOnePid, Up, Announced
<1>. QED
  BY <1>1, OneViewAtATime, LeftAlone, PTL
=============================================================================

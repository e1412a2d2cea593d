----------------------------- MODULE ViewDaemon -----------------------------
(***************************************************************************)
(* The long-lived FUSE view (certorail/viewdaemon.py) for one key: the     *)
(* runs that attach to it, the daemons that serve it, the `view stop` verb *)
(* and the three things they share -- the `lock` and `lease` files, the    *)
(* mountpoint and the pid file.                                            *)
(*                                                                         *)
(* A key is the hash of what its daemon serves, so keys do not interact    *)
(* and view.json never changes under a key: both are left out.  Clocks are *)
(* left out too: a deadline may pass whenever its wait is on.              *)
(***************************************************************************)
EXTENDS Naturals, Sequences, SequencesExt

CONSTANTS
    Runs,         \* host processes; one that has ended is followed by the next
    Daemons,      \* daemon processes; when none is left, spawning one fails (bound)
    Stoppers,     \* `certorail view stop` invocations
    NoOne,        \* nobody: a free lock, an empty pid file
    MaxCrashes    \* bound: how many processes are killed

ASSUME PartiesAreDistinct ==
    /\ Runs \intersect Daemons = {}
    /\ NoOne \notin Runs \union Daemons
    /\ MaxCrashes \in Nat

VARIABLES
    lock,       \* who holds `lock` exclusively
    lease,      \* the runs holding `lease` shared
    rpc,        \* where each run is in attach()
    spawned,    \* the daemon each run spawned and waits for
    dpc,        \* where each daemon is in serve()
    idle,       \* has a daemon seen no activity for its idle limit?
    signalled,  \* has a daemon been sent SIGTERM?
    mounts,     \* the daemons mounted at the mountpoint, the visible one last
    pid,        \* the content of the pid file
    spc,        \* where each `view stop` is
    crashes,    \* how many processes have been killed
    late        \* has SPAWN_DEADLINE passed for some run?

runVars == <<rpc, spawned>>
daemonVars == <<dpc, idle, signalled>>
mishaps == <<crashes, late>>
vars == <<lock, lease, runVars, daemonVars, mounts, pid, spc, mishaps>>

RunPC == {"fresh", "want", "probe", "unmount", "reprobe", "spawn", "wait", "lease", "unlock",
          "attached", "unavailable", "orphaned", "dead"}
Deciding == {"probe", "unmount", "reprobe", "spawn", "wait", "lease", "unlock"}
DaemonPC == {"none", "starting", "mounted", "announced", "serving", "deciding", "retiring",
             "stopping", "unmounted", "exiting", "dead"}
Alive == DaemonPC \ {"none", "dead"}
StopPC == {"fresh", "waiting", "check", "unmount", "done"}

TypeOK ==
    /\ lock \in Runs \union Daemons \union {NoOne}
    /\ lease \in SUBSET Runs
    /\ rpc \in [Runs -> RunPC]
    /\ spawned \in [Runs -> Daemons \union {NoOne}]
    /\ dpc \in [Daemons -> DaemonPC]
    /\ idle \in [Daemons -> BOOLEAN]
    /\ signalled \in [Daemons -> BOOLEAN]
    /\ mounts \in Seq(Daemons)
    /\ pid \in Daemons \union {NoOne}
    /\ spc \in [Stoppers -> StopPC]
    /\ crashes \in 0..MaxCrashes
    /\ late \in BOOLEAN

Init ==
    /\ lock = NoOne
    /\ lease = {}
    /\ rpc = [r \in Runs |-> "fresh"]
    /\ spawned = [r \in Runs |-> NoOne]
    /\ dpc = [d \in Daemons |-> "none"]
    /\ idle = [d \in Daemons |-> FALSE]
    /\ signalled = [d \in Daemons |-> FALSE]
    /\ mounts = <<>>
    /\ pid = NoOne
    /\ spc = [s \in Stoppers |-> "fresh"]
    /\ crashes = 0
    /\ late = FALSE

----------------------------------------------------------------------------
(* The mountpoint.  liveness() lists it: the listing reaches the daemon     *)
(* mounted last.  While that daemon is alive and not answering (mounted but *)
(* not in its loop, inside a tick, or past pyfuse3.terminate) the listing   *)
(* blocks, and none of the three answers holds.                             *)

Absent == mounts = <<>>
Live == mounts # <<>> /\ dpc[Last(mounts)] = "serving"
Stale == mounts # <<>> /\ dpc[Last(mounts)] = "dead"

\* Unmounting is by path: the visible mount goes, whoever's it is.
UnmountTop == mounts' = IF mounts = <<>> THEN <<>> ELSE Front(mounts)

----------------------------------------------------------------------------
(* A run: attach(), up to the Attachment's close().                         *)

\* The key directory exists and the lock file is open; the run blocks in flock.
Request(r) ==
    /\ rpc[r] \in {"fresh", "unavailable"}
    /\ rpc' = [rpc EXCEPT ![r] = "want"]
    /\ UNCHANGED <<lock, lease, spawned, daemonVars, mounts, pid, spc, mishaps>>

AcquireLock(r) ==
    /\ rpc[r] = "want"
    /\ lock = NoOne
    /\ lock' = r
    /\ rpc' = [rpc EXCEPT ![r] = "probe"]
    /\ UNCHANGED <<lease, spawned, daemonVars, mounts, pid, spc, mishaps>>

\* Mutant of Probe: the lock goes as soon as the view is found live.
ProbeUnlocks(r) ==
    /\ rpc[r] = "probe"
    /\ \/ Live /\ rpc' = [rpc EXCEPT ![r] = "lease"] /\ lock' = NoOne
       \/ Absent /\ rpc' = [rpc EXCEPT ![r] = "spawn"] /\ UNCHANGED lock
       \/ Stale /\ rpc' = [rpc EXCEPT ![r] = "unmount"] /\ UNCHANGED lock
    /\ UNCHANGED <<lease, spawned, daemonVars, mounts, pid, spc, mishaps>>

\* Mutant of Probe: a dead view is cleared away without the lock.
ProbeClears(r) ==
    /\ rpc[r] = "probe"
    /\ \/ Live /\ rpc' = [rpc EXCEPT ![r] = "lease"] /\ UNCHANGED lock
       \/ Absent /\ rpc' = [rpc EXCEPT ![r] = "spawn"] /\ UNCHANGED lock
       \/ Stale /\ rpc' = [rpc EXCEPT ![r] = "unmount"] /\ lock' = NoOne
    /\ UNCHANGED <<lease, spawned, daemonVars, mounts, pid, spc, mishaps>>

Probe(r) ==
    /\ rpc[r] = "probe"
    /\ \/ Live /\ rpc' = [rpc EXCEPT ![r] = "lease"]
       \/ Absent /\ rpc' = [rpc EXCEPT ![r] = "spawn"]
       \/ Stale /\ rpc' = [rpc EXCEPT ![r] = "unmount"]
    /\ UNCHANGED <<lock, lease, spawned, daemonVars, mounts, pid, spc, mishaps>>

\* The dead view is unmounted lazily, by a process of its own and by path: whatever is
\* there by now goes.  It may fail, which only the second probe sees.
RecoverUnmount(r) ==
    /\ rpc[r] = "unmount"
    /\ rpc' = [rpc EXCEPT ![r] = "reprobe"]
    /\ UnmountTop \/ UNCHANGED mounts
    /\ UNCHANGED <<lock, lease, spawned, daemonVars, pid, spc, mishaps>>

\* ... and that process outlives a run killed while it waits for it.
OrphanUnmount(r) ==
    /\ rpc[r] = "orphaned"
    /\ rpc' = [rpc EXCEPT ![r] = "dead"]
    /\ UnmountTop \/ UNCHANGED mounts
    /\ UNCHANGED <<lock, lease, spawned, daemonVars, pid, spc, mishaps>>

\* Whatever the second probe finds other than a dead view, the run spawns.
Reprobe(r) ==
    /\ rpc[r] = "reprobe"
    /\ Live \/ Absent
    /\ rpc' = [rpc EXCEPT ![r] = "spawn"]
    /\ UNCHANGED <<lock, lease, spawned, daemonVars, mounts, pid, spc, mishaps>>

Spawn(r) ==
    /\ rpc[r] = "spawn"
    /\ \E d \in Daemons :
          /\ dpc[d] = "none"
          /\ dpc' = [dpc EXCEPT ![d] = "starting"]
          /\ spawned' = [spawned EXCEPT ![r] = d]
    /\ rpc' = [rpc EXCEPT ![r] = "wait"]
    /\ UNCHANGED <<lock, lease, idle, signalled, mounts, pid, spc, mishaps>>

WaitLive(r) ==
    /\ rpc[r] = "wait"
    /\ Live
    /\ rpc' = [rpc EXCEPT ![r] = "lease"]
    /\ spawned' = [spawned EXCEPT ![r] = NoOne]
    /\ UNCHANGED <<lock, lease, daemonVars, mounts, pid, spc, mishaps>>

\* Mutant of GiveUp: no `finally` closes the lock.
GiveUpLocked(r) ==
    /\ rpc' = [rpc EXCEPT ![r] = "unavailable"]
    /\ spawned' = [spawned EXCEPT ![r] = NoOne]
    /\ UNCHANGED <<lock, lease, daemonVars, mounts, pid, spc, crashes>>

\* ViewUnavailable, or an OSError: the `finally` closes the lock, and nothing else is undone.
GiveUp(r) ==
    /\ lock' = NoOne
    /\ rpc' = [rpc EXCEPT ![r] = "unavailable"]
    /\ spawned' = [spawned EXCEPT ![r] = NoOne]
    /\ UNCHANGED <<lease, daemonVars, mounts, pid, spc, crashes>>

\* The dead view cannot be unmounted, or no daemon can be spawned (view.json cannot be
\* written, fork fails), or the spawned daemon has exited, or the spawn deadline passes.
\* The last two follow a probe that did not find the view live, and another daemon may
\* have come up since.
Unavailable(r) ==
    \/ rpc[r] = "reprobe" /\ Stale /\ GiveUp(r) /\ UNCHANGED late
    \/ rpc[r] = "spawn" /\ GiveUp(r) /\ UNCHANGED late
    \/ rpc[r] = "wait" /\ dpc[spawned[r]] = "dead" /\ GiveUp(r) /\ UNCHANGED late
    \/ rpc[r] = "wait" /\ GiveUp(r) /\ late' = TRUE

\* The lease is taken while the lock is still held.
TakeLease(r) ==
    /\ rpc[r] = "lease"
    /\ lease' = lease \union {r}
    /\ rpc' = [rpc EXCEPT ![r] = "unlock"]
    /\ UNCHANGED <<lock, spawned, daemonVars, mounts, pid, spc, mishaps>>

Unlock(r) ==
    /\ rpc[r] = "unlock"
    /\ lock' = NoOne
    /\ rpc' = [rpc EXCEPT ![r] = "attached"]
    /\ UNCHANGED <<lease, spawned, daemonVars, mounts, pid, spc, mishaps>>

\* A jailed tool of an attached run looks something up, lists it or opens it.
Use(r) ==
    /\ rpc[r] = "attached"
    /\ Live
    /\ idle' = [idle EXCEPT ![Last(mounts)] = FALSE]
    /\ UNCHANGED <<lock, lease, runVars, dpc, signalled, mounts, pid, spc, mishaps>>

\* Mutant of Detach: the lease file stays open.
DetachLeased(r) ==
    /\ rpc[r] = "attached"
    /\ rpc' = [rpc EXCEPT ![r] = "fresh"]
    /\ UNCHANGED <<lock, lease, spawned, daemonVars, mounts, pid, spc, mishaps>>

Detach(r) ==
    /\ rpc[r] = "attached"
    /\ lease' = lease \ {r}
    /\ rpc' = [rpc EXCEPT ![r] = "fresh"]
    /\ UNCHANGED <<lock, spawned, daemonVars, mounts, pid, spc, mishaps>>

\* The kernel releases what a killed run held; a daemon it spawned lives on
\* (start_new_session), and so does an unmount it has begun.
CrashRun(r) ==
    /\ crashes < MaxCrashes
    /\ rpc[r] \in {"want", "attached"} \union Deciding
    /\ crashes' = crashes + 1
    /\ rpc' = [rpc EXCEPT ![r] = IF @ = "unmount" THEN "orphaned" ELSE "dead"]
    /\ lock' = IF lock = r THEN NoOne ELSE lock
    /\ lease' = lease \ {r}
    /\ spawned' = [spawned EXCEPT ![r] = NoOne]
    /\ UNCHANGED <<daemonVars, mounts, pid, spc, late>>

----------------------------------------------------------------------------
(* A daemon: serve().                                                       *)

Move(d, to) == dpc' = [dpc EXCEPT ![d] = to]

\* pyfuse3.init: the filesystem is mounted over whatever is there.
Mount(d) ==
    /\ dpc[d] = "starting"
    /\ Move(d, "mounted")
    /\ mounts' = Append(mounts, d)
    /\ UNCHANGED <<lock, lease, runVars, idle, signalled, pid, spc, mishaps>>

\* Any failure before the mount: view.json unreadable, no pyfuse3, the root gone.
FailStart(d) ==
    /\ dpc[d] = "starting"
    /\ Move(d, "dead")
    /\ UNCHANGED <<lock, lease, runVars, idle, signalled, mounts, pid, spc, mishaps>>

\* Mutant of WritePid: the file's text is kept as it was read, not as a process.
WritePidText(d) ==
    /\ dpc[d] = "mounted"
    /\ Move(d, "announced")
    /\ pid' = <<d>>
    /\ UNCHANGED <<lock, lease, runVars, idle, signalled, mounts, spc, mishaps>>

WritePid(d) ==
    /\ dpc[d] = "mounted"
    /\ Move(d, "announced")
    /\ pid' = d
    /\ UNCHANGED <<lock, lease, runVars, idle, signalled, mounts, spc, mishaps>>

\* The signal handlers are in place and the loop answers requests.
Serve(d) ==
    /\ dpc[d] = "announced"
    /\ Move(d, "serving")
    /\ UNCHANGED <<lock, lease, runVars, idle, signalled, mounts, pid, spc, mishaps>>

\* CERTORAIL_VIEW_IDLE seconds without activity; they may end during a tick.
GoIdle(d) ==
    /\ dpc[d] \in {"serving", "deciding"}
    /\ ~idle[d]
    /\ idle' = [idle EXCEPT ![d] = TRUE]
    /\ UNCHANGED <<lock, lease, runVars, dpc, signalled, mounts, pid, spc, mishaps>>

\* A tick of retire_if_idle: the lock without blocking; failing that, nothing happens,
\* except that a loop that has been signalled ends after the tick.
TickLocked(d) ==
    /\ dpc[d] = "serving"
    /\ lock = NoOne
    /\ lock' = d
    /\ Move(d, "deciding")
    /\ UNCHANGED <<lease, runVars, idle, signalled, mounts, pid, spc, mishaps>>

TickRefused(d) ==
    /\ dpc[d] = "serving"
    /\ lock # NoOne
    /\ signalled[d]
    /\ Move(d, "stopping")
    /\ UNCHANGED <<lock, lease, runVars, idle, signalled, mounts, pid, spc, mishaps>>

\* Mutant of Stay: a tick that decides to stay keeps the lock.
StayLocked(d) ==
    /\ dpc[d] = "deciding"
    /\ lease # {} \/ ~idle[d]
    /\ idle' = [idle EXCEPT ![d] = @ /\ lease = {}]
    /\ Move(d, IF signalled[d] THEN "stopping" ELSE "serving")
    /\ UNCHANGED <<lock, lease, runVars, signalled, mounts, pid, spc, mishaps>>

\* The lease without blocking, then the idle clock; a lease counts as activity.
Stay(d) ==
    /\ dpc[d] = "deciding"
    /\ lease # {} \/ ~idle[d]
    /\ idle' = [idle EXCEPT ![d] = @ /\ lease = {}]
    /\ lock' = NoOne
    /\ Move(d, IF signalled[d] THEN "stopping" ELSE "serving")
    /\ UNCHANGED <<lease, runVars, signalled, mounts, pid, spc, mishaps>>

\* Mutant of Retire: the lease is not tried.
RetireLeased(d) ==
    /\ dpc[d] = "deciding"
    /\ idle[d]
    /\ Move(d, "retiring")
    /\ UNCHANGED <<lock, lease, runVars, idle, signalled, mounts, pid, spc, mishaps>>

\* Mutant of Retire: the lock goes before the mount.
RetireUnlocked(d) ==
    /\ dpc[d] = "deciding"
    /\ lease = {}
    /\ idle[d]
    /\ lock' = NoOne
    /\ Move(d, "retiring")
    /\ UNCHANGED <<lease, runVars, idle, signalled, mounts, pid, spc, mishaps>>

\* Retire, holding the lock.
Retire(d) ==
    /\ dpc[d] = "deciding"
    /\ lease = {}
    /\ idle[d]
    /\ Move(d, "retiring")
    /\ UNCHANGED <<lock, lease, runVars, idle, signalled, mounts, pid, spc, mishaps>>

\* pyfuse3.close(unmount=True): nothing to do when this daemon's mount is gone already.
Unmount(d) ==
    /\ dpc[d] \in {"retiring", "stopping"}
    /\ Move(d, "unmounted")
    /\ IF Contains(mounts, d) THEN UnmountTop ELSE UNCHANGED mounts
    /\ UNCHANGED <<lock, lease, runVars, idle, signalled, pid, spc, mishaps>>

TruncatePid(d) ==
    /\ dpc[d] = "unmounted"
    /\ Move(d, "exiting")
    /\ pid' = NoOne
    /\ UNCHANGED <<lock, lease, runVars, idle, signalled, mounts, spc, mishaps>>

\* The lock, if it retired holding it, is let go last.
Exit(d) ==
    /\ dpc[d] = "exiting"
    /\ Move(d, "dead")
    /\ idle' = [idle EXCEPT ![d] = FALSE]
    /\ signalled' = [signalled EXCEPT ![d] = FALSE]
    /\ lock' = IF lock = d THEN NoOne ELSE lock
    /\ UNCHANGED <<lease, runVars, mounts, pid, spc, mishaps>>

CrashDaemon(d) ==
    /\ crashes < MaxCrashes
    /\ dpc[d] \in Alive
    /\ crashes' = crashes + 1
    /\ Move(d, "dead")
    /\ idle' = [idle EXCEPT ![d] = FALSE]
    /\ signalled' = [signalled EXCEPT ![d] = FALSE]
    /\ lock' = IF lock = d THEN NoOne ELSE lock
    /\ UNCHANGED <<lease, runVars, mounts, pid, spc, late>>

----------------------------------------------------------------------------
(* `certorail view stop`: no lock is taken.                                 *)

\* The process named by the pid file is signalled, if it lives; before its handlers are
\* in place the signal ends it.
StopSignal(s) ==
    /\ spc[s] = "fresh"
    /\ IF pid # NoOne /\ dpc[pid] \in Alive
         THEN /\ signalled' = [signalled EXCEPT ![pid] = dpc[pid] # "announced"]
              /\ dpc' = [dpc EXCEPT ![pid] = IF @ = "announced" THEN "dead" ELSE @]
              /\ spc' = [spc EXCEPT ![s] = "waiting"]
         ELSE /\ spc' = [spc EXCEPT ![s] = "check"]
              /\ UNCHANGED <<signalled, dpc>>
    /\ UNCHANGED <<lock, lease, runVars, idle, mounts, pid, mishaps>>

\* The process has ended, or ten seconds have passed.
StopWaited(s) ==
    /\ spc[s] = "waiting"
    /\ spc' = [spc EXCEPT ![s] = "check"]
    /\ UNCHANGED <<lock, lease, runVars, daemonVars, mounts, pid, mishaps>>

StopCheck(s) ==
    /\ spc[s] = "check"
    /\ \/ Absent /\ spc' = [spc EXCEPT ![s] = "done"]
       \/ (Live \/ Stale) /\ spc' = [spc EXCEPT ![s] = "unmount"]
    /\ UNCHANGED <<lock, lease, runVars, daemonVars, mounts, pid, mishaps>>

StopUnmount(s) ==
    /\ spc[s] = "unmount"
    /\ UnmountTop
    /\ spc' = [spc EXCEPT ![s] = "done"]
    /\ UNCHANGED <<lock, lease, runVars, daemonVars, pid, mishaps>>

----------------------------------------------------------------------------

AttachStep(r) ==
    \/ Probe(r) \/ RecoverUnmount(r) \/ OrphanUnmount(r) \/ Reprobe(r) \/ Spawn(r)
    \/ WaitLive(r) \/ Unavailable(r) \/ TakeLease(r) \/ Unlock(r)

RunStep(r) ==
    Request(r) \/ AcquireLock(r) \/ AttachStep(r) \/ Use(r) \/ Detach(r) \/ CrashRun(r)

StartStep(d) == Mount(d) \/ FailStart(d) \/ WritePid(d) \/ Serve(d)
TickStep(d) == TickLocked(d) \/ TickRefused(d)
DecideStep(d) == Stay(d) \/ Retire(d)
LeaveStep(d) == Unmount(d) \/ TruncatePid(d) \/ Exit(d)

DaemonStep(d) ==
    StartStep(d) \/ GoIdle(d) \/ TickStep(d) \/ DecideStep(d) \/ LeaveStep(d) \/ CrashDaemon(d)

StopStep(s) == StopSignal(s) \/ StopWaited(s) \/ StopCheck(s) \/ StopUnmount(s)

Next ==
    \/ \E r \in Runs : RunStep(r)
    \/ \E d \in Daemons : DaemonStep(d)
    \/ \E s \in Stoppers : StopStep(s)

Spec == Init /\ [][Next]_vars

(***************************************************************************)
(* Fairness.  Every process that is scheduled takes its next step; a run   *)
(* in flock queues for it, so a lock that is free again and again is       *)
(* granted (SF).  A daemon ticks every second, so one that could have the  *)
(* lock again and again at its ticks gets it.  A run ends its use of the   *)
(* view.  Nobody has to start, to crash or to stop anything.               *)
(***************************************************************************)
Fairness ==
    /\ \A r \in Runs : /\ SF_vars(AcquireLock(r))
                       /\ WF_vars(AttachStep(r))
                       /\ WF_vars(Detach(r))
    /\ \A d \in Daemons : /\ WF_vars(StartStep(d))
                          /\ WF_vars(GoIdle(d))
                          /\ SF_vars(TickStep(d))
                          /\ WF_vars(DecideStep(d))
                          /\ WF_vars(LeaveStep(d))

FairSpec == Spec /\ Fairness

----------------------------------------------------------------------------
(* Properties.                                                              *)

Leaving == {"retiring", "unmounted", "exiting"}

\* A daemon that has decided to retire -- until it has unmounted, emptied the pid file
\* and let the lock go -- does so while no run holds a lease: the lease is taken under
\* the lock, so no run can find the view live and lease it meanwhile
\* (viewdaemon.py, attach and retire_if_idle).
RetiresOnlyUnleased ==
    \A d \in Daemons : lock = d /\ dpc[d] \in Leaving => lease = {}

\* Decisions are taken one at a time: a run between the grant of `lock` and its
\* release is alone, and no daemon is deciding or retiring beside it.
DecidesAlone ==
    /\ \A r \in Runs : rpc[r] \in Deciding <=> lock = r
    /\ \A d \in Daemons : dpc[d] \in {"deciding", "retiring"} => lock = d

Undisturbed == crashes = 0 /\ ~late /\ \A s \in Stoppers : spc[s] = "fresh"

\* As long as nothing is killed, stopped by hand or slower than SPAWN_DEADLINE, a run
\* that was given the view has it, answering, until it lets go.
LeasedViewIsUp ==
    Undisturbed =>
        \A r \in lease : mounts # <<>> /\ dpc[Last(mounts)] \in {"serving", "deciding"}

\* ... and there is one mount at most, by the one daemon whose pid is in the file.
OneMountOnePid ==
    Undisturbed =>
        /\ Len(mounts) <= 1
        /\ \A d \in Daemons : dpc[d] = "serving" => pid = d /\ mounts = <<d>>

\* Every run that spawned a daemon stayed with it until it was up or had died.
Attended ==
    /\ ~late
    /\ \A r \in Runs : rpc[r] \notin {"orphaned", "dead"}
    /\ \A s \in Stoppers : spc[s] = "fresh"

\* A run that recovers the view unmounts by path some time after it found a dead view
\* there.  As long as no spawner is killed or gives up early and nobody stops a view,
\* what it then takes away is dead still, however many daemons are killed: a daemon
\* mounts only while a run that holds the lock waits for it (viewdaemon.py, attach).
RunsUnmountOnlyDead ==
    [][\A r \in Runs :
          Attended /\ rpc'[r] # rpc[r] /\ mounts' # mounts
             => dpc[Last(mounts)] = "dead"]_vars

\* A run that asks for the view is answered: leased, told it is unavailable, or dead.
AttachAnswers ==
    \A r \in Runs : rpc[r] = "want" ~> rpc[r] \in {"attached", "unavailable", "orphaned", "dead"}

\* Once no run is coming or holding a lease, no daemon is left.
EveryDaemonRetires ==
    <>[](\A r \in Runs : rpc[r] \in {"fresh", "unavailable", "dead"})
        => <>[](\A d \in Daemons : dpc[d] \in {"none", "dead"})

\* The module docstring: "one daemon per (root, filesystem section) keeps the view
\* mounted", and "a crashed run or a crashed spawner leaves nothing to clean up" -- so,
\* where no deadline has passed, two daemons are never mounted over each other.
OneDaemonPerView == ~late => Len(mounts) <= 1

Lease == INSTANCE ViewLease WITH
    holders <- lease,
    retiring <- \E d \in Daemons : lock = d /\ dpc[d] \in Leaving

\* The protocol implements the abstract lease.
ImplementsLease == Lease!Spec
=============================================================================

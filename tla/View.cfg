SPECIFICATION FairSpec
CONSTANTS
    Runs = {r1, r2}
    Daemons = {d1, d2}
    Stoppers = {s1}
    NoOne = NoOne
    MaxCrashes = 1
INVARIANTS TypeOK RetiresOnlyUnleased DecidesAlone LeasedViewIsUp OneMountOnePid
PROPERTIES RunsUnmountOnlyDead ImplementsLease AttachAnswers EveryDaemonRetires
CHECK_DEADLOCK FALSE

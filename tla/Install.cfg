SPECIFICATION Spec
CONSTANTS
    Tools = {t1, t2}
    Runs = {r1}
    Bytes = {"v1", "v2"}
    Checkers = {1, 2}
    Rulesets = {1, 2, 3}
    BaseRuleset = 1
    Roots <- RootsMC
    Munge <- MungeMC
    Above <- AboveMC
    Names = {"p", "q"}
    Packs <- PacksMC
    Policies <- PoliciesMC
    Tree0 <- TreeMC
    MaxJobs = 3
    None = None
INVARIANTS TypeOK ClosureKept PinnedBytesRun OneClaimant GovernedByItsOwn LoadedFromOneTree
PROPERTIES StaysLoadable
CHECK_DEADLOCK FALSE

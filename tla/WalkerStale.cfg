CONSTANTS
    ta = ta  tb = tb  any = any  prg = prg  pln = pln
    Programs <- Stale
    Texts <- MCTexts
    AnyText = any
    MaxObjects = 5
    Prog = prg
    Plain = pln
    Atoms = {"p", "v", "u"}
    PureAtoms = {"p"}
    PureOf <- MCPureOf
    Reads <- MCReads
    Regions = {"r"}
    Media = {"fs", "net"}
    MediumOf <- MCMediumOf
    ExecWrites = {"net"}
    CheckWrites <- MCCheckWrites
    MaxControl = 10
SPECIFICATION Spec
CHECK_DEADLOCK FALSE
INVARIANTS FactsHold

SPECIFICATION Spec
CONSTANTS
    Names <- TwoNames
    Fold <- Exact
    Ids = {i1, i2}
    Root = root
    None = None
    MaxInodes = 4
    Reads <- Nothing
    Writes <- UnderA
    NoWrites <- ButAB
    Others <- Meddles
    MaxLookups = 2
    MaxOpen = 0
    MaxScans = 0
SYMMETRY Symmetry
INVARIANTS TypeOK RefsExact TableIsClosed TableIsVisible

SPECIFICATION Spec
CONSTANTS
    Names <- TwoNames
    Fold <- Exact
    Ids = {i1, i2}
    Root = root
    None = None
    MaxInodes = 4
    Reads <- Nothing
    Writes <- UnderA
    NoWrites <- ButAB
    Others <- Churn
    MaxLookups = 1
    MaxOpen = 0
    MaxScans = 1
SYMMETRY Symmetry
INVARIANTS RefsCover TableIsVisible

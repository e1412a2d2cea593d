SPECIFICATION Spec
CONSTANTS
    Names <- TwoNames
    Fold <- Exact
    Ids = {i1, i2}
    Root = root
    None = None
    MaxInodes = 4
    Reads <- Nothing
    Writes <- UnderA
    NoWrites <- ButAB
    Others <- Edits
    MaxLookups = 1
    MaxOpen = 1
    MaxScans = 0
SYMMETRY Symmetry
INVARIANTS ChangedIsWritable
PROPERTIES NamesAreWritable

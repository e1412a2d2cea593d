SPECIFICATION FairSpec
CONSTANTS
    MaxCalls = 3
    MaxRedirects = 2
    Unruly = TRUE
INVARIANTS TypeOK WorkServesTheCall CutOnlyByHangup OrderlyRunEndsItsWork
PROPERTIES ImplementsCalls CallsReturn
CHECK_DEADLOCK FALSE

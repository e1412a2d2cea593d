SPECIFICATION Spec
CONSTANTS
    Text <- MCText
    Dashed <- MCDashed
    Bundle <- MCBundle
    Defined <- MCDefined
    Verdict <- MCVerdict
    Parts <- MCParts
    Unplaced <- MCUnplaced
    NonPublic <- MCNonPublic
    MaxRedirects <- MCMaxRedirects
    Cases <- MixedCases
INVARIANTS EveryEffectForeseen
CHECK_DEADLOCK FALSE

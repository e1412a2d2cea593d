SPECIFICATION Spec
CONSTANTS
    Matches <- MCMatches
    MayBegin <- MCMayBegin
    Spellings <- MCSpellings
    Inputs <- MCInputs
    Operands <- MCOperands
    Formats <- MCFormats
    Conditions <- MCConditions
    Patterns <- MCPatterns
    Required <- MCRequired
    Policies <- MCPolicies
    Vetted <- MCVetted
    FileNames <- MCFileNames
    Cwd <- MCCwd
    Concatenated <- Replayed
    Joinable <- Lexically
    MaxSteps <- MCMaxSteps
INVARIANTS
    FactHolds
CHECK_DEADLOCK FALSE

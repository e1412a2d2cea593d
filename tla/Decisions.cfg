SPECIFICATION Spec
CONSTANTS
    Text <- MCText
    Dashed <- MCDashed
    Bundle <- MCBundle
    Defined <- MCDefined
    Verdict <- MCVerdict
    Parts <- MCParts
    Unplaced <- MCUnplaced
    NonPublic <- MCNonPublic
    MaxRedirects <- MCMaxRedirects
    Cases <- MCCases
INVARIANTS
    AcceptedCallsRun
    OptionsAreAdmitted
    OneRuleGoverns
    RuleForeseen
    HopsReauthorized
CHECK_DEADLOCK FALSE

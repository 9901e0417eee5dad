SPECIFICATION Spec
CONSTANTS
    SwitchCode = {0, 1}
    Setup <- MCSetup
    SetupDef <- MCSetupDef
    MaxCalls = 2
INVARIANTS
    AssertionsHold
    SolvedIsCovered
    ScanIsPrepared
    ScanIsSwitched
    AskedOnce
PROPERTIES
    NoNeedlessPrompt
    CommandEnds

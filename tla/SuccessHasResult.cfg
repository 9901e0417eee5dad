SPECIFICATION Spec
CONSTANTS
    SwitchCode = {0, 1}
    Setup <- MCSetup
    SetupDef <- MCSetupDef
    MaxCalls = 2
INVARIANT
    SuccessHasResult

CONSTANTS
    SwitchCode <- MCSwitchCode
    Setup <- RFIVOnly
    SetupDef <- MCSetupDef
SPECIFICATION Spec
INVARIANT MeasuresToTheEnd

CONSTANTS
    SwitchCode <- MCSwitchCode
    Setup <- MCSetup
    SetupDef <- MCSetupDef
SPECIFICATION Spec
INVARIANTS
    TypeOK
    ElementsAreMeasured
    DeviceIsMeasured
    TroubleIsKnown

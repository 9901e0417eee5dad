CONSTANTS
    None = None
    SwitchCode <- MCSwitchCode
    SetupName = {"s1", "s2"}
    Label <- MCLabel
    HandFiles <- MCHandFiles
    Inputs <- MCInputs
    DefaultRB <- MCDefaultRB
SPECIFICATION Spec
INVARIANTS
    TypeOK
    CopiesAgree
    NeverLockedOut
    MeasuresAsCalibrated
PROPERTY SavesLoseNoSetup

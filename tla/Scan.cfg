SPECIFICATION Spec
CONSTANTS
    Phases = 2
    MaxN = 2
    MaxTries = 3
    MaxSent = 3
INVARIANTS
    TypeOK
    TwoOutstanding
    ValuesBelong
    ValuesAreSwitched
PROPERTY
    CallReturns

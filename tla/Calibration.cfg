SPECIFICATION Spec
CONSTANTS
    Identifier = {"foo"}
    Spelling <- MCSpelling
    MaxPending = 1
INVARIANTS
    AddedAsConnected
    SavedIsComplete
    MatrixAsConnected
PROPERTY
    NoNeedlessConnection

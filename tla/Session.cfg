SPECIFICATION Spec
INVARIANTS
    InStep
    LinesReachReaders
    CancelIsTold
PROPERTIES
    DialogueSpec
    SentIsAnswered
    QuitEnds
    ProgramEnds
CHECK_DEADLOCK FALSE

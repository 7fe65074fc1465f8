SPECIFICATION Spec
CONSTANTS
    FrameSeqs <- SomeSeqs
    BufSize = 30
    AllocOutcomes = {"ok", "null"}
INVARIANTS
    TypeOK
    InBuffer
    HandledAsSent
PROPERTIES
    HandlerReturns
\* A connection ends.
CHECK_DEADLOCK FALSE

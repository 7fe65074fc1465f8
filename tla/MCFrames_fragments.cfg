SPECIFICATION Spec
CONSTANTS
    FrameSeqs <- FragmentSeqs
    BufSize = 32
    AllocOutcomes = {"ok"}
INVARIANTS
    FragmentsConcatenated
\* A connection ends.
CHECK_DEADLOCK FALSE

SPECIFICATION SharedSpec
CONSTANTS
    Threads = {t1, t2, t3}
    Null = Null
    \* Four attempts for three slots, two of which may fail.
    Attempts = 4
    Maximum = 3
    Room = 1
    Failures = 2
SYMMETRY ThreadsAlike
INVARIANTS
    RedBlack
    HashConsistent
    ByWeight
    WorkersAgree
PROPERTIES
    ImplementsMultimap
    TimeRight
    Spaced
\* Bounded clocks and tables come to an end.
CHECK_DEADLOCK FALSE

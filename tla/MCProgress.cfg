SPECIFICATION ProgressSpec
CONSTANTS
    NoThread = NoThread
    Null = Null
    \* Two users of staff's rank, and a channel that is open to all or to neither.
    Users = {"u1", "u2"}
    Editions = {"PREVIEW", "ENTERPRISE"}
    RoleArgs = {16}
    StateArgs = {0, 32}
    Steps = {1000}
    MaxTime = 2000
INVARIANT
    Allowed
PROPERTIES
    RequestsEnd
    ImplementsTimerSet
    LoopsEnd
    LearnsState
\* Bounded requests and clocks come to an end.
CHECK_DEADLOCK FALSE

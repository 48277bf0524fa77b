\* Channels and connection of one message each, so that each is soon full.
SPECIFICATION FairSpec
CONSTANTS
    OutCap = 1
    WireCap = 1
    ClockSteps = FALSE
    None = None
\* The loop returns in the end, and with it the tasks of this end.
CHECK_DEADLOCK FALSE
INVARIANTS
    NoLeakedTasks
PROPERTIES
    RoundAnswered
    HalfOpenDetected
    EndsWhenOver
    ReplacedEnds

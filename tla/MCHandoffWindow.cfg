CONSTANTS
    Timeouts = {2, 3}
    MaxTime = 12
    NoDeadline = NoDeadline
SPECIFICATION WindowSpec
INVARIANTS
    WindowIsBounded
    WindowIsUsable

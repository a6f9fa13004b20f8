CONSTANTS
    Attempts = 3
    MaxRequests = 2
SPECIFICATION Spec
INVARIANTS
    AtMostOnce
    CleanFailure
    SuccessReachedTheRadio
PROPERTIES
    RequestEnds

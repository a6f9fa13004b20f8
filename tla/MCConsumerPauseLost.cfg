CONSTANTS
    Addons <- MCAddons
    Attempts = 3
    MaxRuns = 1
SPECIFICATION Spec
INVARIANTS
    FailureRestores

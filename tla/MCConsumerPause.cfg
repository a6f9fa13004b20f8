CONSTANTS
    Addons <- MCAddons
    Attempts = 3
    MaxRuns = 2
SPECIFICATION FairSpec
INVARIANTS
    ExclusiveInBody
    NoReopenWhileUncertain
    RestoredOrReported
    SuccessIsComplete
PROPERTIES
    StartsOnlyWhatItStopped
    TransactionEnds

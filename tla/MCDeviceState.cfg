CONSTANTS
    MaxCrashes = 2
SPECIFICATION Spec
INVARIANTS
    UncertainIsOnRecord
PROPERTIES
    ImplementsRecordStore

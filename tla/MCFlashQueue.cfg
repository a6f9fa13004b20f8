CONSTANTS
    h1 = h1
    h2 = h2
    u1 = u1
    u2 = u2
    Handlers <- MCHandlers
    Artifacts <- MCArtifacts
    Marks <- MCMarks
    MaxOps = 2
    Main = Main
    None = None
SYMMETRY Symmetry
SPECIFICATION Spec
INVARIANTS
    HeldJobIsCurrent
    QueuedHasOneOwner
    ImageAvailable
    StagedOnlyWhenIdle
    SessionExcludesFlash
    DrainIsFinal
    NoOrphanedUpload
PROPERTIES
    ProgressMonotone
    ImplementsLifecycle

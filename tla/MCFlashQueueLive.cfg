CONSTANTS
    h1 = h1
    h2 = h2
    u1 = u1
    u2 = u2
    Handlers <- MCHandlers
    Artifacts = {u1}
    Marks = {88}
    MaxOps = 1
    Main = Main
    None = None
SPECIFICATION FairSpec
PROPERTIES
    AcceptedIsResolved
    ShutdownFinishes

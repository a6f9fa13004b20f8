CONSTANTS
    A = A
    B = B
    P = P
    Q = Q
    Devices <- MCDevices
    Ports = {P, Q}
    Ttys = {0, 1}
    AppSerial <- MCAppSerial
    BootSerial <- MCBootSerial
    Planned = A
    None = None
    MaxMoves = 4
SPECIFICATION Spec
INVARIANTS
    B01ToPlannedUnlessReplugged
    DfuOnlyOnObserved

CONSTANTS
    cul = cul
    other = other
    None = None
    Devices <- MCDevices
    Paths = {cul, other}
    Ports <- MCPorts
    AppSerial <- MCAppSerial
    BootSerial <- MCBootSerial
    Scenarios <- MCScenarios
SPECIFICATION FairSpec
INVARIANTS
    TypeOK
    UnknownRadioIsLeftAlone
    BrokenIsRecoverable
PROPERTIES
    RecordedBeforeErase
    OnlyConfiguredIsErased
    SuccessIsNewFirmware
    FlashEnds
    EventuallyRepaired

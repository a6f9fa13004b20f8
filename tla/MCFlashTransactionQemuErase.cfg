CONSTANTS
    cul = cul
    other = other
    None = None
    Devices <- MCDevices
    Paths = {cul}
    Ports <- MCPorts
    AppSerial <- MCAppSerial
    BootSerial <- MCBootSerial
    Scenarios <- QemuScenarios
SPECIFICATION Spec
PROPERTIES
    OnlyConfiguredIsErased

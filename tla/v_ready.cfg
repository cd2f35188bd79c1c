\* Ready is logged before the gateway listens.
CONSTANTS
    None = None
    Binaries = {"server", "server-rest", "server-dual"}
    Settings <- SomeSettings
    DefaultPort = 6
    RestPort = 3
    PortLimit = 8
    Calls = {"g", "r1"}
    Via <- SomeVia
    MaxSignals = 2
SPECIFICATION Spec
INVARIANTS
    ReadyMeansListening

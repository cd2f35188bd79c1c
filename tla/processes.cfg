\* The three binaries from their flags to their exit.
CONSTANTS
    None = None
    Binaries = {"server", "server-rest", "server-dual"}
    Settings <- SomeSettings
    DefaultPort = 6
    RestPort = 3
    PortLimit = 8
    Calls = {"g", "h", "r1", "r2"}
    Via <- SomeVia
    MaxSignals = 2
SPECIFICATION Spec
INVARIANTS
    TypeOK
    GracefulShutdown
    FlagIsHonoured
PROPERTIES
    StartEnds
    SignalEnds

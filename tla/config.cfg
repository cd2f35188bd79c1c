\* Gets that initialise the config race Updates of it.
CONSTANTS
    None = None
    Handlers = {h1, h2}
    Updates <- SomeUpdates
    MaxCalls = 3
SPECIFICATION Spec
INVARIANTS
    TypeOK
    ReadsInventNothing
PROPERTIES
    EveryCallReplies
    RegisterSpec

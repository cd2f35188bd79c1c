\* A Get clones the config while an Update writes it.
CONSTANTS
    None = None
    Handlers = {h1, h2}
    Updates <- SomeUpdates
    MaxCalls = 3
SPECIFICATION Spec
INVARIANTS
    ReadsAreVersions

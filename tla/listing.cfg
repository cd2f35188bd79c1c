\* Walks of every listing while its store changes.
CONSTANTS
    None = None
    Last = Last
    Garbage = Garbage
    PageLimit = 2
    MaxInt = 15
    Kinds <- AllKinds
    Owners = {"l", "l1"}
    Prefixes <- SomePrefixes
    Ids = {1, 2, 3}
    Asks <- SomeAsks
    Sizes <- SomeSizes
    MaxItems = 3
    MaxChanges = 4
SPECIFICATION Spec
INVARIANTS
    TypeOK
    UnchangedWalkIsExact
    MissesNeedDeletes
    RepeatsNeedCreates
    TokensAreAccepted
PROPERTIES
    WalkEnds

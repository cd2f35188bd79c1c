\* One publish at a time against a storage that changes under it.
CONSTANTS
    None = None
    Handlers = {h1}
    TriggerNames <- Names
    Specs <- SomeSpecs
    ChannelNames <- Channels
    Publishes <- SomePublishes
    MaxPublishes = 1
    MaxChanges = 3
SPECIFICATION Spec
INVARIANTS
    TypeOK
    NoStrayPost
    OnePostPerTrigger
    SteadyTriggersAreServed
PROPERTIES
    EveryPublishReplies

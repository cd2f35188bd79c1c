\* Resources of a project whose id begins with "operations".
CONSTANTS
    None = None
    Handlers = {h1}
    Kinds = {"trigger", "pipeline"}
    Names <- TeamNames
    Fields = {"labels", "destination", "event_filters", "cel_match", "destinations", "state", "activation_token", "display_name", "message_bus"}
    Vals = {"", "PENDING", "newUID", "a", "b"}
    Requests <- TeamRequests
    HttpRequests <- TeamClientRequests
    FieldOrder <- SortedFields
    Unlisted = "a.path.inside"
    IdText <- ToString
    OpsLike = {"operations", "operations-team"}
    ColonId = "a:b"
    IAMMode = "off"
    MaxRPCs = 1
SPECIFICATION RestSpec
INVARIANT ResourcesAreReachable

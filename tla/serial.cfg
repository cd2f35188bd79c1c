\* Every kind, one RPC at a time, over gRPC and HTTP.
CONSTANTS
    None = None
    Handlers = {h1}
    Kinds = {"trigger", "channel", "channelConnection", "messageBus", "enrollment", "pipeline", "googleApiSource"}
    Names <- RestNames
    Fields = {"labels", "destination", "event_filters", "cel_match", "destinations", "state", "activation_token", "display_name", "message_bus"}
    Vals = {"", "PENDING", "newUID", "a", "b"}
    Requests <- AllRequests
    HttpRequests <- ClientRequests
    FieldOrder <- SortedFields
    Unlisted = "a.path.inside"
    IdText <- ToString
    OpsLike = {"operations"}
    ColonId = "a:b"
    IAMMode = "off"
    MaxRPCs = 3
SPECIFICATION RestSpec
INVARIANTS
    RestTypeOK
    EtagGuard
    DeleteReportsRemoved
    AllowMissingDeleteSucceeds
    LroTargetNamesResource
    PollsFindOperations
    ResourcesAreReachable
PROPERTIES
    PatchTouchesNothingElse
    PatchStoresItsBody
CONSTRAINT OneKind

\* Two handlers race on one resource.
CONSTANTS
    None = None
    Handlers = {h1, h2}
    Kinds = {"trigger", "channel", "channelConnection", "messageBus", "enrollment", "pipeline", "googleApiSource"}
    Names <- RaceNames
    Fields = {"labels", "event_data_content_type"}
    Vals = {"", "PENDING", "newUID", "a", "b"}
    Requests <- RaceRequests
    IAMMode = "off"
    MaxRPCs = 4
SPECIFICATION Spec
INVARIANTS
    TypeOK
    ValidateOnlyIsReadOnly
    EtagIdentifiesVersion
    EveryDeleteRemovesItsOwn
    WritersReportTheirOwnVersion
    DeletesNeverGoBack
PROPERTIES
    RegistrySpec
CONSTRAINT OneKind

\* A guarded Delete races an Update.
CONSTANTS
    None = None
    Handlers = {h1, h2}
    Kinds = {"trigger"}
    Names <- TriggerNames
    Fields = {"labels"}
    Vals = {"", "PENDING", "newUID", "a", "b"}
    Requests <- EtagRaceRequests
    IAMMode = "off"
    MaxRPCs = 3
SPECIFICATION Spec
INVARIANTS
    EtagGuard

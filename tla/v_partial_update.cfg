\* A mask that meets message_bus after another field.
CONSTANTS
    None = None
    Handlers = {h1}
    Kinds = {"enrollment"}
    Names <- EnrollmentNames
    Fields = {"labels"}
    Vals = {"", "PENDING", "newUID", "a", "b"}
    Requests <- PartialUpdateRequests
    IAMMode = "off"
    MaxRPCs = 2
SPECIFICATION Spec
INVARIANTS
    EtagIdentifiesVersion

\* Masks that name the immutable field of an enrollment, and IAM_MODE=permissive.
CONSTANTS
    None = None
    Handlers = {h1, h2}
    Kinds = {"enrollment"}
    Names <- EnrollmentNames
    Fields = {"labels", "cel_match", "message_bus"}
    Vals = {"", "PENDING", "newUID", "a", "b"}
    Requests <- EnrollmentRequests
    IAMMode = "permissive"
    MaxRPCs = 4
SPECIFICATION Spec
INVARIANTS
    NoPrincipalNoAccess
    UidIdentifiesIncarnation
PROPERTIES
    FailuresStopAtTheMask
    EveryCallReplies

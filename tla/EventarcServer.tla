--------------------------- MODULE EventarcServer ---------------------------
(***************************************************************************)
(* The resource RPCs of the emulator: internal/server/server.go over       *)
(* internal/server/storage*.go and internal/lro/store.go.                  *)
(*                                                                         *)
(* Every RPC runs in a goroutine of its own (a handler).  A handler holds  *)
(* Storage.mu, or Store.mu, only inside one storage or LRO method, so a    *)
(* method is one atomic action and the other handlers run between two of   *)
(* them.  pc[h] names the method handler h calls next; the branch it takes *)
(* on the result touches only its own locals and belongs to the same       *)
(* action.                                                                 *)
(*                                                                         *)
(* The seven stored kinds share one shape of handler; what differs between *)
(* them is in the tables below.                                            *)
(*                                                                         *)
(* An operator introduced by "Mutant" is a plausible mistake in the        *)
(* definition after it, and not part of the specification: it shows which  *)
(* property notices the mistake.                                           *)
(***************************************************************************)
EXTENDS ResourceNames

CONSTANTS
    Handlers,   \* goroutines that can serve an RPC at the same time
    Kinds,      \* the resource kinds of this instance, a subset of AllKinds
    Names,      \* full resource names
    Fields,     \* payload fields this instance tells apart
    Vals,       \* values of a payload field; "" is the proto default
    Requests,   \* the requests clients send
    IAMMode,    \* IAM_MODE: "off", "permissive" or "strict"
    MaxRPCs,    \* bound: RPCs accepted in a behaviour
    None        \* no resource, no mask, no operation

-----------------------------------------------------------------------------
(* What differs between the kinds.                                         *)

AllKinds == {"trigger", "channel", "channelConnection", "messageBus",
             "enrollment", "pipeline", "googleApiSource"}

Collection(k) ==
    CASE k = "trigger"           -> "triggers"
      [] k = "channel"           -> "channels"
      [] k = "channelConnection" -> "channelConnections"
      [] k = "messageBus"        -> "messageBuses"
      [] k = "enrollment"        -> "enrollments"
      [] k = "pipeline"          -> "pipelines"
      [] OTHER                   -> "googleApiSources"

\* Kinds with an etag: their Delete takes an etag and allow_missing, and their
\* Update takes allow_missing.
Etagged == {"trigger", "messageBus", "enrollment", "pipeline", "googleApiSource"}

\* Fields each storage Update method writes; an unlisted mask path is ignored.
TriggerMutable ==
    {"labels", "destination", "event_filters", "service_account", "channel"}
ChannelMutable == {"labels", "crypto_key_name", "state"}
MessageBusMutable ==
    {"labels", "annotations", "display_name", "crypto_key_name", "logging_config"}
EnrollmentMutable ==
    {"labels", "annotations", "display_name", "cel_match", "destination"}
PipelineMutable ==
    {"labels", "annotations", "display_name", "destinations", "mediations",
     "crypto_key_name", "input_payload_format", "logging_config", "retry_policy"}
GoogleApiSourceMutable ==
    {"labels", "annotations", "display_name", "destination", "crypto_key_name",
     "logging_config"}

Mutable(k) ==
    CASE k = "trigger"         -> TriggerMutable
      [] k = "channel"         -> ChannelMutable
      [] k = "messageBus"      -> MessageBusMutable
      [] k = "enrollment"      -> EnrollmentMutable
      [] k = "pipeline"        -> PipelineMutable
      [] k = "googleApiSource" -> GoogleApiSourceMutable
      [] OTHER                 -> {}

\* Mask paths that make Update return InvalidArgument.
Immutable(k) == IF k = "enrollment" THEN {"message_bus"} ELSE {}

\* Payload fields Create insists on.
Required(k) ==
    CASE k = "trigger"         -> {"destination", "event_filters"}
      [] k = "enrollment"      -> {"cel_match"}
      [] k = "pipeline"        -> {"destinations"}
      [] k = "googleApiSource" -> {"destination"}
      [] OTHER                 -> {}

\* The payload Create stores: a channel starts PENDING with a new token (all the
\* tokens of newUID are one value here), whatever the client sent; the token of
\* a connection is not kept.
CreatedBody(k, body) ==
    [f \in Fields |->
        CASE k = "channel" /\ f = "state"                      -> "PENDING"
          [] k = "channel" /\ f = "activation_token"           -> "newUID"
          [] k = "channelConnection" /\ f = "activation_token" -> ""
          [] OTHER                                             -> body[f]]

\* The upsert of UpdateX takes the name of the missing resource apart and puts
\* it together again with the kind's collection.
UpsertParent(k, name) ==
    IF k = "trigger" THEN ParentFromName(name) ELSE ParentFromResource(name)

\* Mutant: the block of the API sources was copied from the pipelines'.
UpsertNameCopied(k, name) ==
    JoinName(UpsertParent(k, name),
             IF k = "googleApiSource" THEN "pipelines" ELSE Collection(k),
             LastSegment(name))

\* The key the upsert stores the resource under.
UpsertName(k, name) ==
    JoinName(UpsertParent(k, name), Collection(k), LastSegment(name))

-----------------------------------------------------------------------------
(* Data.                                                                   *)

Body == [Fields -> Vals]

\* A stored version.  uid and etag are fresh numbers, 0 where the code leaves
\* the field empty: a kind without etag, the synthetic answer of a dry run.
Resource == [kind : AllKinds, name : Names, uid : Nat, etag : Nat, body : Body]

\* wellFormed: the identifiers and the message the RPC insists on are there
\* and well formed.  guarded: the client sends the etag of some version it has
\* seen; Accept fills in which.  principal: the call carries a principal.
Request ==
    [verb : {"get", "create", "update", "delete"}, kind : AllKinds, name : Names,
     body : Body, mask : {None} \cup Seq(STRING), wellFormed : BOOLEAN,
     validateOnly : BOOLEAN, allowMissing : BOOLEAN, guarded : BOOLEAN,
     etag : Nat, principal : BOOLEAN]

\* The request messages of a kind have only the fields its RPCs define; the
\* name of a Create is made of its parent, the collection and its id.
InProto(r) ==
    /\ r.verb = "create" =>
         \E i \in 1..Len(r.name) :
            r.name = JoinName(SubSeq(r.name, 1, i), Collection(r.kind), LastSegment(r.name))
    /\ r.verb = "update" => r.kind # "channelConnection"
    /\ r.validateOnly => r.verb # "get" /\ r.kind # "channelConnection"
    /\ r.allowMissing => r.verb \in {"update", "delete"} /\ r.kind \in Etagged
    /\ r.guarded => r.verb = "delete" /\ r.kind \in Etagged
    /\ r.etag = 0

Operation == [id : Nat, verb : {"create", "update", "delete"}, kind : AllKinds,
              target : Names, response : {None} \cup Resource]

Codes == {"", "OK", "InvalidArgument", "PermissionDenied", "Unavailable",
          "Internal", "NotFound", "AlreadyExists", "Aborted"}

Reply == [code : Codes, res : {None} \cup Resource, op : {None} \cup Operation]
NoReply == [code |-> "", res |-> None, op |-> None]

\* The method a handler calls next.
Sections == {"lookup", "insert", "update", "upsert", "remove", "lro"}

ASSUME KindsAssumption == Kinds \subseteq AllKinds
ASSUME ValsAssumption == {"", "PENDING", "newUID"} \subseteq Vals
ASSUME RequestsAssumption ==
    \A r \in Requests : r \in Request /\ r.kind \in Kinds /\ InProto(r)
ASSUME NamesAssumption ==
    /\ \A n \in Names : n \in Seq(STRING) /\ IsName(n)
    /\ \A r \in Requests : UpsertName(r.kind, r.name) \in Names
ASSUME IAMModeAssumption == IAMMode \in {"off", "permissive", "strict"}
ASSUME MaxRPCsAssumption == MaxRPCs \in Nat
ASSUME NoneAssumption ==
    None \notin Resource \cup Request \cup Operation \cup Seq(STRING)

VARIABLES
    store,      \* Storage: for each kind the map from name to resource
    ops,        \* lro.Store.ops
    fresh,      \* next unused number for a uid, an etag or an operation id
    pc,         \* idle, the section the handler calls next, or done
    req,        \* the handler's request
    found,      \* the handler's local: the resource to pack into the LRO
    reply,      \* what the RPC returned
    accepted,   \* RPCs accepted so far
    committed,  \* history: every version ever stored
    wrote,      \* history: did the handler's RPC change the store
    removed     \* history: the version the handler's RPC deleted

vars == <<store, ops, fresh, pc, req, found, reply, accepted, committed, wrote,
          removed>>

TypeOK ==
    /\ store \in [Kinds -> [Names -> {None} \cup Resource]]
    /\ \A o \in ops : o \in Operation
    /\ fresh \in Nat \ {0}
    /\ pc \in [Handlers -> {"idle", "done"} \cup Sections]
    /\ req \in [Handlers -> {None} \cup Request]
    /\ found \in [Handlers -> {None} \cup Resource]
    /\ reply \in [Handlers -> Reply]
    /\ accepted \in 0..MaxRPCs
    /\ \A v \in committed : v \in Resource
    /\ wrote \in [Handlers -> BOOLEAN]
    /\ removed \in [Handlers -> {None} \cup Resource]

Init ==
    /\ store = [k \in Kinds |-> [n \in Names |-> None]]
    /\ ops = {}
    /\ fresh = 1
    /\ pc = [h \in Handlers |-> "idle"]
    /\ req = [h \in Handlers |-> None]
    /\ found = [h \in Handlers |-> None]
    /\ reply = [h \in Handlers |-> NoReply]
    /\ accepted = 0
    /\ committed = {}
    /\ wrote = [h \in Handlers |-> FALSE]
    /\ removed = [h \in Handlers |-> None]

-----------------------------------------------------------------------------
(* Accepting an RPC: validation, then checkPermission, then the handler    *)
(* turns to its first storage method.                                      *)

\* The checks before checkPermission; payload fields are checked by Create only.
Valid(r) ==
    /\ r.wellFormed
    /\ r.verb = "create" => \A f \in Required(r.kind) \cap Fields : r.body[f] # ""

\* Mutant: an anonymous call is left to the IAM emulator in every mode.
CheckPermissionAnonymous(r) ==
    IF IAMMode = "off" THEN {"OK"}
    ELSE {"OK", "PermissionDenied", "Unavailable", "Internal"}

\* The codes checkPermission can return; the IAM emulator decides the rest.
CheckPermission(r) ==
    IF IAMMode = "off" THEN {"OK"}
    ELSE IF IAMMode = "permissive" /\ ~r.principal THEN {"PermissionDenied"}
    ELSE {"OK", "PermissionDenied", "Unavailable", "Internal"}

\* Mutant: Update ignores validate_only.
FirstSectionEager(r) ==
    CASE r.verb = "create" /\ r.validateOnly  -> "lro"
      [] r.verb = "create" /\ ~r.validateOnly -> "insert"
      [] r.verb = "update"                    -> "update"
      [] OTHER                                -> "lookup"

FirstSection(r) ==
    CASE r.verb = "create" /\ r.validateOnly  -> "lro"
      [] r.verb = "create" /\ ~r.validateOnly -> "insert"
      [] r.verb = "update" /\ ~r.validateOnly -> "update"
      [] OTHER                                -> "lookup"

\* Mutant: the synthetic resource keeps the empty name of the request body.
SyntheticUnnamed(r) ==
    IF r.verb = "create" /\ r.validateOnly
    THEN [kind |-> r.kind, name |-> <<>>, uid |-> 0, etag |-> 0, body |-> r.body]
    ELSE None

\* validate_only on Create answers with a clone of the request, named.
Synthetic(r) ==
    IF r.verb = "create" /\ r.validateOnly
    THEN [kind |-> r.kind, name |-> r.name, uid |-> 0, etag |-> 0, body |-> r.body]
    ELSE None

\* Etags a client can send: none, or one the server handed out earlier.
ClientEtags(r) == IF r.guarded THEN {v.etag : v \in committed} ELSE {0}

\* A goroutine starts on request r and calls next with res in hand, or returns
\* code at once.
Accept(h, r, next, res, code) ==
    /\ pc[h] \in {"idle", "done"}
    /\ accepted < MaxRPCs
    /\ accepted' = accepted + 1
    /\ \E e \in ClientEtags(r) : req' = [req EXCEPT ![h] = [r EXCEPT !.etag = e]]
    /\ pc' = [pc EXCEPT ![h] = next]
    /\ reply' = [reply EXCEPT ![h] = [NoReply EXCEPT !.code = code]]
    /\ found' = [found EXCEPT ![h] = res]
    /\ wrote' = [wrote EXCEPT ![h] = FALSE]
    /\ removed' = [removed EXCEPT ![h] = None]
    /\ UNCHANGED <<store, ops, fresh, committed>>

Reject(h) == \E r \in Requests :
    /\ ~Valid(r)
    /\ Accept(h, r, "done", None, "InvalidArgument")

Deny(h) == \E r \in Requests :
    /\ Valid(r)
    /\ \E code \in CheckPermission(r) \ {"OK"} : Accept(h, r, "done", None, code)

Admit(h) == \E r \in Requests :
    /\ Valid(r)
    /\ "OK" \in CheckPermission(r)
    /\ Accept(h, r, FirstSection(r), Synthetic(r), "")

-----------------------------------------------------------------------------
(* The storage and LRO methods, one critical section each.                 *)

Current(h) == store[req[h].kind][req[h].name]

\* Mutant: an Update that lost the race to create the resource starts over.
ReturnOrRetry(h, code, res) ==
    IF code = "AlreadyExists" /\ req[h].verb = "update"
    THEN pc' = [pc EXCEPT ![h] = "update"] /\ UNCHANGED reply
    ELSE /\ pc' = [pc EXCEPT ![h] = "done"]
         /\ reply' = [reply EXCEPT ![h] = [code |-> code, res |-> res, op |-> None]]

\* The RPC returns: with an error code, or a Get with what it found.
Return(h, code, res) ==
    /\ pc' = [pc EXCEPT ![h] = "done"]
    /\ reply' = [reply EXCEPT ![h] = [code |-> code, res |-> res, op |-> None]]

\* Mutant: a Delete forgets the resource it read.
ProceedForgetting(h, next, res) ==
    /\ pc' = [pc EXCEPT ![h] = next]
    /\ found' = [found EXCEPT ![h] = IF next = "remove" THEN None ELSE res]

\* The handler goes on to section next with resource res in hand.
Proceed(h, next, res) ==
    /\ pc' = [pc EXCEPT ![h] = next]
    /\ found' = [found EXCEPT ![h] = res]

\* Version v is what the map of its kind holds under its name from now on.
Commit(h, v) ==
    /\ store' = [store EXCEPT ![v.kind][v.name] = v]
    /\ committed' = committed \cup {v}
    /\ wrote' = [wrote EXCEPT ![h] = wrote[h] \/ v # store[v.kind][v.name]]

NewEtag(k) == IF k \in Etagged THEN fresh ELSE 0

Created(r, name) ==
    [kind |-> r.kind, name |-> name, uid |-> fresh, etag |-> NewEtag(r.kind),
     body |-> CreatedBody(r.kind, r.body)]

\* Mutant: Delete has no allow_missing.
MissingNeverTolerated(r) == FALSE

\* allow_missing of a Delete; a dry run fails on a missing resource whatever
\* the flag says.
MissingTolerated(r) == r.verb = "delete" /\ r.allowMissing /\ ~r.validateOnly

\* Mutant: Delete does not look at the etag.
EtagIgnored(r, cur) == TRUE

\* An empty etag in a DeleteRequest is not compared.
EtagMatches(r, cur) == r.etag = 0 \/ r.etag = cur.etag

\* GetX by a Get, by a dry run, and as the first half of a Delete.
Lookup(h) ==
    /\ pc[h] = "lookup"
    /\ LET r == req[h]
           cur == Current(h)
       IN  \/ /\ cur = None
              /\ MissingTolerated(r)
              /\ Proceed(h, "lro", None)
              /\ UNCHANGED reply
           \/ /\ cur = None
              /\ ~MissingTolerated(r)
              /\ Return(h, "NotFound", None)
              /\ UNCHANGED found
           \/ /\ cur # None
              /\ r.verb = "get"
              /\ Return(h, "OK", cur)
              /\ UNCHANGED found
           \/ /\ cur # None
              /\ r.verb # "get" /\ r.validateOnly
              /\ Proceed(h, "lro", IF r.verb = "delete" THEN None ELSE cur)
              /\ UNCHANGED reply
           \/ /\ cur # None
              /\ r.verb = "delete" /\ ~r.validateOnly /\ ~EtagMatches(r, cur)
              /\ Return(h, "Aborted", None)
              /\ UNCHANGED found
           \/ /\ cur # None
              /\ r.verb = "delete" /\ ~r.validateOnly /\ EtagMatches(r, cur)
              /\ Proceed(h, "remove", cur)
              /\ UNCHANGED reply
    /\ UNCHANGED <<store, ops, fresh, req, accepted, committed, wrote, removed>>

\* Mutant: CreateX does not look whether the key is taken.
NeverTaken(k, name) == FALSE

\* What CreateX refuses to overwrite.
Taken(k, name) == store[k][name] # None

\* CreateX under the given key.
CreateAt(h, name) ==
    /\ \/ /\ Taken(req[h].kind, name)
          /\ Return(h, "AlreadyExists", None)
          /\ UNCHANGED <<store, fresh, found, committed, wrote>>
       \/ /\ ~Taken(req[h].kind, name)
          /\ Commit(h, Created(req[h], name))
          /\ Proceed(h, "lro", Created(req[h], name))
          /\ fresh' = fresh + 1
          /\ UNCHANGED reply
    /\ UNCHANGED <<ops, req, accepted, removed>>

Insert(h) == pc[h] = "insert" /\ CreateAt(h, req[h].name)

Upsert(h) == pc[h] = "upsert" /\ CreateAt(h, UpsertName(req[h].kind, req[h].name))

\* Mutant: UpdateX finds the immutable path only after the loop.
ProcessedAll(k, mask) == {mask[i] : i \in DOMAIN mask}

\* The mask paths the loop of UpdateX handles before an immutable one stops it.
Processed(k, mask) ==
    {mask[i] : i \in {j \in DOMAIN mask : \A l \in 1..j : mask[l] \notin Immutable(k)}}

StoppedByMask(k, mask) ==
    mask # None /\ \E i \in DOMAIN mask : mask[i] \in Immutable(k)

\* Mutant: no mask means every field of the payload.
TouchedAll(k, mask) ==
    IF mask = None THEN Fields ELSE Processed(k, mask) \cap Mutable(k)

\* The fields UpdateX copies from the request.
Touched(k, mask) ==
    IF mask = None \/ "*" \in Processed(k, mask)
    THEN Mutable(k)
    ELSE Processed(k, mask) \cap Mutable(k)

Merged(r, cur) ==
    [f \in Fields |-> IF f \in Touched(r.kind, r.mask) THEN r.body[f] ELSE cur.body[f]]

\* UpdateX writes through the stored pointer, field by field: the copies made
\* before an immutable path stops it stay, under the old etag.
PartlyUpdated(r, cur) == [cur EXCEPT !.body = Merged(r, cur)]

\* Mutant: an update keeps the etag.
UpdatedUnderOldEtag(r, cur) == PartlyUpdated(r, cur)

Updated(r, cur) == [PartlyUpdated(r, cur) EXCEPT !.etag = NewEtag(r.kind)]

\* Mutant: the clone UpdateX returns is taken before the fields are written.
AnswerTooEarly(r, cur) == cur

\* UpdateX returns a clone of what it stored.
Answer(r, cur) == Updated(r, cur)

Update(h) ==
    /\ pc[h] = "update"
    /\ LET r == req[h]
           cur == Current(h)
       IN  \/ /\ cur = None
              /\ r.allowMissing
              /\ Proceed(h, "upsert", None)
              /\ UNCHANGED <<store, fresh, reply, committed, wrote>>
           \/ /\ cur = None
              /\ ~r.allowMissing
              /\ Return(h, "NotFound", None)
              /\ UNCHANGED <<store, fresh, found, committed, wrote>>
           \/ /\ cur # None
              /\ StoppedByMask(r.kind, r.mask)
              /\ Commit(h, PartlyUpdated(r, cur))
              /\ Return(h, "InvalidArgument", None)
              /\ UNCHANGED <<fresh, found>>
           \/ /\ cur # None
              /\ ~StoppedByMask(r.kind, r.mask)
              /\ Commit(h, Updated(r, cur))
              /\ Proceed(h, "lro", Answer(r, cur))
              /\ fresh' = fresh + 1
              /\ UNCHANGED reply
    /\ UNCHANGED <<ops, req, accepted, removed>>

\* Mutant: DeleteX trusts that the resource is there, as the map would.
PresentAssumed(h) == TRUE

\* What DeleteX insists on.
Present(h) == Current(h) # None

\* DeleteX, the second half of a Delete; found keeps what Lookup returned.
Remove(h) ==
    /\ pc[h] = "remove"
    /\ \/ /\ ~Present(h)
          /\ Return(h, "NotFound", None)
          /\ UNCHANGED <<store, wrote, removed>>
       \/ /\ Present(h)
          /\ store' = [store EXCEPT ![req[h].kind][req[h].name] = None]
          /\ wrote' = [wrote EXCEPT ![h] = TRUE]
          /\ removed' = [removed EXCEPT ![h] = Current(h)]
          /\ pc' = [pc EXCEPT ![h] = "lro"]
          /\ UNCHANGED reply
    /\ UNCHANGED <<ops, fresh, req, found, accepted, committed>>

\* CreateDone: an operation already done, with the resource as its response.
\* A response of None is google.protobuf.Empty.
CreateDone(h) ==
    /\ pc[h] = "lro"
    /\ LET op == [id |-> fresh, verb |-> req[h].verb, kind |-> req[h].kind,
                  target |-> req[h].name, response |-> found[h]]
       IN  /\ ops' = ops \cup {op}
           /\ reply' = [reply EXCEPT ![h] = [code |-> "OK", res |-> None, op |-> op]]
    /\ fresh' = fresh + 1
    /\ pc' = [pc EXCEPT ![h] = "done"]
    /\ UNCHANGED <<store, req, found, accepted, committed, wrote, removed>>

\* DeleteOperation of the LRO service; an unknown name changes nothing.
DeleteOperation ==
    /\ \E o \in ops : ops' = ops \ {o}
    /\ UNCHANGED <<store, fresh, pc, req, found, reply, accepted, committed, wrote,
                   removed>>

-----------------------------------------------------------------------------
(* The handlers of each kind, and the whole service.                       *)

Serves(h, k) == req[h] # None /\ req[h].kind = k

Step(h) ==
    Lookup(h) \/ Insert(h) \/ Update(h) \/ Upsert(h) \/ Remove(h) \/ CreateDone(h)

TriggerRPC(h) == Serves(h, "trigger") /\ Step(h)

\* No etag and no allow_missing: InProto keeps both out of the requests.
ChannelRPC(h) == Serves(h, "channel") /\ Step(h)

\* Get, Create and Delete only, and no validate_only.
ChannelConnectionRPC(h) ==
    Serves(h, "channelConnection")
    /\ (Lookup(h) \/ Insert(h) \/ Remove(h) \/ CreateDone(h))

MessageBusRPC(h) == Serves(h, "messageBus") /\ Step(h)

EnrollmentRPC(h) == Serves(h, "enrollment") /\ Step(h)

PipelineRPC(h) == Serves(h, "pipeline") /\ Step(h)

GoogleApiSourceRPC(h) == Serves(h, "googleApiSource") /\ Step(h)

Serve(h) ==
    \/ TriggerRPC(h)
    \/ ChannelRPC(h)
    \/ ChannelConnectionRPC(h)
    \/ MessageBusRPC(h)
    \/ EnrollmentRPC(h)
    \/ PipelineRPC(h)
    \/ GoogleApiSourceRPC(h)

\* The bound on RPCs is used up and every one has returned.
Exhausted ==
    /\ accepted = MaxRPCs
    /\ \A h \in Handlers : pc[h] \in {"idle", "done"}
    /\ UNCHANGED vars

Next ==
    \/ \E h \in Handlers : Reject(h) \/ Deny(h) \/ Admit(h) \/ Serve(h)
    \/ DeleteOperation
    \/ Exhausted

\* A handler never waits while it holds a lock and sync.RWMutex starves
\* nobody, so a handler that has a method to call calls it eventually.
Fairness == \A h \in Handlers : WF_vars(Serve(h))

Spec == Init /\ [][Next]_vars /\ Fairness

-----------------------------------------------------------------------------
(* Properties.                                                             *)

\* No request lists an immutable field after one that Update writes: Update
\* would stop between the two.
MasksStopFirst ==
    \A r \in Requests : StoppedByMask(r.kind, r.mask) => Touched(r.kind, r.mask) = {}

Done(h) == pc[h] = "done"
Succeeded(h) == Done(h) /\ reply[h].code = "OK"
Failed(h) == Done(h) /\ reply[h].code # "OK"

\* Field f is one that UpdateX writes before the mask of r makes it stop.
NamedBeforeTheStop(r, f) ==
    /\ f \in Mutable(r.kind)
    /\ \E i \in DOMAIN r.mask :
          /\ r.mask[i] \in {f, "*"}
          /\ \A j \in 1..i : r.mask[j] \notin Immutable(r.kind)

\* The step in which RPC h fails, if it does, writes at most what a stopped
\* update writes, to the resource the client named, and after no other write.
FailsWithinTheMask(h) ==
    pc[h] \in Sections /\ Failed(h)' =>
       /\ ~wrote[h]
       /\ \A k \in Kinds, n \in Names :
             store'[k][n] # store[k][n] =>
                /\ req[h].verb = "update" /\ req[h].kind = k /\ req[h].name = n
                /\ StoppedByMask(k, req[h].mask)
                /\ reply'[h].code = "InvalidArgument"
                /\ store[k][n] # None /\ store'[k][n] # None
                /\ store'[k][n] = [store[k][n] EXCEPT !.body = store'[k][n].body]
                /\ \A f \in Fields :
                      store'[k][n].body[f] # store[k][n].body[f] =>
                         /\ store'[k][n].body[f] = req[h].body[f]
                         /\ NamedBeforeTheStop(req[h], f)

\* What an RPC that returns an error leaves behind.  No error path lies behind a
\* write of an earlier storage method; and the failing method itself writes in
\* one case only, the update that an immutable path of its mask stops.  That
\* leaves the uid, the etag and every field the mask does not name before this
\* path as they were.
FailuresStopAtTheMask == [][\A h \in Handlers : FailsWithinTheMask(h)]_vars

\* validate_only never changes the store, whatever the other handlers do
\* between the handler's own steps.
ValidateOnlyIsReadOnly ==
    \A h \in Handlers : req[h] # None /\ req[h].validateOnly => ~wrote[h]

\* An etag stands for one version of one resource: a client that compares
\* etags never takes two different payloads for the same one.
EtagIdentifiesVersion ==
    \A v, w \in committed : v.kind \in Etagged /\ v.etag = w.etag => v = w

\* A uid stands for one incarnation of one name of one kind, in which the
\* fields no Update method writes keep the value Create gave them.
UidIdentifiesIncarnation ==
    \A v, w \in committed :
        v.uid = w.uid =>
            /\ v.kind = w.kind /\ v.name = w.name
            /\ \A f \in Fields \ Mutable(v.kind) : v.body[f] = w.body[f]

\* Of several Deletes racing for one resource, each that succeeds on a resource
\* it found removed an incarnation that no other one removed and that is gone.
EveryDeleteRemovesItsOwn ==
    /\ \A h \in Handlers :
          Succeeded(h) /\ req[h].verb = "delete" /\ found[h] # None => removed[h] # None
    /\ \A h, g \in Handlers :
          h # g /\ removed[h] # None /\ removed[g] # None
              => removed[h].uid # removed[g].uid
    /\ \A h \in Handlers, k \in Kinds, n \in Names :
          removed[h] # None /\ store[k][n] # None => store[k][n].uid # removed[h].uid

\* A Create or Update answers with the version it stored itself: one that was
\* stored exactly so, and that no other RPC answers with.
WroteVersion(h) ==
    Succeeded(h) /\ req[h].verb \in {"create", "update"} /\ ~req[h].validateOnly
WritersReportTheirOwnVersion ==
    /\ \A h \in Handlers : WroteVersion(h) => reply[h].op.response \in committed
    /\ \A h, g \in Handlers :
          h # g /\ WroteVersion(h) /\ WroteVersion(g) /\ req[h].kind \in Etagged
              => reply[h].op.response.etag # reply[g].op.response.etag

\* The target in an operation's metadata is the name of the resource in its
\* response: it is where GetX finds what CreateX or UpdateX stored.
LroTargetNamesResource ==
    \A o \in ops : o.response # None => o.response.name = o.target

\* A Delete that sends an etag removes no version with another etag.
EtagGuard ==
    \A h \in Handlers :
        removed[h] # None /\ req[h].etag # 0 => removed[h].etag = req[h].etag

\* Version v is no older than version w of the same name.
NoOlder(v, w) == v.uid >= w.uid /\ v.etag >= w.etag

\* What remains of the guard of a Delete that others disturb between its read and
\* its removal: a Delete removes the version it read or one stored after it, so
\* never one older than the version the client's etag stands for.  What it removes
\* under the etag it read is what it read, if no mask stops an update halfway.
DeletesNeverGoBack ==
    \A h \in Handlers : removed[h] # None =>
        /\ NoOlder(removed[h], found[h])
        /\ req[h].etag # 0 => removed[h].etag >= req[h].etag
        /\ MasksStopFirst /\ req[h].kind \in Etagged /\ removed[h].etag = found[h].etag
              => removed[h] = found[h]

\* The response of a Delete is the resource it deleted, as it was at the end.
DeleteReportsRemoved ==
    \A h \in Handlers :
        Succeeded(h) /\ removed[h] # None => reply[h].op.response = removed[h]

\* With allow_missing a Delete does not fail because the resource is missing.
AllowMissingDeleteSucceeds ==
    \A h \in Handlers :
        Done(h) /\ req[h].verb = "delete" /\ req[h].allowMissing /\ ~req[h].validateOnly
            => reply[h].code # "NotFound"

\* With allow_missing an Update creates or updates: it does not fail because
\* the resource exists.
UpsertNeverConflicts ==
    \A h \in Handlers :
        Done(h) /\ req[h].verb = "update" => reply[h].code # "AlreadyExists"

\* IAM_MODE=permissive: a call without a principal gets no further than the
\* permission check, so it neither changes nor sees any resource.
NoPrincipalNoAccess ==
    \A h \in Handlers :
        IAMMode = "permissive" /\ req[h] # None /\ ~req[h].principal
            => /\ ~wrote[h] /\ found[h] = None
               /\ reply[h].code \in {"InvalidArgument", "PermissionDenied"}

\* Every call returns: no handler loops between its storage methods.
EveryCallReplies == \A h \in Handlers : pc[h] \in Sections ~> Done(h)

\* The uids and etags handed out so far.
Issued == {0} \cup UNION {{v.uid, v.etag} : v \in committed}

Registry == INSTANCE ResourceRegistry WITH reg <- store, issued <- Issued

\* Storage, under any interleaving of handlers, is a registry: names are
\* created only when free, a version replaces its predecessor under the same
\* uid, and every version is told apart by its etag.
RegistrySpec == Registry!Spec
=============================================================================

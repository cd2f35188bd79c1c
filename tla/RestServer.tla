----------------------------- MODULE RestServer -----------------------------
(***************************************************************************)
(* The REST gateway in front of the resource RPCs and the LRO service:      *)
(* EventarcServer, whose RPCs come from gRPC clients or, transcoded, from   *)
(* HTTP clients, and the operations those clients poll.                    *)
(*                                                                         *)
(* The gateway has no state of its own.  A request it cannot route or       *)
(* decode reaches no RPC and changes nothing: it is not an action.         *)
(***************************************************************************)
EXTENDS EventarcServer, RestGateway

CONSTANTS
    HttpRequests,  \* the requests HTTP clients send
    FieldOrder,    \* the payload fields, sorted by name
    Unlisted,      \* a mask path that no UpdateX knows
    IdText(_)      \* the text of an operation's id

\* body: the payload, with "" for a field the JSON leaves out; said: the fields
\* the JSON names; nested: those of them whose value is an object, so that the
\* mask gets the paths inside; object: whether there is a JSON object at all.
\* The other components are query parameters; id is the trigger_id, and so on,
\* of a Create, and principal the header Grpc-Metadata-X-Emulator-Principal.
HttpRequest ==
    [method : {"GET", "POST", "PATCH", "DELETE"}, path : Seq(STRING), verb : STRING,
     object : BOOLEAN, body : Body, said : SUBSET Fields, nested : SUBSET Fields,
     id : STRING, mask : {None} \cup Seq(STRING), validateOnly : BOOLEAN,
     allowMissing : BOOLEAN, guarded : BOOLEAN, principal : BOOLEAN]

ASSUME HttpAssumption ==
    /\ \A x \in HttpRequests :
          /\ x \in HttpRequest
          /\ x.nested \subseteq x.said
          /\ x.said # {} => x.object
          /\ \A f \in Fields \ x.said : x.body[f] = ""
    /\ FieldOrder \in Seq(Fields)
    /\ \A f \in Fields : \E i \in DOMAIN FieldOrder : FieldOrder[i] = f
    /\ Fields \cup {Unlisted} \subseteq STRING /\ "*" \notin Fields
    /\ \A k \in AllKinds : Unlisted \notin Mutable(k) \cup Immutable(k) \cup {"*"}

VARIABLES
    http,   \* for each handler the HTTP request its RPC came from, or None
    polled  \* the operation a client has just asked for, and what it was told

restVars == <<vars, http, polled>>

\* op is None for NotFound.
Polled == [asked : Seq(STRING), op : {None} \cup Operation]

RestTypeOK ==
    /\ TypeOK
    /\ http \in [Handlers -> {None} \cup HttpRequests]
    /\ polled \in {None} \cup Polled

RestInit ==
    /\ Init
    /\ http = [h \in Handlers |-> None]
    /\ polled = None

-----------------------------------------------------------------------------
(* From HTTP to RPC: the request_ functions of the generated gateway.       *)

\* FieldMaskFromRequestBody: the paths of the leaves, sorted; an object without
\* fields is a leaf itself, with an empty path.  upTo[i]: those of the first i fields.
FieldMask(x) ==
    LET upTo[i \in 0..Len(FieldOrder)] ==
            IF i = 0 THEN <<>>
            ELSE IF FieldOrder[i] \notin x.said THEN upTo[i - 1]
            ELSE Append(upTo[i - 1],
                        IF FieldOrder[i] \in x.nested THEN Unlisted ELSE FieldOrder[i])
    IN  IF ~x.object THEN <<>>
        ELSE IF x.said = {} THEN <<Unlisted>>
        ELSE upTo[Len(FieldOrder)]

\* Mutant: the mask of a PATCH is what the query says, and nothing else.
UpdateMaskOfQuery(x) == x.mask

\* Mutant: the mask is read from the body after the decoder has consumed it.
UpdateMaskConsumed(x) == IF x.mask # None THEN x.mask ELSE <<>>

\* The mask of a PATCH: that of the query, or what the body names.
UpdateMask(x) == IF x.mask # None THEN x.mask ELSE FieldMask(x)

Message(verb, k, name, x) ==
    [verb |-> verb, kind |-> k, name |-> name, body |-> x.body, mask |-> None,
     wellFormed |-> TRUE, validateOnly |-> x.validateOnly, allowMissing |-> x.allowMissing,
     guarded |-> x.guarded, etag |-> 0, principal |-> x.principal]

GetX(k, name, x) == Message("get", k, name, x)

\* Without a body there is no message, and CreateX refuses.
CreateX(k, parent, x) ==
    [Message("create", k, JoinName(parent, Collection(k), x.id), x)
        EXCEPT !.wellFormed = x.object]

UpdateX(k, name, x) == [Message("update", k, name, x) EXCEPT !.mask = UpdateMask(x)]

DeleteX(k, name, x) == Message("delete", k, name, x)

\* The RPC request that x becomes, or None if it is for another service.
Transcoded(x) ==
    LET to == Dispatch(x)
    IN  CASE to.kind \notin Kinds -> None
          [] to.rpc = "get"       -> GetX(to.kind, to.name, x)
          [] to.rpc = "create"    -> CreateX(to.kind, to.name, x)
          [] to.rpc = "update"    -> UpdateX(to.kind, to.name, x)
          [] to.rpc = "delete"    -> DeleteX(to.kind, to.name, x)
          [] OTHER                -> None

\* The HTTP requests that become the RPC request r.
Sources == [r \in Requests |-> {x \in HttpRequests : Transcoded(x) = r}]

-----------------------------------------------------------------------------
(* Actions.                                                                *)

\* An RPC is accepted, from the gateway or from a gRPC client.
Receive(h) ==
    /\ Reject(h) \/ Deny(h) \/ Admit(h)
    /\ \E x \in Sources[[req'[h] EXCEPT !.etag = 0]] \cup {None} :
          http' = [http EXCEPT ![h] = x]
    /\ polled' = None

\* CreateDone names the operation after the parent of the resource.
OperationName(o) ==
    UpsertParent(o.kind, o.target) \o <<"operations", IdText(o.id)>>

\* Mutant: the name is looked up as it came.
KeyUntrimmed(name) == name

\* strings.TrimPrefix(name, "operations/").
Key(name) == IF name[1] = "operations" THEN Tail(name) ELSE name

Stored(key) == {o \in ops : OperationName(o) = key}

\* The operation, or None for NotFound.
GetOperation(name) ==
    IF Stored(Key(name)) = {} THEN None ELSE CHOOSE o \in Stored(Key(name)) : TRUE

\* WaitOperation has nothing to wait for.
WaitOperation(name) == GetOperation(name)

GetPath(path) == [method |-> "GET", path |-> path, verb |-> ""]

\* GET /v1/<name of the operation>.
GetByHttp(name) ==
    LET to == Dispatch(GetPath(<<"v1">> \o name))
    IN  IF to.rpc = "get" /\ to.kind = "operation" THEN GetOperation(to.name) ELSE None

\* Operations some client was told of.
Known == {reply[h].op : h \in Handlers} \ {None}

\* A client polls an operation it was told of, in one of the two ways.
Poll ==
    /\ polled = None
    /\ \E o \in Known :
          LET name == OperationName(o)
          IN  \E op \in {GetByHttp(name), WaitOperation(name)} :
                 polled' = [asked |-> name, op |-> op]
    /\ UNCHANGED <<vars, http>>

\* The steps of the RPCs, and DeleteOperation by any client.
RestNext ==
    \/ \E h \in Handlers : Receive(h)
    \/ (\E h \in Handlers : Serve(h)) /\ polled' = None /\ UNCHANGED http
    \/ DeleteOperation /\ polled' = None /\ UNCHANGED http
    \/ Poll
    \/ Exhausted /\ UNCHANGED <<http, polled>>

RestSpec == RestInit /\ [][RestNext]_restVars

-----------------------------------------------------------------------------
(* Properties.                                                             *)

\* A client that polls an operation is told of it, by GET /v1/<name> and by
\* WaitOperation alike, unless somebody deleted it.
PollsFindOperations ==
    polled # None =>
        \A o \in ops : OperationName(o) = polled.asked => polled.op = o

\* GET /v1/<name> reaches the Get of the resource with that name.
ResourcesAreReachable ==
    \A k \in Kinds, n \in Names :
        store[k][n] # None =>
            Dispatch(GetPath(<<"v1">> \o n)) = [rpc |-> "get", kind |-> k, name |-> n]

IsPatch(h) == http[h] # None /\ http[h].method = "PATCH"

\* The fields a PATCH is about.
About(x) ==
    IF x.mask = None THEN x.said
    ELSE IF \E i \in DOMAIN x.mask : x.mask[i] = "*" THEN Fields
    ELSE {x.mask[i] : i \in DOMAIN x.mask}

\* A PATCH leaves alone what neither its body nor its updateMask names.
PatchTouchesNothingElse ==
    [][\A h \in Handlers :
          IsPatch(h) /\ pc[h] = "update" /\ pc'[h] # "update" /\ Current(h) # None =>
              \A f \in Fields \ About(http[h]) :
                  store'[req[h].kind][req[h].name].body[f] = Current(h).body[f]]_restVars

\* A PATCH that goes on to its answer has stored every mutable field it is
\* about, unless the JSON gives it as an object.
PatchStoresItsBody ==
    [][\A h \in Handlers :
          IsPatch(h) /\ pc[h] = "update" /\ pc'[h] = "lro" =>
              \A f \in (About(http[h]) \cap Mutable(req[h].kind) \cap Fields) \ http[h].nested :
                  store'[req[h].kind][req[h].name].body[f] = http[h].body[f]]_restVars
=============================================================================

----------------------- MODULE EventarcServer_proofs -----------------------
(***************************************************************************)
(* Theorems about EventarcServer, for any handlers, kinds, names, payloads, *)
(* requests and IAM mode.                                                   *)
(***************************************************************************)
EXTENDS EventarcServer, TLAPS

-----------------------------------------------------------------------------
(* Type correctness.  TypeOK alone is not inductive: that UpsertName stays  *)
(* in Names, and that CreateDone never packs a Get, depends on which        *)
(* request a handler serves and on the section it has reached.              *)

\* The request of a working handler is one a client sent, with its etag.
FromClient(q) == \E r \in Requests, e \in Nat : q = [r EXCEPT !.etag = e]

\* The sections each verb goes through.
OnPath(q, section) ==
    CASE section = "insert"               -> q.verb = "create" /\ ~q.validateOnly
      [] section \in {"update", "upsert"} -> q.verb = "update" /\ ~q.validateOnly
      [] section = "remove"               -> q.verb = "delete" /\ ~q.validateOnly
      [] section = "lookup"               -> \/ q.verb \in {"get", "delete"}
                                             \/ q.verb = "update" /\ q.validateOnly
      [] OTHER                            -> q.verb # "get"

Serving(h) ==
    pc[h] \in Sections => /\ req[h] # None
                          /\ FromClient(req[h])
                          /\ OnPath(req[h], pc[h])

TypeInv == TypeOK /\ \A h \in Handlers : Serving(h)

\* What a client's request keeps of the assumptions on Requests.
LEMMA FromClientProperties ==
    ASSUME NEW q, FromClient(q)
    PROVE  /\ q \in Request
           /\ q.kind \in Kinds
           /\ q.name \in Names
           /\ UpsertName(q.kind, q.name) \in Names
  <1>1. PICK r \in Requests, e \in Nat : q = [r EXCEPT !.etag = e]
    BY DEF FromClient
  <1>2. r \in Request /\ r.kind \in Kinds /\ UpsertName(r.kind, r.name) \in Names
    BY RequestsAssumption, NamesAssumption
  <1>3. q \in Request /\ q.kind = r.kind /\ q.name = r.name
    BY <1>1, <1>2 DEF Request
  <1> QED
    BY <1>2, <1>3 DEF Request

\* The versions the storage methods build are resources.
LEMMA CreatedTyped ==
    ASSUME NEW q \in Request, NEW n \in Names, fresh \in Nat
    PROVE  Created(q, n) \in Resource
  <1>1. CreatedBody(q.kind, q.body) \in Body
    BY ValsAssumption DEF CreatedBody, Body, Request
  <1>2. NewEtag(q.kind) \in Nat
    BY DEF NewEtag
  <1> QED
    BY <1>1, <1>2 DEF Created, Resource, Request

LEMMA UpdatedTyped ==
    ASSUME NEW q \in Request, NEW cur \in Resource, fresh \in Nat
    PROVE  /\ PartlyUpdated(q, cur) \in Resource
           /\ Updated(q, cur) \in Resource
           /\ PartlyUpdated(q, cur) = [cur EXCEPT !.body = Merged(q, cur)]
           /\ Merged(q, cur) \in Body
  <1>1. Merged(q, cur) \in Body
    BY DEF Merged, Body, Request, Resource
  <1>2. NewEtag(q.kind) \in Nat
    BY DEF NewEtag
  <1>3. PartlyUpdated(q, cur) \in Resource
    BY <1>1 DEF PartlyUpdated, Resource
  <1>4. Updated(q, cur) \in Resource
    BY <1>2, <1>3 DEF Updated, Resource
  <1> QED
    BY <1>1, <1>3, <1>4 DEF PartlyUpdated

\* The replies RPCs return.
LEMMA ReplyTyped ==
    /\ \A code \in Codes, res \in {None} \cup Resource :
          [code |-> code, res |-> res, op |-> None] \in Reply
    /\ \A op \in Operation : [code |-> "OK", res |-> None, op |-> op] \in Reply
    /\ \A code \in Codes : [NoReply EXCEPT !.code = code] \in Reply
    /\ NoReply \in Reply
  BY DEF Reply, NoReply, Codes

LEMMA ReturnTyped ==
    ASSUME TypeOK, NEW h \in Handlers, NEW code \in Codes,
           NEW res \in {None} \cup Resource, Return(h, code, res)
    PROVE  /\ reply' \in [Handlers -> Reply]
           /\ pc' \in [Handlers -> {"idle", "done"} \cup Sections]
  <1> DEFINE r == [code |-> code, res |-> res, op |-> None]
  <1>1. r \in Reply
    BY ReplyTyped
  <1>2. reply' = [reply EXCEPT ![h] = r] /\ pc' = [pc EXCEPT ![h] = "done"]
    BY DEF Return
  <1> HIDE DEF r
  <1> QED
    BY <1>1, <1>2 DEF TypeOK

LEMMA TypeInvInit == Init => TypeInv
  <1> SUFFICES ASSUME Init PROVE TypeInv
    OBVIOUS
  <1>1. reply \in [Handlers -> Reply]
    BY ReplyTyped DEF Init
  <1>2. TypeOK
    BY <1>1, MaxRPCsAssumption DEF Init, TypeOK
  <1>3. \A h \in Handlers : Serving(h)
    BY DEF Init, Serving, Sections
  <1> QED
    BY <1>2, <1>3 DEF TypeInv

\* Starting an RPC, however it goes on.
LEMMA AcceptTyped ==
    ASSUME TypeInv, NEW h \in Handlers, NEW r \in Requests,
           NEW next \in {"done"} \cup Sections, NEW res \in {None} \cup Resource,
           NEW code \in Codes, Accept(h, r, next, res, code),
           next \in Sections => OnPath(r, next)
    PROVE  TypeInv'
  <1>1. r \in Request
    BY RequestsAssumption
  <1>2. PICK e \in Nat : req' = [req EXCEPT ![h] = [r EXCEPT !.etag = e]]
    <2>1. PICK e \in ClientEtags(r) : req' = [req EXCEPT ![h] = [r EXCEPT !.etag = e]]
      BY DEF Accept
    <2>2. e \in Nat
      BY DEF ClientEtags, TypeInv, TypeOK, Resource
    <2> QED
      BY <2>1, <2>2
  <1>3. [r EXCEPT !.etag = e] \in Request
    BY <1>1, <1>2 DEF Request
  <1>4. TypeOK'
    <2>1. reply' \in [Handlers -> Reply]
      BY ReplyTyped DEF Accept, TypeInv, TypeOK
    <2>2. req' \in [Handlers -> {None} \cup Request]
      BY <1>2, <1>3 DEF TypeInv, TypeOK
    <2>3. accepted' \in 0..MaxRPCs
      BY MaxRPCsAssumption DEF Accept, TypeInv, TypeOK
    <2>4. /\ pc' \in [Handlers -> {"idle", "done"} \cup Sections]
          /\ found' \in [Handlers -> {None} \cup Resource]
          /\ wrote' \in [Handlers -> BOOLEAN]
          /\ removed' \in [Handlers -> {None} \cup Resource]
      BY DEF Accept, TypeInv, TypeOK
    <2> QED
      BY <2>1, <2>2, <2>3, <2>4 DEF Accept, TypeInv, TypeOK
  <1>5. ASSUME NEW g \in Handlers PROVE Serving(g)'
    <2>1. CASE g = h
      <3>1. req'[h] = [r EXCEPT !.etag = e] /\ pc'[h] = next
        BY <1>2 DEF Accept, TypeInv, TypeOK
      <3>2. req'[h] # None
        BY <1>3, <3>1, NoneAssumption
      <3>3. FromClient(req'[h])
        BY <1>2, <3>1 DEF FromClient
      <3>4. next \in Sections => OnPath(req'[h], next)
        BY <1>1, <3>1 DEF OnPath, Request
      <3> QED
        BY <2>1, <3>1, <3>2, <3>3, <3>4 DEF Serving
    <2>2. CASE g # h
      BY <1>2, <2>2 DEF Accept, TypeInv, TypeOK, Serving
    <2> QED
      BY <2>1, <2>2
  <1> QED
    BY <1>4, <1>5 DEF TypeInv

\* The step of a handler that stays on its path leaves the others alone.
LEMMA StepServing ==
    ASSUME TypeInv, NEW h \in Handlers, NEW next \in {"done"} \cup Sections,
           pc' = [pc EXCEPT ![h] = next], UNCHANGED req, pc[h] \in Sections,
           next \in Sections => OnPath(req[h], next)
    PROVE  \A g \in Handlers : Serving(g)'
  BY DEF TypeInv, TypeOK, Serving

LEMMA WorkingRequest ==
    ASSUME TypeInv, NEW h \in Handlers, pc[h] \in Sections
    PROVE  /\ req[h] \in Request
           /\ req[h].kind \in Kinds
           /\ req[h].name \in Names
           /\ UpsertName(req[h].kind, req[h].name) \in Names
           /\ Current(h) \in {None} \cup Resource
           /\ OnPath(req[h], pc[h])
  <1>1. FromClient(req[h]) /\ OnPath(req[h], pc[h])
    BY DEF TypeInv, Serving
  <1>2. /\ req[h] \in Request
        /\ req[h].kind \in Kinds
        /\ req[h].name \in Names
        /\ UpsertName(req[h].kind, req[h].name) \in Names
    BY <1>1, FromClientProperties
  <1>3. Current(h) \in {None} \cup Resource
    BY <1>2 DEF Current, TypeInv, TypeOK
  <1> QED
    BY <1>1, <1>2, <1>3

LEMMA LookupTyped ==
    ASSUME TypeInv, NEW h \in Handlers, Lookup(h)
    PROVE  TypeInv'
  <1>1. pc[h] = "lookup" /\ pc[h] \in Sections
    BY DEF Lookup, Sections
  <1>2. /\ req[h] \in Request
        /\ Current(h) \in {None} \cup Resource
        /\ OnPath(req[h], pc[h])
    BY <1>1, WorkingRequest
  <1>3. TypeOK'
    <2>1. reply' \in [Handlers -> Reply]
      <3>1. PICK c \in {"NotFound", "OK", "Aborted"}, res \in {None, Current(h)} :
                Return(h, c, res) \/ UNCHANGED reply
        BY DEF Lookup
      <3>2. c \in Codes /\ res \in {None} \cup Resource
        BY <1>2, <3>1 DEF Codes
      <3> QED
        BY <3>1, <3>2, ReturnTyped DEF TypeInv, TypeOK
    <2>2. /\ pc' \in [Handlers -> {"idle", "done"} \cup Sections]
          /\ found' \in [Handlers -> {None} \cup Resource]
      BY <1>2 DEF Lookup, Return, Proceed, TypeInv, TypeOK, Sections
    <2> QED
      BY <2>1, <2>2 DEF Lookup, TypeInv, TypeOK
  <1>4. PICK next \in {"done", "lro", "remove"} :
            /\ pc' = [pc EXCEPT ![h] = next]
            /\ next # "done" => req[h].verb # "get"
            /\ next = "remove" => req[h].verb = "delete" /\ ~req[h].validateOnly
    BY DEF Lookup, Return, Proceed, MissingTolerated
  <1>5. next \in Sections => OnPath(req[h], next)
    BY <1>4 DEF OnPath, Sections
  <1>6. \A g \in Handlers : Serving(g)'
    <2>1. next \in {"done"} \cup Sections /\ UNCHANGED req
      BY DEF Lookup, Sections
    <2> QED
      BY <1>1, <1>4, <1>5, <2>1, StepServing
  <1> QED
    BY <1>3, <1>6 DEF TypeInv

\* A step that stores a version and then goes on or returns.
LEMMA CommitTyped ==
    ASSUME TypeInv, NEW h \in Handlers, NEW v \in Resource, Commit(h, v),
           \/ Proceed(h, "lro", v) /\ UNCHANGED reply
           \/ Return(h, "InvalidArgument", None) /\ UNCHANGED found,
           fresh' \in {fresh, fresh + 1}, UNCHANGED <<ops, req, accepted, removed>>
    PROVE  TypeOK'
  <1>1. store' \in [Kinds -> [Names -> {None} \cup Resource]]
    BY DEF Commit, TypeInv, TypeOK
  <1>2. wrote' \in [Handlers -> BOOLEAN]
    BY DEF Commit, TypeInv, TypeOK
  <1>3. \A w \in committed' : w \in Resource
    BY DEF Commit, TypeInv, TypeOK
  <1>4. reply' \in [Handlers -> Reply]
    <2>1. "InvalidArgument" \in Codes
      BY DEF Codes
    <2> QED
      BY <2>1, ReturnTyped DEF TypeInv, TypeOK
  <1>5. /\ pc' \in [Handlers -> {"idle", "done"} \cup Sections]
        /\ found' \in [Handlers -> {None} \cup Resource]
    BY DEF Return, Proceed, TypeInv, TypeOK, Sections
  <1> QED
    BY <1>1, <1>2, <1>3, <1>4, <1>5 DEF TypeInv, TypeOK

\* Create, and the upsert of an Update.
LEMMA CreateAtTyped ==
    ASSUME TypeInv, NEW h \in Handlers, NEW n \in Names, CreateAt(h, n),
           pc[h] \in {"insert", "upsert"}
    PROVE  TypeInv'
  <1>1. pc[h] \in Sections
    BY DEF Sections
  <1>2. req[h] \in Request /\ req[h].kind \in Kinds /\ OnPath(req[h], pc[h])
    BY <1>1, WorkingRequest
  <1>3. Created(req[h], n) \in Resource
    BY <1>2, CreatedTyped DEF TypeInv, TypeOK
  <1>4. TypeOK'
    <2>1. CASE Taken(req[h].kind, n)
      <3>1. UNCHANGED <<store, ops, fresh, req, found, accepted, committed, wrote, removed>>
        BY <2>1 DEF CreateAt
      <3>2. /\ reply' \in [Handlers -> Reply]
            /\ pc' \in [Handlers -> {"idle", "done"} \cup Sections]
        <4>1. "AlreadyExists" \in Codes /\ Return(h, "AlreadyExists", None)
          BY <2>1 DEF CreateAt, Codes
        <4> QED
          BY <4>1, ReturnTyped DEF TypeInv
      <3> QED
        BY <3>1, <3>2 DEF TypeInv, TypeOK
    <2>2. CASE ~Taken(req[h].kind, n)
      <3> DEFINE v == Created(req[h], n)
      <3>1. /\ Commit(h, v)
            /\ Proceed(h, "lro", v)
            /\ fresh' = fresh + 1
            /\ UNCHANGED <<ops, req, reply, accepted, removed>>
        BY <2>2 DEF CreateAt
      <3> HIDE DEF v
      <3>2. v \in Resource
        BY <1>3 DEF v
      <3> QED
        BY <3>1, <3>2, CommitTyped
    <2> QED
      BY <2>1, <2>2
  <1>5. PICK next \in {"done", "lro"} : pc' = [pc EXCEPT ![h] = next]
    BY DEF CreateAt, Return, Proceed
  <1>6. next \in Sections => OnPath(req[h], next)
    BY <1>2, <1>5 DEF OnPath, Sections
  <1>7. \A g \in Handlers : Serving(g)'
    <2>1. next \in {"done"} \cup Sections /\ UNCHANGED req
      BY DEF CreateAt, Sections
    <2> QED
      BY <1>1, <1>5, <1>6, <2>1, StepServing
  <1> QED
    BY <1>4, <1>7 DEF TypeInv

LEMMA UpdateTyped ==
    ASSUME TypeInv, NEW h \in Handlers, Update(h)
    PROVE  TypeInv'
  <1>1. pc[h] = "update" /\ pc[h] \in Sections
    BY DEF Update, Sections
  <1>2. /\ req[h] \in Request /\ req[h].kind \in Kinds
        /\ Current(h) \in {None} \cup Resource
        /\ OnPath(req[h], pc[h])
    BY <1>1, WorkingRequest
  <1>3. Current(h) # None =>
            /\ PartlyUpdated(req[h], Current(h)) \in Resource
            /\ Updated(req[h], Current(h)) \in Resource
    BY <1>2, UpdatedTyped DEF TypeInv, TypeOK
  <1>4. TypeOK'
    <2> DEFINE cur == Current(h)
    <2>1. CASE cur = None
      <3>1. UNCHANGED <<store, ops, fresh, req, accepted, committed, wrote, removed>>
        BY <2>1 DEF Update
      <3>2. CASE Proceed(h, "upsert", None) /\ UNCHANGED reply
        BY <3>1, <3>2 DEF Proceed, TypeInv, TypeOK, Sections
      <3>3. CASE Return(h, "NotFound", None) /\ UNCHANGED found
        <4>1. "NotFound" \in Codes
          BY DEF Codes
        <4> QED
          BY <3>1, <3>3, <4>1, ReturnTyped DEF TypeInv, TypeOK
      <3> QED
        BY <2>1, <3>2, <3>3 DEF Update
    <2>2. CASE cur # None /\ StoppedByMask(req[h].kind, req[h].mask)
      <3>1. /\ Commit(h, PartlyUpdated(req[h], cur))
            /\ Return(h, "InvalidArgument", None)
            /\ UNCHANGED <<ops, fresh, req, found, accepted, removed>>
        BY <2>2 DEF Update
      <3> QED
        BY <1>3, <2>2, <3>1, CommitTyped
    <2>3. CASE cur # None /\ ~StoppedByMask(req[h].kind, req[h].mask)
      <3>1. /\ Commit(h, Updated(req[h], cur))
            /\ Proceed(h, "lro", Updated(req[h], cur))
            /\ fresh' = fresh + 1
            /\ UNCHANGED <<ops, req, reply, accepted, removed>>
        BY <2>3 DEF Update, Answer
      <3> QED
        BY <1>3, <2>3, <3>1, CommitTyped
    <2> QED
      BY <2>1, <2>2, <2>3
  <1>5. PICK next \in {"done", "upsert", "lro"} : pc' = [pc EXCEPT ![h] = next]
    BY DEF Update, Return, Proceed
  <1>6. next \in Sections => OnPath(req[h], next)
    BY <1>1, <1>2, <1>5 DEF OnPath, Sections
  <1>7. \A g \in Handlers : Serving(g)'
    <2>1. next \in {"done"} \cup Sections /\ UNCHANGED req
      BY DEF Update, Sections
    <2> QED
      BY <1>1, <1>5, <1>6, <2>1, StepServing
  <1> QED
    BY <1>4, <1>7 DEF TypeInv

LEMMA RemoveTyped ==
    ASSUME TypeInv, NEW h \in Handlers, Remove(h)
    PROVE  TypeInv'
  <1>1. pc[h] = "remove" /\ pc[h] \in Sections
    BY DEF Remove, Sections
  <1>2. /\ Current(h) \in {None} \cup Resource
        /\ OnPath(req[h], pc[h])
    BY <1>1, WorkingRequest
  <1>3. TypeOK'
    <2>1. reply' \in [Handlers -> Reply]
      <3>1. "NotFound" \in Codes /\ (Return(h, "NotFound", None) \/ UNCHANGED reply)
        BY DEF Remove, Codes
      <3> QED
        BY <3>1, ReturnTyped DEF TypeInv, TypeOK
    <2>2. store' \in [Kinds -> [Names -> {None} \cup Resource]]
      <3> DEFINE emptied(k) == [store[k] EXCEPT ![req[h].name] = None]
      <3>1. store \in [Kinds -> [Names -> {None} \cup Resource]]
        BY DEF TypeInv, TypeOK
      <3>2. store' = store \/ store' = [store EXCEPT ![req[h].kind] = emptied(req[h].kind)]
        BY DEF Remove
      <3>3. \A k \in Kinds : emptied(k) \in [Names -> {None} \cup Resource]
        BY <3>1
      <3> HIDE DEF emptied
      <3> QED
        BY <3>1, <3>2, <3>3
    <2>3. pc' \in [Handlers -> {"idle", "done"} \cup Sections]
      BY DEF Remove, Return, TypeInv, TypeOK, Sections
    <2>4. wrote' \in [Handlers -> BOOLEAN]
      BY DEF Remove, TypeInv, TypeOK
    <2>5. removed' \in [Handlers -> {None} \cup Resource]
      BY <1>2 DEF Remove, TypeInv, TypeOK
    <2> QED
      BY <2>1, <2>2, <2>3, <2>4, <2>5 DEF Remove, TypeInv, TypeOK
  <1>4. PICK next \in {"done", "lro"} : pc' = [pc EXCEPT ![h] = next]
    BY DEF Remove, Return
  <1>5. next \in Sections => OnPath(req[h], next)
    BY <1>1, <1>2, <1>4 DEF OnPath, Sections
  <1>6. \A g \in Handlers : Serving(g)'
    <2>1. next \in {"done"} \cup Sections /\ UNCHANGED req
      BY DEF Remove, Sections
    <2> QED
      BY <1>1, <1>4, <1>5, <2>1, StepServing
  <1> QED
    BY <1>3, <1>6 DEF TypeInv

LEMMA CreateDoneTyped ==
    ASSUME TypeInv, NEW h \in Handlers, CreateDone(h)
    PROVE  TypeInv'
  <1>1. pc[h] = "lro" /\ pc[h] \in Sections
    BY DEF CreateDone, Sections
  <1>2. req[h] \in Request /\ req[h].name \in Names /\ req[h].verb # "get"
    BY <1>1, WorkingRequest DEF OnPath
  <1> DEFINE op == [id |-> fresh, verb |-> req[h].verb, kind |-> req[h].kind,
                    target |-> req[h].name, response |-> found[h]]
  <1>3. op \in Operation
    BY <1>2 DEF Operation, Request, TypeInv, TypeOK
  <1>4. /\ ops' = ops \cup {op}
        /\ reply' = [reply EXCEPT ![h] = [code |-> "OK", res |-> None, op |-> op]]
        /\ fresh' = fresh + 1
        /\ pc' = [pc EXCEPT ![h] = "done"]
        /\ UNCHANGED <<store, req, found, accepted, committed, wrote, removed>>
    BY DEF CreateDone
  <1> HIDE DEF op
  <1>5. TypeOK'
    <2>1. reply' \in [Handlers -> Reply]
      BY <1>3, <1>4, ReplyTyped DEF TypeInv, TypeOK
    <2>2. \A o \in ops' : o \in Operation
      BY <1>3, <1>4 DEF TypeInv, TypeOK
    <2> QED
      BY <1>4, <2>1, <2>2 DEF TypeInv, TypeOK
  <1>6. \A g \in Handlers : Serving(g)'
    BY <1>1, <1>4, StepServing DEF Sections
  <1> QED
    BY <1>5, <1>6 DEF TypeInv

\* Every step of a handler is one of the storage and LRO methods.
LEMMA ServeIsStep ==
    ASSUME NEW h \in Handlers, Serve(h)
    PROVE  Step(h)
  BY DEF Serve, Step, TriggerRPC, ChannelRPC, ChannelConnectionRPC, MessageBusRPC,
         EnrollmentRPC, PipelineRPC, GoogleApiSourceRPC

\* What an RPC may start with: the section of its verb, or an answer at once.
LEMMA FirstSectionOnPath ==
    ASSUME NEW r \in Requests
    PROVE  /\ FirstSection(r) \in Sections
           /\ OnPath(r, FirstSection(r))
           /\ Synthetic(r) \in {None} \cup Resource
           /\ CheckPermission(r) \subseteq Codes
  <1>1. r \in Request
    BY RequestsAssumption
  <1>2. FirstSection(r) \in Sections /\ OnPath(r, FirstSection(r))
    BY <1>1 DEF FirstSection, Sections, OnPath, Request
  <1>3. Synthetic(r) \in {None} \cup Resource
    BY <1>1 DEF Synthetic, Request, Resource
  <1>4. CheckPermission(r) \subseteq Codes
    BY DEF CheckPermission, Codes
  <1> QED
    BY <1>2, <1>3, <1>4

LEMMA TypeInvStep ==
    ASSUME TypeInv, [Next]_vars
    PROVE  TypeInv'
  <1>1. ASSUME NEW h \in Handlers, Reject(h) \/ Deny(h) \/ Admit(h)
        PROVE  TypeInv'
    <2>1. PICK r \in Requests :
             \/ \E code \in Codes : Accept(h, r, "done", None, code)
             \/ Accept(h, r, FirstSection(r), Synthetic(r), "")
      BY <1>1, FirstSectionOnPath DEF Reject, Deny, Admit, Codes
    <2>2. "" \in Codes /\ "done" \notin Sections
      BY DEF Codes, Sections
    <2> QED
      BY <2>1, <2>2, FirstSectionOnPath, AcceptTyped
  <1>2. ASSUME NEW h \in Handlers, Serve(h) PROVE TypeInv'
    <2>1. CASE Lookup(h)
      BY <2>1, LookupTyped
    <2>2. CASE Insert(h)
      <3>1. pc[h] \in Sections
        BY <2>2 DEF Insert, Sections
      <3>2. req[h].name \in Names
        BY <3>1, WorkingRequest
      <3> QED
        BY <2>2, <3>2, CreateAtTyped DEF Insert
    <2>3. CASE Update(h)
      BY <2>3, UpdateTyped
    <2>4. CASE Upsert(h)
      <3>1. pc[h] \in Sections
        BY <2>4 DEF Upsert, Sections
      <3>2. UpsertName(req[h].kind, req[h].name) \in Names
        BY <3>1, WorkingRequest
      <3> QED
        BY <2>4, <3>2, CreateAtTyped DEF Upsert
    <2>5. CASE Remove(h)
      BY <2>5, RemoveTyped
    <2>6. CASE CreateDone(h)
      BY <2>6, CreateDoneTyped
    <2> QED
      BY <1>2, <2>1, <2>2, <2>3, <2>4, <2>5, <2>6, ServeIsStep DEF Step
  <1>3. CASE DeleteOperation
    <2>1. TypeOK'
      BY <1>3 DEF DeleteOperation, TypeInv, TypeOK
    <2>2. \A h \in Handlers : Serving(h)'
      BY <1>3 DEF DeleteOperation, TypeInv, Serving
    <2> QED
      BY <2>1, <2>2 DEF TypeInv
  <1>4. CASE UNCHANGED vars
    <2>1. TypeOK'
      BY <1>4 DEF vars, TypeInv, TypeOK
    <2>2. \A h \in Handlers : Serving(h)'
      BY <1>4 DEF vars, TypeInv, Serving
    <2> QED
      BY <2>1, <2>2 DEF TypeInv
  <1> QED
    BY <1>1, <1>2, <1>3, <1>4 DEF Next, Exhausted

\* Every variable keeps its type: whatever the requests, the versions stored
\* and the operations packed are well-formed messages of the kinds and names
\* of the instance, and no handler leaves the path of its verb.
THEOREM TypeCorrect == Spec => []TypeOK
  <1>1. TypeInv /\ [Next]_vars => TypeInv'
    BY TypeInvStep
  <1>2. TypeInv => TypeOK
    BY DEF TypeInv
  <1> QED
    BY <1>1, <1>2, TypeInvInit, PTL DEF Spec
=============================================================================

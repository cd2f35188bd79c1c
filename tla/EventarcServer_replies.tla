----------------------- MODULE EventarcServer_replies -----------------------
(***************************************************************************)
(* What the answers of EventarcServer are worth, for any instance: that a  *)
(* Create or Update answers with the version it stored itself, that an     *)
(* operation names its resource, that a call without a principal sees      *)
(* nothing, that the promises of Delete and of allow_missing hold where    *)
(* no two calls work on the same resource at the same time, and what is    *)
(* left of the guard of a Delete where they do.                            *)
(***************************************************************************)
EXTENDS EventarcServer_safety

\* The step of a handler leaves what the others hold and have answered alone.
LEMMA OthersKeepTheirs ==
    ASSUME TypeInv, NEW h \in Handlers, NEW g \in Handlers, g # h, Serve(h)
    PROVE  /\ pc'[g] = pc[g] /\ reply'[g] = reply[g] /\ found'[g] = found[g]
           /\ wrote'[g] = wrote[g] /\ removed'[g] = removed[g]
           /\ UNCHANGED req
  <1>1. Step(h)
    BY ServeIsStep
  <1>2. /\ pc \in [Handlers -> {"idle", "done"} \cup Sections]
        /\ reply \in [Handlers -> Reply]
        /\ found \in [Handlers -> {None} \cup Resource]
        /\ wrote \in [Handlers -> BOOLEAN]
        /\ removed \in [Handlers -> {None} \cup Resource]
    BY DEF TypeInv, TypeOK
  <1>3. CASE Lookup(h)
    BY <1>2, <1>3 DEF Lookup, Return, Proceed
  <1>4. CASE Insert(h) \/ Upsert(h)
    BY <1>2, <1>4 DEF Insert, Upsert, CreateAt, Commit, Return, Proceed
  <1>5. CASE Update(h)
    BY <1>2, <1>5 DEF Update, Commit, Return, Proceed
  <1>6. CASE Remove(h)
    BY <1>2, <1>6 DEF Remove, Return
  <1>7. CASE CreateDone(h)
    BY <1>2, <1>7 DEF CreateDone
  <1> QED
    BY <1>1, <1>3, <1>4, <1>5, <1>6, <1>7 DEF Step

\* So does a handler that starts on a request.
LEMMA AcceptKeepsOthers ==
    ASSUME TypeInv, NEW h \in Handlers, NEW g \in Handlers, g # h,
           NEW r, NEW next, NEW res, NEW code, Accept(h, r, next, res, code)
    PROVE  /\ pc'[g] = pc[g] /\ reply'[g] = reply[g] /\ found'[g] = found[g]
           /\ wrote'[g] = wrote[g] /\ removed'[g] = removed[g] /\ req'[g] = req[g]
           /\ UNCHANGED <<store, ops, fresh, committed>>
  BY DEF Accept, TypeInv, TypeOK

\* What a handler that has just accepted request r holds of it.
LEMMA AcceptedRequest ==
    ASSUME TypeInv, NEW h \in Handlers, NEW r \in Requests,
           NEW next, NEW res, NEW code, Accept(h, r, next, res, code)
    PROVE  /\ req'[h] # None
           /\ req'[h].verb = r.verb /\ req'[h].kind = r.kind /\ req'[h].name = r.name
           /\ req'[h].validateOnly = r.validateOnly
           /\ req'[h].principal = r.principal
  <1>1. PICK e \in ClientEtags(r) : req' = [req EXCEPT ![h] = [r EXCEPT !.etag = e]]
    BY DEF Accept
  <1>2. e \in Nat
    BY DEF ClientEtags, TypeInv, TypeOK, Resource
  <1>3. r \in Request
    BY RequestsAssumption
  <1>4. [r EXCEPT !.etag = e] \in Request
    BY <1>2, <1>3 DEF Request
  <1>5. req'[h] = [r EXCEPT !.etag = e]
    BY <1>1 DEF TypeInv, TypeOK
  <1>6. req'[h] # None
    BY <1>4, <1>5, NoneAssumption
  <1> QED
    BY <1>3, <1>5, <1>6 DEF Request

-----------------------------------------------------------------------------
(* Calls without a principal.                                              *)

\* Where such a call ends: in the checks before the first storage method.
TurnedAway(h) ==
    IAMMode = "permissive" /\ req[h] # None /\ ~req[h].principal
        => /\ pc[h] = "done"
           /\ ~wrote[h] /\ found[h] = None
           /\ reply[h].code \in {"InvalidArgument", "PermissionDenied"}

AnonymousTurnedAway == \A h \in Handlers : TurnedAway(h)

LEMMA TurnedAwayStep ==
    ASSUME TypeInv, AnonymousTurnedAway, [Next]_vars
    PROVE  AnonymousTurnedAway'
  <1> SUFFICES ASSUME NEW g \in Handlers PROVE TurnedAway(g)'
    BY DEF AnonymousTurnedAway
  <1> USE DEF AnonymousTurnedAway
  <1>1. ASSUME NEW h \in Handlers, Reject(h) \/ Deny(h) \/ Admit(h)
        PROVE  TurnedAway(g)'
    <2>1. PICK r \in Requests :
             \/ Accept(h, r, "done", None, "InvalidArgument")
             \/ \E code \in CheckPermission(r) \ {"OK"} : Accept(h, r, "done", None, code)
             \/ /\ "OK" \in CheckPermission(r)
                /\ Accept(h, r, FirstSection(r), Synthetic(r), "")
      BY <1>1 DEF Reject, Deny, Admit
    <2>2. CASE g # h
      <3>1. /\ pc'[g] = pc[g] /\ reply'[g] = reply[g] /\ found'[g] = found[g]
            /\ wrote'[g] = wrote[g] /\ req'[g] = req[g]
        BY <2>1, <2>2, AcceptKeepsOthers
      <3> QED
        BY <3>1 DEF TurnedAway
    <2>3. CASE g = h /\ IAMMode = "permissive" /\ ~r.principal
      <3>1. CheckPermission(r) = {"PermissionDenied"}
        BY <2>3 DEF CheckPermission
      <3>2. PICK c \in {"InvalidArgument", "PermissionDenied"} :
                Accept(h, r, "done", None, c)
        BY <2>1, <3>1
      <3>3. /\ pc'[h] = "done" /\ found'[h] = None /\ wrote'[h] = FALSE
            /\ reply'[h].code = c
        BY <3>2 DEF Accept, NoReply, TypeInv, TypeOK
      <3> QED
        BY <2>3, <3>3 DEF TurnedAway
    <2>4. CASE g = h /\ ~(IAMMode = "permissive" /\ ~r.principal)
      <3>1. req'[h].principal = r.principal
        BY <2>1, AcceptedRequest
      <3> QED
        BY <2>4, <3>1 DEF TurnedAway
    <2> QED
      BY <2>2, <2>3, <2>4
  <1>2. ASSUME NEW h \in Handlers, Serve(h) PROVE TurnedAway(g)'
    <2>1. pc[h] \in Sections /\ pc[h] # "done"
      BY <1>2, ServeIsStep DEF Step, Lookup, Insert, Update, Upsert, Remove, CreateDone,
                               Sections
    <2>2. UNCHANGED req
      BY <1>2, ServeIsStep DEF Step, Lookup, Insert, Update, Upsert, CreateAt, Remove,
                               CreateDone
    <2>3. CASE g = h
      BY <2>1, <2>2, <2>3 DEF TurnedAway
    <2>4. CASE g # h
      BY <1>2, <2>4, OthersKeepTheirs DEF TurnedAway
    <2> QED
      BY <2>3, <2>4
  <1>3. CASE DeleteOperation \/ UNCHANGED vars
    <2>1. UNCHANGED <<pc, req, wrote, found, reply>>
      BY <1>3 DEF DeleteOperation, vars
    <2> QED
      BY <2>1 DEF TurnedAway
  <1> QED
    BY <1>1, <1>2, <1>3 DEF Next, Exhausted

\* IAM_MODE=permissive: checkPermission lets no call without a principal through,
\* so it reads nothing, writes nothing and learns nothing, whatever runs beside.
THEOREM AnonymousCallsSeeNothing == Spec => []NoPrincipalNoAccess
  <1>1. Init => AnonymousTurnedAway
    BY DEF Init, AnonymousTurnedAway, TurnedAway
  <1>2. AnonymousTurnedAway => NoPrincipalNoAccess
    BY DEF AnonymousTurnedAway, TurnedAway, NoPrincipalNoAccess
  <1> QED
    BY <1>1, <1>2, TurnedAwayStep, TypeInvInit, TypeInvStep, PTL DEF Spec

-----------------------------------------------------------------------------
(* What a call answers with.                                               *)

\* The upsert of an update stores under the name the client gave.
UpsertsStayPut ==
    \A r \in Requests : r.verb = "update" /\ r.allowMissing => UpsertName(r.kind, r.name) = r.name

\* A Create or Update that has stored its version, and the version it is going
\* to answer or has answered with.
Writing(h) ==
    /\ req[h].verb \in {"create", "update"} /\ ~req[h].validateOnly
    /\ pc[h] = "lro" \/ Succeeded(h)
Answering(h) == IF pc[h] = "lro" THEN found[h] ELSE reply[h].op.response

AnswersOwnVersion(h) ==
    Writing(h) => Answering(h) \in committed /\ Answering(h).kind = req[h].kind

AnswersDiffer(h, g) ==
    Writing(h) /\ Writing(g) /\ req[h].kind \in Etagged
        => Answering(h).etag # Answering(g).etag

\* What a handler takes to CreateDone has the name the client gave.
HoldsNamedResource(h) ==
    /\ pc[h] = "upsert" => req[h].allowMissing
    /\ UpsertsStayPut =>
          (pc[h] \in {"remove", "lro"} /\ found[h] # None => found[h].name = req[h].name)

AnswerInv ==
    /\ \A h \in Handlers : AnswersOwnVersion(h) /\ HoldsNamedResource(h)
    /\ \A h, g \in Handlers : h # g => AnswersDiffer(h, g)
    /\ UpsertsStayPut => LroTargetNamesResource

\* How a storage method leaves its handler: with an error, with the answer of a
\* Get, or with something in hand for the next section.
Leaves(h) ==
    \/ pc'[h] = "done" /\ reply'[h].code # "OK"
    \/ pc'[h] = "done" /\ req[h].verb = "get"
    \/ /\ pc'[h] \in {"upsert", "remove", "lro"}
       /\ pc'[h] = "upsert" => req[h].allowMissing
       /\ UpsertsStayPut =>
             (pc'[h] \in {"remove", "lro"} /\ found'[h] # None => found'[h].name = req[h].name)
       /\ (/\ pc'[h] = "lro"
           /\ req[h].verb \in {"create", "update"} /\ ~req[h].validateOnly)
          => /\ found'[h] \in committed'
             /\ found'[h].kind = req[h].kind
             /\ found'[h].etag = NewEtag(req[h].kind)

LEMMA LookupLeaves ==
    ASSUME TypeInv, HistoryInv, NEW h \in Handlers, Lookup(h)
    PROVE  Leaves(h)
  <1>1. pc[h] = "lookup" /\ pc[h] \in Sections
    BY DEF Lookup, Sections
  <1>2. /\ req[h].kind \in Kinds /\ req[h].name \in Names
        /\ req[h].verb \in {"get", "delete"} \/ req[h].validateOnly
    BY <1>1, WorkingRequest DEF OnPath
  <1>3. Current(h) # None => Current(h).name = req[h].name
    BY <1>2 DEF Current, HistoryInv, StoreIsCommitted
  <1>4. /\ pc \in [Handlers -> {"idle", "done"} \cup Sections]
        /\ reply \in [Handlers -> Reply]
        /\ found \in [Handlers -> {None} \cup Resource]
    BY DEF TypeInv, TypeOK
  <1>5. \/ pc'[h] = "done" /\ reply'[h].code # "OK"
        \/ pc'[h] = "done" /\ req[h].verb = "get"
        \/ pc'[h] \in {"remove", "lro"} /\ found'[h] \in {None, Current(h)}
    BY <1>4 DEF Lookup, Return, Proceed
  <1> QED
    BY <1>2, <1>3, <1>5 DEF Leaves

LEMMA CreateAtLeaves ==
    ASSUME TypeInv, HistoryInv, NEW h \in Handlers, NEW n \in Names, CreateAt(h, n),
           UpsertsStayPut => n = req[h].name
    PROVE  Leaves(h)
  <1>1. /\ pc \in [Handlers -> {"idle", "done"} \cup Sections]
        /\ reply \in [Handlers -> Reply]
        /\ found \in [Handlers -> {None} \cup Resource]
    BY DEF TypeInv, TypeOK
  <1>2. CASE Taken(req[h].kind, n)
    BY <1>1, <1>2 DEF CreateAt, Return, Leaves
  <1>3. CASE ~Taken(req[h].kind, n)
    <2> DEFINE v == Created(req[h], n)
    <2>1. v.kind = req[h].kind /\ v.name = n /\ v.etag = NewEtag(req[h].kind)
      BY DEF Created
    <2>2. pc'[h] = "lro" /\ found'[h] = v /\ v \in committed'
      BY <1>1, <1>3 DEF CreateAt, Proceed, Commit
    <2> HIDE DEF v
    <2> QED
      BY <2>1, <2>2 DEF Leaves
  <1> QED
    BY <1>2, <1>3

LEMMA UpdateLeaves ==
    ASSUME TypeInv, HistoryInv, NEW h \in Handlers, Update(h)
    PROVE  Leaves(h)
  <1> DEFINE cur == Current(h)
             v == Updated(req[h], cur)
  <1>1. pc[h] = "update" /\ pc[h] \in Sections
    BY DEF Update, Sections
  <1>2. /\ req[h] \in Request /\ req[h].kind \in Kinds /\ req[h].name \in Names
        /\ cur \in {None} \cup Resource
    BY <1>1, WorkingRequest
  <1>3. cur # None => cur \in Resource /\ cur.name = req[h].name /\ cur.kind = req[h].kind
    BY <1>2 DEF Current, HistoryInv, StoreIsCommitted
  <1>4. /\ pc \in [Handlers -> {"idle", "done"} \cup Sections]
        /\ reply \in [Handlers -> Reply]
        /\ found \in [Handlers -> {None} \cup Resource]
    BY DEF TypeInv, TypeOK
  <1>5. CASE cur = None \/ StoppedByMask(req[h].kind, req[h].mask)
    BY <1>4, <1>5 DEF Update, Return, Proceed, Leaves
  <1>6. CASE cur # None /\ ~StoppedByMask(req[h].kind, req[h].mask)
    <2>1. v.kind = req[h].kind /\ v.name = req[h].name /\ v.etag = NewEtag(req[h].kind)
      BY <1>2, <1>3, <1>6, UpdatedTyped DEF TypeInv, TypeOK, Updated, PartlyUpdated, Resource
    <2>2. pc'[h] = "lro" /\ found'[h] = v /\ v \in committed'
      BY <1>4, <1>6 DEF Update, Proceed, Commit, Answer
    <2> HIDE DEF v
    <2> QED
      BY <2>1, <2>2 DEF Leaves
  <1> QED
    BY <1>5, <1>6

LEMMA RemoveLeaves ==
    ASSUME TypeInv, AnswerInv, NEW h \in Handlers, Remove(h)
    PROVE  Leaves(h)
  <1>1. pc[h] = "remove" /\ pc[h] \in Sections
    BY DEF Remove, Sections
  <1>2. req[h].verb = "delete"
    BY <1>1, WorkingRequest DEF OnPath
  <1>3. UpsertsStayPut => (found[h] # None => found[h].name = req[h].name)
    BY <1>1 DEF AnswerInv, HoldsNamedResource
  <1>4. /\ found' = found
        /\ \/ pc'[h] = "lro"
           \/ pc'[h] = "done" /\ reply'[h].code # "OK"
    BY DEF Remove, Return, TypeInv, TypeOK
  <1> QED
    BY <1>2, <1>3, <1>4 DEF Leaves

\* An upsert is one the client has allowed, so it stays put where upserts do.
LEMMA UpsertKey ==
    ASSUME TypeInv, AnswerInv, UpsertsStayPut, NEW h \in Handlers, pc[h] = "upsert"
    PROVE  UpsertName(req[h].kind, req[h].name) = req[h].name
  <1>1. FromClient(req[h]) /\ req[h].verb = "update" /\ req[h].allowMissing
    BY DEF TypeInv, Serving, OnPath, AnswerInv, HoldsNamedResource, Sections
  <1>2. PICK r \in Requests, e \in Nat : req[h] = [r EXCEPT !.etag = e]
    BY <1>1 DEF FromClient
  <1>3. /\ r.verb = req[h].verb /\ r.allowMissing = req[h].allowMissing
        /\ r.kind = req[h].kind /\ r.name = req[h].name
    BY <1>2, RequestsAssumption DEF Request
  <1> QED
    BY <1>1, <1>3 DEF UpsertsStayPut

LEMMA ServeLeaves ==
    ASSUME TypeInv, HistoryInv, AnswerInv, NEW h \in Handlers, Serve(h)
    PROVE  /\ Leaves(h) /\ ops' = ops
           \/ CreateDone(h)
  <1>1. CASE Lookup(h)
    BY <1>1, LookupLeaves DEF Lookup
  <1>2. CASE Insert(h)
    <2>1. pc[h] \in Sections
      BY <1>2 DEF Insert, Sections
    <2> QED
      BY <1>2, <2>1, WorkingRequest, CreateAtLeaves DEF Insert, CreateAt
  <1>3. CASE Update(h)
    BY <1>3, UpdateLeaves DEF Update
  <1>4. CASE Upsert(h)
    <2>1. pc[h] = "upsert" /\ pc[h] \in Sections
      BY <1>4 DEF Upsert, Sections
    <2>2. UpsertsStayPut => UpsertName(req[h].kind, req[h].name) = req[h].name
      BY <2>1, UpsertKey
    <2> QED
      BY <1>4, <2>1, <2>2, WorkingRequest, CreateAtLeaves DEF Upsert, CreateAt
  <1>5. CASE Remove(h)
    BY <1>5, RemoveLeaves DEF Remove
  <1> QED
    BY <1>1, <1>2, <1>3, <1>4, <1>5, ServeIsStep DEF Step

\* A version answered with stays committed, and was numbered before fresh.
LEMMA AnswerNumbered ==
    ASSUME TypeInv, HistoryInv, AnswerInv, NEW g \in Handlers, Writing(g)
    PROVE  /\ Answering(g) \in committed /\ Answering(g).kind = req[g].kind
           /\ \A k \in Etagged : Answering(g).etag # NewEtag(k)
  <1>1. Answering(g) \in committed /\ Answering(g).kind = req[g].kind
    BY DEF AnswerInv, AnswersOwnVersion
  <1>2. fresh \in Nat /\ fresh > 0
    BY DEF TypeInv, TypeOK
  <1> QED
    BY <1>1, <1>2 DEF HistoryInv, TokensIssued, NewEtag

LEMMA AnswerInvServe ==
    ASSUME TypeInv, HistoryInv, AnswerInv, NEW h \in Handlers, Serve(h)
    PROVE  AnswerInv'
  <1>1. UNCHANGED req /\ committed \subseteq committed'
    BY ServeIsStep DEF Step, Lookup, Insert, Update, Upsert, CreateAt, Remove, CreateDone,
                       Commit
  <1>2. \A g \in Handlers : g # h =>
           /\ pc'[g] = pc[g] /\ reply'[g] = reply[g] /\ found'[g] = found[g]
    BY OthersKeepTheirs
  <1>3. \A g \in Handlers : g # h =>
           /\ Writing(g)' <=> Writing(g)
           /\ Answering(g)' = Answering(g)
           /\ HoldsNamedResource(g)' <=> HoldsNamedResource(g)
    BY <1>1, <1>2 DEF Writing, Answering, Succeeded, Done, HoldsNamedResource
  <1>4. ASSUME Leaves(h), ops' = ops PROVE AnswerInv'
    <2>1. HoldsNamedResource(h)'
      BY <1>1, <1>4 DEF Leaves, HoldsNamedResource
    <2>2. Writing(h)' => /\ Answering(h)' \in committed'
                         /\ Answering(h)'.kind = req[h].kind
                         /\ Answering(h)'.etag = NewEtag(req[h].kind)
      BY <1>1, <1>4 DEF Leaves, Writing, Answering, Succeeded, Done
    <2>3. \A g \in Handlers : AnswersOwnVersion(g)'
      BY <1>1, <1>3, <2>2 DEF AnswersOwnVersion, AnswerInv
    <2>4. \A g \in Handlers : g # h => AnswersDiffer(g, h)' /\ AnswersDiffer(h, g)'
      <3> SUFFICES ASSUME NEW g \in Handlers, g # h, Writing(g)', Writing(h)',
                          req[g].kind \in Etagged \/ req[h].kind \in Etagged
                   PROVE  Answering(g)'.etag # Answering(h)'.etag
        BY <1>1 DEF AnswersDiffer
      <3>1. /\ Writing(g) /\ Answering(g)' = Answering(g)
        BY <1>3
      <3>2. /\ Answering(g) \in committed /\ Answering(g).kind = req[g].kind
            /\ \A k \in Etagged : Answering(g).etag # NewEtag(k)
        BY <3>1, AnswerNumbered
      <3>3. CASE req[h].kind \in Etagged
        BY <2>2, <3>1, <3>2, <3>3
      <3>4. CASE req[h].kind \notin Etagged
        BY <2>2, <3>1, <3>2, <3>4 DEF NewEtag, HistoryInv, TokensIssued
      <3> QED
        BY <3>3, <3>4
    <2>5. \A g, f \in Handlers : g # f => AnswersDiffer(g, f)'
      <3>1. \A g, f \in Handlers : g # f /\ g # h /\ f # h => AnswersDiffer(g, f)'
        BY <1>1, <1>3 DEF AnswerInv, AnswersDiffer
      <3> QED
        BY <2>4, <3>1
    <2>6. UpsertsStayPut => LroTargetNamesResource'
      BY <1>4 DEF AnswerInv, LroTargetNamesResource
    <2> QED
      BY <1>3, <2>1, <2>3, <2>5, <2>6 DEF AnswerInv
  <1>5. ASSUME CreateDone(h) PROVE AnswerInv'
    <2> DEFINE op == [id |-> fresh, verb |-> req[h].verb, kind |-> req[h].kind,
                      target |-> req[h].name, response |-> found[h]]
    <2>1. /\ pc[h] = "lro" /\ pc'[h] = "done" /\ ops' = ops \cup {op}
          /\ reply'[h].op = op /\ UNCHANGED <<found, committed>>
      BY <1>5 DEF CreateDone, TypeInv, TypeOK
    <2>2. op.target = req[h].name /\ op.response = found[h]
      OBVIOUS
    <2> HIDE DEF op
    <2>3. /\ Answering(h)' = Answering(h)
          /\ Writing(h)' => Writing(h)
      BY <1>1, <2>1, <2>2 DEF Answering, Writing
    <2>4. HoldsNamedResource(h)'
      BY <2>1 DEF HoldsNamedResource
    <2>5. \A g \in Handlers : AnswersOwnVersion(g)' /\ HoldsNamedResource(g)'
      BY <1>1, <1>3, <2>1, <2>3, <2>4 DEF AnswersOwnVersion, AnswerInv
    <2>6. \A g, f \in Handlers : g # f => AnswersDiffer(g, f)'
      BY <1>1, <1>3, <2>3 DEF AnswersDiffer, AnswerInv
    <2>7. UpsertsStayPut => LroTargetNamesResource'
      BY <2>1, <2>2 DEF AnswerInv, HoldsNamedResource, LroTargetNamesResource
    <2> QED
      BY <2>5, <2>6, <2>7 DEF AnswerInv
  <1> QED
    BY <1>4, <1>5, ServeLeaves

LEMMA AnswerInvAccept ==
    ASSUME TypeInv, AnswerInv, NEW h \in Handlers, Reject(h) \/ Deny(h) \/ Admit(h)
    PROVE  AnswerInv'
  <1>1. PICK r \in Requests :
           \/ \E code \in {"InvalidArgument"} \cup (CheckPermission(r) \ {"OK"}) :
                 Accept(h, r, "done", None, code)
           \/ Accept(h, r, FirstSection(r), Synthetic(r), "")
    BY DEF Reject, Deny, Admit
  <1>2. \A g \in Handlers : g # h =>
           /\ pc'[g] = pc[g] /\ reply'[g] = reply[g] /\ found'[g] = found[g]
           /\ req'[g] = req[g]
    BY <1>1, AcceptKeepsOthers
  <1>3. UNCHANGED <<ops, committed>>
    BY <1>1 DEF Accept
  <1>4. /\ req'[h].verb = r.verb /\ req'[h].name = r.name
        /\ req'[h].validateOnly = r.validateOnly
    BY <1>1, AcceptedRequest
  <1>5. \/ pc'[h] = "done" /\ reply'[h].code # "OK"
        \/ pc'[h] = FirstSection(r) /\ found'[h] = Synthetic(r)
    <2>1. /\ pc \in [Handlers -> {"idle", "done"} \cup Sections]
          /\ reply \in [Handlers -> Reply]
          /\ found \in [Handlers -> {None} \cup Resource]
      BY DEF TypeInv, TypeOK
    <2>2. ASSUME NEW code \in {"InvalidArgument"} \cup (CheckPermission(r) \ {"OK"}),
                 Accept(h, r, "done", None, code)
          PROVE  pc'[h] = "done" /\ reply'[h].code # "OK"
      BY <2>1, <2>2 DEF Accept, NoReply
    <2>3. ASSUME Accept(h, r, FirstSection(r), Synthetic(r), "")
          PROVE  pc'[h] = FirstSection(r) /\ found'[h] = Synthetic(r)
      BY <2>1, <2>3 DEF Accept
    <2> QED
      BY <1>1, <2>2, <2>3
  <1>6. ~Writing(h)' /\ HoldsNamedResource(h)'
    <2>1. FirstSection(r) \in {"lro", "insert", "update", "lookup"}
      BY DEF FirstSection
    <2>2. FirstSection(r) = "lro" => r.validateOnly
      BY DEF FirstSection
    <2>3. Synthetic(r) # None => Synthetic(r).name = r.name
      BY DEF Synthetic
    <2> QED
      BY <1>4, <1>5, <2>1, <2>2, <2>3 DEF Writing, HoldsNamedResource, Succeeded, Done
  <1>7. \A g \in Handlers : g # h =>
           /\ Writing(g)' <=> Writing(g)
           /\ Answering(g)' = Answering(g)
           /\ HoldsNamedResource(g)' <=> HoldsNamedResource(g)
    BY <1>2 DEF Writing, Answering, Succeeded, Done, HoldsNamedResource
  <1>8. \A g \in Handlers : AnswersOwnVersion(g)' /\ HoldsNamedResource(g)'
    BY <1>2, <1>3, <1>6, <1>7 DEF AnswersOwnVersion, AnswerInv
  <1>9. \A g, f \in Handlers : g # f => AnswersDiffer(g, f)'
    BY <1>2, <1>6, <1>7 DEF AnswersDiffer, AnswerInv
  <1> QED
    BY <1>3, <1>8, <1>9 DEF AnswerInv, LroTargetNamesResource

LEMMA AnswerInvStep ==
    ASSUME TypeInv, HistoryInv, AnswerInv, [Next]_vars
    PROVE  AnswerInv'
  <1>1. ASSUME NEW h \in Handlers, Reject(h) \/ Deny(h) \/ Admit(h) PROVE AnswerInv'
    BY <1>1, AnswerInvAccept
  <1>2. ASSUME NEW h \in Handlers, Serve(h) PROVE AnswerInv'
    BY <1>2, AnswerInvServe
  <1>3. CASE DeleteOperation \/ UNCHANGED vars
    <2>1. UNCHANGED <<pc, req, found, reply, committed>> /\ ops' \subseteq ops
      BY <1>3 DEF DeleteOperation, vars
    <2> QED
      BY <2>1 DEF AnswerInv, AnswersOwnVersion, AnswersDiffer, HoldsNamedResource, Writing,
                  Answering, Succeeded, Done, LroTargetNamesResource
  <1> QED
    BY <1>1, <1>2, <1>3 DEF Next, Exhausted

LEMMA AnswersCorrect == Spec => []AnswerInv
  <1>1. Init => AnswerInv
    BY DEF Init, AnswerInv, AnswersOwnVersion, AnswersDiffer, HoldsNamedResource, Writing,
           Succeeded, Done, LroTargetNamesResource
  <1> QED
    BY <1>1, AnswerInvStep, HistoryCorrect, PTL DEF Spec

\* A Create or Update, however many run, answers with the version that it has
\* stored itself, and no two of them with the same one.
THEOREM WritersAnswerTheirOwn == Spec => []WritersReportTheirOwnVersion
  <1>1. AnswerInv => WritersReportTheirOwnVersion
    BY DEF AnswerInv, AnswersOwnVersion, AnswersDiffer, WritersReportTheirOwnVersion,
           WroteVersion, Writing, Answering, Succeeded, Done
  <1> QED
    BY <1>1, AnswersCorrect, PTL

\* An operation that has a resource for its response names it as its target, if
\* an upsert stores under the name the client gave.
THEOREM OperationsNameTheirResource ==
    ASSUME UpsertsStayPut
    PROVE  Spec => []LroTargetNamesResource
  <1>1. AnswerInv => LroTargetNamesResource
    BY DEF AnswerInv
  <1> QED
    BY <1>1, AnswersCorrect, PTL

-----------------------------------------------------------------------------
(* Calls that do not overlap on a resource.                                *)

\* The names a call reads or writes, within its kind.
Targets(h) == {req[h].name, UpsertName(req[h].kind, req[h].name)}

\* No other call in progress is about a resource that the call of h is about.
ApartFrom(h) ==
    \A g \in Handlers :
        g # h /\ pc[g] \in Sections /\ pc[h] \in Sections /\ req[g].kind = req[h].kind
            => Targets(g) \cap Targets(h) = {}

\* No two calls in progress are about the same resource.
Apart == \A h \in Handlers : ApartFrom(h)

\* What a handler has seen is still so when it acts on it.
Undisturbed(h) ==
    /\ pc[h] = "remove" =>
          Present(h) /\ found[h] = Current(h) /\ EtagMatches(req[h], found[h])
    /\ UpsertsStayPut /\ pc[h] = "upsert" => ~Present(h)
    /\ removed[h] # None =>
          /\ EtagMatches(req[h], removed[h])
          /\ pc[h] = "lro" => found[h] = removed[h]
          /\ Succeeded(h) => reply[h].op.response = removed[h]
    /\ Done(h) /\ req[h].verb = "delete" /\ req[h].allowMissing /\ ~req[h].validateOnly
          => reply[h].code # "NotFound"
    /\ UpsertsStayPut /\ Done(h) /\ req[h].verb = "update"
          => reply[h].code # "AlreadyExists"

NothingDisturbed == \A h \in Handlers : Undisturbed(h)

\* A storage method touches nothing but the targets of its call.
LEMMA ServeTouchesTargets ==
    ASSUME TypeInv, HistoryInv, NEW g \in Handlers, Serve(g),
           NEW k \in Kinds, NEW n \in Names, k = req[g].kind => n \notin Targets(g)
    PROVE  store'[k][n] = store[k][n]
  <1>1. pc[g] \in Sections
    BY ServeIsStep DEF Step, Lookup, Insert, Update, Upsert, Remove, CreateDone, Sections
  <1>2. /\ req[g] \in Request /\ req[g].kind \in Kinds /\ req[g].name \in Names
        /\ UpsertName(req[g].kind, req[g].name) \in Names
        /\ Current(g) \in {None} \cup Resource
    BY <1>1, WorkingRequest
  <1>3. CASE Lookup(g) \/ CreateDone(g)
    BY <1>3 DEF Lookup, CreateDone
  <1>4. ASSUME NEW v, v.kind = req[g].kind, v.name \in Targets(g), Commit(g, v)
        PROVE  store'[k][n] = store[k][n]
    BY <1>2, <1>4 DEF Commit, Targets, TypeInv, TypeOK
  <1>5. ASSUME NEW m \in Targets(g), CreateAt(g, m)
        PROVE  store'[k][n] = store[k][n]
    <2>1. Created(req[g], m).kind = req[g].kind /\ Created(req[g], m).name = m
      BY DEF Created
    <2> QED
      BY <1>4, <1>5, <2>1 DEF CreateAt
  <1>6. CASE Insert(g) \/ Upsert(g)
    BY <1>5, <1>6 DEF Insert, Upsert, Targets
  <1>7. CASE Update(g)
    <2> DEFINE cur == Current(g)
    <2>1. CASE cur = None
      BY <1>7, <2>1 DEF Update
    <2>2. CASE cur # None
      <3>1. cur \in Resource /\ cur.kind = req[g].kind /\ cur.name = req[g].name
        BY <1>2, <2>2 DEF Current, HistoryInv, StoreIsCommitted
      <3>2. \A v \in {PartlyUpdated(req[g], cur), Updated(req[g], cur)} :
               v.kind = req[g].kind /\ v.name \in Targets(g)
        BY <1>2, <3>1, UpdatedTyped
        DEF TypeInv, TypeOK, Updated, PartlyUpdated, Resource, Targets
      <3>3. Commit(g, PartlyUpdated(req[g], cur)) \/ Commit(g, Updated(req[g], cur))
        BY <1>7, <2>2 DEF Update
      <3> QED
        BY <1>4, <3>2, <3>3
    <2> QED
      BY <2>1, <2>2
  <1>8. CASE Remove(g)
    BY <1>2, <1>8 DEF Remove, Targets, TypeInv, TypeOK
  <1> QED
    BY <1>3, <1>6, <1>7, <1>8, ServeIsStep DEF Step

\* So a call in progress does not disturb another one.
LEMMA ApartKeepsOthers ==
    ASSUME TypeInv, HistoryInv,
           NEW g \in Handlers, Serve(g), NEW h \in Handlers, h # g,
           ApartFrom(h), Undisturbed(h)
    PROVE  Undisturbed(h)'
  <1>1. pc[g] \in Sections
    BY ServeIsStep DEF Step, Lookup, Insert, Update, Upsert, Remove, CreateDone, Sections
  <1>2. /\ pc'[h] = pc[h] /\ reply'[h] = reply[h] /\ found'[h] = found[h]
        /\ removed'[h] = removed[h] /\ req' = req
    BY OthersKeepTheirs
  <1>3. ASSUME pc[h] \in Sections PROVE Current(h)' = Current(h)
    <2>1. req[h].kind \in Kinds /\ req[h].name \in Names
      BY <1>3, WorkingRequest
    <2>2. req[h].kind = req[g].kind => req[h].name \notin Targets(g)
      BY <1>1, <1>3 DEF ApartFrom, Targets
    <2> QED
      BY <1>2, <2>1, <2>2, ServeTouchesTargets DEF Current
  <1> QED
    BY <1>2, <1>3
    DEF Undisturbed, Present, Succeeded, Done, Sections, EtagMatches

LEMMA OwnStepUndisturbed ==
    ASSUME TypeInv, HistoryInv, AnswerInv, NEW h \in Handlers, Undisturbed(h), Serve(h)
    PROVE  Undisturbed(h)'
  <1>1. UNCHANGED req
    BY ServeIsStep DEF Step, Lookup, Insert, Update, Upsert, CreateAt, Remove, CreateDone
  <1>2. /\ pc \in [Handlers -> {"idle", "done"} \cup Sections]
        /\ reply \in [Handlers -> Reply]
        /\ found \in [Handlers -> {None} \cup Resource]
        /\ removed \in [Handlers -> {None} \cup Resource]
    BY DEF TypeInv, TypeOK
  <1>3. pc[h] \in Sections \ {"lro"} => removed[h] = None
    BY DEF HistoryInv, Effects
  <1>4. CASE Lookup(h)
    <2>1. pc[h] = "lookup" /\ UNCHANGED <<store, removed>> /\ removed'[h] = None
      BY <1>3, <1>4 DEF Lookup, Sections
    <2>2. req[h].verb \in {"get", "delete"} \/ req[h].validateOnly
      BY <2>1, WorkingRequest DEF OnPath, Sections
    <2>3. \/ /\ pc'[h] = "done" /\ reply'[h].code \in {"OK", "Aborted"}
          \/ /\ pc'[h] = "done" /\ reply'[h].code = "NotFound"
             /\ ~MissingTolerated(req[h])
          \/ pc'[h] = "lro"
          \/ /\ pc'[h] = "remove" /\ found'[h] = Current(h) /\ Current(h) # None
             /\ EtagMatches(req[h], Current(h))
      BY <1>2, <1>4 DEF Lookup, Return, Proceed
    <2>4. Current(h)' = Current(h)
      BY <1>1, <2>1 DEF Current
    <2> QED
      BY <1>1, <2>1, <2>2, <2>3, <2>4
      DEF Undisturbed, Present, MissingTolerated, EtagMatches, Succeeded, Done
  <1>5. CASE Insert(h)
    <2>1. pc[h] = "insert" /\ removed'[h] = None
      BY <1>3, <1>5 DEF Insert, CreateAt, Sections
    <2>2. req[h].verb = "create"
      BY <2>1, WorkingRequest DEF OnPath, Sections
    <2>3. pc'[h] \in {"done", "lro"}
      BY <1>2, <1>5 DEF Insert, CreateAt, Return, Proceed
    <2> QED
      BY <1>1, <2>1, <2>2, <2>3 DEF Undisturbed
  <1>6. CASE Update(h)
    <2>1. pc[h] = "update" /\ removed'[h] = None
      BY <1>3, <1>6 DEF Update, Sections
    <2>2. req[h].verb = "update"
      BY <2>1, WorkingRequest DEF OnPath, Sections
    <2>3. \/ pc'[h] = "done" /\ reply'[h].code \in {"NotFound", "InvalidArgument"}
          \/ pc'[h] = "upsert" /\ Current(h) = None /\ UNCHANGED store
          \/ pc'[h] = "lro"
      BY <1>2, <1>6 DEF Update, Return, Proceed
    <2> QED
      BY <1>1, <2>1, <2>2, <2>3 DEF Undisturbed, Present, Current, Done
  <1>7. CASE Upsert(h)
    <2>1. pc[h] = "upsert" /\ removed'[h] = None
      BY <1>3, <1>7 DEF Upsert, CreateAt, Sections
    <2>2. req[h].verb = "update"
      BY <2>1, WorkingRequest DEF OnPath, Sections
    <2>3. pc'[h] \in {"done", "lro"}
      BY <1>2, <1>7 DEF Upsert, CreateAt, Return, Proceed
    <2>4. ASSUME UpsertsStayPut PROVE pc'[h] = "lro"
      <3>1. ~Taken(req[h].kind, UpsertName(req[h].kind, req[h].name))
        BY <2>1, <2>4, UpsertKey DEF Undisturbed, Present, Current, Taken
      <3> QED
        BY <1>2, <1>7, <3>1 DEF Upsert, CreateAt, Proceed
    <2> QED
      BY <1>1, <2>1, <2>2, <2>3, <2>4 DEF Undisturbed, Done
  <1>8. CASE Remove(h)
    <2>1. pc[h] = "remove" /\ UNCHANGED found
      BY <1>8 DEF Remove
    <2>2. Present(h) /\ found[h] = Current(h) /\ EtagMatches(req[h], found[h])
      BY <2>1 DEF Undisturbed
    <2>3. pc'[h] = "lro" /\ removed'[h] = Current(h)
      BY <1>2, <1>8, <2>2 DEF Remove
    <2> QED
      BY <1>1, <2>1, <2>2, <2>3 DEF Undisturbed, EtagMatches, Succeeded, Done
  <1>9. CASE CreateDone(h)
    <2>1. /\ pc[h] = "lro" /\ pc'[h] = "done" /\ UNCHANGED removed
          /\ reply'[h].code = "OK" /\ reply'[h].op.response = found[h]
      BY <1>2, <1>9 DEF CreateDone
    <2>2. removed[h] # None => EtagMatches(req[h], removed[h]) /\ found[h] = removed[h]
      BY <2>1 DEF Undisturbed
    <2> QED
      BY <1>1, <2>1, <2>2 DEF Undisturbed, EtagMatches, Succeeded, Done
  <1> QED
    BY <1>4, <1>5, <1>6, <1>7, <1>8, <1>9, ServeIsStep DEF Step

LEMMA AcceptUndisturbed ==
    ASSUME TypeInv, NEW h \in Handlers, Reject(h) \/ Deny(h) \/ Admit(h)
    PROVE  /\ Undisturbed(h)'
           /\ \A g \in Handlers : g # h /\ Undisturbed(g) => Undisturbed(g)'
  <1>1. PICK r \in Requests :
           \/ \E code \in {"InvalidArgument"} \cup (CheckPermission(r) \ {"OK"}) :
                 Accept(h, r, "done", None, code)
           \/ Accept(h, r, FirstSection(r), Synthetic(r), "")
    BY DEF Reject, Deny, Admit
  <1>2. \A g \in Handlers : g # h =>
           /\ pc'[g] = pc[g] /\ reply'[g] = reply[g] /\ found'[g] = found[g]
           /\ removed'[g] = removed[g] /\ req'[g] = req[g] /\ store' = store
    BY <1>1, AcceptKeepsOthers
  <1>3. \A g \in Handlers : g # h /\ Undisturbed(g) => Undisturbed(g)'
    BY <1>2 DEF Undisturbed, Present, Current, EtagMatches, Succeeded, Done
  <1>4. removed'[h] = None
    BY <1>1 DEF Accept, TypeInv, TypeOK
  <1>5. \/ pc'[h] = "done" /\ reply'[h].code \notin {"OK", "NotFound", "AlreadyExists"}
        \/ pc'[h] \in {"lro", "insert", "update", "lookup"}
    <2>1. FirstSection(r) \in {"lro", "insert", "update", "lookup"}
      BY DEF FirstSection
    <2>2. CheckPermission(r) \subseteq {"OK", "PermissionDenied", "Unavailable", "Internal"}
      BY DEF CheckPermission
    <2>3. ASSUME NEW code \in {"InvalidArgument"} \cup (CheckPermission(r) \ {"OK"}),
                 Accept(h, r, "done", None, code)
          PROVE  pc'[h] = "done" /\ reply'[h].code \notin {"OK", "NotFound", "AlreadyExists"}
      <3>1. pc'[h] = "done" /\ reply'[h].code = code
        BY <2>3 DEF Accept, TypeInv, TypeOK, NoReply
      <3> QED
        BY <2>2, <2>3, <3>1
    <2>4. ASSUME Accept(h, r, FirstSection(r), Synthetic(r), "")
          PROVE  pc'[h] = FirstSection(r)
      BY <2>4 DEF Accept, TypeInv, TypeOK
    <2> QED
      BY <1>1, <2>1, <2>3, <2>4
  <1>6. Undisturbed(h)'
    BY <1>4, <1>5 DEF Undisturbed, Done
  <1> QED
    BY <1>3, <1>6

LEMMA UndisturbedStep ==
    ASSUME TypeInv, HistoryInv, AnswerInv, NEW h \in Handlers,
           ApartFrom(h), Undisturbed(h), [Next]_vars
    PROVE  Undisturbed(h)'
  <1>1. ASSUME NEW g \in Handlers, Reject(g) \/ Deny(g) \/ Admit(g)
        PROVE  Undisturbed(h)'
    BY <1>1, AcceptUndisturbed
  <1>2. ASSUME NEW g \in Handlers, Serve(g) PROVE Undisturbed(h)'
    BY <1>2, OwnStepUndisturbed, ApartKeepsOthers
  <1>3. CASE DeleteOperation \/ UNCHANGED vars
    <2>1. UNCHANGED <<store, pc, req, found, reply, removed>>
      BY <1>3 DEF DeleteOperation, vars
    <2> QED
      BY <2>1 DEF Undisturbed, Present, Current, EtagMatches, Succeeded, Done
  <1> QED
    BY <1>1, <1>2, <1>3 DEF Next, Exhausted

LEMMA NothingDisturbedStep ==
    ASSUME TypeInv, HistoryInv, AnswerInv, Apart, NothingDisturbed, [Next]_vars
    PROVE  NothingDisturbed'
  BY UndisturbedStep DEF Apart, NothingDisturbed

LEMMA ApartCorrect == Spec /\ []Apart => []NothingDisturbed
  <1>1. Init => NothingDisturbed
    BY DEF Init, NothingDisturbed, Undisturbed, Succeeded, Done
  <1> QED
    BY <1>1, NothingDisturbedStep, HistoryCorrect, AnswersCorrect, PTL DEF Spec

\* What a call of handler h is promised: a Delete that sends an etag removes no
\* version with another one, and answers with what it removed; with allow_missing
\* a Delete does not answer NotFound, nor an Update AlreadyExists, if an upsert
\* stores under the name the client gave.
Promises(h) ==
    /\ removed[h] # None /\ req[h].etag # 0 => removed[h].etag = req[h].etag
    /\ Succeeded(h) /\ removed[h] # None => reply[h].op.response = removed[h]
    /\ Done(h) /\ req[h].verb = "delete" /\ req[h].allowMissing /\ ~req[h].validateOnly
          => reply[h].code # "NotFound"
    /\ UpsertsStayPut /\ Done(h) /\ req[h].verb = "update"
          => reply[h].code # "AlreadyExists"

\* A handler whose calls overlap with none about the same resource keeps these
\* promises, whatever other handlers do to each other.
THEOREM HandlersApartKeepPromises ==
    ASSUME NEW h \in Handlers
    PROVE  Spec /\ []ApartFrom(h) => []Promises(h)
  <1>1. Init => Undisturbed(h)
    BY DEF Init, Undisturbed, Succeeded, Done
  <1>2. Undisturbed(h) => Promises(h)
    BY DEF Undisturbed, EtagMatches, Promises
  <1> QED
    BY <1>1, <1>2, UndisturbedStep, HistoryCorrect, AnswersCorrect, PTL DEF Spec

\* While calls about one resource do not overlap, a Delete that sends an etag
\* removes no version with another one, whatever happens to other resources.
THEOREM EtagsGuardApartDeletes == Spec /\ []Apart => []EtagGuard
  <1>1. NothingDisturbed => EtagGuard
    BY DEF NothingDisturbed, Undisturbed, EtagMatches, EtagGuard
  <1> QED
    BY <1>1, ApartCorrect, PTL

\* Then a Delete answers with the resource as it was when it was deleted.
THEOREM ApartDeletesReportRemoved == Spec /\ []Apart => []DeleteReportsRemoved
  <1>1. NothingDisturbed => DeleteReportsRemoved
    BY DEF NothingDisturbed, Undisturbed, DeleteReportsRemoved
  <1> QED
    BY <1>1, ApartCorrect, PTL

\* Then a Delete with allow_missing does not find the resource missing.
THEOREM ApartDeletesTolerateMissing == Spec /\ []Apart => []AllowMissingDeleteSucceeds
  <1>1. NothingDisturbed => AllowMissingDeleteSucceeds
    BY DEF NothingDisturbed, Undisturbed, AllowMissingDeleteSucceeds
  <1> QED
    BY <1>1, ApartCorrect, PTL

\* Then an Update with allow_missing does not find the resource there when it
\* creates it, if an upsert stores under the name the client gave.
THEOREM ApartUpsertsSucceed ==
    ASSUME UpsertsStayPut
    PROVE  Spec /\ []Apart => []UpsertNeverConflicts
  <1>1. NothingDisturbed => UpsertNeverConflicts
    BY DEF NothingDisturbed, Undisturbed, UpsertNeverConflicts
  <1> QED
    BY <1>1, ApartCorrect, PTL

-----------------------------------------------------------------------------
(* What a failed RPC leaves behind.                                        *)

\* An update that an immutable path stops writes what the mask names before it.
LEMMA StoppedUpdateStops ==
    ASSUME TypeInv, HistoryInv, NEW h \in Handlers, Update(h), Current(h) # None,
           StoppedByMask(req[h].kind, req[h].mask), ~wrote[h]
    PROVE  FailsWithinTheMask(h)
  <1> DEFINE cur == Current(h)
             part == PartlyUpdated(req[h], cur)
  <1>1. /\ req[h] \in Request /\ req[h].kind \in Kinds /\ req[h].name \in Names
        /\ req[h].verb = "update" /\ cur \in Resource
    BY WorkingRequest DEF Update, Sections, OnPath
  <1>2. /\ cur \in committed /\ cur.kind = req[h].kind /\ cur.name = req[h].name
    BY <1>1 DEF HistoryInv, StoreIsCommitted, Current
  <1>3. /\ part \in Resource
        /\ part = [cur EXCEPT !.body = Merged(req[h], cur)]
    BY <1>1, UpdatedTyped DEF TypeInv, TypeOK
  <1>4. /\ part.kind = req[h].kind /\ part.name = req[h].name
        /\ part.body = Merged(req[h], cur) /\ part = [cur EXCEPT !.body = part.body]
    <2> HIDE DEF part, cur
    <2> QED
      BY <1>1, <1>2, <1>3 DEF Resource
  <1>5. Commit(h, part) /\ reply' = [reply EXCEPT ![h] = [code |-> "InvalidArgument", res |-> None, op |-> None]]
    BY DEF Update, Return
  <1>6. reply'[h].code = "InvalidArgument"
    BY <1>5 DEF TypeInv, TypeOK
  <1>7. ASSUME NEW k \in Kinds, NEW n \in Names, store'[k][n] # store[k][n]
        PROVE  /\ k = req[h].kind /\ n = req[h].name
               /\ store[k][n] = cur /\ store'[k][n] = part
    <2>1. store' = [store EXCEPT ![req[h].kind][req[h].name] = part]
      BY <1>4, <1>5 DEF Commit
    <2> HIDE DEF part
    <2> QED
      BY <1>1, <1>7, <2>1 DEF Current, TypeInv, TypeOK
  <1>8. ASSUME NEW f \in Fields, part.body[f] # cur.body[f]
        PROVE  part.body[f] = req[h].body[f] /\ NamedBeforeTheStop(req[h], f)
    <2>1. f \in Touched(req[h].kind, req[h].mask) /\ part.body[f] = req[h].body[f]
      BY <1>4, <1>8 DEF Merged
    <2>2. req[h].mask # None
      BY DEF StoppedByMask
    <2> QED
      BY <2>1, <2>2 DEF Touched, Processed, NamedBeforeTheStop
  <1>9. part # None
    BY <1>3, NoneAssumption
  <1> HIDE DEF part, cur
  <1> QED
    BY <1>1, <1>4, <1>6, <1>7, <1>8, <1>9 DEF FailsWithinTheMask, cur

\* The step in which an RPC fails is one of its own, and writes nothing unless it
\* is such an update.
LEMMA FailingStep ==
    ASSUME TypeInv, HistoryInv, NEW h \in Handlers, [Next]_vars
    PROVE  FailsWithinTheMask(h)
  <1> SUFFICES ASSUME pc[h] \in Sections, Failed(h)' PROVE FailsWithinTheMask(h)
    BY DEF FailsWithinTheMask
  <1>1. pc[h] # "done" /\ pc'[h] = "done" /\ reply'[h].code # "OK"
    BY DEF Sections, Failed, Done
  <1>2. Serve(h)
    <2>1. ASSUME NEW g \in Handlers, g # h, Serve(g) PROVE FALSE
      BY <1>1, <2>1, OthersKeepTheirs
    <2>2. ASSUME NEW g \in Handlers, Reject(g) \/ Deny(g) \/ Admit(g) PROVE FALSE
      <3>1. g # h /\ pc' = [pc EXCEPT ![g] = pc'[g]]
        BY <2>2 DEF Reject, Deny, Admit, Accept, Sections, TypeInv, TypeOK
      <3> QED
        BY <1>1, <3>1 DEF TypeInv, TypeOK
    <2>3. CASE DeleteOperation \/ UNCHANGED vars
      BY <1>1, <2>3 DEF DeleteOperation, vars
    <2> QED
      BY <2>1, <2>2, <2>3 DEF Next, Exhausted
  <1>3. Step(h)
    BY <1>2, ServeIsStep
  <1>4. CASE CreateDone(h)
    BY <1>1, <1>4 DEF CreateDone, TypeInv, TypeOK
  <1>5. ~CreateDone(h) => ~wrote[h]
    BY <1>3 DEF Step, Lookup, Insert, Update, Upsert, Remove, HistoryInv, Effects, Sections
  <1>6. CASE Lookup(h) \/ Insert(h) \/ Upsert(h) \/ Remove(h)
    <2>1. UNCHANGED store
      BY <1>1, <1>6
      DEF Lookup, Insert, Upsert, CreateAt, Remove, Proceed, TypeInv, TypeOK
    <2>2. pc[h] # "lro"
      BY <1>6 DEF Lookup, Insert, Upsert, Remove
    <2> QED
      BY <1>5, <2>1, <2>2 DEF CreateDone, FailsWithinTheMask
  <1>7. CASE Update(h)
    <2>1. pc[h] # "lro"
      BY <1>7 DEF Update
    <2>2. CASE Current(h) # None /\ StoppedByMask(req[h].kind, req[h].mask)
      BY <1>5, <1>7, <2>1, <2>2, StoppedUpdateStops DEF CreateDone
    <2>3. CASE ~(Current(h) # None /\ StoppedByMask(req[h].kind, req[h].mask))
      <3>1. UNCHANGED store
        BY <1>1, <1>7, <2>3 DEF Update, Proceed, TypeInv, TypeOK
      <3> QED
        BY <1>5, <2>1, <3>1 DEF CreateDone, FailsWithinTheMask
    <2> QED
      BY <2>2, <2>3
  <1> QED
    BY <1>3, <1>4, <1>6, <1>7 DEF Step

\* An RPC that returns an error has written nothing before its last storage
\* method, and there at most the fields its mask names before the path that made
\* it fail: whatever the masks, and whatever runs beside it.
THEOREM FailuresStopWhereTheyMust == Spec => FailuresStopAtTheMask
  <1>1. TypeInv /\ HistoryInv /\ [Next]_vars
           => [\A h \in Handlers : FailsWithinTheMask(h)]_vars
    BY FailingStep
  <1> QED
    BY <1>1, HistoryCorrect, PTL DEF Spec, FailuresStopAtTheMask

-----------------------------------------------------------------------------
(* Deletes that others disturb.                                            *)

\* What a Delete has found is overtaken by newer versions only.
Overtaken(h) ==
    /\ pc[h] = "remove" =>
          /\ found[h] \in committed /\ found[h].kind = req[h].kind
          /\ EtagMatches(req[h], found[h])
          /\ Present(h) => NoOlder(Current(h), found[h])
    /\ removed[h] # None =>
          /\ found[h] \in committed /\ found[h].kind = req[h].kind
          /\ EtagMatches(req[h], found[h])
          /\ NoOlder(removed[h], found[h])

\* Whatever is stored, created or updated under a name where nothing older than
\* f is stored, is no older than f.
LEMMA StoredStaysNewer ==
    ASSUME TypeInv, HistoryInv, NEW g \in Handlers, Serve(g),
           NEW k \in Kinds, NEW n \in Names, NEW f \in committed, f.kind = k,
           store[k][n] # None => NoOlder(store[k][n], f)
    PROVE  store'[k][n] # None => NoOlder(store'[k][n], f)
  <1>1. pc[g] \in Sections
    BY ServeIsStep DEF Step, Lookup, Insert, Update, Upsert, Remove, CreateDone, Sections
  <1>2. /\ req[g] \in Request /\ req[g].kind \in Kinds /\ req[g].name \in Names
        /\ UpsertName(req[g].kind, req[g].name) \in Names
        /\ Current(g) \in {None} \cup Resource
    BY <1>1, WorkingRequest
  <1>3. /\ store \in [Kinds -> [Names -> {None} \cup Resource]]
        /\ fresh \in Nat /\ f \in Resource
    BY DEF TypeInv, TypeOK
  <1>4. f.uid <= fresh /\ f.etag <= NewEtag(k)
    <2>1. f.uid \in 1..(fresh - 1)
      BY DEF HistoryInv, TokensIssued
    <2>2. IF k \in Etagged THEN f.etag \in 1..(fresh - 1) ELSE f.etag = 0
      BY DEF HistoryInv, TokensIssued
    <2> QED
      BY <1>3, <2>1, <2>2 DEF NewEtag
  <1>5. CASE Lookup(g) \/ CreateDone(g)
    BY <1>5 DEF Lookup, CreateDone
  <1>6. ASSUME NEW v \in Resource, v.kind \in Kinds, v.name \in Names, Commit(g, v),
               v.kind = k /\ v.name = n => NoOlder(v, f)
        PROVE  store'[k][n] # None => NoOlder(store'[k][n], f)
    BY <1>3, <1>6 DEF Commit
  <1>7. ASSUME NEW m \in Names, CreateAt(g, m)
        PROVE  store'[k][n] # None => NoOlder(store'[k][n], f)
    <2> DEFINE v == Created(req[g], m)
    <2>1. v \in Resource
      BY <1>2, <1>3, CreatedTyped
    <2>2. v.kind = req[g].kind /\ v.name = m /\ v.uid = fresh /\ v.etag = NewEtag(req[g].kind)
      BY DEF Created
    <2>3. v.kind = k => NoOlder(v, f)
      BY <1>3, <1>4, <2>2 DEF NoOlder
    <2>4. CASE UNCHANGED store
      BY <2>4
    <2>5. CASE Commit(g, v)
      BY <1>2, <1>6, <2>1, <2>2, <2>3, <2>5
    <2> QED
      BY <1>7, <2>4, <2>5 DEF CreateAt
  <1>8. CASE Insert(g) \/ Upsert(g)
    BY <1>2, <1>7, <1>8 DEF Insert, Upsert
  <1>9. CASE Update(g)
    <2> DEFINE cur == Current(g)
               part == PartlyUpdated(req[g], cur)
               new == Updated(req[g], cur)
    <2>1. CASE cur = None
      BY <1>9, <2>1 DEF Update
    <2>2. CASE cur # None
      <3>1. cur \in Resource /\ cur.kind = req[g].kind /\ cur.name = req[g].name
        BY <1>2, <2>2 DEF Current, HistoryInv, StoreIsCommitted
      <3>2. /\ part \in Resource /\ new \in Resource
            /\ part.kind = req[g].kind /\ part.name = req[g].name
            /\ part.uid = cur.uid /\ part.etag = cur.etag
        <4>1. /\ part \in Resource /\ new \in Resource
              /\ part = [cur EXCEPT !.body = Merged(req[g], cur)]
          BY <1>2, <1>3, <3>1, UpdatedTyped
        <4> HIDE DEF part, new, cur
        <4> QED
          BY <3>1, <4>1 DEF Resource
      <3>3. /\ new.kind = req[g].kind /\ new.name = req[g].name
            /\ new.uid = cur.uid /\ new.etag = NewEtag(req[g].kind)
        BY <3>2 DEF Updated, Resource
      <3>4. req[g].kind = k /\ req[g].name = n => NoOlder(cur, f)
        BY <2>2 DEF Current
      <3>5. part.kind = k /\ part.name = n => NoOlder(part, f)
        BY <3>2, <3>4 DEF NoOlder
      <3>6. new.kind = k /\ new.name = n => NoOlder(new, f)
        BY <1>4, <3>3, <3>4 DEF NoOlder
      <3>7. Commit(g, part) \/ Commit(g, new)
        BY <1>9, <2>2 DEF Update
      <3> QED
        BY <1>2, <1>6, <3>2, <3>3, <3>5, <3>6, <3>7
    <2> QED
      BY <2>1, <2>2
  <1>10. CASE Remove(g)
    BY <1>2, <1>3, <1>10 DEF Remove
  <1> QED
    BY <1>5, <1>8, <1>9, <1>10, ServeIsStep DEF Step

LEMMA OwnStepOvertaken ==
    ASSUME TypeInv, HistoryInv, NEW h \in Handlers, Overtaken(h), Serve(h)
    PROVE  Overtaken(h)'
  <1>1. UNCHANGED req /\ committed \subseteq committed'
    BY ServeIsStep DEF Step, Lookup, Insert, Update, Upsert, CreateAt, Remove, CreateDone,
                       Commit
  <1>2. /\ pc \in [Handlers -> {"idle", "done"} \cup Sections]
        /\ found \in [Handlers -> {None} \cup Resource]
        /\ removed \in [Handlers -> {None} \cup Resource]
    BY DEF TypeInv, TypeOK
  <1>3. pc[h] \in Sections \ {"lro"} => removed[h] = None
    BY DEF HistoryInv, Effects
  <1>4. CASE Lookup(h)
    <2>1. pc[h] = "lookup" /\ UNCHANGED store /\ removed'[h] = None
      BY <1>3, <1>4 DEF Lookup, Sections
    <2>2. pc'[h] = "remove" =>
             found'[h] = Current(h) /\ Current(h) # None /\ EtagMatches(req[h], Current(h))
      BY <1>2, <1>4 DEF Lookup, Return, Proceed
    <2>3. Current(h) # None =>
             /\ Current(h) \in committed /\ Current(h).kind = req[h].kind
             /\ Current(h) \in Resource
      BY <2>1, WorkingRequest DEF Current, HistoryInv, StoreIsCommitted, Sections
    <2>4. Current(h)' = Current(h)
      BY <1>1, <2>1 DEF Current
    <2>5. Current(h) # None => NoOlder(Current(h), Current(h))
      BY <2>3 DEF NoOlder, Resource
    <2> QED
      BY <1>1, <2>1, <2>2, <2>3, <2>4, <2>5 DEF Overtaken, EtagMatches
  <1>5. CASE Insert(h) \/ Update(h) \/ Upsert(h)
    <2>1. pc[h] \in {"insert", "update", "upsert"} /\ UNCHANGED removed
      BY <1>5 DEF Insert, Update, Upsert, CreateAt
    <2>2. pc'[h] # "remove"
      BY <1>2, <1>5 DEF Insert, Update, Upsert, CreateAt, Return, Proceed
    <2> QED
      BY <1>3, <2>1, <2>2 DEF Overtaken, Sections
  <1>6. CASE Remove(h)
    <2>1. pc[h] = "remove" /\ UNCHANGED found /\ removed[h] = None
      BY <1>3, <1>6 DEF Remove, Sections
    <2>2. \/ pc'[h] = "done" /\ UNCHANGED removed
          \/ pc'[h] = "lro" /\ removed'[h] = Current(h) /\ Present(h)
      BY <1>2, <1>6 DEF Remove, Return
    <2> QED
      BY <1>1, <2>1, <2>2 DEF Overtaken, EtagMatches
  <1>7. CASE CreateDone(h)
    <2>1. pc'[h] = "done" /\ UNCHANGED <<found, removed>>
      BY <1>2, <1>7 DEF CreateDone
    <2> QED
      BY <1>1, <2>1 DEF Overtaken, EtagMatches
  <1> QED
    BY <1>4, <1>5, <1>6, <1>7, ServeIsStep DEF Step

LEMMA OvertakenStep ==
    ASSUME TypeInv, HistoryInv, NEW h \in Handlers, Overtaken(h), [Next]_vars
    PROVE  Overtaken(h)'
  <1>1. ASSUME NEW g \in Handlers, g # h, Serve(g) PROVE Overtaken(h)'
    <2>1. /\ pc'[h] = pc[h] /\ found'[h] = found[h] /\ removed'[h] = removed[h]
          /\ UNCHANGED req
      BY <1>1, OthersKeepTheirs
    <2>2. committed \subseteq committed'
      BY <1>1, ServeIsStep
      DEF Step, Lookup, Insert, Update, Upsert, CreateAt, Remove, CreateDone, Commit
    <2>3. ASSUME pc[h] = "remove" PROVE Present(h)' => NoOlder(Current(h)', found[h])
      <3>1. req[h].kind \in Kinds /\ req[h].name \in Names
        BY <2>3, WorkingRequest DEF Sections
      <3>2. found[h] \in committed /\ found[h].kind = req[h].kind
        BY <2>3 DEF Overtaken
      <3>3. Current(h) # None => NoOlder(Current(h), found[h])
        BY <2>3 DEF Overtaken, Present
      <3> QED
        BY <1>1, <2>1, <3>1, <3>2, <3>3, StoredStaysNewer DEF Current, Present
    <2> QED
      BY <2>1, <2>2, <2>3 DEF Overtaken, EtagMatches
  <1>2. ASSUME NEW g \in Handlers, Reject(g) \/ Deny(g) \/ Admit(g)
        PROVE  Overtaken(h)'
    <2>1. \E r, res, code, next :
             next \in {"done", "lro", "insert", "update", "lookup"}
             /\ Accept(g, r, next, res, code)
      BY <1>2 DEF Reject, Deny, Admit, FirstSection
    <2>2. CASE g = h
      <3>1. removed'[h] = None /\ pc'[h] # "remove"
        BY <2>1, <2>2 DEF Accept, TypeInv, TypeOK
      <3> QED
        BY <3>1 DEF Overtaken
    <2>3. CASE g # h
      <3>1. /\ pc'[h] = pc[h] /\ found'[h] = found[h] /\ removed'[h] = removed[h]
            /\ req'[h] = req[h] /\ UNCHANGED <<store, committed>>
        BY <2>1, <2>3, AcceptKeepsOthers
      <3> QED
        BY <3>1 DEF Overtaken, Present, Current, EtagMatches
    <2> QED
      BY <2>2, <2>3
  <1>3. CASE DeleteOperation \/ UNCHANGED vars
    <2>1. UNCHANGED <<store, pc, req, found, removed, committed>>
      BY <1>3 DEF DeleteOperation, vars
    <2> QED
      BY <2>1 DEF Overtaken, Present, Current, EtagMatches
  <1> QED
    BY <1>1, <1>2, <1>3, OwnStepOvertaken DEF Next, Exhausted

\* A guarded Delete may remove a version its client has not seen, but only one
\* that came after the version it has seen.
THEOREM DisturbedDeletesRemoveNewer == Spec => []DeletesNeverGoBack
  <1>1. Init => \A h \in Handlers : Overtaken(h)
    BY DEF Init, Overtaken
  <1>2. /\ TypeInv /\ HistoryInv /\ (\A h \in Handlers : Overtaken(h)) /\ [Next]_vars
        => (\A h \in Handlers : Overtaken(h))'
    BY OvertakenStep
  <1>3. HistoryInv /\ (\A h \in Handlers : Overtaken(h)) => DeletesNeverGoBack
    <2>1. ASSUME HistoryInv, NEW h \in Handlers, Overtaken(h), removed[h] # None
          PROVE  /\ found[h] \in committed /\ found[h].kind = req[h].kind
                 /\ EtagMatches(req[h], found[h]) /\ NoOlder(removed[h], found[h])
                 /\ removed[h] \in committed
      BY <2>1 DEF Overtaken, HistoryInv, RemovedForGood
    <2>2. ASSUME HistoryInv, NEW h \in Handlers, Overtaken(h), removed[h] # None
          PROVE  req[h].etag # 0 => removed[h].etag >= req[h].etag
      BY <2>1, <2>2 DEF EtagMatches, NoOlder
    <2>3. ASSUME HistoryInv, NEW h \in Handlers, Overtaken(h), removed[h] # None,
                 MasksStopFirst, req[h].kind \in Etagged, removed[h].etag = found[h].etag
          PROVE  removed[h] = found[h]
      <3>1. found[h].etag \in 1..(fresh - 1)
        BY <2>1, <2>3 DEF HistoryInv, TokensIssued
      <3> QED
        BY <2>1, <2>3, <3>1 DEF HistoryInv, EtagsDistinct, EtagIdentifiesVersion
    <2> QED
      BY <2>1, <2>2, <2>3 DEF DeletesNeverGoBack
  <1> QED
    BY <1>1, <1>2, <1>3, HistoryCorrect, PTL DEF Spec
=============================================================================

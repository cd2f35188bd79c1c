----------------------- MODULE EventarcServer_safety -----------------------
(***************************************************************************)
(* The safety properties of EventarcServer for any instance, and that it    *)
(* implements ResourceRegistry.                                             *)
(*                                                                          *)
(* They rest on one inductive invariant: what lives in the store has been   *)
(* committed, what has been committed carries numbers below fresh, and      *)
(* what a handler has done so far agrees with the section it has reached.   *)
(*                                                                          *)
(* One part of it, EtagsDistinct, and the theorems that rest on it hold only *)
(* where no mask names an immutable field after a mutable one: they say      *)
(* MasksStopFirst.                                                           *)
(***************************************************************************)
EXTENDS EventarcServer_proofs

StoreIsCommitted ==
    \A k \in Kinds, n \in Names :
        store[k][n] # None => /\ store[k][n] \in committed
                              /\ store[k][n].kind = k
                              /\ store[k][n].name = n

TokensIssued ==
    \A v \in committed :
        /\ v.uid \in 1..(fresh - 1)
        /\ IF v.kind \in Etagged THEN v.etag \in 1..(fresh - 1) ELSE v.etag = 0

\* A removed incarnation was committed, lives nowhere, and was removed once.
RemovedForGood ==
    \A h \in Handlers :
        removed[h] # None =>
            /\ removed[h] \in committed
            /\ \A k \in Kinds, n \in Names :
                  store[k][n] # None => store[k][n].uid # removed[h].uid
            /\ \A g \in Handlers :
                  g # h /\ removed[g] # None => removed[g].uid # removed[h].uid

\* A handler writes at most once, in its last storage method, and then only
\* packs the answer.
Effects(h) ==
    /\ pc[h] \in Sections \ {"lro"} => ~wrote[h] /\ removed[h] = None
    /\ req[h] # None /\ req[h].validateOnly => ~wrote[h]
    /\ pc[h] = "lro" \/ Succeeded(h) =>
          (req[h].verb = "delete" /\ found[h] # None => removed[h] # None)

EtagsDistinct == MasksStopFirst => EtagIdentifiesVersion

HistoryInv ==
    /\ StoreIsCommitted
    /\ TokensIssued
    /\ EtagsDistinct
    /\ UidIdentifiesIncarnation
    /\ RemovedForGood
    /\ \A h \in Handlers : Effects(h)

-----------------------------------------------------------------------------
LEMMA HistoryInvInit == Init => HistoryInv
  BY DEF Init, HistoryInv, StoreIsCommitted, TokensIssued, EtagsDistinct,
         EtagIdentifiesVersion, UidIdentifiesIncarnation, RemovedForGood, Effects, Failed, Succeeded, Done,
         Sections

\* A version with a new number in place of its etag, and its uid either new or
\* that of the version it replaces, can be stored.
LEMMA CommitNewVersion ==
    ASSUME TypeInv, HistoryInv,
           NEW h \in Handlers, NEW v \in Resource,
           v.kind \in Kinds, v.name \in Names,
           \/ v.etag = NewEtag(v.kind) /\ fresh' = fresh + 1
           \/ /\ ~MasksStopFirst /\ fresh' = fresh
              /\ store[v.kind][v.name] # None
              /\ v.etag = store[v.kind][v.name].etag,
           \/ /\ store[v.kind][v.name] = None
              /\ v.uid = fresh /\ fresh' = fresh + 1
           \/ /\ store[v.kind][v.name] # None
              /\ v.uid = store[v.kind][v.name].uid
              /\ \A f \in Fields \ Mutable(v.kind) :
                    v.body[f] = store[v.kind][v.name].body[f],
           Commit(h, v), UNCHANGED removed
    PROVE  /\ StoreIsCommitted'
           /\ TokensIssued'
           /\ EtagsDistinct'
           /\ UidIdentifiesIncarnation'
           /\ RemovedForGood'
  <1> DEFINE cur == store[v.kind][v.name]
  <1>1. /\ store' = [store EXCEPT ![v.kind][v.name] = v]
        /\ committed' = committed \cup {v}
    BY DEF Commit
  <1>2. \A k \in Kinds, n \in Names :
           store'[k][n] = IF k = v.kind /\ n = v.name THEN v ELSE store[k][n]
    BY <1>1 DEF TypeInv, TypeOK
  <1>3. /\ StoreIsCommitted /\ TokensIssued /\ EtagsDistinct
        /\ UidIdentifiesIncarnation /\ RemovedForGood
    BY DEF HistoryInv
  <1>4. \A w \in committed :
           /\ w \in Resource
           /\ w.uid \in Nat /\ w.uid < fresh
           /\ w.kind \in Etagged => w.etag < fresh
           /\ w.kind \notin Etagged => w.etag = 0
    BY <1>3 DEF TokensIssued, TypeInv, TypeOK, Resource
  <1>5. fresh \in Nat /\ fresh > 0
    BY DEF TypeInv, TypeOK
  <1>6. cur # None => cur \in committed /\ cur.kind = v.kind /\ cur.name = v.name
    BY <1>3 DEF StoreIsCommitted
  <1>7. StoreIsCommitted'
    <2>1. ASSUME NEW k \in Kinds, NEW n \in Names, store'[k][n] # None
          PROVE  /\ store'[k][n] \in committed'
                 /\ store'[k][n].kind = k /\ store'[k][n].name = n
      <3>1. CASE k = v.kind /\ n = v.name
        BY <1>1, <1>2, <3>1
      <3>2. CASE ~(k = v.kind /\ n = v.name)
        <4>1. store'[k][n] = store[k][n]
          BY <1>2, <3>2
        <4> QED
          BY <1>1, <1>3, <2>1, <4>1 DEF StoreIsCommitted
      <3> QED
        BY <3>1, <3>2
    <2> QED
      BY <2>1 DEF StoreIsCommitted
  <1>8. TokensIssued'
    <2>1. v.uid \in 1..(fresh' - 1)
      BY <1>3, <1>5, <1>6 DEF TokensIssued
    <2>2. IF v.kind \in Etagged THEN v.etag \in 1..(fresh' - 1) ELSE v.etag = 0
      BY <1>3, <1>5, <1>6 DEF NewEtag, TokensIssued
    <2>3. \A w \in committed :
             /\ w.uid \in 1..(fresh' - 1)
             /\ IF w.kind \in Etagged THEN w.etag \in 1..(fresh' - 1) ELSE w.etag = 0
      BY <1>3, <1>5 DEF TokensIssued
    <2> QED
      BY <1>1, <1>5, <2>1, <2>2, <2>3 DEF TokensIssued
  <1>9. EtagsDistinct'
    <2> SUFFICES ASSUME MasksStopFirst PROVE EtagIdentifiesVersion'
      BY DEF EtagsDistinct
    <2>1. v.etag = NewEtag(v.kind)
      OBVIOUS
    <2>2. \A w \in committed :
             (v.kind \in Etagged \/ w.kind \in Etagged) => v.etag # w.etag
      BY <1>4, <1>5, <1>3, <2>1 DEF NewEtag, TokensIssued
    <2> QED
      BY <1>1, <1>3, <2>2 DEF EtagIdentifiesVersion, EtagsDistinct
  <1>10. UidIdentifiesIncarnation'
    <2>1. ASSUME NEW w \in committed, w.uid = v.uid
          PROVE  /\ v.kind = w.kind /\ v.name = w.name
                 /\ \A f \in Fields \ Mutable(v.kind) : v.body[f] = w.body[f]
      <3>1. cur # None /\ v.uid = cur.uid
        BY <1>4, <1>5, <2>1
      <3> QED
        BY <1>3, <1>6, <2>1, <3>1 DEF UidIdentifiesIncarnation
    <2> QED
      BY <1>1, <1>3, <2>1 DEF UidIdentifiesIncarnation
  <1>11. RemovedForGood'
    <2>1. ASSUME NEW g \in Handlers, removed[g] # None
          PROVE  v.uid # removed[g].uid
      BY <1>3, <1>4, <1>5, <2>1 DEF RemovedForGood
    <2>2. ASSUME NEW g \in Handlers, removed[g] # None,
                 NEW k \in Kinds, NEW n \in Names, store'[k][n] # None
          PROVE  store'[k][n].uid # removed[g].uid
      BY <1>2, <1>3, <2>1, <2>2 DEF RemovedForGood
    <2>3. removed' = removed /\ committed \subseteq committed'
      BY <1>1
    <2> QED
      BY <1>3, <2>2, <2>3 DEF RemovedForGood
  <1> QED
    BY <1>7, <1>8, <1>9, <1>10, <1>11

\* The facts about versions and numbers survive a step that stores nothing.
LEMMA NothingCommitted ==
    ASSUME TypeInv, HistoryInv, UNCHANGED <<store, committed, removed>>,
           fresh' \in {fresh, fresh + 1}
    PROVE  /\ StoreIsCommitted'
           /\ TokensIssued'
           /\ EtagsDistinct'
           /\ UidIdentifiesIncarnation'
           /\ RemovedForGood'
  <1>1. StoreIsCommitted' /\ RemovedForGood'
    BY DEF HistoryInv, StoreIsCommitted, RemovedForGood
  <1>2. EtagsDistinct' /\ UidIdentifiesIncarnation'
    BY DEF HistoryInv, EtagsDistinct, EtagIdentifiesVersion, UidIdentifiesIncarnation
  <1>3. TokensIssued'
    BY DEF HistoryInv, TokensIssued, TypeInv, TypeOK
  <1> QED
    BY <1>1, <1>2, <1>3

\* What the other handlers have done does not change when h takes a step.
LEMMA OthersUnaffected ==
    ASSUME TypeInv, HistoryInv, NEW h \in Handlers, NEW g \in Handlers, g # h,
           pc'[g] = pc[g], req'[g] = req[g], reply'[g] = reply[g],
           found'[g] = found[g], wrote'[g] = wrote[g], removed'[g] = removed[g]
    PROVE  Effects(g)'
  BY DEF HistoryInv, Effects, Failed, Succeeded, Done

\* Under MasksStopFirst the update that an immutable path stops wrote nothing.
LEMMA StoppedUpdateIsVoid ==
    ASSUME MasksStopFirst, NEW q, FromClient(q), NEW cur \in Resource,
           StoppedByMask(q.kind, q.mask)
    PROVE  PartlyUpdated(q, cur) = cur
  <1>1. PICK r \in Requests, e \in Nat : q = [r EXCEPT !.etag = e]
    BY DEF FromClient
  <1>2. r \in Request
    BY RequestsAssumption
  <1>3. q.kind = r.kind /\ q.mask = r.mask
    BY <1>1, <1>2 DEF Request
  <1>4. Touched(q.kind, q.mask) = {}
    BY <1>3 DEF MasksStopFirst
  <1>5. Merged(q, cur) = cur.body
    BY <1>4 DEF Merged, Resource, Body
  <1> QED
    BY <1>5 DEF PartlyUpdated, Resource

LEMMA AcceptHistory ==
    ASSUME TypeInv, HistoryInv, NEW h \in Handlers, NEW r \in Requests,
           NEW next, NEW res, NEW code, Accept(h, r, next, res, code),
           \/ next = "done" /\ code # "OK"
           \/ next \in Sections /\ (next = "lro" => r.verb # "delete")
    PROVE  HistoryInv'
  <1>1. PICK e : req' = [req EXCEPT ![h] = [r EXCEPT !.etag = e]]
    BY DEF Accept
  <1>2. UNCHANGED <<store, committed, fresh>>
    BY DEF Accept
  <1>3. /\ pc'[h] = next /\ req'[h] = [r EXCEPT !.etag = e] /\ wrote'[h] = FALSE
        /\ reply'[h].code = code /\ removed' = [removed EXCEPT ![h] = None]
    BY <1>1 DEF Accept, TypeInv, TypeOK, NoReply
  <1>4. RemovedForGood'
    BY <1>2, <1>3 DEF HistoryInv, RemovedForGood, TypeInv, TypeOK
  <1>5. StoreIsCommitted' /\ TokensIssued' /\ EtagsDistinct'
        /\ UidIdentifiesIncarnation'
    BY <1>2 DEF HistoryInv, StoreIsCommitted, TokensIssued, EtagsDistinct,
                EtagIdentifiesVersion, UidIdentifiesIncarnation
  <1>6. Effects(h)'
    <2>1. req'[h].verb = r.verb
      BY <1>3, RequestsAssumption DEF Request
    <2>2. removed'[h] = None
      BY <1>3 DEF TypeInv, TypeOK
    <2> QED
      BY <1>3, <2>1, <2>2 DEF Effects, Failed, Succeeded, Done, Sections
  <1>7. ASSUME NEW g \in Handlers, g # h PROVE Effects(g)'
    BY <1>1, <1>7, OthersUnaffected DEF Accept, TypeInv, TypeOK
  <1> QED
    BY <1>4, <1>5, <1>6, <1>7 DEF HistoryInv

LEMMA LookupHistory ==
    ASSUME TypeInv, HistoryInv, NEW h \in Handlers, Lookup(h)
    PROVE  HistoryInv'
  <1>1. UNCHANGED <<store, committed, removed, fresh, req, wrote>> /\ pc[h] = "lookup"
    BY DEF Lookup
  <1>2. /\ StoreIsCommitted' /\ TokensIssued' /\ EtagsDistinct'
        /\ UidIdentifiesIncarnation' /\ RemovedForGood'
    BY <1>1, NothingCommitted
  <1>3. ~wrote[h] /\ removed[h] = None
    BY <1>1 DEF HistoryInv, Effects, Sections
  <1>4. Effects(h)'
    <2>1. \/ pc'[h] = "done" /\ (req[h].verb = "get" \/ reply'[h].code # "OK")
          \/ pc'[h] = "lro" /\ (req[h].verb = "delete" => found'[h] = None)
          \/ pc'[h] = "remove"
      BY DEF Lookup, Return, Proceed, MissingTolerated, TypeInv, TypeOK
    <2> QED
      BY <1>1, <1>3, <2>1 DEF Effects, Failed, Succeeded, Done, Sections
  <1>5. ASSUME NEW g \in Handlers, g # h PROVE Effects(g)'
    <2>1. pc'[g] = pc[g] /\ reply'[g] = reply[g] /\ found'[g] = found[g]
      BY <1>5 DEF Lookup, Return, Proceed, TypeInv, TypeOK
    <2> QED
      BY <1>1, <1>5, <2>1, OthersUnaffected
  <1> QED
    BY <1>2, <1>4, <1>5 DEF HistoryInv

LEMMA CreateAtHistory ==
    ASSUME TypeInv, HistoryInv, NEW h \in Handlers, NEW n \in Names,
           CreateAt(h, n), pc[h] \in {"insert", "upsert"}
    PROVE  HistoryInv'
  <1>1. pc[h] \in Sections \ {"lro"}
    BY DEF Sections
  <1>2. /\ req[h] \in Request /\ req[h].kind \in Kinds /\ OnPath(req[h], pc[h])
        /\ req[h].verb # "delete" /\ ~req[h].validateOnly
    BY <1>1, WorkingRequest DEF OnPath
  <1>3. ~wrote[h] /\ removed[h] = None
    BY <1>1 DEF HistoryInv, Effects
  <1>4. UNCHANGED <<req, removed>>
    BY DEF CreateAt
  <1> DEFINE v == Created(req[h], n)
  <1>5. /\ StoreIsCommitted' /\ TokensIssued' /\ EtagsDistinct'
        /\ UidIdentifiesIncarnation' /\ RemovedForGood'
    <2>1. CASE Taken(req[h].kind, n)
      BY <2>1, NothingCommitted DEF CreateAt
    <2>2. CASE ~Taken(req[h].kind, n)
      <3>1. v \in Resource
        BY <1>2, CreatedTyped DEF TypeInv, TypeOK
      <3>2. /\ v.kind = req[h].kind /\ v.name = n /\ v.uid = fresh
            /\ v.etag = NewEtag(v.kind)
        BY DEF Created
      <3>3. Commit(h, v) /\ fresh' = fresh + 1
        BY <2>2 DEF CreateAt
      <3>4. store[v.kind][v.name] = None
        BY <2>2, <3>2 DEF Taken
      <3> HIDE DEF v
      <3> QED
        BY <1>2, <1>4, <3>1, <3>2, <3>3, <3>4, CommitNewVersion
    <2> QED
      BY <2>1, <2>2
  <1>6. Effects(h)'
    <2>1. \/ /\ pc'[h] = "done" /\ reply'[h].code # "OK" /\ wrote'[h] = wrote[h]
          \/ pc'[h] = "lro"
      BY DEF CreateAt, Return, Proceed, TypeInv, TypeOK
    <2> QED
      BY <1>2, <1>3, <1>4, <2>1 DEF Effects, Failed, Succeeded, Done
  <1>7. ASSUME NEW g \in Handlers, g # h PROVE Effects(g)'
    <2>1. /\ pc'[g] = pc[g] /\ reply'[g] = reply[g]
          /\ found'[g] = found[g] /\ wrote'[g] = wrote[g]
      BY <1>7 DEF CreateAt, Commit, Return, Proceed, TypeInv, TypeOK
    <2> QED
      BY <1>4, <1>7, <2>1, OthersUnaffected
  <1> QED
    BY <1>5, <1>6, <1>7 DEF HistoryInv

LEMMA UpdateHistory ==
    ASSUME TypeInv, HistoryInv, NEW h \in Handlers, Update(h)
    PROVE  HistoryInv'
  <1> DEFINE cur == Current(h)
             v == Updated(req[h], cur)
  <1>1. pc[h] = "update" /\ pc[h] \in Sections \ {"lro"}
    BY DEF Update, Sections
  <1>2. /\ req[h] \in Request /\ req[h].kind \in Kinds /\ req[h].name \in Names
        /\ FromClient(req[h]) /\ cur \in {None} \cup Resource
        /\ req[h].verb = "update" /\ ~req[h].validateOnly
    BY <1>1, WorkingRequest DEF OnPath, TypeInv, Serving
  <1>3. ~wrote[h] /\ removed[h] = None
    BY <1>1 DEF HistoryInv, Effects
  <1>4. UNCHANGED <<req, removed>>
    BY DEF Update
  <1>5. cur # None => /\ cur \in Resource /\ cur.kind = req[h].kind
                      /\ cur.name = req[h].name
    BY <1>2 DEF HistoryInv, StoreIsCommitted, Current
  \* The update that an immutable path stops stores what was there before, or
  \* else a mask does not stop first.
  <1>6. ASSUME MasksStopFirst, cur # None, StoppedByMask(req[h].kind, req[h].mask)
        PROVE  UNCHANGED <<store, committed, fresh, wrote>>
    <2>1. PartlyUpdated(req[h], cur) = cur
      BY <1>2, <1>5, <1>6, StoppedUpdateIsVoid
    <2>2. Commit(h, cur) /\ fresh' = fresh
      BY <1>6, <2>1 DEF Update
    <2>3. cur = store[cur.kind][cur.name] /\ cur \in committed
      BY <1>2, <1>5, <1>6 DEF Current, HistoryInv, StoreIsCommitted
    <2>4. store' = store /\ committed' = committed /\ wrote' = wrote
      BY <1>2, <1>5, <1>6, <2>2, <2>3 DEF Commit, TypeInv, TypeOK
    <2> QED
      BY <2>2, <2>4
  <1>7. /\ StoreIsCommitted' /\ TokensIssued' /\ EtagsDistinct'
        /\ UidIdentifiesIncarnation' /\ RemovedForGood'
    <2>1. CASE cur = None
      BY <1>4, <2>1, NothingCommitted DEF Update
    <2>2. CASE MasksStopFirst /\ cur # None /\ StoppedByMask(req[h].kind, req[h].mask)
      BY <1>4, <1>6, <2>2, NothingCommitted
    <2>4. CASE ~MasksStopFirst /\ cur # None /\ StoppedByMask(req[h].kind, req[h].mask)
      <3> DEFINE p == PartlyUpdated(req[h], cur)
      <3>1. p \in Resource /\ Merged(req[h], cur) \in Body
        BY <1>2, <1>5, <2>4, UpdatedTyped DEF TypeInv, TypeOK
      <3>2. /\ p.kind = cur.kind /\ p.name = cur.name /\ p.uid = cur.uid
            /\ p.body = Merged(req[h], cur) /\ p.etag = cur.etag
        BY <1>5, <2>4, <3>1 DEF PartlyUpdated, Resource
      <3>3. \A f \in Fields \ Mutable(p.kind) : p.body[f] = cur.body[f]
        BY <1>5, <2>4, <3>2 DEF Merged, Touched
      <3>4. Commit(h, p) /\ fresh' = fresh
        BY <2>4 DEF Update
      <3>5. cur = store[p.kind][p.name] /\ p.kind \in Kinds /\ p.name \in Names
        BY <1>2, <1>5, <2>4, <3>2 DEF Current
      <3> HIDE DEF p, cur
      <3> QED
        BY <1>4, <2>4, <3>1, <3>2, <3>3, <3>4, <3>5, CommitNewVersion
    <2>3. CASE cur # None /\ ~StoppedByMask(req[h].kind, req[h].mask)
      <3>1. v \in Resource /\ Merged(req[h], cur) \in Body
        BY <1>2, <1>5, <2>3, UpdatedTyped DEF TypeInv, TypeOK
      <3>2. /\ v.kind = cur.kind /\ v.name = cur.name /\ v.uid = cur.uid
            /\ v.body = Merged(req[h], cur)
            /\ v.etag = NewEtag(v.kind)
        BY <1>5, <2>3, <3>1 DEF Updated, PartlyUpdated, Resource
      <3>3. \A f \in Fields \ Mutable(v.kind) : v.body[f] = cur.body[f]
        BY <1>5, <2>3, <3>2 DEF Merged, Touched
      <3>4. Commit(h, v) /\ fresh' = fresh + 1
        BY <2>3 DEF Update
      <3>5. cur = store[v.kind][v.name] /\ v.kind \in Kinds /\ v.name \in Names
        BY <1>2, <1>5, <2>3, <3>2 DEF Current
      <3> HIDE DEF v, cur
      <3> QED
        BY <1>4, <2>3, <3>1, <3>2, <3>3, <3>4, <3>5, CommitNewVersion
    <2> QED
      BY <2>1, <2>2, <2>3, <2>4
  <1>8. Effects(h)'
    <2>1. \/ pc'[h] = "done" /\ reply'[h].code # "OK"
          \/ pc'[h] = "upsert" /\ wrote'[h] = wrote[h]
          \/ pc'[h] = "lro"
      BY DEF Update, Return, Proceed, TypeInv, TypeOK
    <2> QED
      BY <1>2, <1>3, <1>4, <2>1 DEF Effects, Failed, Succeeded, Done, Sections
  <1>9. ASSUME NEW g \in Handlers, g # h PROVE Effects(g)'
    <2>1. /\ pc'[g] = pc[g] /\ reply'[g] = reply[g]
          /\ found'[g] = found[g] /\ wrote'[g] = wrote[g]
      BY <1>9 DEF Update, Commit, Return, Proceed, TypeInv, TypeOK
    <2> QED
      BY <1>4, <1>9, <2>1, OthersUnaffected
  <1> QED
    BY <1>7, <1>8, <1>9 DEF HistoryInv

LEMMA RemoveHistory ==
    ASSUME TypeInv, HistoryInv, NEW h \in Handlers, Remove(h)
    PROVE  HistoryInv'
  <1> DEFINE cur == Current(h)
  <1>1. pc[h] = "remove" /\ pc[h] \in Sections \ {"lro"}
    BY DEF Remove, Sections
  <1>2. /\ req[h].kind \in Kinds /\ req[h].name \in Names
        /\ cur \in {None} \cup Resource
        /\ req[h].verb = "delete" /\ ~req[h].validateOnly
    BY <1>1, WorkingRequest DEF OnPath
  <1>3. ~wrote[h] /\ removed[h] = None
    BY <1>1 DEF HistoryInv, Effects
  <1>4. UNCHANGED <<req, found, committed, fresh>>
    BY DEF Remove
  <1>5. ASSUME ~Present(h) PROVE HistoryInv'
    <2>1. /\ UNCHANGED <<store, wrote, removed>>
          /\ pc' = [pc EXCEPT ![h] = "done"]
          /\ reply'[h].code = "NotFound"
          /\ \A g \in Handlers : g # h => reply'[g] = reply[g]
      BY <1>5 DEF Remove, Return, TypeInv, TypeOK
    <2>2. Effects(h)'
      BY <1>3, <1>4, <2>1 DEF Effects, Failed, Succeeded, Done, Sections, TypeInv, TypeOK
    <2>3. \A g \in Handlers : g # h => Effects(g)'
      BY <1>4, <2>1, OthersUnaffected DEF TypeInv, TypeOK
    <2> QED
      BY <1>4, <2>1, <2>2, <2>3, NothingCommitted DEF HistoryInv
  <1>6. ASSUME Present(h) PROVE HistoryInv'
    <2>1. /\ store' = [store EXCEPT ![req[h].kind][req[h].name] = None]
          /\ wrote' = [wrote EXCEPT ![h] = TRUE]
          /\ removed' = [removed EXCEPT ![h] = cur]
          /\ pc' = [pc EXCEPT ![h] = "lro"]
          /\ UNCHANGED reply
      BY <1>6 DEF Remove
    <2>2. /\ cur # None /\ cur \in committed
          /\ cur.kind = req[h].kind /\ cur.name = req[h].name
      BY <1>2, <1>6 DEF Present, Current, HistoryInv, StoreIsCommitted
    <2>3. \A k \in Kinds, n \in Names :
             store'[k][n] = IF k = req[h].kind /\ n = req[h].name
                            THEN None ELSE store[k][n]
      BY <2>1 DEF TypeInv, TypeOK
    <2>4. StoreIsCommitted' /\ TokensIssued' /\ EtagsDistinct'
          /\ UidIdentifiesIncarnation'
      BY <1>4, <2>3 DEF HistoryInv, StoreIsCommitted, TokensIssued,
                        EtagsDistinct, EtagIdentifiesVersion, UidIdentifiesIncarnation
    <2>5. RemovedForGood'
      \* The uid of cur lived under its name only, and had not been removed.
      <3>1. \A k \in Kinds, n \in Names : store'[k][n] # None =>
               /\ store[k][n] = store'[k][n]
               /\ store[k][n].uid # cur.uid
        BY <2>2, <2>3 DEF HistoryInv, StoreIsCommitted, UidIdentifiesIncarnation
      <3>2. \A g \in Handlers : g # h /\ removed[g] # None => removed[g].uid # cur.uid
        BY <1>2, <1>6, <2>2 DEF HistoryInv, RemovedForGood, Current
      <3>3. \A g \in Handlers : removed'[g] = IF g = h THEN cur ELSE removed[g]
        BY <2>1 DEF TypeInv, TypeOK
      <3> QED
        BY <1>4, <2>2, <3>1, <3>2, <3>3 DEF HistoryInv, RemovedForGood
    <2>6. Effects(h)'
      BY <1>2, <1>4, <2>1, <2>2
      DEF Effects, Failed, Succeeded, Done, Sections, TypeInv, TypeOK
    <2>7. \A g \in Handlers : g # h => Effects(g)'
      BY <1>4, <2>1, OthersUnaffected DEF TypeInv, TypeOK
    <2> QED
      BY <2>4, <2>5, <2>6, <2>7 DEF HistoryInv
  <1> QED
    BY <1>5, <1>6

LEMMA CreateDoneHistory ==
    ASSUME TypeInv, HistoryInv, NEW h \in Handlers, CreateDone(h)
    PROVE  HistoryInv'
  <1>1. UNCHANGED <<store, req, found, committed, wrote, removed>> /\ fresh' = fresh + 1
    BY DEF CreateDone
  <1>2. /\ pc[h] = "lro" /\ pc'[h] = "done" /\ reply'[h].code = "OK"
        /\ \A g \in Handlers : g # h => pc'[g] = pc[g] /\ reply'[g] = reply[g]
    BY DEF CreateDone, TypeInv, TypeOK
  <1>3. Effects(h)'
    BY <1>1, <1>2 DEF HistoryInv, Effects, Failed, Succeeded, Done, Sections
  <1>4. \A g \in Handlers : g # h => Effects(g)'
    BY <1>1, <1>2, OthersUnaffected
  <1> QED
    BY <1>1, <1>3, <1>4, NothingCommitted DEF HistoryInv

LEMMA HistoryInvStep ==
    ASSUME TypeInv, HistoryInv, [Next]_vars
    PROVE  HistoryInv'
  <1>1. ASSUME NEW h \in Handlers, Reject(h) \/ Deny(h) \/ Admit(h)
        PROVE  HistoryInv'
    <2>1. ASSUME NEW r \in Requests, NEW code, code # "OK",
                 Accept(h, r, "done", None, code)
          PROVE  HistoryInv'
      BY <2>1, AcceptHistory
    <2>2. ASSUME NEW r \in Requests, Accept(h, r, FirstSection(r), Synthetic(r), "")
          PROVE  HistoryInv'
      <3>1. FirstSection(r) = "lro" => r.verb # "delete"
        BY RequestsAssumption DEF FirstSection, Request
      <3> QED
        BY <2>2, <3>1, FirstSectionOnPath, AcceptHistory
    <2> QED
      BY <1>1, <2>1, <2>2 DEF Reject, Deny, Admit
  <1>2. ASSUME NEW h \in Handlers, Serve(h) PROVE HistoryInv'
    <2>1. CASE Lookup(h)
      BY <2>1, LookupHistory
    <2>2. CASE Insert(h)
      <3>1. pc[h] \in Sections
        BY <2>2 DEF Insert, Sections
      <3>2. req[h].name \in Names
        BY <3>1, WorkingRequest
      <3> QED
        BY <2>2, <3>2, CreateAtHistory DEF Insert
    <2>3. CASE Update(h)
      BY <2>3, UpdateHistory
    <2>4. CASE Upsert(h)
      <3>1. pc[h] \in Sections
        BY <2>4 DEF Upsert, Sections
      <3>2. UpsertName(req[h].kind, req[h].name) \in Names
        BY <3>1, WorkingRequest
      <3> QED
        BY <2>4, <3>2, CreateAtHistory DEF Upsert
    <2>5. CASE Remove(h)
      BY <2>5, RemoveHistory
    <2>6. CASE CreateDone(h)
      BY <2>6, CreateDoneHistory
    <2> QED
      BY <1>2, <2>1, <2>2, <2>3, <2>4, <2>5, <2>6, ServeIsStep DEF Step
  <1>3. CASE DeleteOperation \/ UNCHANGED vars
    <2>1. UNCHANGED <<store, fresh, pc, req, found, reply, committed, wrote, removed>>
      BY <1>3 DEF DeleteOperation, vars
    <2>2. \A h \in Handlers : Effects(h)'
      BY <2>1 DEF HistoryInv, Effects, Failed, Succeeded, Done
    <2> QED
      BY <2>1, <2>2, NothingCommitted DEF HistoryInv
  <1> QED
    BY <1>1, <1>2, <1>3 DEF Next, Exhausted

\* The invariant holds in every instance.
LEMMA HistoryCorrect == Spec => [](TypeInv /\ HistoryInv)
  <1>1. Init => TypeInv /\ HistoryInv
    BY TypeInvInit, HistoryInvInit
  <1>2. TypeInv /\ HistoryInv /\ [Next]_vars => (TypeInv /\ HistoryInv)'
    BY TypeInvStep, HistoryInvStep
  <1> QED
    BY <1>1, <1>2, PTL DEF Spec

-----------------------------------------------------------------------------
(* The properties.                                                         *)

\* A dry run writes nothing, whatever runs beside it.
THEOREM DryRunsAreReadOnly == Spec => []ValidateOnlyIsReadOnly
  <1>1. HistoryInv => ValidateOnlyIsReadOnly
    BY DEF HistoryInv, Effects, ValidateOnlyIsReadOnly
  <1> QED
    BY <1>1, HistoryCorrect, PTL

\* No two versions ever stored share an etag.
THEOREM VersionsAreToldApart ==
    ASSUME MasksStopFirst
    PROVE  Spec => []EtagIdentifiesVersion
  <1>1. HistoryInv => EtagIdentifiesVersion
    BY DEF HistoryInv, EtagsDistinct
  <1> QED
    BY <1>1, HistoryCorrect, PTL

\* Versions that share a uid are versions of one resource, whose fields that
\* Update does not write have not changed; a name created anew has a new uid.
THEOREM IncarnationsAreToldApart == Spec => []UidIdentifiesIncarnation
  <1>1. HistoryInv => UidIdentifiesIncarnation
    BY DEF HistoryInv
  <1> QED
    BY <1>1, HistoryCorrect, PTL

\* Deletes that race for one resource: one of them removes it, the others fail
\* or remove a later incarnation.
THEOREM DeletesDoNotShare == Spec => []EveryDeleteRemovesItsOwn
  <1>1. HistoryInv => EveryDeleteRemovesItsOwn
    BY DEF HistoryInv, Effects, RemovedForGood, EveryDeleteRemovesItsOwn
  <1> QED
    BY <1>1, HistoryCorrect, PTL

-----------------------------------------------------------------------------
(* EventarcServer implements ResourceRegistry.                             *)

LEMMA IssuedMember ==
    \A x : x \in Issued <=> x = 0 \/ \E v \in committed : x = v.uid \/ x = v.etag
  BY DEF Issued

LEMMA FreshNotIssued ==
    ASSUME TypeInv, HistoryInv
    PROVE  fresh \notin Issued
  <1>1. fresh \in Nat /\ fresh > 0
    BY DEF TypeInv, TypeOK
  <1>2. \A v \in committed : v.uid # fresh /\ v.etag # fresh
    BY <1>1 DEF HistoryInv, TokensIssued
  <1> QED
    BY <1>1, <1>2, IssuedMember

\* Storing a version with a new number is a step of the registry.
LEMMA CommitIsRegistryStep ==
    ASSUME TypeInv, HistoryInv,
           NEW h \in Handlers, NEW v \in Resource,
           v.kind \in Kinds, v.name \in Names,
           v.etag = NewEtag(v.kind),
           \/ store[v.kind][v.name] = None /\ v.uid = fresh
           \/ store[v.kind][v.name] # None /\ v.uid = store[v.kind][v.name].uid,
           Commit(h, v)
    PROVE  Registry!Next
  <1>1. /\ store' = [store EXCEPT ![v.kind][v.name] = v]
        /\ committed' = committed \cup {v}
    BY DEF Commit
  <1>2. store'[v.kind][v.name] = v
    BY <1>1 DEF TypeInv, TypeOK
  <1>3. Issued' = Issued \cup {v.uid, v.etag}
    BY <1>1 DEF Issued
  <1>4. IF v.kind \in Etagged THEN v.etag \notin Issued ELSE v.etag = 0
    BY FreshNotIssued DEF NewEtag
  <1>5. v # None
    BY NoneAssumption
  <1>6. Registry!Becomes(v.kind, v.name, v)
    BY <1>1, <1>3, <1>4, <1>5 DEF Registry!Becomes
  <1>7. CASE store[v.kind][v.name] = None
    <2>1. Registry!Register(v.kind, v.name)
      BY <1>2, <1>5, <1>6, <1>7, FreshNotIssued DEF Registry!Register
    <2> QED
      BY <2>1 DEF Registry!Next
  <1>8. CASE store[v.kind][v.name] # None
    <2>1. Registry!Revise(v.kind, v.name)
      BY <1>2, <1>6, <1>8 DEF Registry!Revise
    <2> QED
      BY <2>1 DEF Registry!Next
  <1> QED
    BY <1>7, <1>8

LEMMA CreateAtRefines ==
    ASSUME TypeInv, HistoryInv, NEW h \in Handlers, NEW n \in Names,
           CreateAt(h, n), pc[h] \in {"insert", "upsert"}
    PROVE  Registry!Next \/ UNCHANGED <<store, Issued>>
  <1>1. CASE Taken(req[h].kind, n)
    BY <1>1 DEF CreateAt, Issued
  <1>2. CASE ~Taken(req[h].kind, n)
    <2> DEFINE v == Created(req[h], n)
    <2>1. req[h] \in Request /\ req[h].kind \in Kinds
      BY WorkingRequest DEF Sections
    <2>2. v \in Resource
      BY <2>1, CreatedTyped DEF TypeInv, TypeOK
    <2>3. /\ v.kind = req[h].kind /\ v.name = n /\ v.uid = fresh
          /\ v.etag = NewEtag(v.kind)
      BY DEF Created
    <2>4. Commit(h, v) /\ store[v.kind][v.name] = None
      BY <1>2, <2>3 DEF CreateAt, Taken
    <2> HIDE DEF v
    <2> QED
      BY <2>1, <2>2, <2>3, <2>4, CommitIsRegistryStep
  <1> QED
    BY <1>1, <1>2

LEMMA UpdateRefines ==
    ASSUME MasksStopFirst, TypeInv, HistoryInv, NEW h \in Handlers, Update(h)
    PROVE  Registry!Next \/ UNCHANGED <<store, Issued>>
  <1> DEFINE cur == Current(h)
             v == Updated(req[h], cur)
  <1>1. pc[h] \in Sections
    BY DEF Update, Sections
  <1>2. /\ req[h] \in Request /\ req[h].kind \in Kinds /\ req[h].name \in Names
        /\ FromClient(req[h]) /\ cur \in {None} \cup Resource
    BY <1>1, WorkingRequest DEF TypeInv, Serving
  <1>3. cur # None => /\ cur \in Resource /\ cur \in committed
                      /\ cur.kind = req[h].kind /\ cur.name = req[h].name
    BY <1>2 DEF HistoryInv, StoreIsCommitted, Current
  <1>4. CASE cur = None
    BY <1>4 DEF Update, Issued
  <1>5. CASE cur # None /\ StoppedByMask(req[h].kind, req[h].mask)
    <2>1. PartlyUpdated(req[h], cur) = cur
      BY <1>2, <1>3, <1>5, StoppedUpdateIsVoid
    <2>2. Commit(h, cur)
      BY <1>5, <2>1 DEF Update
    <2>3. store' = store /\ committed' = committed
      BY <1>2, <1>3, <1>5, <2>2 DEF Commit, Current, TypeInv, TypeOK
    <2> QED
      BY <2>3 DEF Issued
  <1>6. CASE cur # None /\ ~StoppedByMask(req[h].kind, req[h].mask)
    <2>1. v \in Resource
      BY <1>2, <1>3, <1>6, UpdatedTyped DEF TypeInv, TypeOK
    <2>2. /\ v.kind = cur.kind /\ v.name = cur.name /\ v.uid = cur.uid
          /\ v.etag = NewEtag(v.kind)
      BY <1>3, <1>6 DEF Updated, PartlyUpdated, Resource
    <2>3. Commit(h, v)
      BY <1>6 DEF Update
    <2>4. cur = store[v.kind][v.name] /\ v.kind \in Kinds /\ v.name \in Names
      BY <1>2, <1>3, <1>6, <2>2 DEF Current
    <2> HIDE DEF v, cur
    <2> QED
      BY <1>6, <2>1, <2>2, <2>3, <2>4, CommitIsRegistryStep
  <1> QED
    BY <1>4, <1>5, <1>6

LEMMA RemoveRefines ==
    ASSUME TypeInv, HistoryInv, NEW h \in Handlers, Remove(h)
    PROVE  Registry!Next \/ UNCHANGED <<store, Issued>>
  <1>1. req[h].kind \in Kinds /\ req[h].name \in Names /\ UNCHANGED Issued
    BY WorkingRequest DEF Remove, Sections, Issued
  <1>2. CASE ~Present(h)
    BY <1>1, <1>2 DEF Remove
  <1>3. CASE Present(h)
    <2>1. Registry!Withdraw(req[h].kind, req[h].name)
      BY <1>1, <1>3 DEF Remove, Present, Current, Registry!Withdraw
    <2> QED
      BY <1>1, <2>1 DEF Registry!Next
  <1> QED
    BY <1>2, <1>3

LEMMA StepRefines ==
    ASSUME MasksStopFirst, TypeInv, HistoryInv, [Next]_vars
    PROVE  [Registry!Next]_(Registry!vars)
  <1> SUFFICES Registry!Next \/ UNCHANGED <<store, Issued>>
    BY DEF Registry!vars
  <1>1. ASSUME NEW h \in Handlers, Serve(h)
        PROVE  Registry!Next \/ UNCHANGED <<store, Issued>>
    <2>1. CASE Lookup(h) \/ CreateDone(h)
      BY <2>1 DEF Lookup, CreateDone, Issued
    <2>2. CASE Insert(h)
      <3>1. req[h].name \in Names
        BY <2>2, WorkingRequest DEF Insert, Sections
      <3> QED
        BY <2>2, <3>1, CreateAtRefines DEF Insert
    <2>3. CASE Update(h)
      BY <2>3, UpdateRefines
    <2>4. CASE Upsert(h)
      <3>1. UpsertName(req[h].kind, req[h].name) \in Names
        BY <2>4, WorkingRequest DEF Upsert, Sections
      <3> QED
        BY <2>4, <3>1, CreateAtRefines DEF Upsert
    <2>5. CASE Remove(h)
      BY <2>5, RemoveRefines
    <2> QED
      BY <1>1, <2>1, <2>2, <2>3, <2>4, <2>5, ServeIsStep DEF Step
  <1>2. ASSUME NEW h \in Handlers, Reject(h) \/ Deny(h) \/ Admit(h)
        PROVE  UNCHANGED <<store, Issued>>
    BY <1>2 DEF Reject, Deny, Admit, Accept, Issued
  <1>3. CASE DeleteOperation \/ UNCHANGED vars
    BY <1>3 DEF DeleteOperation, vars, Issued
  <1> QED
    BY <1>1, <1>2, <1>3 DEF Next, Exhausted

\* The storage, under any interleaving of any number of handlers, is a registry
\* in which uids and etags are never handed out twice: every step of a handler
\* registers, revises or withdraws one resource, or leaves all of them alone.
THEOREM StorageIsRegistry ==
    ASSUME MasksStopFirst
    PROVE  Spec => RegistrySpec
  <1>1. Init => Registry!Init
    BY DEF Init, Registry!Init, Issued
  <1>2. TypeInv /\ HistoryInv /\ [Next]_vars => [Registry!Next]_(Registry!vars)
    BY StepRefines
  <1> QED
    BY <1>1, <1>2, HistoryCorrect, PTL DEF Spec, RegistrySpec, Registry!Spec
=============================================================================

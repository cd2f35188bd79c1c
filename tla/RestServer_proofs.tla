------------------------- MODULE RestServer_proofs -------------------------
(***************************************************************************)
(* Theorems about RestServer, for any requests from gRPC and HTTP: behind  *)
(* the gateway the server keeps the promises of EventarcServer, clients    *)
(* find the operations they were told of and the resources that are stored,*)
(* and a PATCH changes what it is about.                                   *)
(***************************************************************************)
EXTENDS RestServer, EventarcServer_replies, FiniteSetTheorems, SequenceTheorems

\* A step of the server with its gateway is a step of the server.
LEMMA RestStepIsStep ==
    ASSUME [RestNext]_restVars
    PROVE  [Next]_vars
  <1>1. ASSUME NEW h \in Handlers, Receive(h) PROVE Next
    BY <1>1 DEF Receive, Next
  <1>2. ASSUME NEW h \in Handlers, Serve(h) PROVE Next
    BY <1>2 DEF Next
  <1>3. CASE Poll \/ UNCHANGED restVars
    BY <1>3 DEF Poll, restVars
  <1> QED
    BY <1>1, <1>2, <1>3 DEF RestNext, Next

\* Every behaviour of the server with its gateway is a behaviour of the
\* server, so whatever is true of the RPCs is true of them behind HTTP.
LEMMA GatewayAddsNoBehaviour == RestSpec => Init /\ [][Next]_vars
  <1>1. RestInit => Init
    BY DEF RestInit
  <1> QED
    BY <1>1, RestStepIsStep, PTL DEF RestSpec

\* The inductive invariants of the server.
ServerInv == TypeInv /\ HistoryInv /\ AnswerInv

LEMMA ServerInvInit == Init => ServerInv
  <1>1. Init => AnswerInv
    BY DEF Init, AnswerInv, AnswersOwnVersion, AnswersDiffer, HoldsNamedResource, Writing,
           Succeeded, Done, LroTargetNamesResource
  <1> QED
    BY <1>1, TypeInvInit, HistoryInvInit DEF ServerInv

LEMMA ServerInvStep ==
    ASSUME ServerInv, [Next]_vars
    PROVE  ServerInv'
  BY TypeInvStep, HistoryInvStep, AnswerInvStep DEF ServerInv

LEMMA RestServerCorrect == RestSpec => []ServerInv
  BY ServerInvInit, ServerInvStep, GatewayAddsNoBehaviour, PTL

-----------------------------------------------------------------------------
(* Numbers.  The principle is stated for a set, not for a predicate.       *)

\* Every set of positions in a sequence has a greatest one: among the initial
\* segments that hold the set there is a smallest.
LEMMA GreatestNumber ==
    ASSUME NEW m \in Nat, NEW X \in SUBSET (1..m), X # {}
    PROVE  \E x \in X : \A y \in X : y <= x
  <1> DEFINE T == {1..n : n \in {i \in 1..m : X \subseteq 1..i}}
             R == StrictSubsetOrdering(Nat)
  <1>1. T \subseteq FiniteSubsetsOf(Nat)
    BY FS_Interval DEF FiniteSubsetsOf
  <1>2. IsWellFoundedOn(R, FiniteSubsetsOf(Nat))
    BY FS_StrictSubsetOrderingWellFounded
  <1>3. T # {}
    <2>0. PICK e \in X : e \in 1..m
      OBVIOUS
    <2>1. m \in 1..m /\ X \subseteq 1..m
      BY <2>0
    <2> QED
      BY <2>1
  <1> HIDE DEF T, R
  <1>4. PICK t \in T : \A u \in T : ~ (<<u, t>> \in R)
    BY <1>1, <1>2, <1>3, WFMin
  <1>5. PICK n \in 1..m : t = 1..n /\ X \subseteq 1..n
    BY DEF T
  <1>6. ASSUME n \notin X PROVE FALSE
    <2>0. PICK e \in X : TRUE
      OBVIOUS
    <2>1. X \subseteq 1..(n - 1) /\ n - 1 \in 1..m
      BY <1>5, <1>6, <2>0
    <2>2. 1..(n - 1) \in T
      BY <2>1 DEF T
    <2>3. 1..(n - 1) \subseteq 1..n /\ n \in 1..n /\ n \notin 1..(n - 1)
      OBVIOUS
    <2>4. <<1..(n - 1), 1..n>> \in R
      BY <2>3 DEF R, StrictSubsetOrdering
    <2> QED
      BY <1>4, <1>5, <2>2, <2>4
  <1> QED
    BY <1>5, <1>6

LEMMA NothingDisturbedBehindHttp == RestSpec /\ []Apart => []NothingDisturbed
  <1>1. Init => NothingDisturbed
    BY DEF Init, NothingDisturbed, Undisturbed, Succeeded, Done
  <1>2. ServerInv /\ Apart /\ NothingDisturbed /\ [Next]_vars => NothingDisturbed'
    BY NothingDisturbedStep DEF ServerInv
  <1> QED
    BY <1>1, <1>2, RestServerCorrect, GatewayAddsNoBehaviour, PTL

\* Behind the gateway, too, a Delete keeps its promises while calls about one
\* resource do not overlap: it removes no version with another etag than the one
\* it was sent, answers with what it removed, and tolerates a missing resource.
THEOREM ApartDeletesBehindHttp ==
    RestSpec /\ []Apart => [](EtagGuard /\ DeleteReportsRemoved /\ AllowMissingDeleteSucceeds)
  <1>1. NothingDisturbed => EtagGuard /\ DeleteReportsRemoved /\ AllowMissingDeleteSucceeds
    BY DEF NothingDisturbed, Undisturbed, EtagMatches, EtagGuard, DeleteReportsRemoved,
           AllowMissingDeleteSucceeds
  <1> QED
    BY <1>1, NothingDisturbedBehindHttp, PTL

\* So does an upsert that stores under the name the client gave: its operation
\* names the resource, and it does not fail because the resource exists.
THEOREM ApartUpsertsBehindHttp ==
    ASSUME UpsertsStayPut
    PROVE  RestSpec /\ []Apart => [](LroTargetNamesResource /\ UpsertNeverConflicts)
  <1>1. NothingDisturbed => UpsertNeverConflicts
    BY DEF NothingDisturbed, Undisturbed, UpsertNeverConflicts
  <1>2. ServerInv => LroTargetNamesResource
    BY DEF ServerInv, AnswerInv
  <1> QED
    BY <1>1, <1>2, NothingDisturbedBehindHttp, RestServerCorrect, PTL

\* RegistrySpec: the storage behind the gateway is the same registry of resources
\* with identities of their own, provided no mask stops an update halfway.
THEOREM StorageBehindHttpIsRegistry ==
    ASSUME MasksStopFirst
    PROVE  RestSpec => RegistrySpec
  <1>1. Init => Registry!Init
    BY DEF Init, Registry!Init, Issued
  <1>2. ServerInv /\ [Next]_vars => [Registry!Next]_(Registry!vars)
    BY StepRefines DEF ServerInv
  <1> QED
    BY <1>1, <1>2, RestServerCorrect, GatewayAddsNoBehaviour, PTL
    DEF RegistrySpec, Registry!Spec

-----------------------------------------------------------------------------
(* Types.                                                                  *)

\* The ids of operations are texts that tell them apart; none is empty or begins
\* with the word "operations", as no UUID does.
IdsAreTexts ==
    \A i \in Nat :
        /\ IdText(i) \in STRING \ (OpsLike \cup {""})
        /\ \A j \in Nat : IdText(i) = IdText(j) => i = j

\* The parent in the name of an operation begins as the name of its resource.
LEMMA ParentNames ==
    ASSUME NEW S, NEW n \in Seq(S), IsName(n), NEW k
    PROVE  /\ UpsertParent(k, n) \in Seq(S)
           /\ Len(UpsertParent(k, n)) > 0
           /\ UpsertParent(k, n)[1] = n[1]
  <1>1. Len(n) \in Nat /\ Len(n) > 0
    BY DEF IsName
  <1>2. ASSUME NEW m \in 1..Len(n)
        PROVE  /\ SubSeq(n, 1, m) \in Seq(S)
               /\ Len(SubSeq(n, 1, m)) > 0
               /\ SubSeq(n, 1, m)[1] = n[1]
    <2>1. \A i \in 1..m : n[i] \in S
      BY <1>1
    <2> QED
      BY <1>1, <2>1, SubSeqProperties
  <1>3. k = "trigger" \/ UpsertParent(k, n) = ParentFromResource(n)
    BY DEF UpsertParent
  <1>4. CASE k # "trigger"
    BY <1>1, <1>2, <1>3, <1>4 DEF ParentFromResource
  <1>5. CASE k = "trigger"
    <2> DEFINE cuts == {i \in 2..(Len(n) - 1) : n[i] = "triggers"}
    <2>1. UpsertParent(k, n) = Before(n, "triggers")
      BY <1>5 DEF UpsertParent, ParentFromName
    <2>2. CASE cuts = {}
      BY <1>1, <2>1, <2>2 DEF Before
    <2>3. CASE cuts # {}
      <3>0. Len(n) \in Nat /\ cuts \in SUBSET (1..Len(n))
        BY <1>1
      <3>1. PICK i \in cuts : \A j \in cuts : j <= i
        BY <2>3, <3>0, GreatestNumber
      <3>2. \E i2 \in cuts : Before(n, "triggers") = SubSeq(n, 1, i2 - 1)
        BY <2>3, <3>1 DEF Before
      <3> QED
        BY <1>1, <1>2, <2>1, <3>2
    <2> QED
      BY <2>2, <2>3
  <1> QED
    BY <1>4, <1>5

\* The name of an operation is a name: the parent of its resource, "operations"
\* and its id.
LEMMA OperationNames ==
    ASSUME IdsAreTexts, NEW o, o \in Operation
    PROVE  LET p == UpsertParent(o.kind, o.target) IN
           /\ o.target \in Seq(STRING) /\ IsName(o.target)
           /\ p \in Seq(STRING) /\ Len(p) > 0 /\ p[1] = o.target[1]
           /\ OperationName(o) \in Seq(STRING)
           /\ Len(OperationName(o)) = Len(p) + 2
           /\ \A i \in 1..Len(p) : OperationName(o)[i] = p[i]
           /\ OperationName(o)[Len(p) + 1] = "operations"
           /\ OperationName(o)[Len(p) + 2] = IdText(o.id)
  <1> DEFINE p == UpsertParent(o.kind, o.target)
             last == <<"operations", IdText(o.id)>>
  <1>1. o.target \in Names /\ o.id \in Nat
    BY DEF Operation
  <1>2. o.target \in Seq(STRING) /\ IsName(o.target)
    BY <1>1, NamesAssumption
  <1>3. p \in Seq(STRING) /\ Len(p) > 0 /\ p[1] = o.target[1]
    BY <1>2, ParentNames
  <1>4. "operations" \in STRING /\ IdText(o.id) \in STRING
    BY <1>1, OpsLikeAssumption DEF IdsAreTexts
  <1>5. last \in Seq(STRING) /\ Len(last) = 2
        /\ last[1] = "operations" /\ last[2] = IdText(o.id)
    BY <1>4
  <1>6. OperationName(o) = p \o last
    BY DEF OperationName
  <1> HIDE DEF p, last
  <1>7. /\ OperationName(o) \in Seq(STRING)
        /\ Len(OperationName(o)) = Len(p) + 2
        /\ \A i \in 1..(Len(p) + 2) :
              OperationName(o)[i] = IF i <= Len(p) THEN p[i] ELSE last[i - Len(p)]
    <2>1. /\ p \o last \in Seq(STRING)
          /\ Len(p \o last) = Len(p) + Len(last)
          /\ \A i \in 1..(Len(p) + Len(last)) :
                (p \o last)[i] = IF i <= Len(p) THEN p[i] ELSE last[i - Len(p)]
      BY <1>3, <1>5, ConcatProperties
    <2> QED
      BY <1>5, <1>6, <2>1
  <1>8. Len(p) \in Nat
    BY <1>3
  <1>9. \A i \in 1..Len(p) : OperationName(o)[i] = p[i]
    BY <1>7, <1>8
  <1>10. OperationName(o)[Len(p) + 1] = last[1] /\ OperationName(o)[Len(p) + 2] = last[2]
    BY <1>7, <1>8
  <1> QED
    BY <1>2, <1>3, <1>5, <1>7, <1>9, <1>10 DEF p

\* What the gateway says of the RPC that handler h has just accepted.
LEMMA ReceivedFrom ==
    ASSUME TypeInv, NEW h \in Handlers, Receive(h)
    PROVE  /\ polled' = None
           /\ \E x \in HttpRequests \cup {None} :
                 /\ http' = [http EXCEPT ![h] = x]
                 /\ x # None => Transcoded(x) = [req'[h] EXCEPT !.etag = 0]
  <1> DEFINE q == [req'[h] EXCEPT !.etag = 0]
  <1>1. PICK r \in Requests : \E next, res, code : Accept(h, r, next, res, code)
    BY DEF Receive, Reject, Deny, Admit
  <1>2. r \in Request /\ r.etag = 0
    BY RequestsAssumption DEF InProto
  <1>3. PICK e \in ClientEtags(r) : req' = [req EXCEPT ![h] = [r EXCEPT !.etag = e]]
    BY <1>1 DEF Accept
  <1>4. req'[h] = [r EXCEPT !.etag = e]
    BY <1>3 DEF TypeInv, TypeOK
  <1>5. [[r EXCEPT !.etag = e] EXCEPT !.etag = 0] = r
    BY <1>2 DEF Request
  <1>6. q \in Requests
    BY <1>4, <1>5
  <1>7. PICK x \in Sources[q] \cup {None} : http' = [http EXCEPT ![h] = x]
    BY DEF Receive
  <1> HIDE DEF q
  <1>8. Sources[q] = {y \in HttpRequests : Transcoded(y) = q}
    BY <1>6 DEF Sources
  <1>9. x \in HttpRequests \cup {None} /\ (x # None => Transcoded(x) = q)
    BY <1>7, <1>8
  <1> QED
    BY <1>7, <1>9 DEF q, Receive

LEMMA PollTyped ==
    ASSUME IdsAreTexts, TypeOK, Poll
    PROVE  polled' \in Polled
  <1>1. PICK o \in Known :
           \E op \in {GetByHttp(OperationName(o)), WaitOperation(OperationName(o))} :
              polled' = [asked |-> OperationName(o), op |-> op]
    BY DEF Poll
  <1>2. o \in Operation
    BY DEF Known, TypeOK, Reply
  <1>3. OperationName(o) \in Seq(STRING)
    BY <1>2, OperationNames
  <1>4. \A name : GetOperation(name) \in {None} \cup Operation
    BY DEF GetOperation, Stored, TypeOK
  <1>5. \A name : /\ WaitOperation(name) \in {None} \cup Operation
                  /\ GetByHttp(name) \in {None} \cup Operation
    BY <1>4 DEF WaitOperation, GetByHttp
  <1> QED
    BY <1>1, <1>3, <1>5 DEF Polled

\* Every variable keeps its type; in particular a client that polls is told of
\* an operation or of none, whatever the mux makes of the name.
THEOREM RestTypeCorrect ==
    ASSUME IdsAreTexts
    PROVE  RestSpec => []RestTypeOK
  <1> DEFINE Typed == /\ http \in [Handlers -> {None} \cup HttpRequests]
                      /\ polled \in {None} \cup Polled
  <1>1. RestInit => Typed
    BY DEF RestInit
  <1>2. ServerInv /\ Typed /\ [RestNext]_restVars => Typed'
    <2> SUFFICES ASSUME ServerInv, Typed, [RestNext]_restVars PROVE Typed'
      OBVIOUS
    <2>1. ASSUME NEW h \in Handlers, Receive(h) PROVE Typed'
      <3>1. /\ polled' = None
            /\ \E x \in HttpRequests \cup {None} : http' = [http EXCEPT ![h] = x]
        BY <2>1, ReceivedFrom DEF ServerInv
      <3> QED
        BY <3>1
    <2>2. CASE Poll
      BY <2>2, PollTyped DEF Poll, ServerInv, TypeInv
    <2>3. CASE UNCHANGED restVars
      BY <2>3 DEF restVars
    <2> QED
      BY <2>1, <2>2, <2>3 DEF RestNext
  <1>3. ServerInv /\ Typed => RestTypeOK
    BY DEF ServerInv, TypeInv, RestTypeOK
  <1> QED
    BY <1>1, <1>2, <1>3, RestServerCorrect, PTL DEF RestSpec

-----------------------------------------------------------------------------
(* The routes of the mux, as a set: which one is taken depends on the order *)
(* only where several match.                                               *)

Listed(seq, S) == seq \in Seq(S) /\ Range(seq) = S

LEMMA ListedConcat ==
    ASSUME NEW s, NEW t, NEW S, NEW T, Listed(s, S), Listed(t, T)
    PROVE  Listed(s \o t, S \cup T)
  <1>1. s \in Seq(S \cup T) /\ t \in Seq(S \cup T)
    BY SeqMonotonic DEF Listed
  <1>2. s \o t \in Seq(S \cup T) /\ Range(s \o t) = Range(s) \cup Range(t)
    BY <1>1, ConcatProperties, RangeConcatenation
  <1> QED
    BY <1>2 DEF Listed

LEMMA ListedPair ==
    ASSUME NEW a, NEW b PROVE Listed(<<a, b>>, {a, b})
  BY DEF Listed, Range

LEMMA ListedTriple ==
    ASSUME NEW a, NEW b, NEW c PROVE Listed(<<a, b, c>>, {a, b, c})
  BY DEF Listed, Range

LEMMA ListedFour ==
    ASSUME NEW a, NEW b, NEW c, NEW d PROVE Listed(<<a, b, c, d>>, {a, b, c, d})
  BY DEF Listed, Range

LEMMA ListedFive ==
    ASSUME NEW a, NEW b, NEW c, NEW d, NEW e PROVE Listed(<<a, b, c, d, e>>, {a, b, c, d, e})
  BY DEF Listed, Range

LEMMA ListedSix ==
    ASSUME NEW a, NEW b, NEW c, NEW d, NEW e, NEW f
    PROVE  Listed(<<a, b, c, d, e, f>>, {a, b, c, d, e, f})
  BY DEF Listed, Range

LEMMA ListedNine ==
    ASSUME NEW r1, NEW r2, NEW r3, NEW r4, NEW r5, NEW r6, NEW r7, NEW r8, NEW r9,
           NEW S1, NEW S2, NEW S3, NEW S4, NEW S5, NEW S6, NEW S7, NEW S8, NEW S9,
           Listed(r1, S1), Listed(r2, S2), Listed(r3, S3), Listed(r4, S4), Listed(r5, S5),
           Listed(r6, S6), Listed(r7, S7), Listed(r8, S8), Listed(r9, S9)
    PROVE  Listed(r1 \o r2 \o r3 \o r4 \o r5 \o r6 \o r7 \o r8 \o r9,
                  S1 \cup S2 \cup S3 \cup S4 \cup S5 \cup S6 \cup S7 \cup S8 \cup S9)
  <1>1. Listed(r1 \o r2 \o r3, S1 \cup S2 \cup S3)
    BY ListedConcat
  <1>2. Listed(r1 \o r2 \o r3 \o r4 \o r5, S1 \cup S2 \cup S3 \cup S4 \cup S5)
    BY <1>1, ListedConcat
  <1>3. Listed(r1 \o r2 \o r3 \o r4 \o r5 \o r6 \o r7,
               S1 \cup S2 \cup S3 \cup S4 \cup S5 \cup S6 \cup S7)
    BY <1>2, ListedConcat
  <1> QED
    BY <1>3, ListedConcat

FiveOf(k, c) ==
    {GetRoute(k, c), ListRoute(k, c), CreateRoute(k, c), UpdateRoute(k, c), DeleteRoute(k, c)}

ConfigPath == Located(<<"googleChannelConfig">>)

ProviderSet == {GetRoute("provider", "providers"), ListRoute("provider", "providers")}

ChannelConnectionSet ==
    {GetRoute("channelConnection", "channelConnections"),
     ListRoute("channelConnection", "channelConnections"),
     CreateRoute("channelConnection", "channelConnections"),
     DeleteRoute("channelConnection", "channelConnections")}

GoogleChannelConfigSet ==
    {Route("GET", ConfigPath, "", "get", "googleChannelConfig"),
     Route("PATCH", ConfigPath, "", "update", "googleChannelConfig")}

MessageBusSet ==
    {GetRoute("messageBus", "messageBuses"), ListRoute("messageBus", "messageBuses"),
     Route("GET", Item("messageBuses"), "listEnrollments", "listEnrollments", "messageBus"),
     CreateRoute("messageBus", "messageBuses"), UpdateRoute("messageBus", "messageBuses"),
     DeleteRoute("messageBus", "messageBuses")}

EventarcSet ==
    FiveOf("trigger", "triggers") \cup FiveOf("channel", "channels") \cup ProviderSet
    \cup ChannelConnectionSet \cup GoogleChannelConfigSet \cup MessageBusSet
    \cup FiveOf("enrollment", "enrollments") \cup FiveOf("pipeline", "pipelines")
    \cup FiveOf("googleApiSource", "googleApiSources")

PublisherSet ==
    {Route("POST", Item("channelConnections"), "publishEvents", "publishEvents",
           "channelConnection"),
     Route("POST", Item("channels"), "publishEvents", "publishEvents", "channel"),
     Route("POST", Item("messageBuses"), "publish", "publish", "messageBus")}

Below == <<"v1", "operations", "**">>
GetBelow == Route("GET", Below, "", "get", "operation")

OperationsSet ==
    {Route("GET", <<"v1", "operations">>, "", "list", "operation"), GetBelow,
     Route("DELETE", Below, "", "delete", "operation"),
     Route("POST", Below, "cancel", "cancel", "operation"),
     Route("POST", <<"google.longrunning.Operations", "WaitOperation">>, "", "wait",
           "operation")}

LEMMA ListedRoutes == Listed(Routes, EventarcSet \cup PublisherSet \cup OperationsSet)
  <1>1. \A k, c : Listed(FiveRoutes(k, c), FiveOf(k, c))
    BY ListedFive DEF FiveRoutes, FiveOf
  <1>2. /\ Listed(TriggerRoutes, FiveOf("trigger", "triggers"))
        /\ Listed(ChannelRoutes, FiveOf("channel", "channels"))
        /\ Listed(EnrollmentRoutes, FiveOf("enrollment", "enrollments"))
        /\ Listed(PipelineRoutes, FiveOf("pipeline", "pipelines"))
        /\ Listed(GoogleApiSourceRoutes, FiveOf("googleApiSource", "googleApiSources"))
    BY <1>1 DEF TriggerRoutes, ChannelRoutes, EnrollmentRoutes, PipelineRoutes,
                GoogleApiSourceRoutes
  <1>3. Listed(ProviderRoutes, ProviderSet)
    BY ListedPair DEF ProviderRoutes, ProviderSet
  <1>4. Listed(ChannelConnectionRoutes, ChannelConnectionSet)
    BY ListedFour DEF ChannelConnectionRoutes, ChannelConnectionSet
  <1>5. Listed(GoogleChannelConfigRoutes, GoogleChannelConfigSet)
    BY ListedPair DEF GoogleChannelConfigRoutes, GoogleChannelConfigSet, ConfigPath
  <1>6. Listed(MessageBusRoutes, MessageBusSet)
    BY ListedSix DEF MessageBusRoutes, MessageBusSet
  <1>7. Listed(EventarcRoutes, EventarcSet)
    BY <1>2, <1>3, <1>4, <1>5, <1>6, ListedNine DEF EventarcRoutes, EventarcSet
  <1>8. Listed(PublisherRoutes, PublisherSet)
    BY ListedTriple DEF PublisherRoutes, PublisherSet
  <1>9. Listed(OperationsRoutes, OperationsSet)
    BY ListedFive DEF OperationsRoutes, OperationsSet, GetBelow, Below
  <1> QED
    BY <1>7, <1>8, <1>9, ListedConcat DEF Routes

\* If one route matches and no other does, the mux takes it.
LEMMA MuxTakes ==
    ASSUME NEW x, NEW route \in Range(Routes), Matches(route, x),
           \A other \in Range(Routes) : Matches(other, x) => other = route
    PROVE  Mux(x) = [rpc |-> route.rpc, kind |-> route.kind, name |-> Captured(route, x)]
  <1> DEFINE S == {i \in DOMAIN Routes : Matches(Routes[i], x)}
  <1>1. Routes \in Seq(Range(Routes))
    BY ListedRoutes DEF Listed
  <1>2. Len(Routes) \in Nat /\ DOMAIN Routes = 1..Len(Routes)
    BY <1>1, LenProperties
  <1>3. PICK i \in DOMAIN Routes : Routes[i] = route
    BY DEF Range
  <1>4. S # {} /\ S \in SUBSET (1..Len(Routes))
    BY <1>2, <1>3
  <1>5. \E j \in S : \A l \in S : l <= j
    BY <1>2, <1>4, GreatestNumber
  <1>6. Tried(S) \in S
    BY <1>5 DEF Tried
  <1>7. Routes[Tried(S)] = route
    BY <1>6 DEF Range
  <1> QED
    BY <1>4, <1>7 DEF Mux

-----------------------------------------------------------------------------
(* Which routes a GET can take.                                            *)

\* The segments of the two shapes of pattern that the Eventarc routes have.
LEMMA PatternShapes ==
    ASSUME NEW c
    PROVE  /\ Len(Item(c)) = 7
           /\ Item(c)[1] = "v1" /\ Item(c)[2] = "projects" /\ Item(c)[3] = "*"
           /\ Item(c)[4] = "locations" /\ Item(c)[5] = "*" /\ Item(c)[6] = c
           /\ Item(c)[7] = "*"
           /\ Len(Located(<<c>>)) = 6
           /\ Located(<<c>>)[2] = "projects" /\ Located(<<c>>)[6] = c
  <1> DEFINE base == <<"v1", "projects", "*", "locations", "*">>
             pair == <<c, "*">>
             single == <<c>>
             S == {"v1", "projects", "*", "locations", c}
  <1>1. base \in Seq(S) /\ single \in Seq(S) /\ pair \in Seq(S)
    OBVIOUS
  <1>2. /\ Len(base) = 5 /\ base[1] = "v1" /\ base[2] = "projects" /\ base[3] = "*"
        /\ base[4] = "locations" /\ base[5] = "*"
        /\ Len(single) = 1 /\ single[1] = c
        /\ Len(pair) = 2 /\ pair[1] = c /\ pair[2] = "*"
    OBVIOUS
  <1>3. Item(c) = base \o pair /\ Located(<<c>>) = base \o single
    BY DEF Item, Located
  <1> HIDE DEF base, S, pair, single
  <1>5. /\ Len(base \o pair) = 7
        /\ \A i \in 1..7 : (base \o pair)[i] = IF i <= 5 THEN base[i] ELSE pair[i - 5]
    <2>1. /\ Len(base \o pair) = Len(base) + Len(pair)
          /\ \A i \in 1..(Len(base) + Len(pair)) :
                (base \o pair)[i] = IF i <= Len(base) THEN base[i] ELSE pair[i - Len(base)]
      BY <1>1, ConcatProperties
    <2> QED
      BY <1>2, <2>1
  <1>6. /\ Len(base \o single) = 6
        /\ \A i \in 1..6 : (base \o single)[i] = IF i <= 5 THEN base[i] ELSE single[i - 5]
    <2>1. /\ Len(base \o single) = Len(base) + Len(single)
          /\ \A i \in 1..(Len(base) + Len(single)) :
                (base \o single)[i] = IF i <= Len(base) THEN base[i] ELSE single[i - Len(base)]
      BY <1>1, ConcatProperties
    <2> QED
      BY <1>2, <2>1
  <1>7. /\ (base \o pair)[1] = base[1] /\ (base \o pair)[2] = base[2]
        /\ (base \o pair)[3] = base[3] /\ (base \o pair)[4] = base[4]
        /\ (base \o pair)[5] = base[5] /\ (base \o pair)[6] = pair[1]
        /\ (base \o pair)[7] = pair[2]
    BY <1>5
  <1>8. (base \o single)[2] = base[2] /\ (base \o single)[6] = single[1]
    BY <1>6
  <1> QED
    BY <1>2, <1>3, <1>5, <1>6, <1>7, <1>8

\* The pattern of an item covers the name of a resource in the collection.
LEMMA ItemMatches ==
    ASSUME NEW S, NEW path \in Seq(S), NEW c, c # "*"
    PROVE  SegmentsMatch(Item(c), path) <=>
              /\ Len(path) = 7
              /\ path[1] = "v1" /\ path[2] = "projects" /\ path[4] = "locations"
              /\ path[6] = c
  <1>1. SegmentsMatch(Item(c), path) <=>
           Len(path) = 7 /\ \A i \in 1..7 : Item(c)[i] \in {"*", path[i]}
    <2> DEFINE p == Item(c)
    <2>1. Len(p) = 7 /\ p[7] # "**"
      BY PatternShapes
    <2> HIDE DEF p
    <2>2. SegmentsMatch(p, path) <=>
             Len(path) = 7 /\ \A i \in 1..7 : p[i] \in {"*", path[i]}
      BY <2>1 DEF SegmentsMatch
    <2> QED
      BY <2>2 DEF p
  <1>2. ASSUME \A i \in 1..7 : Item(c)[i] \in {"*", path[i]}
        PROVE  /\ path[1] = "v1" /\ path[2] = "projects" /\ path[4] = "locations"
               /\ path[6] = c
    <2>1. /\ Item(c)[1] \in {"*", path[1]} /\ Item(c)[2] \in {"*", path[2]}
          /\ Item(c)[4] \in {"*", path[4]} /\ Item(c)[6] \in {"*", path[6]}
      BY <1>2
    <2>2. /\ Item(c)[1] = "v1" /\ Item(c)[2] = "projects"
          /\ Item(c)[4] = "locations" /\ Item(c)[6] = c
      BY PatternShapes
    <2> QED
      BY <2>1, <2>2
  <1>3. ASSUME path[1] = "v1" /\ path[2] = "projects" /\ path[4] = "locations"
               /\ path[6] = c
        PROVE  \A i \in 1..7 : Item(c)[i] \in {"*", path[i]}
    <2>1. /\ Item(c)[1] \in {"*", path[1]} /\ Item(c)[2] \in {"*", path[2]}
          /\ Item(c)[3] \in {"*", path[3]} /\ Item(c)[4] \in {"*", path[4]}
          /\ Item(c)[5] \in {"*", path[5]} /\ Item(c)[6] \in {"*", path[6]}
          /\ Item(c)[7] \in {"*", path[7]}
      <3>1. /\ Item(c)[1] = "v1" /\ Item(c)[2] = "projects" /\ Item(c)[3] = "*"
            /\ Item(c)[4] = "locations" /\ Item(c)[5] = "*" /\ Item(c)[6] = c
            /\ Item(c)[7] = "*"
        BY PatternShapes
      <3> QED
        BY <1>3, <3>1
    <2> QED
      BY <2>1
  <1> QED
    BY <1>1, <1>2, <1>3

\* The pattern of a collection, or of the config, covers shorter paths only.
LEMMA CollectionMatches ==
    ASSUME NEW S, NEW path \in Seq(S), NEW c, c # "**", SegmentsMatch(Located(<<c>>), path)
    PROVE  Len(path) = 6 /\ path[2] = "projects"
  <1> DEFINE p == Located(<<c>>)
  <1>1. Len(p) = 6 /\ p[6] # "**" /\ p[2] = "projects"
    BY PatternShapes
  <1> HIDE DEF p
  <1>2. SegmentsMatch(p, path)
    BY DEF p
  <1>3. Len(path) = 6 /\ \A i \in 1..6 : p[i] \in {"*", path[i]}
    BY <1>1, <1>2 DEF SegmentsMatch
  <1>4. p[2] \in {"*", path[2]}
    BY <1>3
  <1> QED
    BY <1>1, <1>3, <1>4

\* v1/operations/** covers whatever is below v1/operations.
LEMMA BelowMatches ==
    ASSUME NEW S, NEW path \in Seq(S)
    PROVE  SegmentsMatch(Below, path) <=>
              Len(path) >= 2 /\ path[1] = "v1" /\ path[2] = "operations"
  <1>1. Len(Below) = 3 /\ Below[1] = "v1" /\ Below[2] = "operations" /\ Below[3] = "**"
    BY DEF Below
  <1>2. SegmentsMatch(Below, path) <=>
           Len(path) >= 2 /\ \A i \in 1..2 : Below[i] \in {"*", path[i]}
    BY <1>1 DEF SegmentsMatch
  <1>3. (\A i \in 1..2 : Below[i] \in {"*", path[i]}) <=>
           Below[1] \in {"*", path[1]} /\ Below[2] \in {"*", path[2]}
    OBVIOUS
  <1> QED
    BY <1>1, <1>2, <1>3

\* Kinds have collections of their own.
LEMMA CollectionsDiffer ==
    ASSUME NEW k \in AllKinds
    PROVE  /\ Collection(k) \notin {"providers", "*", "**"}
           /\ \A l \in AllKinds : Collection(l) = Collection(k) => l = k
  BY DEF Collection, AllKinds

\* The routes that a GET without a verb can take.
LEMMA RoutesOfGet ==
    ASSUME NEW r \in Range(Routes), r.method = "GET", r.verb = ""
    PROVE  \/ \E k \in AllKinds : r = GetRoute(k, Collection(k))
           \/ r = GetRoute("provider", "providers")
           \/ \E c : c # "**" /\ r.pattern = Located(<<c>>)
           \/ r.pattern = <<"v1", "operations">>
           \/ r = GetBelow
  <1>1. r \in EventarcSet \/ r \in PublisherSet \/ r \in OperationsSet
    BY ListedRoutes DEF Listed
  <1>2. ASSUME NEW k \in AllKinds, r \in FiveOf(k, Collection(k))
        PROVE  \/ r = GetRoute(k, Collection(k))
               \/ r.pattern = Located(<<Collection(k)>>)
    <2>1. /\ CreateRoute(k, Collection(k)).method = "POST"
          /\ UpdateRoute(k, Collection(k)).method = "PATCH"
          /\ DeleteRoute(k, Collection(k)).method = "DELETE"
          /\ ListRoute(k, Collection(k)).pattern = Located(<<Collection(k)>>)
      BY DEF ListRoute, CreateRoute, UpdateRoute, DeleteRoute, Route
    <2> QED
      BY <1>2, <2>1 DEF FiveOf
  <1>3. CASE \E k \in AllKinds : r \in FiveOf(k, Collection(k))
    BY <1>2, <1>3, CollectionsDiffer
  <1>4. CASE r \in ProviderSet
    <2>1. ListRoute("provider", "providers").pattern = Located(<<"providers">>)
      BY DEF ListRoute, Route
    <2>2. "providers" # "**"
      OBVIOUS
    <2> QED
      BY <1>4, <2>1, <2>2 DEF ProviderSet
  <1>5. CASE r \in GoogleChannelConfigSet
    <2>0. /\ Route("GET", ConfigPath, "", "get", "googleChannelConfig").pattern = ConfigPath
          /\ Route("PATCH", ConfigPath, "", "update", "googleChannelConfig").pattern = ConfigPath
      BY DEF Route
    <2>1. r.pattern = Located(<<"googleChannelConfig">>)
      BY <1>5, <2>0 DEF GoogleChannelConfigSet, ConfigPath
    <2>2. "googleChannelConfig" # "**"
      OBVIOUS
    <2> QED
      BY <2>1, <2>2
  <1>6. r \in ChannelConnectionSet => r \in FiveOf("channelConnection", "channelConnections")
    BY DEF ChannelConnectionSet, FiveOf
  <1>7. r \in MessageBusSet => r \in FiveOf("messageBus", "messageBuses")
    <2>1. Route("GET", Item("messageBuses"), "listEnrollments", "listEnrollments",
                "messageBus").verb = "listEnrollments"
      BY DEF Route
    <2> QED
      BY <2>1 DEF MessageBusSet, FiveOf
  <1>8. /\ AllKinds = {"trigger", "channel", "channelConnection", "messageBus",
                       "enrollment", "pipeline", "googleApiSource"}
        /\ Collection("trigger") = "triggers" /\ Collection("channel") = "channels"
        /\ Collection("channelConnection") = "channelConnections"
        /\ Collection("messageBus") = "messageBuses"
        /\ Collection("enrollment") = "enrollments"
        /\ Collection("pipeline") = "pipelines"
        /\ Collection("googleApiSource") = "googleApiSources"
    BY DEF AllKinds, Collection
  <1>9. CASE r \in EventarcSet
    <2>1. \/ r \in ProviderSet \/ r \in GoogleChannelConfigSet
          \/ r \in FiveOf("trigger", "triggers") \/ r \in FiveOf("channel", "channels")
          \/ r \in FiveOf("channelConnection", "channelConnections")
          \/ r \in FiveOf("messageBus", "messageBuses")
          \/ r \in FiveOf("enrollment", "enrollments") \/ r \in FiveOf("pipeline", "pipelines")
          \/ r \in FiveOf("googleApiSource", "googleApiSources")
      BY <1>6, <1>7, <1>9 DEF EventarcSet
    <2> QED
      BY <1>3, <1>4, <1>5, <1>8, <2>1
  <1>10. CASE r \in PublisherSet
    <2>1. \A p, v, f, k : Route("POST", p, v, f, k).method # "GET"
      BY DEF Route
    <2> QED
      BY <1>10, <2>1 DEF PublisherSet
  <1>11. CASE r \in OperationsSet
    <2>1. \A p, v, f, k : /\ Route("POST", p, v, f, k).method # "GET"
                          /\ Route("DELETE", p, v, f, k).method # "GET"
      BY DEF Route
    <2>2. Route("GET", <<"v1", "operations">>, "", "list", "operation").pattern
             = <<"v1", "operations">>
      BY DEF Route
    <2> QED
      BY <1>11, <2>1, <2>2 DEF OperationsSet
  <1> QED
    BY <1>1, <1>9, <1>10, <1>11

\* The routes that are looked for are there.
LEMMA RoutesThere ==
    /\ \A k \in AllKinds : GetRoute(k, Collection(k)) \in Range(Routes)
    /\ GetBelow \in Range(Routes)
  <1>1. \A k \in AllKinds : GetRoute(k, Collection(k)) \in EventarcSet
    BY DEF AllKinds, Collection, EventarcSet, FiveOf, ChannelConnectionSet, MessageBusSet
  <1>2. GetBelow \in OperationsSet
    BY DEF OperationsSet
  <1> QED
    BY <1>1, <1>2, ListedRoutes DEF Listed

-----------------------------------------------------------------------------
(* GET /v1/<name of a resource>.                                           *)

\* The name of a resource of kind k in a location, no segment of which begins
\* with the word "operations".
WholeName(k, n) ==
    /\ n \in Seq(STRING)
    /\ Len(n) = 6
    /\ n[1] = "projects" /\ n[3] = "locations" /\ n[5] = Collection(k)
    /\ \A i \in 1..6 : n[i] \notin OpsLike

\* The path of a GET for a name.
LEMMA PathOfName ==
    ASSUME NEW n \in Seq(STRING)
    PROVE  LET path == <<"v1">> \o n
               S == STRING \cup {"v1"}
           IN  /\ path \in Seq(S) /\ Len(path) = Len(n) + 1
               /\ path[1] = "v1" /\ \A i \in 1..Len(n) : path[i + 1] = n[i]
               /\ Tail(path) = n
  <1> DEFINE v == <<"v1">>
             S == STRING \cup {"v1"}
             path == v \o n
  <1>1. v \in Seq(S) /\ n \in Seq(S) /\ Len(v) = 1 /\ v[1] = "v1" /\ Len(n) \in Nat
    BY SeqMonotonic
  <1> HIDE DEF v, S
  <1>2. /\ path \in Seq(S) /\ Len(path) = Len(v) + Len(n)
        /\ \A i \in 1..(Len(v) + Len(n)) :
              path[i] = IF i <= Len(v) THEN v[i] ELSE n[i - Len(v)]
    BY <1>1, ConcatProperties
  <1> HIDE DEF path
  <1>3. Len(path) = Len(n) + 1 /\ path[1] = v[1] /\ \A i \in 1..Len(n) : path[i + 1] = n[i]
    BY <1>1, <1>2
  <1>4. Tail(path) = n
    <2>1. path # << >>
      BY <1>1, <1>2, <1>3, EmptySeq
    <2>2. /\ Tail(path) \in Seq(S) /\ Len(Tail(path)) = Len(path) - 1
          /\ \A i \in 1..Len(Tail(path)) : Tail(path)[i] = path[i + 1]
      BY <1>2, <2>1, HeadTailProperties
    <2>3. Len(Tail(path)) = Len(n) /\ \A i \in 1..Len(n) : Tail(path)[i] = n[i]
      BY <1>1, <1>3, <2>2
    <2> QED
      BY <1>1, <2>2, <2>3, SeqEqual
  <1> QED
    BY <1>1, <1>2, <1>3, <1>4 DEF path, v, S

\* A route without a verb captures all of the path but v1.
LEMMA CapturesTail ==
    ASSUME NEW S, NEW path \in Seq(S), Len(path) >= 2, NEW r, NEW x,
           x.path = path, x.verb = r.verb, r.rpc = "get"
    PROVE  Captured(r, x) = Tail(path)
  <1>1. Captured(r, x) = Append(SubSeq(path, 2, Len(path) - 1), path[Len(path)])
    BY DEF Captured
  <1>2. Len(path) \in Nat /\ path # << >> /\ \A i \in 1..Len(path) : path[i] \in S
    BY EmptySeq, ElementOfSeq
  <1> DEFINE m == Len(path) - 1
             front == SubSeq(path, 2, m)
  <1>3. m \in Nat /\ m >= 1 /\ \A i \in 2..m : path[i] \in S
    BY <1>2
  <1>4. /\ front \in Seq(S) /\ Len(front) = m - 1
        /\ \A i \in 1..(m - 1) : front[i] = path[i + 1]
    <2>1. /\ front \in Seq(S) /\ Len(front) = IF 2 <= m THEN m - 2 + 1 ELSE 0
          /\ \A i \in 1..(m - 2 + 1) : front[i] = path[2 + i - 1]
      BY <1>3, SubSeqProperties
    <2> HIDE DEF front, m
    <2>2. Len(front) = m - 1 /\ m - 2 + 1 = m - 1
      BY <1>3, <2>1
    <2>3. ASSUME NEW i \in 1..(m - 1) PROVE front[i] = path[i + 1]
      <3>1. 2 + i - 1 = i + 1
        BY <1>3
      <3> QED
        BY <2>1, <2>2, <3>1
    <2> QED
      BY <2>1, <2>2, <2>3
  <1>5. path[Len(path)] \in S
    BY <1>2
  <1> HIDE DEF front
  <1> DEFINE whole == Append(front, path[Len(path)])
  <1>6. /\ whole \in Seq(S) /\ Len(whole) = Len(front) + 1
        /\ \A i \in 1..Len(front) : whole[i] = front[i]
        /\ whole[Len(front) + 1] = path[Len(path)]
    BY <1>4, <1>5, AppendProperties
  <1> HIDE DEF whole
  <1>7. /\ Tail(path) \in Seq(S) /\ Len(Tail(path)) = Len(path) - 1
        /\ \A i \in 1..Len(Tail(path)) : Tail(path)[i] = path[i + 1]
    BY <1>2, HeadTailProperties
  <1>8. Len(whole) = m /\ \A i \in 1..m : whole[i] = path[i + 1]
    <2>1. Len(whole) = m
      BY <1>3, <1>4, <1>6
    <2>2. ASSUME NEW i \in 1..m PROVE whole[i] = path[i + 1]
      <3>1. CASE i = m
        <4>1. i = Len(front) + 1 /\ i + 1 = Len(path)
          BY <1>2, <1>3, <1>4, <3>1
        <4> QED
          BY <1>6, <4>1
      <3>2. CASE i # m
        <4>1. i \in 1..(m - 1) /\ i \in 1..Len(front)
          BY <1>3, <1>4, <3>2
        <4> QED
          BY <1>4, <1>6, <4>1
      <3> QED
        BY <3>1, <3>2
    <2> QED
      BY <2>1, <2>2
  <1>9. whole = Tail(path)
    <2>1. Len(whole) = Len(Tail(path))
      BY <1>7, <1>8
    <2>2. \A i \in 1..Len(whole) : whole[i] = Tail(path)[i]
      BY <1>7, <1>8
    <2> QED
      BY <1>6, <1>7, <2>1, <2>2, SeqEqual
  <1> QED
    BY <1>1, <1>9 DEF whole, front

\* The mux takes the route of the Get.
LEMMA MuxFindsResource ==
    ASSUME NEW S, NEW path \in Seq(S), NEW k \in AllKinds,
           Len(path) = 7, path[1] = "v1", path[2] = "projects", path[4] = "locations",
           path[6] = Collection(k)
    PROVE  Mux(GetPath(path)) = [rpc |-> "get", kind |-> k, name |-> Tail(path)]
  <1> DEFINE x == GetPath(path)
             c == Collection(k)
             get == GetRoute(k, c)
  <1>0. Len(path) >= 2 /\ Len(path) # 6 /\ Len(path) # 2
    OBVIOUS
  <1>1. x.method = "GET" /\ x.path = path /\ x.verb = ""
    BY DEF GetPath
  <1>2. /\ get.method = "GET" /\ get.pattern = Item(c) /\ get.verb = ""
        /\ get.rpc = "get" /\ get.kind = k
    BY DEF GetRoute, Route
  <1>3. \A l, d : GetRoute(l, d).pattern = Item(d)
    BY DEF GetRoute, Route
  <1>4. \A d : d # "*" => (SegmentsMatch(Item(d), path) <=> d = c)
    BY ItemMatches
  <1>5. c # "*" /\ c # "providers" /\ \A l \in AllKinds : Collection(l) # "*"
    BY CollectionsDiffer
  <1>6. get \in Range(Routes)
    BY RoutesThere
  <1> HIDE DEF x, get
  <1>7. Matches(get, x)
    <2>1. SegmentsMatch(get.pattern, path)
      BY <1>2, <1>4, <1>5
    <2> QED
      BY <1>1, <1>2, <2>1 DEF Matches
  <1>8. ASSUME NEW r \in Range(Routes), Matches(r, x)
        PROVE  r = get
    <2>1. r.method = "GET" /\ r.verb = "" /\ SegmentsMatch(r.pattern, path)
      BY <1>1, <1>8 DEF Matches
    <2>2. ASSUME NEW l \in AllKinds, r = GetRoute(l, Collection(l))
          PROVE  r = get
      <3>1. SegmentsMatch(Item(Collection(l)), path)
        BY <1>3, <2>1, <2>2
      <3>2. Collection(l) = c
        BY <1>4, <1>5, <3>1
      <3>3. l = k
        BY <3>2, CollectionsDiffer
      <3> QED
        BY <2>2, <3>3 DEF get
    <2>3. r # GetRoute("provider", "providers")
      <3>1. GetRoute("provider", "providers").pattern = Item("providers")
        BY DEF GetRoute, Route
      <3>2. "providers" # "*"
        OBVIOUS
      <3>3. ~SegmentsMatch(Item("providers"), path)
        BY <1>4, <1>5, <3>2
      <3> QED
        BY <2>1, <3>1, <3>3
    <2>4. ASSUME NEW d, d # "**", r.pattern = Located(<<d>>) PROVE FALSE
      <3>1. SegmentsMatch(Located(<<d>>), path)
        BY <2>1, <2>4
      <3>2. Len(path) = 6
        BY <2>4, <3>1, CollectionMatches
      <3> QED
        BY <1>0, <3>2
    <2>5. ASSUME r.pattern = <<"v1", "operations">> PROVE FALSE
      <3> DEFINE p == <<"v1", "operations">>
      <3>1. Len(p) = 2 /\ p[2] # "**"
        OBVIOUS
      <3>2. SegmentsMatch(p, path)
        BY <2>1, <2>5
      <3> HIDE DEF p
      <3> QED
        BY <3>1, <3>2 DEF SegmentsMatch
    <2>6. r # GetBelow
      <3>1. GetBelow.pattern = Below
        BY DEF GetBelow, Route
      <3>2. ~SegmentsMatch(Below, path)
        BY BelowMatches
      <3> QED
        BY <2>1, <3>1, <3>2
    <2> QED
      BY <2>1, <2>2, <2>3, <2>4, <2>5, <2>6, RoutesOfGet
  <1>9. Mux(x) = [rpc |-> get.rpc, kind |-> get.kind, name |-> Captured(get, x)]
    BY <1>6, <1>7, <1>8, MuxTakes
  <1>10. Captured(get, x) = Tail(path)
    <2>1. x.verb = get.verb
      BY <1>1, <1>2
    <2> QED
      BY <1>0, <1>1, <1>2, <2>1, CapturesTail
  <1> QED
    BY <1>2, <1>9, <1>10 DEF x

\* No segment turns the path of a resource into one of the operations.
LEMMA DispatchFindsResource ==
    ASSUME NEW k \in AllKinds, NEW n, WholeName(k, n)
    PROVE  Dispatch(GetPath(<<"v1">> \o n)) = [rpc |-> "get", kind |-> k, name |-> n]
  <1> DEFINE path == <<"v1">> \o n
             S == STRING \cup {"v1"}
  <1>1. /\ path \in Seq(S) /\ Len(path) = Len(n) + 1
        /\ path[1] = "v1" /\ \A i \in 1..Len(n) : path[i + 1] = n[i]
        /\ Tail(path) = n
    BY PathOfName DEF WholeName
  <1>2. Len(n) = 6 /\ \A i \in 1..6 : n[i] \notin OpsLike
    BY DEF WholeName
  <1> HIDE DEF path, S
  <1>3. Len(path) = 7 /\ \A i \in 1..6 : path[i + 1] = n[i]
    BY <1>1, <1>2
  <1>4. path[2] = n[1] /\ path[4] = n[3] /\ path[6] = n[5]
    BY <1>3
  <1>5. Cuts(path) = {}
    <2>1. ASSUME NEW i \in 3..7 PROVE path[i] \notin OpsLike
      <3>1. i - 1 \in 1..6 /\ (i - 1) + 1 = i
        OBVIOUS
      <3>2. path[(i - 1) + 1] = n[i - 1]
        BY <1>3, <3>1
      <3> QED
        BY <1>2, <3>1, <3>2
    <2> QED
      BY <1>3, <2>1 DEF Cuts
  <1>6. GetPath(path).path = path
    BY DEF GetPath
  <1>7. Dispatch(GetPath(path)) = Mux(GetPath(path))
    BY <1>5, <1>6 DEF Dispatch, Intercepted
  <1>8. /\ path[1] = "v1" /\ path[2] = "projects" /\ path[4] = "locations"
        /\ path[6] = Collection(k)
    BY <1>1, <1>4 DEF WholeName
  <1>9. Mux(GetPath(path)) = [rpc |-> "get", kind |-> k, name |-> Tail(path)]
    BY <1>1, <1>3, <1>8, MuxFindsResource
  <1> QED
    BY <1>1, <1>7, <1>9 DEF path

\* The names under which clients create resources are whole ones.
KeysAreWhole ==
    \A r \in Requests :
        /\ r.verb = "create" => WholeName(r.kind, r.name)
        /\ r.verb = "update" /\ r.allowMissing =>
              WholeName(r.kind, UpsertName(r.kind, r.name))

StoredWhole == \A k \in Kinds, n \in Names : store[k][n] # None => WholeName(k, n)

\* The key under which a handler creates is the one its client asked for.
LEMMA KeysOfHandlers ==
    ASSUME KeysAreWhole, TypeInv, AnswerInv, NEW h \in Handlers
    PROVE  /\ pc[h] = "insert" => WholeName(req[h].kind, req[h].name)
           /\ pc[h] = "upsert" =>
                 WholeName(req[h].kind, UpsertName(req[h].kind, req[h].name))
  <1>1. ASSUME pc[h] \in {"insert", "upsert"}
        PROVE  /\ pc[h] = "insert" => WholeName(req[h].kind, req[h].name)
               /\ pc[h] = "upsert" =>
                     WholeName(req[h].kind, UpsertName(req[h].kind, req[h].name))
    <2>1. /\ FromClient(req[h])
          /\ pc[h] = "insert" => req[h].verb = "create"
          /\ pc[h] = "upsert" => req[h].verb = "update" /\ req[h].allowMissing
      BY <1>1 DEF TypeInv, Serving, OnPath, AnswerInv, HoldsNamedResource, Sections
    <2>2. PICK r \in Requests, e \in Nat : req[h] = [r EXCEPT !.etag = e]
      BY <2>1 DEF FromClient
    <2>3. /\ r.verb = req[h].verb /\ r.allowMissing = req[h].allowMissing
          /\ r.kind = req[h].kind /\ r.name = req[h].name
      BY <2>2, RequestsAssumption DEF Request
    <2> QED
      BY <2>1, <2>3 DEF KeysAreWhole
  <1> QED
    BY <1>1

LEMMA StoredWholeStep ==
    ASSUME KeysAreWhole, ServerInv, StoredWhole, [Next]_vars
    PROVE  StoredWhole'
  <1>1. ASSUME NEW h \in Handlers, Reject(h) \/ Deny(h) \/ Admit(h)
        PROVE  StoredWhole'
    BY <1>1 DEF Reject, Deny, Admit, Accept, StoredWhole
  <1>2. ASSUME NEW h \in Handlers, Serve(h) PROVE StoredWhole'
    <2>1. store \in [Kinds -> [Names -> {None} \cup Resource]]
      BY DEF ServerInv, TypeInv, TypeOK
    <2>2. ASSUME NEW v, WholeName(v.kind, v.name), Commit(h, v)
          PROVE  StoredWhole'
      BY <2>1, <2>2 DEF Commit, StoredWhole
    <2>3. ASSUME NEW m, WholeName(req[h].kind, m), CreateAt(h, m)
          PROVE  StoredWhole'
      <3>1. Created(req[h], m).kind = req[h].kind /\ Created(req[h], m).name = m
        BY DEF Created
      <3>2. CASE Taken(req[h].kind, m)
        BY <2>3, <3>2 DEF CreateAt, StoredWhole
      <3>3. CASE ~Taken(req[h].kind, m)
        BY <2>2, <2>3, <3>1, <3>3 DEF CreateAt
      <3> QED
        BY <3>2, <3>3
    <2>4. CASE Insert(h) \/ Upsert(h)
      BY <2>3, <2>4, KeysOfHandlers DEF Insert, Upsert, ServerInv
    <2>5. CASE Lookup(h) \/ CreateDone(h)
      BY <2>5 DEF Lookup, CreateDone, StoredWhole
    <2>6. CASE Remove(h)
      BY <2>1, <2>6 DEF Remove, StoredWhole
    <2>7. CASE Update(h)
      <3> DEFINE cur == Current(h)
      <3>1. pc[h] \in Sections
        BY <2>7 DEF Update, Sections
      <3>2. req[h] \in Request /\ req[h].kind \in Kinds /\ req[h].name \in Names
        BY <3>1, WorkingRequest DEF ServerInv
      <3>3. CASE cur = None
        BY <2>7, <3>3 DEF Update, StoredWhole
      <3>4. CASE cur # None
        <4>1. cur \in Resource /\ WholeName(cur.kind, cur.name)
          BY <2>1, <3>2, <3>4
          DEF Current, ServerInv, HistoryInv, StoreIsCommitted, StoredWhole
        <4>2. \A v \in {PartlyUpdated(req[h], cur), Updated(req[h], cur)} :
                 v.kind = cur.kind /\ v.name = cur.name
          BY <4>1 DEF Updated, PartlyUpdated, Resource
        <4>3. Commit(h, PartlyUpdated(req[h], cur)) \/ Commit(h, Updated(req[h], cur))
          BY <2>7, <3>4 DEF Update
        <4> QED
          BY <2>2, <4>1, <4>2, <4>3
      <3> QED
        BY <3>3, <3>4
    <2> QED
      BY <1>2, <2>4, <2>5, <2>6, <2>7, ServeIsStep DEF Step
  <1>3. CASE DeleteOperation \/ UNCHANGED vars
    BY <1>3 DEF DeleteOperation, vars, StoredWhole
  <1> QED
    BY <1>1, <1>2, <1>3 DEF Next, Exhausted

\* GET /v1/<name> reaches the Get of every stored resource, in spite of the
\* rewriting of paths for the operations and of the routes tried before, if the
\* names of the resources are whole and none of their segments begins with the
\* word "operations".
THEOREM StoredResourcesAreReachable ==
    ASSUME KeysAreWhole
    PROVE  RestSpec => []ResourcesAreReachable
  <1>1. Init => StoredWhole
    BY DEF Init, StoredWhole
  <1>2. ServerInv /\ StoredWhole /\ [Next]_vars => StoredWhole'
    BY StoredWholeStep
  <1>3. StoredWhole => ResourcesAreReachable
    BY DispatchFindsResource, KindsAssumption DEF StoredWhole, ResourcesAreReachable
  <1> QED
    BY <1>1, <1>2, <1>3, RestServerCorrect, GatewayAddsNoBehaviour, PTL

-----------------------------------------------------------------------------
(* GET /v1/<name of an operation>.                                         *)

\* Below v1/operations the mux takes the route of GetOperation.
LEMMA MuxFindsOperation ==
    ASSUME NEW S, NEW path \in Seq(S), NEW x,
           x.method = "GET", x.path = path, x.verb = "",
           Len(path) >= 2, Len(path) # 2, path[1] = "v1", path[2] = "operations"
    PROVE  Mux(x) = [rpc |-> "get", kind |-> "operation", name |-> Tail(path)]
  <1>1. Len(path) >= 2 /\ Len(path) # 2
    OBVIOUS
  <1>2. /\ GetBelow.method = "GET" /\ GetBelow.pattern = Below /\ GetBelow.verb = ""
        /\ GetBelow.rpc = "get" /\ GetBelow.kind = "operation"
    BY DEF GetBelow, Route
  <1>3. SegmentsMatch(Below, path)
    BY <1>1, BelowMatches
  <1>4. Matches(GetBelow, x)
    BY <1>2, <1>3 DEF Matches
  <1>5. "projects" # path[2]
    OBVIOUS
  <1>6. \A d : d # "*" => ~SegmentsMatch(Item(d), path)
    BY <1>5, ItemMatches
  <1>7. ASSUME NEW r \in Range(Routes), Matches(r, x)
        PROVE  r = GetBelow
    <2>1. r.method = "GET" /\ r.verb = "" /\ SegmentsMatch(r.pattern, path)
      BY <1>7 DEF Matches
    <2>2. ASSUME NEW l, NEW d, d # "*", r = GetRoute(l, d) PROVE FALSE
      <3>1. GetRoute(l, d).pattern = Item(d)
        BY DEF GetRoute, Route
      <3> QED
        BY <1>6, <2>1, <2>2, <3>1
    <2>3. ASSUME NEW l \in AllKinds, r = GetRoute(l, Collection(l)) PROVE FALSE
      BY <2>2, <2>3, CollectionsDiffer
    <2>4. r # GetRoute("provider", "providers")
      <3>1. "providers" # "*"
        OBVIOUS
      <3> QED
        BY <2>2, <3>1
    <2>5. ASSUME NEW d, d # "**", r.pattern = Located(<<d>>) PROVE FALSE
      <3>1. path[2] = "projects"
        BY <2>1, <2>5, CollectionMatches
      <3> QED
        BY <1>5, <3>1
    <2>6. ASSUME r.pattern = <<"v1", "operations">> PROVE FALSE
      <3> DEFINE p == <<"v1", "operations">>
      <3>1. Len(p) = 2 /\ p[2] # "**"
        OBVIOUS
      <3>2. SegmentsMatch(p, path)
        BY <2>1, <2>6
      <3> HIDE DEF p
      <3> QED
        BY <1>1, <3>1, <3>2 DEF SegmentsMatch
    <2> QED
      BY <2>1, <2>3, <2>4, <2>5, <2>6, RoutesOfGet
  <1>8. Mux(x) = [rpc |-> GetBelow.rpc, kind |-> GetBelow.kind, name |-> Captured(GetBelow, x)]
    <2>1. GetBelow \in Range(Routes)
      BY RoutesThere
    <2>2. \A r \in Range(Routes) : Matches(r, x) => r = GetBelow
      BY <1>7
    <2> QED
      BY <1>4, <2>1, <2>2, MuxTakes
  <1>9. Captured(GetBelow, x) = Tail(path)
    <2>1. x.verb = GetBelow.verb /\ GetBelow.rpc = "get"
      BY <1>2
    <2> QED
      BY <1>1, <2>1, CapturesTail
  <1> QED
    BY <1>2, <1>8, <1>9

\* A path that the handler in front of the mux has turned into an operation's.
LEMMA RewrittenPath ==
    ASSUME NEW n \in Seq(STRING)
    PROVE  LET path == <<"v1", "operations">> \o n
               S == STRING \cup {"v1"}
           IN  /\ path \in Seq(S) /\ Len(path) = Len(n) + 2
               /\ path[1] = "v1" /\ path[2] = "operations"
               /\ Tail(path)[1] = "operations" /\ Tail(Tail(path)) = n
  <1> DEFINE v == <<"v1", "operations">>
             S == STRING \cup {"v1"}
             path == v \o n
  <1>1. /\ v \in Seq(S) /\ n \in Seq(S) /\ Len(v) = 2 /\ v[1] = "v1" /\ v[2] = "operations"
        /\ Len(n) \in Nat
    BY SeqMonotonic, OpsLikeAssumption
  <1> HIDE DEF v, S
  <1>2. /\ path \in Seq(S) /\ Len(path) = Len(v) + Len(n)
        /\ \A i \in 1..(Len(v) + Len(n)) :
              path[i] = IF i <= Len(v) THEN v[i] ELSE n[i - Len(v)]
    BY <1>1, ConcatProperties
  <1> HIDE DEF path
  <1>3. /\ Len(path) = Len(n) + 2 /\ path[1] = v[1] /\ path[2] = v[2]
        /\ \A i \in 1..Len(n) : path[i + 2] = n[i]
    BY <1>1, <1>2
  <1> DEFINE rest == Tail(path)
  <1>4. path # << >>
    BY <1>1, <1>2, <1>3, EmptySeq
  <1>5. /\ rest \in Seq(S) /\ Len(rest) = Len(path) - 1
        /\ \A i \in 1..Len(rest) : rest[i] = path[i + 1]
    BY <1>2, <1>4, HeadTailProperties
  <1> HIDE DEF rest
  <1>6. /\ Len(rest) = Len(n) + 1 /\ rest[1] = path[2]
        /\ \A i \in 1..Len(n) : rest[i + 1] = n[i]
    <2>1. Len(rest) = Len(n) + 1 /\ Len(n) \in Nat
      BY <1>1, <1>3, <1>5
    <2>2. 1 \in 1..Len(rest) /\ 1 + 1 = 2
      BY <2>1
    <2>3. ASSUME NEW i \in 1..Len(n) PROVE rest[i + 1] = n[i]
      <3>1. i + 1 \in 1..Len(rest) /\ (i + 1) + 1 = i + 2
        BY <2>1
      <3> QED
        BY <1>3, <1>5, <3>1
    <2> QED
      BY <1>5, <2>1, <2>2, <2>3
  <1>7. rest # << >>
    BY <1>1, <1>5, <1>6, EmptySeq
  <1>8. /\ Tail(rest) \in Seq(S) /\ Len(Tail(rest)) = Len(rest) - 1
        /\ \A i \in 1..Len(Tail(rest)) : Tail(rest)[i] = rest[i + 1]
    BY <1>5, <1>7, HeadTailProperties
  <1>9. Len(Tail(rest)) = Len(n) /\ \A i \in 1..Len(n) : Tail(rest)[i] = n[i]
    BY <1>1, <1>6, <1>8
  <1>10. Tail(rest) = n
    BY <1>1, <1>8, <1>9, SeqEqual
  <1> QED
    BY <1>1, <1>2, <1>3, <1>6, <1>10 DEF path, v, S, rest

\* Every name is one in a project.
NamesInProjects == \A n \in Names : n[1] = "projects"

\* GET /v1/<name> reaches GetOperation: the word before the id makes the handler
\* in front of the mux rewrite the path.
LEMMA DispatchFindsOperation ==
    ASSUME IdsAreTexts, NamesInProjects, NEW o, o \in Operation
    PROVE  LET to == Dispatch(GetPath(<<"v1">> \o OperationName(o)))
           IN  /\ to.rpc = "get" /\ to.kind = "operation"
               /\ to.name[1] = "operations" /\ Tail(to.name) = OperationName(o)
  <1> DEFINE p == UpsertParent(o.kind, o.target)
             n == OperationName(o)
             m == Len(p)
             path == <<"v1">> \o n
             S == STRING \cup {"v1"}
             x == GetPath(path)
  <1>1. /\ p \in Seq(STRING) /\ m > 0 /\ p[1] = o.target[1]
        /\ n \in Seq(STRING) /\ Len(n) = m + 2
        /\ \A i \in 1..m : n[i] = p[i]
        /\ n[m + 1] = "operations" /\ n[m + 2] = IdText(o.id)
    BY OperationNames
  <1>2. m \in Nat
    BY <1>1
  <1>3. o.target \in Names /\ o.id \in Nat
    BY DEF Operation
  <1>4. o.target[1] = "projects" /\ IdText(o.id) \notin OpsLike /\ IdText(o.id) # ""
    BY <1>3 DEF NamesInProjects, IdsAreTexts
  <1>5. /\ path \in Seq(S) /\ Len(path) = Len(n) + 1
        /\ path[1] = "v1" /\ \A i \in 1..Len(n) : path[i + 1] = n[i]
        /\ Tail(path) = n
    BY <1>1, PathOfName
  <1>6. x.method = "GET" /\ x.path = path /\ x.verb = ""
    BY DEF GetPath
  <1>7. /\ Rewritten(x).path = <<"v1", "operations">> \o Tail(path)
        /\ Rewritten(x).method = "GET" /\ Rewritten(x).verb = ""
    BY DEF Rewritten, GetPath
  <1> HIDE DEF p, n, m, S, x, path
  <1>8. Len(path) = m + 3 /\ path[m + 2] = n[m + 1] /\ path[m + 3] = n[m + 2] /\ path[2] = n[1]
    <2>1. Len(path) = m + 3
      BY <1>1, <1>2, <1>5
    <2>2. /\ 1 \in 1..Len(n) /\ m + 1 \in 1..Len(n) /\ m + 2 \in 1..Len(n)
          /\ 1 + 1 = 2 /\ (m + 1) + 1 = m + 2 /\ (m + 2) + 1 = m + 3
      BY <1>1, <1>2
    <2> QED
      BY <1>5, <2>1, <2>2
  <1>9. path[2] = "projects"
    <2>1. 1 \in 1..m
      BY <1>1, <1>2
    <2> QED
      BY <1>1, <1>4, <1>8, <2>1
  <1>10. /\ m + 2 \in Cuts(path)
         /\ \A i \in Cuts(path) : i \in 3..(m + 2)
    <2>1. Cuts(path) = {i \in 3..(m + 3) : path[i] \in OpsLike}
      BY <1>8 DEF Cuts
    <2>2. path[m + 2] \in OpsLike
      BY <1>1, <1>8, OpsLikeAssumption
    <2>3. path[m + 3] \notin OpsLike
      BY <1>1, <1>4, <1>8
    <2>4. m + 2 \in 3..(m + 3)
      BY <1>1, <1>2
    <2>5. ASSUME NEW i \in 3..(m + 3), i # m + 3 PROVE i \in 3..(m + 2)
      BY <1>2, <2>5
    <2> QED
      BY <2>1, <2>2, <2>3, <2>4, <2>5
  <1>11. Intercepted(x)
    <2>1. Len(path) > 2
      BY <1>2, <1>8
    <2> QED
      BY <1>5, <1>6, <1>9, <1>10, <2>1 DEF Intercepted
  <1>12. LastCut(path) # Len(path)
    <2>1. \A j \in Cuts(path) : j <= m + 2
      BY <1>2, <1>10
    <2>2. LastCut(path) \in Cuts(path)
      BY <1>10, <2>1 DEF LastCut
    <2> QED
      BY <1>2, <1>8, <1>10, <2>2
  <1>13. Dispatch(x) = Mux(Rewritten(x))
    <2>1. x.path[Len(x.path)] # ""
      BY <1>1, <1>4, <1>6, <1>8
    <2>2. ~EndsInOperations(x)
      BY <1>6, <1>12, <2>1 DEF EndsInOperations
    <2> QED
      BY <1>11, <2>2 DEF Dispatch
  <1> DEFINE new == <<"v1", "operations">> \o n
  <1>14. /\ new \in Seq(STRING \cup {"v1"}) /\ Len(new) = Len(n) + 2
         /\ new[1] = "v1" /\ new[2] = "operations"
         /\ Tail(new)[1] = "operations" /\ Tail(Tail(new)) = n
    BY <1>1, RewrittenPath
  <1>15. Rewritten(x).path = new
    BY <1>5, <1>7
  <1> HIDE DEF new
  <1>16. Len(new) >= 2 /\ Len(new) # 2
    BY <1>1, <1>2, <1>14
  <1>17. Mux(Rewritten(x)) = [rpc |-> "get", kind |-> "operation", name |-> Tail(new)]
    BY <1>7, <1>14, <1>15, <1>16, MuxFindsOperation
  <1>18. /\ Dispatch(x).rpc = "get" /\ Dispatch(x).kind = "operation"
         /\ Dispatch(x).name = Tail(new)
    BY <1>13, <1>17
  <1> QED
    BY <1>14, <1>18 DEF x, path, n

\* Operations have ids of their own, below the next one.
OpsDistinct ==
    /\ \A o \in ops : o.id < fresh
    /\ \A o, q \in ops : o.id = q.id => o = q

LEMMA OpsDistinctStep ==
    ASSUME TypeInv, OpsDistinct, [Next]_vars
    PROVE  OpsDistinct'
  <1>1. fresh \in Nat /\ \A o \in ops : o.id \in Nat
    BY DEF TypeInv, TypeOK, Operation
  <1>2. ASSUME ops' \subseteq ops, fresh' \in {fresh, fresh + 1} PROVE OpsDistinct'
    BY <1>1, <1>2 DEF OpsDistinct
  <1>3. ASSUME NEW h \in Handlers, Reject(h) \/ Deny(h) \/ Admit(h) PROVE OpsDistinct'
    BY <1>2, <1>3 DEF Reject, Deny, Admit, Accept
  <1>4. ASSUME NEW h \in Handlers, Serve(h) PROVE OpsDistinct'
    <2>1. CASE CreateDone(h)
      <3>1. PICK q : q.id = fresh /\ ops' = ops \cup {q} /\ fresh' = fresh + 1
        BY <2>1 DEF CreateDone
      <3> QED
        BY <1>1, <3>1 DEF OpsDistinct
    <2>2. CASE ~CreateDone(h)
      BY <1>2, <1>4, <2>2, ServeIsStep
      DEF Step, Lookup, Insert, Update, Upsert, CreateAt, Remove
    <2> QED
      BY <2>1, <2>2
  <1>5. CASE DeleteOperation \/ UNCHANGED vars
    BY <1>2, <1>5 DEF DeleteOperation, vars
  <1> QED
    BY <1>3, <1>4, <1>5 DEF Next, Exhausted

\* Operations are told apart by their names.
LEMMA NamesTellOperations ==
    ASSUME IdsAreTexts, TypeOK, OpsDistinct, NEW o \in ops, NEW q \in ops,
           OperationName(o) = OperationName(q)
    PROVE  o = q
  <1> DEFINE a == UpsertParent(o.kind, o.target)
             b == UpsertParent(q.kind, q.target)
             n == OperationName(o)
  <1>1. o \in Operation /\ q \in Operation
    BY DEF TypeOK
  <1>2. /\ a \in Seq(STRING) /\ Len(n) = Len(a) + 2 /\ n[Len(a) + 2] = IdText(o.id)
        /\ b \in Seq(STRING) /\ Len(n) = Len(b) + 2 /\ n[Len(b) + 2] = IdText(q.id)
    BY <1>1, OperationNames
  <1> HIDE DEF a, b, n
  <1>3. Len(a) = Len(b)
    <2>1. Len(a) \in Nat /\ Len(b) \in Nat
      BY <1>2, LenProperties
    <2> QED
      BY <1>2, <2>1
  <1>4. IdText(o.id) = IdText(q.id)
    BY <1>2, <1>3
  <1>5. o.id \in Nat /\ q.id \in Nat
    BY <1>1 DEF Operation
  <1> QED
    BY <1>4, <1>5 DEF IdsAreTexts, OpsDistinct

\* Both ways to ask for an operation that is there find it.
LEMMA BothWaysFind ==
    ASSUME IdsAreTexts, NamesInProjects, TypeOK, OpsDistinct, NEW o \in ops
    PROVE  /\ WaitOperation(OperationName(o)) = o
           /\ GetByHttp(OperationName(o)) = o
  <1> DEFINE n == OperationName(o)
  <1>1. o \in Operation
    BY DEF TypeOK
  <1>2. Stored(n) = {o}
    BY NamesTellOperations DEF Stored
  <1>3. n[1] = "projects"
    <2> DEFINE p == UpsertParent(o.kind, o.target)
    <2>1. /\ p \in Seq(STRING) /\ Len(p) > 0 /\ p[1] = o.target[1]
          /\ \A i \in 1..Len(p) : n[i] = p[i]
      BY <1>1, OperationNames
    <2>2. o.target \in Names
      BY <1>1 DEF Operation
    <2>3. o.target[1] = "projects"
      BY <2>2 DEF NamesInProjects
    <2> HIDE DEF p, n
    <2>4. 1 \in 1..Len(p)
      BY <2>1
    <2> QED
      BY <2>1, <2>3, <2>4
  <1> HIDE DEF n
  <1>4. \A name : Key(name) = n => GetOperation(name) = o
    BY <1>2 DEF GetOperation
  <1>5. Key(n) = n
    BY <1>3 DEF Key
  <1>6. WaitOperation(n) = o
    BY <1>4, <1>5 DEF WaitOperation
  <1>7. GetByHttp(n) = o
    <2> DEFINE to == Dispatch(GetPath(<<"v1">> \o n))
    <2>1. /\ to.rpc = "get" /\ to.kind = "operation"
          /\ to.name[1] = "operations" /\ Tail(to.name) = n
      BY <1>1, DispatchFindsOperation DEF n
    <2>2. GetByHttp(n) = GetOperation(to.name)
      BY <2>1 DEF GetByHttp
    <2> HIDE DEF to
    <2>3. Key(to.name) = n
      BY <2>1 DEF Key
    <2> QED
      BY <1>4, <2>2, <2>3
  <1> QED
    BY <1>6, <1>7 DEF n

\* A client that polls an operation nobody has deleted is told of it, by GET
\* /v1/<name> as by WaitOperation: the name CreateDone gives is one that the
\* rewriting, the mux and the prefix that GetOperation trims agree on.
THEOREM PolledOperationsAreFound ==
    ASSUME IdsAreTexts, NamesInProjects
    PROVE  RestSpec => []PollsFindOperations
  <1>1. RestInit => OpsDistinct /\ PollsFindOperations
    BY DEF RestInit, Init, OpsDistinct, PollsFindOperations
  <1>2. ServerInv /\ OpsDistinct /\ [Next]_vars => OpsDistinct'
    BY OpsDistinctStep DEF ServerInv
  <1>3. ServerInv /\ OpsDistinct /\ PollsFindOperations /\ [RestNext]_restVars
           => PollsFindOperations'
    <2> SUFFICES ASSUME ServerInv, OpsDistinct, PollsFindOperations, [RestNext]_restVars
                 PROVE  PollsFindOperations'
      OBVIOUS
    <2>1. CASE polled' = None
      BY <2>1 DEF PollsFindOperations
    <2>2. CASE UNCHANGED restVars
      BY <2>2 DEF restVars, vars, PollsFindOperations, OperationName
    <2>3. CASE Poll
      <3>1. PICK q \in Known :
               \E op \in {GetByHttp(OperationName(q)), WaitOperation(OperationName(q))} :
                  polled' = [asked |-> OperationName(q), op |-> op]
        BY <2>3 DEF Poll
      <3>2. ops' = ops
        BY <2>3 DEF Poll, vars
      <3>3. ASSUME NEW o \in ops, OperationName(o) = OperationName(q)
            PROVE  polled'.op = o
        <4>1. TypeOK
          BY DEF ServerInv, TypeInv
        <4> QED
          BY <3>1, <3>3, <4>1, BothWaysFind
      <3>4. polled'.asked = OperationName(q)
        BY <3>1
      <3> QED
        BY <3>2, <3>3, <3>4 DEF PollsFindOperations
    <2> QED
      BY <2>1, <2>2, <2>3 DEF RestNext, Receive, Exhausted, restVars
  <1> QED
    BY <1>1, <1>2, <1>3, RestServerCorrect, RestStepIsStep, PTL DEF RestSpec

-----------------------------------------------------------------------------
(* The mask of a PATCH without updateMask.                                 *)

\* A set of positions that has 0 and, but for the last, each successor of its
\* members has them all.
LEMMA AllPositions ==
    ASSUME NEW m \in Nat, NEW X \in SUBSET (0..m), 0 \in X,
           \A i \in X : i < m => i + 1 \in X
    PROVE  X = 0..m
  <1>1. ASSUME NEW n \in 0..m PROVE n \in X
    <2> DEFINE Y == {i \in 1..(n + 1) : i - 1 \in X}
    <2>1. n + 1 \in Nat /\ Y \in SUBSET (1..(n + 1))
      OBVIOUS
    <2>2. 1 \in Y
      OBVIOUS
    <2>3. PICK g \in Y : \A y \in Y : y <= g
      <3> HIDE DEF Y
      <3> QED
        BY <2>1, <2>2, GreatestNumber
    <2>4. CASE g = n + 1
      BY <2>4
    <2>5. CASE g # n + 1
      <3>1. g \in 1..n /\ g - 1 \in X
        BY <2>5
      <3>2. (g - 1) + 1 = g /\ g - 1 < m
        BY <3>1
      <3>3. g \in X
        BY <3>1, <3>2
      <3>4. g + 1 \in Y
        BY <3>1, <3>3
      <3> QED
        BY <2>3, <3>1, <3>4
    <2> QED
      BY <2>4, <2>5
  <1> QED
    BY <1>1

\* The path a field gives.
PathOf(x, f) == IF f \in x.nested THEN Unlisted ELSE f

\* One step of the walk over the fields, from the step before it.
MaskStep(x, u, i) ==
    IF i = 0 THEN <<>>
    ELSE IF FieldOrder[i] \notin x.said THEN u[i - 1]
    ELSE Append(u[i - 1], PathOf(x, FieldOrder[i]))

IsWalk(x, u, m) == u = [i \in 0..m |-> MaskStep(x, u, i)]

\* The paths of the first i fields.
PathsUpTo(x, i) == {PathOf(x, FieldOrder[l]) : l \in {j \in 1..i : FieldOrder[j] \in x.said}}

LEMMA WalkExists ==
    ASSUME NEW x
    PROVE  \E u : IsWalk(x, u, Len(FieldOrder))
  <1> DEFINE m == Len(FieldOrder)
             X == {i \in 0..m : \E u : IsWalk(x, u, i)}
  <1>1. m \in Nat
    BY HttpAssumption, LenProperties
  <1> HIDE DEF m
  <1>2. 0 \in X
    <2> DEFINE u == [i \in 0..0 |-> <<>>]
    <2>1. u = [i \in 0..0 |-> MaskStep(x, u, i)]
      BY DEF MaskStep
    <2> HIDE DEF u
    <2> QED
      BY <1>1, <2>1 DEF IsWalk
  <1>3. ASSUME NEW n \in X, n < m PROVE n + 1 \in X
    <2>1. n \in 0..m /\ n \in Nat
      BY <1>1
    <2>2. PICK u : IsWalk(x, u, n)
      OBVIOUS
    <2> DEFINE last == IF FieldOrder[n + 1] \notin x.said THEN u[n]
                       ELSE Append(u[n], PathOf(x, FieldOrder[n + 1]))
               new == [i \in 0..(n + 1) |-> IF i = n + 1 THEN last ELSE u[i]]
    <2> HIDE DEF last
    <2>3. \A i \in 0..n : new[i] = u[i] /\ u[i] = MaskStep(x, u, i)
      <3>1. \A i \in 0..n : i \in 0..(n + 1) /\ i # n + 1
        BY <2>1
      <3>2. \A i \in 0..n : u[i] = MaskStep(x, u, i)
        BY <2>2 DEF IsWalk
      <3> QED
        BY <3>1, <3>2
    <2>4. new[n + 1] = last
      BY <2>1
    <2>5. ASSUME NEW i \in 0..(n + 1) PROVE new[i] = MaskStep(x, new, i)
      <3>1. CASE i = 0
        <4>1. 0 \in 0..n
          BY <2>1
        <4>2. new[0] = MaskStep(x, u, 0)
          BY <2>3, <4>1
        <4> HIDE DEF new
        <4> QED
          BY <3>1, <4>2 DEF MaskStep
      <3>2. CASE i # 0
        <4>1. i - 1 \in 0..n
          BY <2>1, <3>2
        <4>2. new[i - 1] = u[i - 1]
          BY <2>3, <4>1
        <4>3. CASE i = n + 1
          <5>1. i - 1 = n
            BY <2>1, <4>3
          <5> QED
            BY <2>4, <3>2, <4>2, <4>3, <5>1 DEF MaskStep, last
        <4>4. CASE i # n + 1
          <5>1. i \in 0..n
            BY <2>1, <4>4
          <5>2. new[i] = MaskStep(x, u, i)
            BY <2>3, <5>1
          <5> HIDE DEF new
          <5> QED
            BY <3>2, <4>2, <5>2 DEF MaskStep
        <4> QED
          BY <4>3, <4>4
      <3> QED
        BY <3>1, <3>2
    <2>6. new = [i \in 0..(n + 1) |-> MaskStep(x, new, i)]
      <3>1. \E e : new = [i \in 0..(n + 1) |-> IF i = n + 1 THEN last ELSE u[i]]
        OBVIOUS
      <3> QED
        BY <2>5, Zenon
    <2> HIDE DEF new
    <2>7. n + 1 \in 0..m
      BY <1>1, <1>3, <2>1
    <2> QED
      BY <2>6, <2>7 DEF IsWalk
  <1> HIDE DEF X
  <1>4. X \in SUBSET (0..m)
    BY DEF X
  <1>5. X = 0..m
    BY <1>1, <1>2, <1>3, <1>4, AllPositions
  <1>6. m \in X
    BY <1>1, <1>5
  <1> QED
    BY <1>6 DEF X, m

\* A walk collects the paths of the fields the JSON names.
LEMMA WalkCollects ==
    ASSUME NEW x, NEW u, IsWalk(x, u, Len(FieldOrder))
    PROVE  LET all == PathsUpTo(x, Len(FieldOrder)) IN
           /\ u[Len(FieldOrder)] \in Seq(all)
           /\ Range(u[Len(FieldOrder)]) = all
  <1> DEFINE m == Len(FieldOrder)
             good(i) == /\ u[i] \in Seq(PathsUpTo(x, i))
                        /\ Range(u[i]) = PathsUpTo(x, i)
             X == {i \in 0..m : good(i)}
  <1>1. m \in Nat
    BY HttpAssumption, LenProperties
  <1>2. \A i \in 0..m : u[i] = MaskStep(x, u, i)
    BY <1>1 DEF IsWalk
  <1> HIDE DEF m
  <1>3. 0 \in X
    <2>0. 0 \in 0..m
      BY <1>1
    <2>1. u[0] = << >>
      BY <1>2, <2>0 DEF MaskStep
    <2>2. PathsUpTo(x, 0) = {}
      BY DEF PathsUpTo
    <2>3. << >> \in Seq({}) /\ Range(<< >>) = {}
      BY EmptySeq DEF Range
    <2>4. good(0)
      BY <2>1, <2>2, <2>3
    <2> HIDE DEF good
    <2> QED
      BY <2>0, <2>4
  <1>4. ASSUME NEW n \in X, n < m PROVE n + 1 \in X
    <2>1. n \in 0..m /\ n \in Nat /\ n + 1 \in 0..m /\ n + 1 # 0 /\ (n + 1) - 1 = n
      BY <1>1, <1>4
    <2> DEFINE P == PathsUpTo(x, n)
               Q == PathsUpTo(x, n + 1)
               e == PathOf(x, FieldOrder[n + 1])
    <2>2. u[n] \in Seq(P) /\ Range(u[n]) = P
      OBVIOUS
    <2>3. u[n + 1] = IF FieldOrder[n + 1] \notin x.said THEN u[n] ELSE Append(u[n], e)
      BY <1>2, <2>1 DEF MaskStep
    <2>4. 1..(n + 1) = (1..n) \cup {n + 1}
      BY <2>1
    <2>5. Q = IF FieldOrder[n + 1] \notin x.said THEN P ELSE P \cup {e}
      BY <2>4 DEF PathsUpTo
    <2> HIDE DEF P, Q, e
    <2>6. CASE FieldOrder[n + 1] \notin x.said
      BY <2>1, <2>2, <2>3, <2>5, <2>6 DEF Q
    <2>7. CASE FieldOrder[n + 1] \in x.said
      <3> DEFINE one == <<e>>
      <3>1. u[n] \in Seq(Q) /\ e \in Q /\ one \in Seq(Q) /\ Range(one) = {e}
        BY <2>2, <2>5, <2>7, SeqMonotonic DEF Range
      <3>2. u[n + 1] = u[n] \o one
        BY <2>3, <2>7, <3>1, AppendIsConcat
      <3> HIDE DEF one
      <3>3. u[n + 1] \in Seq(Q) /\ Range(u[n + 1]) = Range(u[n]) \cup Range(one)
        <4>1. /\ u[n] \o one \in Seq(Q)
              /\ Range(u[n] \o one) = Range(u[n]) \cup Range(one)
          BY <3>1, ConcatProperties, RangeConcatenation
        <4> QED
          BY <3>2, <4>1
      <3>4. Range(u[n + 1]) = Q
        BY <2>2, <2>5, <2>7, <3>1, <3>3
      <3> QED
        BY <2>1, <3>3, <3>4 DEF Q
    <2> QED
      BY <2>6, <2>7
  <1> HIDE DEF good
  <1>5. X \in SUBSET (0..m)
    OBVIOUS
  <1> HIDE DEF X
  <1>6. X = 0..m
    BY <1>1, <1>3, <1>4, <1>5, AllPositions
  <1>7. m \in X
    BY <1>1, <1>6
  <1> QED
    BY <1>7 DEF X, good, m

\* The mask has a path for every field the JSON names, and none but these: the
\* field itself, or one no UpdateX knows where the value is an object.
LEMMA MaskOfBody ==
    ASSUME NEW x \in HttpRequests
    PROVE  /\ FieldMask(x) \in Seq(STRING) /\ FieldMask(x) # None
           /\ \A i \in DOMAIN FieldMask(x) :
                 FieldMask(x)[i] = Unlisted \/ FieldMask(x)[i] \in x.said
           /\ \A f \in x.said \ x.nested : \E i \in DOMAIN FieldMask(x) : FieldMask(x)[i] = f
  <1> DEFINE m == Len(FieldOrder)
             walk == CHOOSE u : IsWalk(x, u, m)
             all == PathsUpTo(x, m)
  <1>1. FieldOrder \in Seq(Fields) /\ DOMAIN FieldOrder = 1..m
    BY HttpAssumption, LenProperties
  <1>2. x.said \subseteq Fields /\ x.said \subseteq STRING /\ Unlisted \in STRING
    BY HttpAssumption DEF HttpRequest
  <1>3. IsWalk(x, walk, m)
    BY WalkExists
  <1>4. FieldMask(x) = IF ~x.object THEN <<>>
                       ELSE IF x.said = {} THEN <<Unlisted>> ELSE walk[m]
    BY DEF FieldMask, IsWalk, MaskStep, PathOf
  <1>5. walk[m] \in Seq(all) /\ Range(walk[m]) = all
    BY <1>3, WalkCollects
  <1>6. \A p \in all : p = Unlisted \/ p \in x.said
    BY DEF PathsUpTo, PathOf
  <1>7. ASSUME NEW f \in x.said \ x.nested PROVE f \in all
    <2>1. PICK i \in DOMAIN FieldOrder : FieldOrder[i] = f
      BY <1>2, HttpAssumption
    <2> QED
      BY <1>1, <2>1 DEF PathsUpTo, PathOf
  <1> HIDE DEF m, walk, all
  <1>8. walk[m] \in Seq(STRING)
    <2>1. all \subseteq STRING
      BY <1>2, <1>6
    <2> QED
      BY <1>5, <2>1, SeqMonotonic
  <1>9. /\ << >> \in Seq(STRING) /\ <<Unlisted>> \in Seq(STRING)
        /\ << >> # None /\ <<Unlisted>> # None /\ walk[m] # None
    <2>1. << >> \in Seq(STRING) /\ <<Unlisted>> \in Seq(STRING)
      BY <1>2
    <2> QED
      BY <1>8, <2>1, NoneAssumption
  <1>10. CASE ~x.object
    <2>1. x.said = {}
      BY <1>10, HttpAssumption
    <2>2. FieldMask(x) = << >>
      BY <1>4, <1>10
    <2>3. DOMAIN << >> = {}
      OBVIOUS
    <2> QED
      BY <1>9, <2>1, <2>2, <2>3
  <1>11. CASE x.object /\ x.said = {}
    <2>1. FieldMask(x) = <<Unlisted>>
      BY <1>4, <1>11
    <2>2. DOMAIN <<Unlisted>> = {1} /\ <<Unlisted>>[1] = Unlisted
      OBVIOUS
    <2> QED
      BY <1>9, <1>11, <2>1, <2>2
  <1>12. CASE x.object /\ x.said # {}
    <2>1. FieldMask(x) = walk[m]
      BY <1>4, <1>12
    <2> QED
      BY <1>5, <1>6, <1>7, <1>8, <1>9, <2>1 DEF Range
  <1> QED
    BY <1>10, <1>11, <1>12

-----------------------------------------------------------------------------
(* What a PATCH changes.                                                   *)

\* The RPC of a handler is what the gateway made of its HTTP request.
Linked ==
    /\ http \in [Handlers -> {None} \cup HttpRequests]
    /\ \A h \in Handlers :
          http[h] # None => Transcoded(http[h]) = [req[h] EXCEPT !.etag = 0]

LEMMA LinkedStep ==
    ASSUME TypeInv, Linked, [RestNext]_restVars
    PROVE  Linked'
  <1>1. ASSUME NEW h \in Handlers, Receive(h) PROVE Linked'
    <2>1. PICK x \in HttpRequests \cup {None} :
             /\ http' = [http EXCEPT ![h] = x]
             /\ x # None => Transcoded(x) = [req'[h] EXCEPT !.etag = 0]
      BY <1>1, ReceivedFrom
    <2>2. \A g \in Handlers : g # h => req'[g] = req[g]
      BY <1>1 DEF Receive, Reject, Deny, Admit, Accept, TypeInv, TypeOK
    <2>3. /\ http' \in [Handlers -> {None} \cup HttpRequests]
          /\ http'[h] = x
          /\ \A g \in Handlers : g # h => http'[g] = http[g]
      BY <2>1 DEF Linked
    <2> QED
      BY <2>1, <2>2, <2>3 DEF Linked
  <1>2. ASSUME NEW h \in Handlers, Serve(h), UNCHANGED http PROVE Linked'
    <2>1. UNCHANGED req
      BY <1>2, ServeIsStep
      DEF Step, Lookup, Insert, Upsert, CreateAt, Update, Remove, CreateDone
    <2> QED
      BY <1>2, <2>1 DEF Linked
  <1>3. CASE UNCHANGED <<req, http>>
    BY <1>3 DEF Linked
  <1> QED
    BY <1>1, <1>2, <1>3
    DEF RestNext, Poll, DeleteOperation, Exhausted, restVars, vars

LEMMA LinkedCorrect == RestSpec => [](ServerInv /\ Linked)
  <1>1. RestInit => Linked
    BY DEF RestInit, Linked
  <1>2. ServerInv /\ Linked /\ [RestNext]_restVars => Linked'
    BY LinkedStep DEF ServerInv
  <1> QED
    BY <1>1, <1>2, RestServerCorrect, PTL DEF RestSpec

\* An UpdateX behind HTTP has the body of the PATCH and the mask the gateway
\* made of it.
LEMMA UpdateOfPatch ==
    ASSUME TypeInv, Linked, NEW h \in Handlers, http[h] # None, pc[h] = "update"
    PROVE  /\ http[h] \in HttpRequests
           /\ req[h].mask = UpdateMask(http[h])
           /\ req[h].body = http[h].body
  <1> DEFINE x == http[h]
             r == req[h]
             q == [r EXCEPT !.etag = 0]
             to == Dispatch(x)
  <1>1. r \in Request /\ r.verb = "update"
    BY WorkingRequest DEF Sections, OnPath
  <1>2. q \in Request /\ q.verb = "update" /\ q.mask = r.mask /\ q.body = r.body
    BY <1>1 DEF Request
  <1>3. x \in HttpRequests /\ Transcoded(x) = q
    BY DEF Linked
  <1>4. q # None
    BY <1>2, NoneAssumption
  <1> HIDE DEF q, x, r, to
  <1>5. \/ Transcoded(x) = None
        \/ Transcoded(x) = GetX(to.kind, to.name, x)
        \/ Transcoded(x) = CreateX(to.kind, to.name, x)
        \/ Transcoded(x) = UpdateX(to.kind, to.name, x)
        \/ Transcoded(x) = DeleteX(to.kind, to.name, x)
    BY DEF Transcoded, to
  <1>6. /\ GetX(to.kind, to.name, x).verb = "get"
        /\ CreateX(to.kind, to.name, x).verb = "create"
        /\ DeleteX(to.kind, to.name, x).verb = "delete"
        /\ UpdateX(to.kind, to.name, x).mask = UpdateMask(x)
        /\ UpdateX(to.kind, to.name, x).body = x.body
    BY DEF GetX, CreateX, UpdateX, DeleteX, Message
  <1>7. q = UpdateX(to.kind, to.name, x)
    BY <1>2, <1>3, <1>4, <1>5, <1>6
  <1>8. q.mask = UpdateMask(x) /\ q.body = x.body
    BY <1>6, <1>7
  <1>9. x \in HttpRequests /\ r.mask = UpdateMask(x) /\ r.body = x.body
    BY <1>2, <1>3, <1>8
  <1> QED
    BY <1>9 DEF x, r

\* What UpdateX leaves in the store of a resource that is there.
LEMMA UpdateStoresMerged ==
    ASSUME ServerInv, NEW h \in Handlers, Update(h)
    PROVE  LET r == req[h]
               cur == Current(h)
           IN  /\ cur # None => store'[r.kind][r.name].body = Merged(r, cur)
               /\ pc'[h] = "lro" => cur # None /\ ~StoppedByMask(r.kind, r.mask)
  <1> DEFINE r == req[h]
             cur == Current(h)
  <1>1. pc[h] \in Sections
    BY DEF Update, Sections
  <1>2. /\ r \in Request /\ r.kind \in Kinds /\ r.name \in Names
        /\ cur \in {None} \cup Resource
    BY <1>1, WorkingRequest DEF ServerInv
  <1>3. /\ store \in [Kinds -> [Names -> {None} \cup Resource]]
        /\ pc \in [Handlers -> {"idle", "done"} \cup Sections]
    BY DEF ServerInv, TypeInv, TypeOK
  <1>4. pc'[h] = "lro" => cur # None /\ ~StoppedByMask(r.kind, r.mask)
    BY <1>3 DEF Update, Proceed, Return
  <1>5. ASSUME cur # None PROVE store'[r.kind][r.name].body = Merged(r, cur)
    <2>1. cur \in Resource /\ cur.kind = r.kind /\ cur.name = r.name
      BY <1>2, <1>5 DEF Current, ServerInv, HistoryInv, StoreIsCommitted
    <2>2. \A v \in {PartlyUpdated(r, cur), Updated(r, cur)} :
             v.kind = r.kind /\ v.name = r.name /\ v.body = Merged(r, cur)
      BY <2>1 DEF Updated, PartlyUpdated, Resource
    <2>3. PICK v \in {PartlyUpdated(r, cur), Updated(r, cur)} : Commit(h, v)
      BY <1>5 DEF Update
    <2>4. store'[r.kind][r.name] = v
      BY <1>2, <1>3, <2>2, <2>3 DEF Commit
    <2> QED
      BY <2>2, <2>4
  <1> QED
    BY <1>4, <1>5

\* Only its own UpdateX takes a handler away from it.
LEMMA LeavingUpdate ==
    ASSUME TypeInv, [RestNext]_restVars, NEW h \in Handlers,
           pc[h] = "update", pc'[h] # "update"
    PROVE  Update(h)
  <1>1. ASSUME NEW g \in Handlers, Receive(g) PROVE FALSE
    <2>1. pc[g] \in {"idle", "done"} /\ \E next : pc' = [pc EXCEPT ![g] = next]
      BY <1>1 DEF Receive, Reject, Deny, Admit, Accept
    <2> QED
      BY <2>1 DEF TypeInv, TypeOK
  <1>2. ASSUME NEW g \in Handlers, Serve(g) PROVE Update(h)
    <2>1. g = h
      BY <1>2, OthersKeepTheirs
    <2> QED
      BY <1>2, <2>1, ServeIsStep
      DEF Step, Lookup, Insert, Upsert, Remove, CreateDone
  <1> QED
    BY <1>1, <1>2 DEF RestNext, Poll, DeleteOperation, Exhausted, restVars, vars

\* The loop of UpdateX handles every path of a mask it is not stopped by.
LEMMA AllProcessed ==
    ASSUME NEW k, NEW mask \in Seq(STRING), mask # None, ~StoppedByMask(k, mask)
    PROVE  Processed(k, mask) = {mask[i] : i \in DOMAIN mask}
  <1>1. \A i \in DOMAIN mask : mask[i] \notin Immutable(k)
    BY DEF StoppedByMask
  <1>2. \A j \in DOMAIN mask : \A l \in 1..j : l \in DOMAIN mask
    OBVIOUS
  <1> QED
    BY <1>1, <1>2 DEF Processed

\* Of the fields of the payload the mask of a PATCH has UpdateX copy only
\* those the PATCH is about, and all of these if it copies to the end.
LEMMA TouchedByPatch ==
    ASSUME NEW x \in HttpRequests, NEW k \in AllKinds
    PROVE  LET mask == UpdateMask(x)
           IN  /\ Touched(k, mask) \cap Fields \subseteq About(x)
               /\ ~StoppedByMask(k, mask) =>
                     (About(x) \cap Mutable(k) \cap Fields) \ x.nested \subseteq Touched(k, mask)
  <1> DEFINE mask == UpdateMask(x)
  <1>1. /\ FieldMask(x) \in Seq(STRING) /\ FieldMask(x) # None
        /\ \A i \in DOMAIN FieldMask(x) :
              FieldMask(x)[i] = Unlisted \/ FieldMask(x)[i] \in x.said
        /\ \A f \in x.said \ x.nested : \E i \in DOMAIN FieldMask(x) : FieldMask(x)[i] = f
    BY MaskOfBody
  <1>2. x.said \subseteq Fields /\ x.mask \in {None} \cup Seq(STRING)
    BY HttpAssumption DEF HttpRequest
  <1>3. Unlisted \notin Mutable(k) /\ Unlisted # "*" /\ "*" \notin Fields
    BY HttpAssumption
  <1>4. mask \in Seq(STRING) /\ mask # None
    BY <1>1, <1>2 DEF UpdateMask
  <1>5. CASE x.mask = None
    <2>1. mask = FieldMask(x) /\ About(x) = x.said
      BY <1>5 DEF UpdateMask, About
    <2> HIDE DEF mask
    <2>2. \A i \in DOMAIN mask : mask[i] = Unlisted \/ mask[i] \in x.said
      BY <1>1, <2>1
    <2>3. \A p \in Processed(k, mask) : p = Unlisted \/ p \in x.said
      BY <2>2 DEF Processed
    <2>4. Touched(k, mask) = Processed(k, mask) \cap Mutable(k)
      BY <1>2, <1>3, <1>4, <2>3 DEF Touched
    <2>5. Touched(k, mask) \subseteq x.said
      BY <1>3, <2>3, <2>4
    <2>6. ASSUME ~StoppedByMask(k, mask), NEW f \in x.said \ x.nested
          PROVE  f \in Processed(k, mask)
      <3>1. PICK i \in DOMAIN mask : mask[i] = f
        BY <1>1, <2>1, <2>6
      <3> QED
        BY <2>6, <3>1, AllProcessed, <1>4
    <2> QED
      BY <2>1, <2>4, <2>5, <2>6 DEF mask
  <1>6. CASE x.mask # None
    <2>1. mask = x.mask
      BY <1>6 DEF UpdateMask
    <2> HIDE DEF mask
    <2>2. Processed(k, mask) \subseteq {mask[i] : i \in DOMAIN mask}
      BY DEF Processed
    <2>3. ~StoppedByMask(k, mask) => Processed(k, mask) = {mask[i] : i \in DOMAIN mask}
      BY <1>4, AllProcessed
    <2>4. CASE "*" \in {mask[i] : i \in DOMAIN mask}
      <3>1. About(x) = Fields
        BY <1>6, <2>1, <2>4 DEF About
      <3>2. ~StoppedByMask(k, mask) => Touched(k, mask) = Mutable(k)
        BY <2>3, <2>4 DEF Touched
      <3> QED
        BY <3>1, <3>2 DEF mask
    <2>5. CASE "*" \notin {mask[i] : i \in DOMAIN mask}
      <3>1. About(x) = {mask[i] : i \in DOMAIN mask}
        BY <1>6, <2>1, <2>5 DEF About
      <3>2. Touched(k, mask) = Processed(k, mask) \cap Mutable(k)
        BY <1>4, <2>2, <2>5 DEF Touched
      <3> QED
        BY <2>2, <2>3, <3>1, <3>2 DEF mask
    <2> QED
      BY <2>4, <2>5
  <1> QED
    BY <1>5, <1>6

\* A PATCH leaves every field alone that neither its updateMask nor, without
\* one, its body names: the mask the gateway reads off the body never grows
\* into the "*" of UpdateX, or into a missing mask, which means every field.
THEOREM PatchesTouchNothingElse == RestSpec => PatchTouchesNothingElse
  <1>1. ASSUME ServerInv, Linked, [RestNext]_restVars, NEW h \in Handlers,
               IsPatch(h), pc[h] = "update", pc'[h] # "update", Current(h) # None,
               NEW f \in Fields \ About(http[h])
        PROVE  store'[req[h].kind][req[h].name].body[f] = Current(h).body[f]
    <2>1. Update(h)
      BY <1>1, LeavingUpdate DEF ServerInv
    <2>2. http[h] # None /\ TypeInv
      BY <1>1 DEF IsPatch, ServerInv
    <2>3. /\ http[h] \in HttpRequests
          /\ req[h].mask = UpdateMask(http[h])
      BY <1>1, <2>2, UpdateOfPatch
    <2>4. req[h].kind \in AllKinds
      BY <1>1, <2>2, WorkingRequest, KindsAssumption DEF Sections
    <2>5. f \notin Touched(req[h].kind, req[h].mask)
      BY <1>1, <2>3, <2>4, TouchedByPatch
    <2>6. store'[req[h].kind][req[h].name].body = Merged(req[h], Current(h))
      BY <1>1, <2>1, UpdateStoresMerged
    <2> QED
      BY <1>1, <2>5, <2>6 DEF Merged
  <1>2. ServerInv /\ Linked /\ [RestNext]_restVars =>
           \A h \in Handlers :
              IsPatch(h) /\ pc[h] = "update" /\ pc'[h] # "update" /\ Current(h) # None =>
                  \A f \in Fields \ About(http[h]) :
                      store'[req[h].kind][req[h].name].body[f] = Current(h).body[f]
    BY <1>1
  <1> QED
    BY <1>2, LinkedCorrect, PTL DEF RestSpec, PatchTouchesNothingElse

\* A PATCH that goes on to its answer has stored what it says of every mutable
\* field it is about, unless that is an object.
THEOREM PatchesStoreTheirBody == RestSpec => PatchStoresItsBody
  <1>1. ASSUME ServerInv, Linked, [RestNext]_restVars, NEW h \in Handlers,
               IsPatch(h), pc[h] = "update", pc'[h] = "lro",
               NEW f \in (About(http[h]) \cap Mutable(req[h].kind) \cap Fields)
                            \ http[h].nested
        PROVE  store'[req[h].kind][req[h].name].body[f] = http[h].body[f]
    <2>1. Update(h)
      BY <1>1, LeavingUpdate DEF ServerInv
    <2>2. http[h] # None /\ TypeInv
      BY <1>1 DEF IsPatch, ServerInv
    <2>3. /\ http[h] \in HttpRequests
          /\ req[h].mask = UpdateMask(http[h])
          /\ req[h].body = http[h].body
      BY <1>1, <2>2, UpdateOfPatch
    <2>4. req[h].kind \in AllKinds
      BY <1>1, <2>2, WorkingRequest, KindsAssumption DEF Sections
    <2>5. Current(h) # None /\ ~StoppedByMask(req[h].kind, req[h].mask)
      BY <1>1, <2>1, UpdateStoresMerged
    <2>6. f \in Touched(req[h].kind, req[h].mask)
      BY <1>1, <2>3, <2>4, <2>5, TouchedByPatch
    <2>7. store'[req[h].kind][req[h].name].body = Merged(req[h], Current(h))
      BY <1>1, <2>1, <2>5, UpdateStoresMerged
    <2> QED
      BY <1>1, <2>3, <2>6, <2>7 DEF Merged
  <1>2. ServerInv /\ Linked /\ [RestNext]_restVars =>
           \A h \in Handlers :
              IsPatch(h) /\ pc[h] = "update" /\ pc'[h] = "lro" =>
                  \A f \in (About(http[h]) \cap Mutable(req[h].kind) \cap Fields)
                              \ http[h].nested :
                      store'[req[h].kind][req[h].name].body[f] = http[h].body[f]
    BY <1>1
  <1> QED
    BY <1>2, LinkedCorrect, PTL DEF RestSpec, PatchStoresItsBody
=============================================================================

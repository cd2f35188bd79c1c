---------------------------- MODULE RestGateway ----------------------------
(***************************************************************************)
(* Which RPC an HTTP request becomes: the mux that gateway.New fills with   *)
(* the generated routes, and the handler of internal/gateway in front of    *)
(* it, which turns a GET below projects/ into an operations call.           *)
(*                                                                         *)
(* A path is the sequence of its segments; what follows the colon of the    *)
(* last one is the verb.  Of the mux (grpc-gateway) the model has that the  *)
(* route registered last is tried first, that "*" stands for one segment    *)
(* and "**" for any number of them, and that a route without a verb takes   *)
(* the colon for a part of the id.                                         *)
(***************************************************************************)
EXTENDS Integers, Sequences

CONSTANTS
    OpsLike,    \* the segments whose text begins with "operations"
    ColonId     \* an id with a colon in it, which no resource has

ASSUME OpsLikeAssumption == OpsLike \subseteq STRING /\ "operations" \in OpsLike

-----------------------------------------------------------------------------
(* The routes.                                                             *)

Route(method, pattern, verb, rpc, kind) ==
    [method |-> method, pattern |-> pattern, verb |-> verb, rpc |-> rpc, kind |-> kind]

Located(tail) == <<"v1", "projects", "*", "locations", "*">> \o tail
Item(c) == Located(<<c, "*">>)

GetRoute(k, c) == Route("GET", Item(c), "", "get", k)
ListRoute(k, c) == Route("GET", Located(<<c>>), "", "list", k)
CreateRoute(k, c) == Route("POST", Located(<<c>>), "", "create", k)
UpdateRoute(k, c) == Route("PATCH", Item(c), "", "update", k)
DeleteRoute(k, c) == Route("DELETE", Item(c), "", "delete", k)

FiveRoutes(k, c) ==
    <<GetRoute(k, c), ListRoute(k, c), CreateRoute(k, c), UpdateRoute(k, c), DeleteRoute(k, c)>>

\* RegisterEventarcHandlerClient, in its order.
TriggerRoutes == FiveRoutes("trigger", "triggers")
ChannelRoutes == FiveRoutes("channel", "channels")
ProviderRoutes == <<GetRoute("provider", "providers"), ListRoute("provider", "providers")>>
ChannelConnectionRoutes ==
    LET k == "channelConnection" c == "channelConnections"
    IN  <<GetRoute(k, c), ListRoute(k, c), CreateRoute(k, c), DeleteRoute(k, c)>>
GoogleChannelConfigRoutes ==
    LET path == Located(<<"googleChannelConfig">>)
    IN  <<Route("GET", path, "", "get", "googleChannelConfig"),
          Route("PATCH", path, "", "update", "googleChannelConfig")>>
MessageBusRoutes ==
    LET k == "messageBus" c == "messageBuses"
    IN  <<GetRoute(k, c), ListRoute(k, c),
          Route("GET", Item(c), "listEnrollments", "listEnrollments", k),
          CreateRoute(k, c), UpdateRoute(k, c), DeleteRoute(k, c)>>
EnrollmentRoutes == FiveRoutes("enrollment", "enrollments")
PipelineRoutes == FiveRoutes("pipeline", "pipelines")
GoogleApiSourceRoutes == FiveRoutes("googleApiSource", "googleApiSources")

EventarcRoutes ==
    TriggerRoutes \o ChannelRoutes \o ProviderRoutes \o ChannelConnectionRoutes
    \o GoogleChannelConfigRoutes \o MessageBusRoutes \o EnrollmentRoutes
    \o PipelineRoutes \o GoogleApiSourceRoutes

\* RegisterPublisherHandlerClient; the server does not implement Publish.
PublisherRoutes ==
    <<Route("POST", Item("channelConnections"), "publishEvents", "publishEvents",
            "channelConnection"),
      Route("POST", Item("channels"), "publishEvents", "publishEvents", "channel"),
      Route("POST", Item("messageBuses"), "publish", "publish", "messageBus")>>

\* RegisterOperationsHandlerClient.
OperationsRoutes ==
    LET below == <<"v1", "operations", "**">>
    IN  <<Route("GET", <<"v1", "operations">>, "", "list", "operation"),
          Route("GET", below, "", "get", "operation"),
          Route("DELETE", below, "", "delete", "operation"),
          Route("POST", below, "cancel", "cancel", "operation"),
          Route("POST", <<"google.longrunning.Operations", "WaitOperation">>, "", "wait",
                "operation")>>

\* gateway.New.
Routes == EventarcRoutes \o PublisherRoutes \o OperationsRoutes

-----------------------------------------------------------------------------
(* The mux.                                                                *)

SegmentsMatch(pattern, path) ==
    LET n == Len(pattern)
        deep == n > 0 /\ pattern[n] = "**"
        fixed == IF deep THEN n - 1 ELSE n
    IN  /\ IF deep THEN Len(path) >= fixed ELSE Len(path) = fixed
        /\ \A i \in 1..fixed : pattern[i] \in {"*", path[i]}

Matches(route, x) ==
    /\ route.method = x.method
    /\ route.verb \in {"", x.verb}
    /\ SegmentsMatch(route.pattern, x.path)

NoRoute == [rpc |-> "", kind |-> "", name |-> <<>>]

\* The path as the route captures it: without v1 and, for a list or a create,
\* without the collection.
Captured(route, x) ==
    LET n == Len(x.path)
        last == IF x.verb # route.verb THEN ColonId ELSE x.path[n]
    IN  IF route.rpc \in {"list", "create"} /\ route.kind # "operation"
        THEN SubSeq(x.path, 2, n - 1)
        ELSE Append(SubSeq(x.path, 2, n - 1), last)

\* Of the routes that match, the one tried first.
Tried(S) == CHOOSE i \in S : \A j \in S : j <= i

\* ServeMux.ServeHTTP.
Mux(x) ==
    LET S == {i \in DOMAIN Routes : Matches(Routes[i], x)}
    IN  IF S = {} THEN NoRoute
        ELSE LET route == Routes[Tried(S)]
             IN  [rpc |-> route.rpc, kind |-> route.kind, name |-> Captured(route, x)]

-----------------------------------------------------------------------------
(* projectScopedLRORewriter.                                               *)

\* Mutant: the last segment but one is taken for the collection unread.
CutsUnread(path) == {i \in 3..Len(path) : i >= Len(path) - 1}

\* Where "/operations" occurs: before a segment that begins so.
Cuts(path) == {i \in 3..Len(path) : path[i] \in OpsLike}

Intercepted(x) ==
    /\ x.method = "GET"
    /\ Len(x.path) > 2 /\ x.path[1] = "v1" /\ x.path[2] = "projects"
    /\ Cuts(x.path) # {}

LastCut(path) == CHOOSE i \in Cuts(path) : \A j \in Cuts(path) : j <= i

\* /v1/operations/ before the path.
Rewritten(x) == [x EXCEPT !.path = <<"v1", "operations">> \o Tail(x.path)]

\* Nothing follows the last /operations, or the slash that makes an empty segment.
EndsInOperations(x) ==
    LET n == Len(x.path)
        i == LastCut(x.path)
    IN  /\ x.path[i] = "operations" /\ x.verb = ""
        /\ i = n \/ (i = n - 1 /\ x.path[n] = "")

\* A list if the path ends so, a get if anything follows.
Dispatch(x) ==
    IF ~Intercepted(x) THEN Mux(x)
    ELSE IF EndsInOperations(x)
    THEN [rpc |-> "list", kind |-> "operation", name |-> SubSeq(x.path, 2, LastCut(x.path) - 1)]
    ELSE Mux(Rewritten(x))
=============================================================================

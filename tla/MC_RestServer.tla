--------------------------- MODULE MC_RestServer ---------------------------
(***************************************************************************)
(* Small instances of RestServer for TLC: every kind, one RPC at a time,    *)
(* from gRPC and from HTTP clients.  Names are whole here, for the routes   *)
(* look at every segment.                                                  *)
(***************************************************************************)
EXTENDS RestServer, TLC

Parent(project) == <<"projects", project, "locations", "l">>
Named(project, k, id) == JoinName(Parent(project), Collection(k), id)
NameOf(k) == Named("p", k, "x")

\* The payload fields the instances tell apart, sorted as the mask is.
SortedFields ==
    <<"activation_token", "cel_match", "destination", "destinations", "display_name",
      "event_filters", "labels", "message_bus", "state">>

RestNames == {NameOf(k) : k \in Kinds}

\* The fields of the messages, as far as the instances tell them apart.
FieldsOf(k) ==
    {"labels"} \cup
    CASE k = "trigger"           -> {"destination", "event_filters"}
      [] k = "channel"           -> {"state", "activation_token"}
      [] k = "channelConnection" -> {"activation_token"}
      [] k = "messageBus"        -> {"display_name"}
      [] k = "enrollment"        -> {"cel_match", "destination", "display_name", "message_bus"}
      [] k = "pipeline"          -> {"destinations", "display_name"}
      [] OTHER                   -> {"destination", "display_name"}

\* Those that are messages: JSON has them as objects.
Nested(k) == IF k = "trigger" THEN {"destination"} ELSE {}

-----------------------------------------------------------------------------
(* gRPC requests: the least one of a verb, and the flags that change it.    *)

Payload(said, v) == [f \in Fields |-> IF f \in said THEN v ELSE ""]

Bare(verb, k, body) ==
    [verb |-> verb, kind |-> k, name |-> NameOf(k), body |-> body, mask |-> None,
     wellFormed |-> TRUE, validateOnly |-> FALSE, allowMissing |-> FALSE,
     guarded |-> FALSE, etag |-> 0, principal |-> TRUE]

Create(k) == Bare("create", k, Payload(FieldsOf(k), "a"))
Delete(k) == Bare("delete", k, Payload({}, ""))
UpdateMasked(k, mask) ==
    [Bare("update", k, Payload(FieldsOf(k), "b")) EXCEPT !.mask = mask]

Malformed(r) == [r EXCEPT !.wellFormed = FALSE]
DryRun(r) == [r EXCEPT !.validateOnly = TRUE]
AllowMissing(r) == [r EXCEPT !.allowMissing = TRUE]
WithEtag(r) == [r EXCEPT !.guarded = TRUE]

GrpcRequests ==
    {Malformed(Create(k)) : k \in Kinds}
    \cup UNION {{AllowMissing(UpdateMasked(k, <<"*">>)), AllowMissing(WithEtag(Delete(k))),
                 AllowMissing(DryRun(Delete(k)))} : k \in Kinds \cap Etagged}
    \cup {DryRun(Delete("channel"))}

-----------------------------------------------------------------------------
(* HTTP requests.                                                          *)

Http(method, path, k, said, value) ==
    [method |-> method, path |-> <<"v1">> \o path, verb |-> "", object |-> said # {},
     body |-> Payload(said, value), said |-> said, nested |-> said \cap Nested(k),
     id |-> "", mask |-> None, validateOnly |-> FALSE, allowMissing |-> FALSE,
     guarded |-> FALSE, principal |-> TRUE]

HttpGet(k) == Http("GET", NameOf(k), k, {}, "")
HttpDelete(k) == Http("DELETE", NameOf(k), k, {}, "")
HttpCreateIn(project, k) ==
    [Http("POST", Append(Parent(project), Collection(k)), k, FieldsOf(k), "a")
        EXCEPT !.id = "x"]
HttpPatch(k, said) == Http("PATCH", NameOf(k), k, said, "b")
Masked(x, mask) == [x EXCEPT !.mask = mask]
EmptyObject(x) == [x EXCEPT !.object = TRUE]

Patched == Kinds \ {"channelConnection"}

\* A PATCH of everything, of less, of nothing, and one with an updateMask.
ClientRequests ==
    UNION {{HttpGet(k), HttpDelete(k), HttpCreateIn("p", k)} : k \in Kinds}
    \cup UNION {{HttpPatch(k, FieldsOf(k)), HttpPatch(k, FieldsOf(k) \ {"labels"}),
                 EmptyObject(HttpPatch(k, {})),
                 Masked(HttpPatch(k, FieldsOf(k)), <<"labels">>)} : k \in Patched}
    \cup {[HttpCreateIn("p", "trigger") EXCEPT !.validateOnly = TRUE],
          Masked(HttpPatch("enrollment", {"labels", "display_name"}), <<"*">>),
          HttpPatch("enrollment", FieldsOf("enrollment") \ {"message_bus"})}

\* The kinds share no state but ops: a behaviour need only be about one.
OneKind ==
    \A h \in Handlers, v \in committed : req[h] # None => req[h].kind = v.kind

AllRequests == GrpcRequests \cup ({Transcoded(x) : x \in ClientRequests} \ {None})

-----------------------------------------------------------------------------
(* A project whose id begins with "operations".                             *)

TeamProject == "operations-team"
TeamNames == {Named(TeamProject, k, "x") : k \in Kinds}
TeamClientRequests == {HttpCreateIn(TeamProject, k) : k \in Kinds}
TeamRequests == {Transcoded(x) : x \in TeamClientRequests}
=============================================================================

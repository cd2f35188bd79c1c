------------------------- MODULE MC_EventarcServer -------------------------
(***************************************************************************)
(* Small instances of EventarcServer for TLC.  A name is its segments, with *)
(* "p" for the prefix projects/p/locations/l.  Labels stand for any field   *)
(* that Update writes.                                                      *)
(***************************************************************************)
EXTENDS EventarcServer, FiniteSets, TLC

\* Names.
T == <<"p", "triggers", "t">>
E == <<"p", "enrollments", "e">>

TriggerNames == {T}

\* Requests: the least one of a verb, and the flags that change it.
Bare(verb, k, name, body) ==
    [verb |-> verb, kind |-> k, name |-> name, body |-> body, mask |-> None,
     wellFormed |-> TRUE, validateOnly |-> FALSE, allowMissing |-> FALSE,
     guarded |-> FALSE, etag |-> 0, principal |-> TRUE]

Filled(v) == [f \in Fields |-> v]
Empty == Filled("")

Create(k, n) == Bare("create", k, n, Filled("a"))
UpdateAll(k, n, v) == Bare("update", k, n, Filled(v))
UpdateMasked(k, n, v, mask) == [UpdateAll(k, n, v) EXCEPT !.mask = mask]
Delete(k, n) == Bare("delete", k, n, Empty)

Malformed(r) == [r EXCEPT !.wellFormed = FALSE]
DryRun(r) == [r EXCEPT !.validateOnly = TRUE]
AllowMissing(r) == [r EXCEPT !.allowMissing = TRUE]
Anonymous(r) == [r EXCEPT !.principal = FALSE]
WithEtag(r) == [r EXCEPT !.guarded = TRUE]

\* Two handlers, one trigger: everything that can race on it.
TriggerRequests ==
    {Create("trigger", T),
     DryRun(Create("trigger", T)),
     UpdateAll("trigger", T, "b"),
     DryRun(UpdateAll("trigger", T, "b")),
     AllowMissing(UpdateMasked("trigger", T, "b", <<"labels">>)),
     Delete("trigger", T),
     AllowMissing(WithEtag(Delete("trigger", T)))}

\* Two handlers, one resource of another kind.
Named(k) == <<"p", Collection(k), "x">>
OtherRequests(k) ==
    {Create(k, Named(k)), Malformed(Create(k, Named(k))), Delete(k, Named(k))}
    \cup IF k = "channelConnection" THEN {} ELSE {UpdateAll(k, Named(k), "b")}

RaceNames == {T} \cup {Named(k) : k \in Kinds \ {"trigger"}}
RaceRequests == TriggerRequests \cup UNION {OtherRequests(k) : k \in Kinds \ {"trigger"}}

\* The kinds share no state but ops: a behaviour need only be about one.
OneKind ==
    Cardinality({v.kind : v \in committed} \cup {r.kind : r \in {req[h] : h \in Handlers} \ {None}}) <= 1

\* Two handlers, one enrollment, masks that meet the immutable message_bus at
\* once, after another field, or never.  The upsert of the foreign name falls
\* back to a Create of the enrollment's.
ForeignEnrollment == <<"p", "things", "e">>
EnrollmentNames == {E, ForeignEnrollment}
EnrollmentRequests ==
    {Create("enrollment", E),
     AllowMissing(UpdateAll("enrollment", E, "b")),
     AllowMissing(UpdateAll("enrollment", ForeignEnrollment, "b")),
     UpdateMasked("enrollment", E, "b", <<"message_bus", "labels">>),
     UpdateMasked("enrollment", E, "b", <<"labels", "message_bus", "cel_match">>),
     UpdateMasked("enrollment", E, "b", <<"labels", "*">>),
     Delete("enrollment", E),
     Anonymous(Create("enrollment", E)),
     Anonymous(Delete("enrollment", E))}

\* The requests of the disagreements between the code and what is said of it.
EtagRaceRequests ==
    {Create("trigger", T), UpdateAll("trigger", T, "b"),
     WithEtag(Delete("trigger", T))}
PartialUpdateRequests ==
    {Create("enrollment", E),
     UpdateMasked("enrollment", E, "b", <<"labels", "message_bus">>)}
=============================================================================

------------------------------ MODULE Publisher ------------------------------
(***************************************************************************)
(* Publishing: internal/publisher/server.go over router.Match and          *)
(* dispatcher.Dispatch, against a storage that other RPCs change.          *)
(*                                                                         *)
(* A publish is one goroutine.  It looks for its channel, and then, event  *)
(* after event, reads the triggers of the location in one critical section *)
(* of Storage.mu and posts the event to each that matches, one after the   *)
(* other, waiting for every answer.  The storage is here what the          *)
(* registry of ResourceRegistry promises: every Create, Update and Delete  *)
(* of a trigger or a channel is one step, and every version of a trigger   *)
(* is a new one.                                                           *)
(*                                                                         *)
(* An operator introduced by "Mutant" is a plausible mistake in the        *)
(* definition after it, and not part of the specification.                 *)
(***************************************************************************)
EXTENDS ResourceNames, EventRouting

CONSTANTS
    Handlers,       \* goroutines that can serve a publish
    TriggerNames,   \* full names of triggers
    Specs,          \* what triggers say: filters, condition, destination
    ChannelNames,   \* full names of channels
    Publishes,      \* the requests clients send
    MaxPublishes,   \* bound: publishes in a behaviour
    MaxChanges,     \* bound: changes of the storage in a behaviour
    None            \* no trigger; an event that is nil or cannot be unpacked

Destinations == {"http_endpoint", "cloud_run", "unsupported", "none"}

\* Every version of a trigger.
Versions ==
    [name : TriggerNames, version : 1..MaxChanges, filters : {s.filters : s \in Specs},
     condition : {s.condition : s \in Specs}, destination : Destinations]

ASSUME SpecsAssumption ==
    \A s \in Specs :
        /\ DOMAIN s = {"filters", "condition", "destination"}
        /\ s.destination \in Destinations
        /\ \A f \in s.filters : f.value \in Seq(STRING)
ASSUME NamesAssumption == \A n \in TriggerNames : n \in Seq(STRING) /\ IsName(n)
ASSUME PublishesAssumption ==
    \A r \in Publishes :
        /\ r.rpc \in {"PublishEvents", "PublishChannelConnectionEvents"}
        /\ r.source \in Seq(STRING) /\ IsName(r.source)
        /\ r.events \in Seq({r.events[i] : i \in DOMAIN r.events})
        /\ \A i \in DOMAIN r.events : r.events[i] # None =>
              \A a \in DOMAIN r.events[i] : r.events[i][a] \in Seq(STRING)
ASSUME NoneAssumption == None \notin Publishes /\ None \notin Versions
ASSUME BoundsAssumption == MaxPublishes \in Nat /\ MaxChanges \in Nat

VARIABLES
    triggers,   \* Storage.triggers: from name to version, or None
    channels,   \* the names in Storage.channels
    changes,    \* changes of the storage so far
    pc,         \* idle, check, events, dispatch, await or done
    call,       \* the handler's request
    next,       \* index of the event being processed
    batch,      \* matched triggers the event has yet to be dispatched to
    gone,       \* the client has cancelled, or its deadline has passed
    reply,      \* the code returned
    published,  \* publishes so far
    posts,      \* history: the POSTs of the publish, in order
    steady,     \* history: versions stored throughout the publish
    lived       \* history: versions stored since the event became the next

storage == <<triggers, channels, changes>>
vars == <<triggers, channels, changes, pc, call, next, batch, gone, reply,
          published, posts, steady, lived>>

Running(h) == pc[h] \notin {"idle", "done"}
Stored == {triggers[n] : n \in {m \in TriggerNames : triggers[m] # None}}

Init ==
    /\ triggers = [n \in TriggerNames |-> None]
    /\ channels = {}
    /\ changes = 0
    /\ pc = [h \in Handlers |-> "idle"]
    /\ call = [h \in Handlers |-> None]
    /\ next = [h \in Handlers |-> 1]
    /\ batch = [h \in Handlers |-> {}]
    /\ gone = [h \in Handlers |-> FALSE]
    /\ reply = [h \in Handlers |-> ""]
    /\ published = 0
    /\ posts = [h \in Handlers |-> <<>>]
    /\ steady = [h \in Handlers |-> {}]
    /\ lived = [h \in Handlers |-> {}]

-----------------------------------------------------------------------------
(* The storage, as its other clients change it.                            *)

\* One change, after which it holds the given triggers and channels.
Change(newTriggers, newChannels) ==
    /\ changes < MaxChanges
    /\ changes' = changes + 1
    /\ triggers' = newTriggers
    /\ channels' = newChannels
    /\ steady' = [h \in Handlers |->
                    IF Running(h) THEN steady[h] \cap Stored' ELSE steady[h]]
    /\ lived' = [h \in Handlers |->
                    IF Running(h) THEN lived[h] \cup Stored' ELSE lived[h]]
    /\ UNCHANGED <<pc, call, next, batch, gone, reply, published, posts>>

Version(n, spec) ==
    [name |-> n, version |-> changes + 1, filters |-> spec.filters,
     condition |-> spec.condition, destination |-> spec.destination]

CreateTrigger(n) ==
    /\ triggers[n] = None
    /\ \E s \in Specs : Change([triggers EXCEPT ![n] = Version(n, s)], channels)

\* Any spec can follow any other, as masks and successive updates allow.
UpdateTrigger(n) ==
    /\ triggers[n] # None
    /\ \E s \in Specs : Change([triggers EXCEPT ![n] = Version(n, s)], channels)

DeleteTrigger(n) ==
    /\ triggers[n] # None
    /\ Change([triggers EXCEPT ![n] = None], channels)

CreateChannel(c) == c \notin channels /\ Change(triggers, channels \cup {c})
DeleteChannel(c) == c \in channels /\ Change(triggers, channels \ {c})

-----------------------------------------------------------------------------
(* A publish.                                                              *)

Goto(h, label) == pc' = [pc EXCEPT ![h] = label]

Return(h, code) ==
    /\ Goto(h, "done")
    /\ reply' = [reply EXCEPT ![h] = code]

\* Only PublishEvents, and only with a channel, looks for the channel.
Publish(h) ==
    /\ ~Running(h)
    /\ published < MaxPublishes
    /\ published' = published + 1
    /\ \E r \in Publishes :
          /\ call' = [call EXCEPT ![h] = r]
          /\ Goto(h, IF r.rpc = "PublishEvents" /\ r.source # EmptyValue
                     THEN "check" ELSE "events")
    /\ next' = [next EXCEPT ![h] = 1]
    /\ batch' = [batch EXCEPT ![h] = {}]
    /\ gone' = [gone EXCEPT ![h] = FALSE]
    /\ reply' = [reply EXCEPT ![h] = ""]
    /\ posts' = [posts EXCEPT ![h] = <<>>]
    /\ steady' = [steady EXCEPT ![h] = Stored]
    /\ lived' = [lived EXCEPT ![h] = Stored]
    /\ UNCHANGED storage

CheckChannel(h) ==
    /\ pc[h] = "check"
    /\ \/ /\ call[h].source \in channels
          /\ Goto(h, "events")
          /\ UNCHANGED reply
       \/ /\ call[h].source \notin channels
          /\ Return(h, "NotFound")
    /\ UNCHANGED <<storage, call, next, batch, gone, published, posts, steady, lived>>

Parent(r) ==
    IF r.rpc = "PublishEvents"
    THEN ParentFromChannel(r.source)
    ELSE ParentFromChannelConnection(r.source)

\* Mutant: the events that cannot be unpacked are counted twice.
StepOver(h) ==
    next' = [next EXCEPT ![h] = IF call[h].events[next[h]] = None THEN @ + 2 ELSE @ + 1]

Advance(h) == next' = [next EXCEPT ![h] = @ + 1]

\* The loop of processAnySlice turns to the event after the current one.
NextEvent(h) ==
    /\ Advance(h)
    /\ Goto(h, "events")
    /\ lived' = [lived EXCEPT ![h] = Stored]
    /\ UNCHANGED <<storage, call, batch, gone, reply, published, posts, steady>>

\* A nil Any, or one that does not unpack, is passed over.
SkipEvent(h) ==
    /\ pc[h] = "events"
    /\ next[h] <= Len(call[h].events)
    /\ call[h].events[next[h]] = None
    /\ NextEvent(h)

\* Mutant: the triggers of every location are listed.
ListEverything(parent) == Stored

\* ListAllTriggers clones what it finds under one read lock.
ListAllTriggers(parent) == {t \in Stored : Under(t.name, parent, "triggers")}

Match(h) ==
    /\ pc[h] = "events"
    /\ next[h] <= Len(call[h].events)
    /\ call[h].events[next[h]] # None
    /\ batch' = [batch EXCEPT ![h] =
                    {t \in ListAllTriggers(Parent(call[h])) :
                        TriggerMatches(t, call[h].events[next[h]])}]
    /\ Goto(h, "dispatch")
    /\ UNCHANGED <<storage, call, next, gone, reply, published, posts, steady, lived>>

\* destinationURL succeeds and NewRequest accepts what it returns; a trigger
\* whose URI does not parse counts as "unsupported".
HasURL(t) == t.destination \in {"http_endpoint", "cloud_run"}

\* Mutant: a trigger that has been posted to once is tried again.
RestWithRetry(h, t) ==
    IF [event |-> next[h], trigger |-> t] \in {posts[h][i] : i \in DOMAIN posts[h]}
    THEN batch[h] \ {t}
    ELSE batch[h]

\* The range loop over the matched triggers goes on without t.
Rest(h, t) == batch[h] \ {t}

\* Dispatch fails before it sends: no URL, or the context is done.  The order
\* of the slice is that of a map, so any trigger can be next.
DispatchFails(h) ==
    /\ pc[h] = "dispatch"
    /\ \E t \in batch[h] :
          /\ ~HasURL(t) \/ gone[h]
          /\ batch' = [batch EXCEPT ![h] = batch[h] \ {t}]
    /\ UNCHANGED <<storage, pc, call, next, gone, reply, published, posts, steady, lived>>

Post(h) ==
    /\ pc[h] = "dispatch"
    /\ ~gone[h]
    /\ \E t \in batch[h] :
          /\ HasURL(t)
          /\ posts' = [posts EXCEPT ![h] =
                          Append(posts[h], [event |-> next[h], trigger |-> t])]
          /\ batch' = [batch EXCEPT ![h] = Rest(h, t)]
    /\ Goto(h, "await")
    /\ UNCHANGED <<storage, call, next, gone, reply, published, steady, lived>>

\* The receiver answers, with whatever status, or refuses the connection.  What
\* net/http does with a redirect is the receiver's answer, too.
Respond(h) ==
    /\ pc[h] = "await"
    /\ Goto(h, "dispatch")
    /\ UNCHANGED <<storage, call, next, batch, gone, reply, published, posts, steady,
                   lived>>

\* Mutant: a client without a timeout.
NeverTimesOut == FALSE

\* http.Client{Timeout: defaultTimeout}, ten seconds.
TimesOut == TRUE

\* Mutant: the first error ends the loop over the triggers.
AbandonRest(h) == batch' = [batch EXCEPT ![h] = {}]

\* matchAndDispatch logs the error and takes the next trigger.
LogError(h) == UNCHANGED batch

\* client.Do returns an error: the timeout, or the end of the context.
GiveUp(h) ==
    /\ pc[h] = "await"
    /\ TimesOut \/ gone[h]
    /\ LogError(h)
    /\ Goto(h, "dispatch")
    /\ UNCHANGED <<storage, call, next, gone, reply, published, posts, steady, lived>>

Dispatched(h) ==
    /\ pc[h] = "dispatch"
    /\ batch[h] = {}
    /\ NextEvent(h)

Finish(h) ==
    /\ pc[h] = "events"
    /\ next[h] > Len(call[h].events)
    /\ Return(h, "OK")
    /\ UNCHANGED <<storage, call, next, batch, gone, published, posts, steady, lived>>

\* The client cancels or its deadline passes; the handler only notices in Dispatch.
ClientLeaves(h) ==
    /\ Running(h)
    /\ ~gone[h]
    /\ gone' = [gone EXCEPT ![h] = TRUE]
    /\ UNCHANGED <<storage, pc, call, next, batch, reply, published, posts, steady,
                   lived>>

Run(h) ==
    \/ CheckChannel(h) \/ SkipEvent(h) \/ Match(h) \/ DispatchFails(h) \/ Post(h)
    \/ GiveUp(h) \/ Dispatched(h) \/ Finish(h)

ChangeStorage ==
    \/ \E n \in TriggerNames : CreateTrigger(n) \/ UpdateTrigger(n) \/ DeleteTrigger(n)
    \/ \E c \in ChannelNames : CreateChannel(c) \/ DeleteChannel(c)

\* Both bounds are used up and every publish has returned.
Exhausted ==
    /\ published = MaxPublishes /\ changes = MaxChanges
    /\ \A h \in Handlers : ~Running(h)
    /\ UNCHANGED vars

Next ==
    \/ \E h \in Handlers : Publish(h) \/ Run(h) \/ Respond(h) \/ ClientLeaves(h)
    \/ ChangeStorage
    \/ Exhausted

\* A goroutine that can go on does, and a timer that runs fires.  Nothing is
\* assumed of receivers: they may never answer.
Fairness == \A h \in Handlers : WF_vars(Run(h))

Spec == Init /\ [][Next]_vars /\ Fairness

-----------------------------------------------------------------------------
(* Properties.                                                             *)

TypeOK ==
    /\ triggers \in [TriggerNames -> {None} \cup Versions]
    /\ channels \subseteq ChannelNames
    /\ changes \in 0..MaxChanges
    /\ pc \in [Handlers -> {"idle", "check", "events", "dispatch", "await", "done"}]
    /\ \A h \in Handlers :
          /\ call[h] \in {None} \cup Publishes
          /\ next[h] \in 1..(IF call[h] = None THEN 1 ELSE Len(call[h].events) + 1)
          /\ batch[h] \subseteq Versions
          /\ gone[h] \in BOOLEAN
          /\ reply[h] \in {"", "OK", "NotFound"}
          /\ \A i \in DOMAIN posts[h] :
                posts[h][i] \in [event : 1..next[h], trigger : Versions]
    /\ published \in 0..MaxPublishes

\* What a trigger asks for, with the meaning of patterns and conditions in place
\* of the algorithm; the first segment of a name stands for its location.
Wants(t, r, event) ==
    /\ t.name[1] = r.source[1]
    /\ \A f \in t.filters :
          IF f.operator \in PathOperators
          THEN PatternCovers(f.value, AttrValue(event, f.attribute))
          ELSE f.value = AttrValue(event, f.attribute)
    /\ \A c \in t.condition : ConditionMet(c, event)

\* An event goes only to triggers of its channel's location that want it, in a
\* version that was stored at some time after the event before it was done: a
\* trigger deleted or changed before that is not served any more.
NoStrayPost ==
    \A h \in Handlers : \A i \in DOMAIN posts[h] :
        LET p == posts[h][i]
        IN  /\ Wants(p.trigger, call[h], call[h].events[p.event])
            /\ p.event = next[h] => p.trigger \in lived[h]

\* A publish posts an event at most once to a trigger, also when the trigger is
\* changed, or deleted and created again, while the event is dispatched.
OnePostPerTrigger ==
    \A h \in Handlers : \A i, j \in DOMAIN posts[h] :
        i # j /\ posts[h][i].event = posts[h][j].event
            => posts[h][i].trigger.name # posts[h][j].trigger.name

\* Errors "do not abort processing of remaining triggers or events": a publish
\* that returns OK to a client that waited has posted every event to every
\* trigger that wants it and that was stored, unchanged, all the time.
SteadyTriggersAreServed ==
    \A h \in Handlers : pc[h] = "done" /\ reply[h] = "OK" /\ ~gone[h] =>
        \A i \in DOMAIN call[h].events, t \in steady[h] :
            call[h].events[i] # None /\ HasURL(t) /\ Wants(t, call[h], call[h].events[i])
                => \E k \in DOMAIN posts[h] :
                      posts[h][k] = [event |-> i, trigger |-> t]

\* Every publish returns, though a receiver may never answer.
EveryPublishReplies == \A h \in Handlers : Running(h) ~> pc[h] = "done"
=============================================================================

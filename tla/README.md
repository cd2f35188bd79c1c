# A verification of the Eventarc emulator

TLA+ specifications of the GCP Eventarc emulator in `src/`, the TLC
configurations that check them on small instances, and theorems about them that
TLAPS proves for every instance.

- [The system](#the-system) lists its components, their state and what is hard about them.
- [The modules](#the-modules) says which module stands for which code.
- [The runs](#the-runs) says what each check asks, with which bounds.
- [The proofs](#the-proofs) says what is proved, from what, and how.
- [Where the code and its documentation disagree](#where-the-code-and-its-documentation-disagree)
- [Not modelled](#not-modelled), and [the plan](#the-plan).

To repeat a check, run `tlc -config races.cfg MC_EventarcServer.tla` (the module
of each configuration is in the table of the runs) and `tlapm
EventarcServer_safety.tla`.

## The system

The emulator is one process. It serves the Eventarc API, the Publishing API and
the long-running operations API over gRPC, keeps everything in memory, and
delivers published events to HTTP endpoints.

| Component | State | Operations | Correct when |
|---|---|---|---|
| **Eventarc server**, `internal/server/server.go` | none of its own | 39 RPCs: validate, check the permission, call one to three storage methods, wrap the result in an operation | an error changes nothing that its mask did not name; a success reports what was done; dry runs write nothing |
| **Storage**, `internal/server/storage*.go` | a map from full name to message for triggers, channels, channel connections, Google channel configs, message buses, enrollments, pipelines and API sources; a fixed table of providers; one `sync.RWMutex` | Get, Create, Update, Delete, List of each kind | names are unique, an etag stands for one version, a uid for one incarnation |
| **Operations**, `internal/lro/store.go` | a map from operation name to operation; its own `RWMutex` | `CreateDone` (from the server), Get, List, Delete, Cancel, Wait | the operation names and holds the resource it is about |
| **Listing**, the List methods and `PaginatePage` | none; the client carries an offset in the page token | check the parent and the permission, filter, sort, cut a page out of a snapshot | the pages of a walk show what is there, once; a walk ends |
| **IAM gate**, `checkPermission`, `internal/authz` | the mode, fixed at start | ask the IAM emulator, map its errors to codes | a call that is refused touches nothing |
| **Publisher**, `internal/publisher` | none | `PublishEvents`, `PublishChannelConnectionEvents` | every trigger that wants an event gets it once; the call returns |
| **Router**, `internal/router` | none | `Match`: filters, path patterns, a CEL condition kept in a label | it selects what the filters mean |
| **Dispatcher**, `internal/dispatcher` | an HTTP client with a ten-second timeout | `Dispatch`: one POST | it does not hang |
| **REST gateway**, `internal/gateway`, with the generated routes and transcoders of `internal/gen` | the gRPC connection, the HTTP server | routing, rewriting of operation paths, transcoding; `Start`, `Stop`, probes | a request becomes the RPC its path names; a PATCH changes what it says; what is started is stopped |
| **Processes**, `cmd/*` | listeners, signals | start, report ready, stop | ready means ready; stopping is clean |
| Logger, registration, examples | | | |

How they interact: gRPC runs every call in a goroutine of its own. A call goes
server → IAM emulator → storage → operations, or publisher → storage (does the
channel exist) → router → storage (list the triggers) → dispatcher → network,
once per event. The gateway is a client of the gRPC server like any other; it sits
in the same process, whose main function starts and stops both. The storage is
the only state the two services share.

**What is hard.** A lock is held inside a storage method and never from one
method to the next. So what an RPC has read may be stale when it acts:

- Delete reads, compares the etag, and then deletes in a second critical section.
- Update with `allow_missing` updates, and creates in a second one.
- A publish checks its channel, lists the triggers once per event, and posts to
  clones while other calls change and delete the originals.
- `GetGoogleChannelConfig` even reads the message itself after it has released
  the lock.

Errors come in the middle of things: `UpdateEnrollment` stops inside its loop
over the mask, after it has written through the stored pointer; a publish goes on
past events that do not unpack, triggers without a destination, and receivers
that fail or never answer. Nothing is persisted, so there is no recovery to
model; there are no queues and no retries.

Around the services there is more of the kind. A page token is an offset into a
list that may have changed when it comes back. The name of an operation, the path
it is fetched by and the prefix the store trims are put together in three places.
The mask of a PATCH is derived by reading the body a second time. And a process is
four goroutines that wait for each other through one channel, while signals may
come at any moment.

`PROJECT.json` lists these hazards one by one, at the line where each bites, with
the property that would notice.

## The modules

| Module | Stands for |
|---|---|
| `ResourceNames` | `parentFromName`, `parentFromResource`, `lastSegment`, `parentFromChannel`, `parentFromChannelConnection`, the prefix test of every List |
| `ResourceRegistry` | nothing in the code: what a client may rely on the storage for |
| `EventarcServer` | Get, Create, Update and Delete of the seven stored kinds, with `checkPermission`, the storage methods, `CreateDone` and `DeleteOperation` |
| `GoogleChannelConfig` | the storage methods of the eighth kind |
| `ConfigRegister` | nothing in the code: what those who write that kind may rely on |
| `EventRouting` | `internal/router`, and the meaning of a path pattern |
| `Publisher` | `internal/publisher` and `internal/dispatcher` over the storage |
| `Pagination` | `PaginatePage`: which items a page holds, and the next token |
| `Listing` | the ten listings of the API, walked by a client while the store changes |
| `RestGateway` | the routes of the three generated gateways, and `projectScopedLRORewriter` |
| `RestServer` | the gateway in front of `EventarcServer`: transcoding of HTTP requests, and polling of operations |
| `Processes` | the main functions of `cmd/server`, `cmd/server-rest`, `cmd/server-dual`, with `Start` and `Stop` of the gateway |
| `EventarcServer_proofs`, `EventarcServer_safety`, `EventarcServer_replies`, `GoogleChannelConfig_proofs`, `Publisher_proofs`, `Listing_proofs`, `RestServer_proofs`, `Processes_proofs` | theorems |
| `MC_EventarcServer`, `MC_GoogleChannelConfig`, `MC_Publisher`, `MC_Listing`, `MC_RestServer`, `MC_Processes` | the instances TLC checks |

`EventarcServer` refines `ResourceRegistry` (`RegistrySpec`), and `Publisher`
takes the storage to be such a registry: every change is one step, every version
is new. `GoogleChannelConfig` refines `ConfigRegister` (`RegisterSpec`). `RestServer`
extends `EventarcServer` and `RestGateway`: every step of an
RPC is one of `EventarcServer`. `EventRouting`, `ResourceNames`, `Pagination` and
`RestGateway` are pure operators that other modules extend.

An operator under a comment that begins with "Mutant" is not part of any
specification. It is a mistake someone could make in the definition that follows
it; `PROJECT.json` says which property notices it.

### EventarcServer

| Code | Model |
|---|---|
| a goroutine that serves an RPC | `h \in Handlers`, with `pc[h]`, `req[h]`, the local `found[h]`, and `reply[h]` |
| `requireField`, the violations of Create, `checkPermission` | `Reject`, `Deny`, `Admit` |
| `storage.GetX`, in a Get, in a dry run, in a Delete | `Lookup` |
| `storage.CreateX`, from Create and from the upsert of Update | `Insert`, `Upsert` |
| `storage.UpdateX` | `Update` |
| `storage.DeleteX` | `Remove` |
| `lro.CreateDone`, `DeleteOperation` | `CreateDone`, `DeleteOperation` |

An action is one critical section, together with the branch the handler takes on
its result: the branch reads and writes the handler's locals only. The seven
kinds have handlers of one shape, so the actions are shared, and the tables at
the head of the module hold what differs: collection, etag or not, the fields
Update writes, the immutable ones, those Create insists on, and how the parent
of an upsert is cut out of the name. `TriggerRPC` … `GoogleApiSourceRPC` say
which methods each kind's RPCs call.

What is abstracted:

- A name is the sequence of its segments, so that `strings.LastIndex` on
  `"/triggers/"` is a position.
- A payload is a function from the few fields an instance tells apart. A mask is
  a sequence of paths, in order, because the order matters to `UpdateEnrollment`.
- uids, etags and operation ids are random 64-bit and 128-bit numbers in the
  code. Here each is the next unused number: that they do not collide is assumed.
  Timestamps are left out.
- The IAM emulator is outside the repository: where it is asked it may answer
  anything, a failure included.
- The error paths of `CreateDone`, a failing random source and an `anypb.New` of
  a message that does not marshal, are left out.

The history variables `committed`, `wrote` and `removed` record what was ever
stored, and what each RPC did to the store. No guard reads them, but for the
etag a client may send, which is one it has seen.

### GoogleChannelConfig

The one resource that is read with no lock held. Go gives a racing read of a
multi-word value no meaning as a whole, so the object is modelled word by word: a
string is a pointer and a length, a map is a pointer. `CloneWord` runs without
the lock, and `WriteWord` with it. The order of the words is left open. All
accesses are to aligned machine words, so a word is never torn itself; the racy
traversal of a Go map is left out, since Update replaces the map and does not
change it. `timestamppb.Now()` is a clock that advances whenever it is read.

`ConfigRegister` has no locks, pointers or words in progress: a value that takes its
default once, and edits that are each applied at one instant and answered with what
they made. The mapping takes `Visible` for the value, which is the config, or while a
handler holds the write lock the config as it found it: so an Update happens at its
`Unlock`. Reads are not part of the register. A Get is torn, and no mapping makes it
the read of one.

### EventRouting and Publisher

An attribute is the sequence of its segments. `MatchSegs` is the algorithm of
`matchSegs`, `PatternCovers` the meaning of a pattern: the value can be cut into
pieces, one for each segment of the pattern. A condition compares one attribute with a
constant; what is modelled is the emulator's part, which attributes an event
declares and that an error means no match. The rest belongs to cel-go. `ConditionMet`
is its meaning: the attribute is a standard one or an extension the event has, and
the comparison holds. `NoStrayPost` and `SteadyTriggersAreServed` are stated with
`PatternCovers` and `ConditionMet`, so that they do not repeat the algorithm they
check. Headers, bodies and the conversion of the event are left out.

A publish is `CheckChannel`, and then per event `Match` (one read lock, which
also clones) and a POST per matched trigger. `Respond` is the receiver, and
`GiveUp` the timeout or the end of the client's context. Triggers and channels
change between any two of these steps.

### Pagination and Listing

A page token is the decimal form of an offset; here it is an integer, or `Last`
for the empty token, or `Garbage` for a text `strconv.Atoi` refuses. `Wrap` is the
addition of the code, which overflows at `MaxInt`.

A listing holds the read lock from the first look at the map to the last, so one
List is one step: `StorageListTriggers` and the others, each called by the RPC of
its name. In between, `Create` and `Delete` change what is listed. The time of a
creation need not differ from that of the last one. `Sorted` yields every way
`sort.Slice` may order the items: with equal keys the order is that of the map,
which is random. By name there are no equal keys; by `create_time desc` there may
be. Providers are a constant table, listed under every parent. `ListOperations`
compares a bare prefix, in no order, with no page.

A behaviour is about one listing and one client. Listings share no state, and what
another client does to a listing is a `Create` or a `Delete`. An item is an owner,
a number for its id and a creation time; payloads and the rewriting of a
provider's name are left out.

### RestGateway and RestServer

`Routes` is the table that `gateway.New` registers, in its order. `Mux` is what
grpc-gateway does with it: the route registered last is tried first, `*` stands for
one segment and `**` for any number. `Dispatch` is the handler in front. It looks
for the last `/operations` in the path as a text, so a segment that begins with
"operations" is one too: `OpsLike` is the set of these segments. With nothing behind
it but perhaps a slash, which makes an empty segment, the request is a list
(`EndsInOperations`).

`GetX`, `CreateX`, `UpdateX` and `DeleteX` are the `request_` functions, which the
generator makes alike for every kind; the map names those of triggers. `UpdateMask`
takes the mask of the query if there is one, and derives one from the body
otherwise. `FieldMask` is that derivation (in grpc-gateway): a path for each leaf
of the JSON, so that a field given as an object yields paths below it, which no
`UpdateX` knows (`Unlisted`). An RPC and the request it came from are one step:
`Receive`. A request that is not routed or not decoded reaches no RPC.

`Poll` is a client that asks for an operation it was told of, by `GET` or by
`WaitOperation`, which both end in `GetOperation`.

### Processes

| Code | Model |
|---|---|
| the main goroutine | `main`, the statement it is at |
| `go func() { close(readyCh); Serve }` | `server`: spawned, ready, serving, returned |
| `go func() { gw.Start }` | `starter`: spawned, bound (after `net.Listen`), set (after `httpSrv` is assigned) |
| `go httpSrv.Serve` | `web` |
| `signal.Notify` with a channel of one | before `Arm` a signal kills the process; after it, `quit` holds one |
| `log.Fatalf`, `os.Exit` | `Exit`, which takes the unanswered calls along |

`ServerMain`, `RestMain` and `DualMain` are the same statements, without the
gateway for the first. Calls are gRPC, REST or a probe of `/healthz`, `/readyz`.
Of grpc and net/http the module says only what main relies on; its head lists it.
That `Listen` or `NewServer` fails is always possible; for port 0, which `--port`
may name, `Listen` binds any port. `Setting` has what the flags
and the environment say: `EVENTARC_EMULATOR_HOST` as the number its text begins
with and the one behind its colon, because `getEnvPort` reads the former only.

## The runs

| Run (`<run>.cfg`) | Module | Distinct states | Asks |
|---|---|---|---|
| `races` | `MC_EventarcServer` | 512,780 | what holds however two handlers interleave on one resource |
| `serial` | `MC_RestServer` | 30,585 | what holds for all kinds when calls do not overlap, over gRPC and HTTP |
| `enrollments` | `MC_EventarcServer` | 405,695 | what failed or anonymous calls can have changed, and whether calls return |
| `config` | `MC_GoogleChannelConfig` | 28,769 | double-checked initialisation, atomic updates, and what a torn read is made of |
| `publisher` | `MC_Publisher` | 502,493 | delivery while triggers change |
| `listing` | `MC_Listing` | 656,165 | walks of a listing while it changes |
| `processes` | `MC_Processes` | 387,731 | start and shutdown |

**races.** Two handlers, four RPCs: on a trigger, of seven sorts (creates, updates,
upserts, deletes guarded and not, dry runs); on a resource of any other kind,
creates, updates and deletes. `RegistrySpec`: the storage refines the registry.
`EtagIdentifiesVersion`, `EveryDeleteRemovesItsOwn`,
`WritersReportTheirOwnVersion` and `ValidateOnlyIsReadOnly` say what a client may
conclude from an answer although others were at work. `DeletesNeverGoBack`: a Delete
that is overtaken between its read and its removal removes something newer, never
something older than what it read or than its client's etag stands for. Four calls are
the least that let a resource be created, deleted and created again while a fourth call
is between its two critical sections. A third handler adds no sort of interference:
an RPC has at most two critical sections of the storage, so one interruption is
all it can suffer, and one other handler can make it with several calls in a row.
`OneKind` keeps a behaviour to one kind: kinds share no state but the operations,
which are only ever added here and deleted one by one.

**serial.** One handler, all seven kinds, up to three RPCs in sequence, from gRPC
clients and through the gateway: malformed, dry, upserting, guarded, and PATCHes of
everything, of less, of nothing, with an `updateMask` and with a field given as an
object. Here the promises of the changelog about etags, Deletes with `allow_missing`
and the answers of Delete do hold. They fail under concurrency (below), so this run
says that the interleaving alone is to blame. Of the gateway: `PatchTouchesNothingElse`
and `PatchStoresItsBody` compare what a PATCH stores with what its JSON says,
whichever way the mask came about; `ResourcesAreReachable`: `GET /v1/<name>` is the
Get of what has that name; `PollsFindOperations`: a client that polls an operation
finds it, unless somebody deleted it. Three calls create a resource, change it and
delete it. `OneKind` again.

**enrollments.** `IAM_MODE=permissive`. Two handlers, masks that name the immutable
field at the head, between two others, or not at all, and calls without a principal.
`FailuresStopAtTheMask`: an RPC that fails has changed nothing, but for an update that
the immutable path stops, and this has at most written the values the client sent to
fields its mask names before that path, and left uid and etag as they were. So the
error path behind a write, in `UpdateEnrollment`, is in this run.
`NoPrincipalNoAccess`, `UidIdentifiesIncarnation` (fields no Update writes keep their
value through an incarnation, and a name created again is a new one), and
`EveryCallReplies`.

**config.** Two handlers and three calls: a Get can be between its two looks
while an Update stores a config, and two Updates with different masks can meet. One
Update clears a field, and one has a mask without any and sets only the time.
`RegisterSpec`: to those who write it the config is a `ConfigRegister`, so the default
is stored when there is no config and never over one, and updates do not mix.
(`UpdatesAreAtomic`, which says the latter without a register, is proved.)
`ReadsInventNothing`: a Get may be torn, but each of its words has been stored, in a
version or by the Update at work; none is blank because an Update cleared it first.
`EveryCallReplies` is deadlock freedom of the lock hand-over: a call that kept the read
lock while asking for the write lock would wait for ever.

**publisher.** One publish of up to three events, some of which do not unpack,
against three changes of two triggers in its location, one outside, and a
channel. `NoStrayPost`: events reach only triggers of the location that want
them, in a version that was stored while the event was processed, and never one
that was deleted before. `OnePostPerTrigger`. `SteadyTriggersAreServed`: a
trigger that stays as it is gets every event it wants, whatever other triggers,
events and receivers do. `EveryPublishReplies`, though receivers may never
answer. One kind of trigger has a condition on an attribute that one event has and
another has not. Two publishes share nothing but the storage, and what one can see the
storage do is what the changes do; so one handler is enough. Three changes let a
trigger be created before, changed during and deleted after the match. On start
the run also evaluates `PatternsAssumption`: `MatchSegs` and `PatternCovers`
agree on all patterns over `a`, `b`, `*`, `**` and all values over `a`, `b` and
the empty segment, up to three segments each. `PatternsMeanCovers` proves it of all
patterns.

**listing.** All ten listings; up to three items under two owners, one of whose
names begins with the other's, four creates and deletes, pages of one or two, and
ints of five bits. A client walks from the first page, or from a token it made up;
with a filter, without a parent, without permission. `UnchangedWalkIsExact`: if
nothing selected was created or deleted, the pages show every selected item once.
`MissesNeedDeletes` and `RepeatsNeedCreates` bound what a changing store can do to a
walk: one resource missed per Delete, one shown twice per Create. All three exclude
walks of which a page was cut from a list with equal sort keys, since there the
order may differ from page to page; TLC finds walks of an unchanged list that miss
a resource if that condition is dropped. `TokensAreAccepted`: no token the server
hands out is refused. `WalkEnds`. Three items and pages of one make three pages, so
that the store can change between any two, and a change can be undone.

**processes.** The three binaries with ten settings, a gRPC call, two REST calls
and a probe, and two signals at any moment. `GracefulShutdown`: a call taken up
before main received the signal is answered, in whatever state the start-up was
when it came. `FlagIsHonoured`: an explicit `--grpc-port` other than the default is
the one bound. `StartEnds` and `SignalEnds`: nobody waits for a channel for ever, no
signal is lost, and a signal ends the process if no client holds a call. This
condition is needed, and TLC finds processes that never exit without it: neither
`GracefulStop` nor `Shutdown` has a deadline. Two REST calls let one be in the gateway
and one in the server during the shutdown; a second signal finds the channel full.

`MaxRPCs`, `MaxCalls`, `MaxPublishes`, `MaxChanges`, `MaxItems` and `MaxSignals` are
the bounds. When they are used up and every call has returned, `Exhausted` lets the
behaviour stutter, so deadlock is checked everywhere: any other state without a
successor is an error.

**Fairness.** A handler is weakly fair in its next storage method: no method
waits for anything while it holds a lock, and `sync.RWMutex` starves neither
readers nor writers. In `GoogleChannelConfig`, where the lock itself is modelled
and others can close it again and again, taking it is strongly fair for the same
reason. A publish is weakly fair in its own steps, of which the timeout is one: a
timer fires. Nothing is assumed of clients and receivers: `Respond` and
`ClientLeaves` are not fair. Nor is accepting a call. A client that walks a listing
is assumed to ask for the next page, for `WalkEnds` is about what the pages do to
it. In `Processes` every goroutine is weakly fair, and calls are not: a client may
keep a stream of the reflection service open, or the body of a request unfinished,
for as long as it likes. That it does not is a premise of `SignalEnds`, by name
(`ClientsKeepUp`). Sending a call or a signal is not fair. `RestServer` assumes
nothing.

## The proofs

Every invariant that a run checks, and every action property, is the conclusion of
a theorem. A theorem is about all handlers, kinds, names, values, requests and bounds
that satisfy the named assumptions of the module it is about, which TLC evaluates in
every run. Where the code does not ensure what a theorem needs, the theorem has it
as a hypothesis, defined and explained next to it:

| Hypothesis | Of | Where it is decided |
|---|---|---|
| `MasksStopFirst` | no mask names an immutable field after one that Update writes | the client; `v_partial_update` shows what happens otherwise |
| `UpsertsStayPut` | an upsert stores under the name the client gave: it is in the collection of its kind | the client; holds in `serial` |
| `[]Apart` | no two calls in progress are about one resource | the client; always so in `serial`, which has one handler; `v_etag_guard` shows what happens otherwise |
| `[]ApartFrom(h)` | no call in progress is about the resource of handler `h` | the same, for the calls of one client |
| `[]Undisturbed(h)` | nobody holds the write lock while handler `h` clones the Google channel config | the clients; `v_config_torn` shows what happens otherwise |
| `KeysAreWhole` | what clients create has a name of six segments, none of which begins with "operations" | the client; holds in `serial`, while the instance of `v_rest_names` violates it and no other hypothesis |
| `NamesInProjects` | names begin with `projects` | the client; holds in `serial` |
| `IdsAreTexts` | ids of operations differ, none is empty, and none begins with "operations" | the code: an id is a UUID |
| `Located` | a trigger is in a location, and a publish names a channel in full or none | `Create` and the client; holds in `publisher` |
| `GatewayBound` | the goroutine of the gateway is past its `Listen` | the scheduler; `v_ready` shows what happens otherwise |

So each promise that a run refutes has a theorem that says when it is kept:

| Refuted by | Kept, by theorem | When |
|---|---|---|
| `v_etag_guard` | `HandlersApartKeepPromises`, `EtagsGuardApartDeletes` | no other call is about the same resource |
| `v_partial_update` | `VersionsAreToldApart` | no mask names an immutable field after another one |
| `v_config_torn` | `UndisturbedReadsAreVersions` | no Update writes while the Get clones |
| `v_rest_names` | `StoredResourcesAreReachable` | no segment of a name begins with "operations" |
| `v_ready` | `ReadyOnceGatewayBound` | the gateway has bound its port |

### Numbers

The library states induction for an operator given as a parameter, which no prover
here can use. But its theorem that the finite subsets of a set are well-founded is
about sets: among the initial segments `1..n` that end in a set there is a smallest.
This gives `LeastNumber` (`Publisher_proofs`), and `GreatestNumber` and
`AllPositions` (`RestServer_proofs`), which are about a set of numbers and so can be
cited. Everything below that is an induction uses one of them: the table of
`matchSegs`, and the walk through the fields of a body.

### The storage

| Theorem of `EventarcServer_proofs` and `EventarcServer_safety` | Says |
|---|---|
| `TypeCorrect` | `Spec => []TypeOK` |
| `DryRunsAreReadOnly` | a `validate_only` call never changes the store |
| `DeletesDoNotShare` | Deletes that succeed removed different incarnations, and these are gone |
| `IncarnationsAreToldApart` | a uid stands for one incarnation, whose fields that Update does not write never change |
| `VersionsAreToldApart` | an etag stands for one version, if `MasksStopFirst` |
| `StorageIsRegistry` | `Spec => RegistrySpec`, the refinement, if `MasksStopFirst` |

*Type correctness.* `TypeOK` is not inductive. An upsert stores under
`UpsertName` of its request, which is in `Names` only for a request that a client
may send; and `CreateDone` makes an operation with the request's verb, which must
not be a Get. `TypeInv` adds `Serving`: the request of a working handler comes
from `Requests`, and the handler is in a section that the request's verb leads to.

*Safety.* `EtagIdentifiesVersion` speaks of pairs of versions ever stored, and a
step adds one: it must be shown that the new etag is new. `HistoryInv` supplies
what that takes:

- `TokensIssued`: every number in use is below `fresh`.
- `StoreIsCommitted`: what is stored has been committed, under its own kind and
  name. So an Update, which keeps the uid, keeps it within one incarnation.
- `RemovedForGood`: the uid of a removed incarnation is on nothing stored now,
  and on no other handler's removal.
- `Effects`: per handler, what its position says about `wrote` and `removed`. A
  handler that has a storage method yet to call has not written.

`CommitNewVersion` is the step all of Create, Update and the upsert share; one
lemma per storage method applies it, and `HistoryInvStep` puts them together. The
refinement needs no further invariant: `CommitIsRegistryStep` shows that storing
a version whose tokens are new is a step of the registry, a removal is its
`Withdraw`, and everything else stutters. The two parts of `HistoryInv` that rest
on `MasksStopFirst` have it as their premise.

### What is answered

| Theorem of `EventarcServer_replies` | Says |
|---|---|
| `FailuresStopWhereTheyMust` | an RPC that answers with an error has changed at most what its mask names before the immutable path |
| `AnonymousCallsSeeNothing` | in permissive mode a call without a principal reads and writes nothing |
| `WritersAnswerTheirOwn` | a Create or Update answers with the version it stored, and no two with the same |
| `OperationsNameTheirResource` | the target of an operation is the name of its response, if `UpsertsStayPut` |
| `HandlersApartKeepPromises` | the next four for a single handler, while no other call is about its resource (`ApartFrom`) |
| `EtagsGuardApartDeletes` | a guarded Delete removes no version with another etag, while `Apart` |
| `ApartDeletesReportRemoved` | a Delete answers with what it removed, while `Apart` |
| `ApartDeletesTolerateMissing` | with `allow_missing` it never answers NotFound, while `Apart` |
| `ApartUpsertsSucceed` | an upsert never answers AlreadyExists, while `Apart` and if `UpsertsStayPut` |

Failures need no hypothesis about masks. `FailingStep` goes through the sections: a
handler that has a storage method yet to call has not written (`Effects`), and of the
methods that fail only `Update` has touched the store before, which
`StoppedUpdateStops` is about: the field it has written is named at a position before
all immutable ones.

What a handler answers, it carries from the storage method to `CreateDone` in
`found`. `AnswerInv` follows it on the way: between the two it is a committed version
of the request's kind (`AnswersOwnVersion`) under the name the client gave
(`HoldsNamedResource`), and no two handlers carry the same etag (`AnswersDiffer`).
The last is where `HistoryInv` is needed: a handler stores a new number, and those
of the others are below `fresh`. `Leaves` is the form in which a storage method
gives up its handler, so that `AnswerInv` is shown once for all of them.

The last five of these are false in general. They are about what a handler has read and
not yet acted on, and this can be disturbed only by a call about the same resource. So
they are proved of behaviours in which calls about one resource do not overlap:
`Undisturbed(h)` says that what a Delete of handler `h` has found is still stored, and
that the name of its upsert is still free. It is kept by every step as long as `h` is
apart from the others, even where these are not apart from each other.
`ServeTouchesTargets` shows that the step of a handler leaves all other names alone, and
`Apart` that the others' names are other names. Calls about other resources, of the same
kind and of others, may interleave in any way: the promises of the changelog hold under
concurrency, up to the resource.

And where calls do overlap, something is left of the guard:

| Theorem | Says |
|---|---|
| `DisturbedDeletesRemoveNewer` | `DeletesNeverGoBack`: a Delete removes what it read or a version stored later, so never one older than its client's etag |

`Overtaken(h)` is its invariant: what is stored under the name of a Delete at work is no
older than what the Delete has found, by uid and by etag. `StoredStaysNewer` shows this of
every storage method of another handler; here it matters that an Update keeps the uid,
and that all numbers in use are below `fresh`.

### The Google channel config

| Theorem of `GoogleChannelConfig_proofs` | Says |
|---|---|
| `TypeCorrect` | `Spec => []TypeOK` |
| `UpdatesDoNotMix` | an Update answers with what it found, and the words of its mask replaced |
| `ConfigIsRegister` | `Spec => RegisterSpec`, the refinement |
| `TornReadsAreStored` | each word of what a Get returns has been stored |
| `UndisturbedReadsAreVersions` | a handler during whose clones nobody writes returns versions, while `Undisturbed` |

`ConfigInv` says first who holds the lock (`LockHeld`): the readers are the handlers
at `RUnlock`, the writer is the one between `Lock` and `Unlock`, and there are never
both. `UpdateProgress` is the loop invariant of an Update: the words of the mask that
are no longer to do have the new value, and all others are as found. It stays true
when others move, as nobody else is between `Lock` and `Unlock`. `VersionsInv` says
that there is no version before the first config, and that the config is a version
whenever the write lock is free.

`HistoryInv` relates all this to what was stored before. `UpdateStart`: an Update
started from a version, and has not touched its time before `Stamp`. `ReadProgress`: the
words that a Get has cloned so far were stored. `TimesPassed`: no timestamp is of the
future. That torn reads invent nothing follows, because a word that an Update overwrites
is still in the version it started from, and a word that it writes stays in the config
until this is a version itself. For the refinement, `Lock`, `WriteWord` and `Stamp` are
stutters, `Insert` and `Unlock` apply the edit, and `InitDefault` takes the default or
stutters. That the applied value is the edit of the one before is `UpdateProgress` at
`Unlock`; that its time is later, `UpdateStart`.

`UndisturbedReadsAreVersions` is about one handler. While it clones and nobody writes,
what it has cloned so far is part of the config (`CloneIsConfig`), and the config is a
version whenever the lock is free. Writers that come before and after the clone do not
disturb it, nor do torn reads of others.

### Publishing

| Theorem of `Publisher_proofs` | Says |
|---|---|
| `PatternsMeanCovers` | `MatchSegs(p, v) <=> PatternCovers(p, v)`, for patterns and values of any length |
| `TypeCorrect` | `Spec => []TypeOK` |
| `PostsAreMeant` | every post is of an event its trigger wants, in a version stored meanwhile |
| `PostsAreSingle` | no event is posted twice to a trigger |
| `SteadyAreServed` | a trigger that stays as it is gets every event it wants, if `Located` |

`PatternsMeanCovers` is what makes the other theorems say something: they speak of
the meaning of patterns, and the code of its algorithm. The table of `matchSegs` is a
function that is filled from the last segment back, each line from the one after it.
`CoveringIsMatch` shows that the meaning satisfies the equations of the table: for each
segment of the pattern, the positions from which the rest of the value can be cut.
`OneMatch` shows with `LeastNumber` that these equations have one solution: there is no
last line at which two tables differ.

`PublisherInv` has four parts per handler: where it is in its request (`Progress`),
that posts are of events up to the current one (`Numbered`), that a trigger is
either posted to or still in the batch, and the batch has each name once (`Once`), and
that what is in the batch is wanted and was stored since the event became the current
one (`Meant`). `ServedInv` says of steady triggers that what is due to them is posted,
or in the batch, or of an event still to come. That a steady trigger of the location is
among those the storage lists is a matter of names: the parent that is cut out of the
channel's name is a prefix of the trigger's name. Here `Located` comes in.

### The listings

The theorems of `Listing_proofs` need that a store and one page fit an int:
`MaxItems + PageLimit <= MaxInt`, which is part of `ListingAssumption`.

| Theorem of `Listing_proofs` | Says |
|---|---|
| `TypeCorrect` | `Spec => []TypeOK` |
| `TokensAccepted` | a walk from the first page is never handed a token the server refuses |
| `UnchangedWalksAreExact` | a walk of an unchanged list without ties shows all of it, once |
| `MissesAreDeletes` | a walk misses at most as many lasting items as there were deletes |
| `RepeatsAreCreates` | a walk shows at most as many items twice as there were creates |

*An unchanged list.* The model sorts by choosing an index for every item. `Rank`
counts the selected items that come before one, and is a function of the list alone.
`IndexIsRank`: in a list without ties the index of an item is its rank, so two pages
of an unchanged list are cut from the same order. The invariant of the walk
(`Progress`) is then that the pages so far have shown exactly the items whose rank is
below the offset of the token (`Behind`). `PageEnd` says where a page ends, and that
the sum does not wrap, for which the assumption on `MaxItems` is used; `PagesAddUp`
that a page adds just the items between two offsets, and the last page the rest.
`ClientInv` supplies that every token handed out is an offset of at most `MaxItems`,
even if the list has shrunk since.

*A changing list.* `WalkInv` bounds two sets at once, at any time of the walk: the
lasting items that are behind the offset and were not shown (`Missed`), by the
deletes, and those that were shown and are not behind it, or were shown twice
already (`Twice`), by the creates. A page only moves items across the offset that it
shows. A Delete can bring items across it to the front, and a Create to the back, but
`OneCrosses` says that whatever the offset, at most one item crosses. Its proof is a
counting argument about places: a new item moves those after it by one. The property
excludes only walks with ties on a page, so between two pages there may be ties, when
`Rank` counts two items alike. `Place` breaks them by the id, which makes every
change move an item by one place at most, and is the rank on the lists from which pages
are cut (`PlaceIsRank`). Providers and operations never change or have one page, and are
treated apart.

### The REST gateway

| Theorem of `RestServer_proofs` | Says |
|---|---|
| `ApartDeletesBehindHttp`, `ApartUpsertsBehindHttp` | the promises about Deletes and upserts, as above |
| `StorageBehindHttpIsRegistry` | `RestSpec => RegistrySpec`, if `MasksStopFirst` |
| `RestTypeCorrect` | `RestSpec => []RestTypeOK`, if `IdsAreTexts` |
| `StoredResourcesAreReachable` | `GET /v1/<name>` is the Get of what has that name, if `KeysAreWhole` |
| `PolledOperationsAreFound` | a poll finds every operation nobody deleted, if `IdsAreTexts` and `NamesInProjects` |
| `PatchesTouchNothingElse` | a PATCH leaves the fields alone it is not about |
| `PatchesStoreTheirBody` | a PATCH stores every mutable field it is about, but for those given as an object |

The model of the gateway is made of the steps of `EventarcServer`, so the invariants of
the server hold behind it (lemma `GatewayAddsNoBehaviour`); this says nothing of the
gateway's code, and only carries the theorems of the first two rows over.

*Routing.* Which route takes a path depends on the order of the table. `ListedRoutes`
gives the table as a set, `PatternShapes` what a path that matches a pattern looks like,
and `RoutesOfGet` which routes a GET without a verb can take. Of these a single one
matches the path of a name (`MuxFindsResource`), so wherever it is in the order, it is
taken (`MuxTakes`). `DispatchFindsResource` and
`DispatchFindsOperation` are the two sides of the rewriting: without a segment that
begins with "operations" the path is left alone, and with one, up to the last of them is
cut. `PolledOperationsAreFound` rests on `OpsDistinct`: no two operations have the same
name, as their ids are new numbers.

*PATCH.* `MaskOfBody` says that the derived mask names just the fields of the body, or
paths no `UpdateX` knows. The mask is built field by field, so this is an induction
over the order of the fields (`WalkExists`, `WalkCollects`). `Linked` keeps the
request of a handler and the HTTP request it came from together. `UpdateStoresMerged`
is the rest: what an Update stores differs from what it found in fields of the mask
only, and has all of them when it goes on to its answer.

### The processes

| Theorem of `Processes_proofs` | Says |
|---|---|
| `TypeCorrect` | `Spec => []TypeOK` |
| `ShutdownIsGraceful` | a call taken up before the signal is answered |
| `FlagHonoured` | a `--grpc-port` other than the default is the one bound |
| `ReadyOnceGatewayBound` | from the log line until a signal the gRPC port is bound, and the HTTP port once `GatewayBound` |

`ProcessInv` adds to `GracefulShutdown` what the goroutines know of each other.
`Order`: how far one can be when another is at a given statement, in
particular that the connection of the gateway is closed only after its
`Shutdown`, and that `grpc` stops only while main waits for it. `Taken`: a call from
before the signal is running or answered; one that came through the gateway implies
that `httpSrv` was assigned, so `Stop` does not leave `Shutdown` out, and it is answered
once main is past it (`Safe`). `Bound`: the port bound is the one the flags
gave. `PortsStay`, which `ReadyOnceGatewayBound` needs besides, says which goroutine has
bound what when it is at a given statement, and that nothing is closed before main
has its signal: the wait for the gateway's `Listen` is all that is missing for "ready"
to be true. The theorems are about any number of calls, signals and settings.

### Only model-checked

Liveness: `EveryCallReplies` (of `EventarcServer` and of `GoogleChannelConfig`),
`EveryPublishReplies`, `WalkEnds`, `StartEnds` and `SignalEnds`. It needs `ENABLED`,
which is beyond the prover. And what the hypotheses above leave out: where one
of them fails, the runs that are expected to end in a violation show what happens.

## Where the code and its documentation disagree

Each of these runs is expected to end in a counterexample.

| Run | What happens | What is said |
|---|---|---|
| `v_etag_guard` | An Update between a guarded Delete's read and its removal: the Delete removes a version with another etag. | "now return `ABORTED` if the provided etag doesn't match the stored resource" (CHANGELOG.md:34) |
| `v_partial_update` | The mask `labels,message_bus`: the update fails, and the labels have changed under the old etag. | "applies the fields … and sets update_time and etag" (internal/server/storage_messagebus.go:221) |
| `v_config_torn` | A Get returns half of one config and half of another. | "All methods are thread-safe" (internal/server/storage.go:75) |
| `v_rest_names` | `GET /v1/projects/operations-team/…/triggers/x` becomes a GetOperation, which answers 404. The same holds of an id or a location that begins with "operations". | "intercepts GET requests for project-scoped LRO paths" (internal/gateway/gateway.go:120), listed as those with a collection `operations` |
| `v_ready` | Ready is logged while the HTTP port is not bound, and `gw.Start` may still fail. | ""Ready" only appears after the listener is confirmed up" (CHANGELOG.md:107) |

Found on the way, and not a run of their own:

- Three more properties fail under concurrency, as in `v_etag_guard`: of two Deletes
  with `allow_missing` one answers NotFound, and of two such Updates one answers
  AlreadyExists and is lost (CHANGELOG.md:35 promises success); a Delete answers with
  the resource as it was before a concurrent Update (CHANGELOG.md:98: "return the
  deleted resource"). `serial` checks those of Deletes where calls do not overlap, and
  all three are proved for that case.
- The upsert of a name in another collection stores the resource elsewhere than the
  operation's target says (internal/lro/store.go:47: "target is the full resource
  name"). The names of `serial` are in the collection of their kind.
- internal/router/router.go:7 says that conditions are "compiled and cached on first
  use". They are compiled at every event. For this reason the variables of a
  condition depend on the event, and a condition can compile for one event and fail
  for the next; that is modelled.
- `getEnvPort` never matches `"%s:%d"`, as `%s` takes the colon along. With
  `EVENTARC_EMULATOR_HOST=localhost:9099` the port is the default, with
  `127.0.0.1:9099` it is 127.
- cmd/server/main.go:98 says that `--grpc-port` takes precedence if explicitly set.
  An explicit `--grpc-port 9085` is taken for the default: `--port`, or the port of
  the environment, which is the default of both flags, overrides it. `--port` is
  not range-checked. `FlagIsHonoured` excludes the default port for this reason.
- A signal before `Serve` makes `GracefulStop` come first, and the process exits with
  status 1. A signal before the gateway has started leaves `Shutdown` out.
  `GracefulShutdown` holds all the same: no call was taken up.
- A client that holds a call keeps a signalled process from exiting
  (cmd/server/main.go:161). Nothing is said of that; `SignalEnds` has it as its premise.
- A PATCH of an enrollment that sends back what a GET returned names `message_bus` in
  the derived mask, and is refused, partly applied.
- The routes of the operations API other than GET exist below `/v1/operations` only.
  There `GET /v1/operations` is hidden by `/v1/operations/**`, which is tried first.

## Not modelled

- **The order of an unstable sort.** Walks by `create_time desc` among equal times are
  in the model, and excluded from the properties.
- **`GetProvider`**, which reads a constant table; **`CancelOperation`**, which does
  nothing; the RPC methods around the Google channel config, which check the name and
  the permission before they call the storage; `Storage.Clear`, which only tests call.
- **REST**: headers but for the principal, response bodies, the routing of lists and
  publishes beyond which RPC they become. The generated `local_request_` functions and
  `Register…HandlerServer`, a third of the generated code, are never called.
- **Registration** (`register.go`, `gateway.go`, `internal/server/grpc.go`): wiring
  without state. **Logger** and **examples**.
- **The table of permissions** (`internal/authz`): a constant map, covered by its
  unit test.
- **The CEL language**, and net/http's redirects.
- **`--version`**, and the texts the programs print.

## The plan

Done, in this order: names, registry, server, channel config, routing, publisher;
pagination and listings, processes, REST gateway and polling; the register of the
Google channel config; and the theorems. What
is left:

1. The changes in `Publisher` as a refinement of `ResourceRegistry`. So far the
   module only takes them to be such.
2. More of what remains true where a hypothesis fails, as `ReadsInventNothing` says of
   torn reads, `DeletesNeverGoBack` of disturbed Deletes and `FailuresStopAtTheMask` of
   updates that fail halfway: for instance what a walk with ties may miss.
3. The hazards without a property: a deadline that passes between two posts, and
   enrollments that outlive their bus.

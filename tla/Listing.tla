------------------------------ MODULE Listing ------------------------------
(***************************************************************************)
(* The List RPCs: a client walks the pages of a listing while other        *)
(* clients create and delete what it lists.                                *)
(*                                                                         *)
(* Every RPC holds the read lock of its store for the whole listing, so    *)
(* one call is one action.  Between two calls the store changes: a page    *)
(* token is an offset into a list that may no longer be the same.  The     *)
(* listings of different kinds share nothing but the code, so a behaviour  *)
(* is about one of them.                                                   *)
(***************************************************************************)
EXTENDS Pagination, FiniteSets

CONSTANTS
    Kinds,      \* the listings of this instance
    Owners,     \* what an item is listed under: a parent, or a message bus
    Prefixes,   \* pairs <<a, b>> of owners where the name of a starts that of b
    Ids,        \* numbers in the order of the names they stand for
    Asks,       \* what clients ask for
    Sizes,      \* page sizes clients ask for, from call to call
    MaxItems,   \* bound: items in a store
    MaxChanges, \* bound: creates and deletes in a behaviour
    None        \* an empty parent, no filter

-----------------------------------------------------------------------------
AllKinds ==
    {"trigger", "channel", "channelConnection", "messageBus", "enrollment",
     "pipeline", "googleApiSource", "provider", "busEnrollment", "operation"}

Orders == {"name", "create_time desc"}

\* Something listed.  The time is that of its creation; a resource created
\* again under an old name is another item.
Item == [owner : Owners, id : Ids, time : Nat]

\* A list request: the parent or name, order_by, the trigger_id of the filter,
\* the page token of the first call, and what checkPermission says of the client.
Ask == [owner : Owners \cup {None}, order : Orders, filter : Ids \cup {None},
        token : Tokens, allowed : BOOLEAN]

ASSUME ListingAssumption ==
    /\ Kinds \subseteq AllKinds
    /\ Owners # {}
    /\ Ids \subseteq Nat
    /\ None \notin Owners /\ None \notin Ids
    /\ Prefixes \subseteq (Owners \cup {None}) \X Owners
    /\ Asks \subseteq Ask
    /\ Sizes \subseteq Int
    /\ MaxItems \in Nat /\ MaxItems + PageLimit <= MaxInt
    /\ MaxChanges \in Nat

VARIABLES
    kind,       \* the listing of this behaviour
    items,      \* what the store holds of it
    clock,      \* the time of the last creation
    phase,      \* of the client: idle, walking, done or failed
    ask,        \* what the client asks for
    token,      \* the page token of its next call
    seen,       \* history: items its pages showed
    repeated,   \* history: items that two of its pages showed
    steady,     \* history: selected items there since the walk began
    created,    \* history: items selected that were created during the walk
    deleted,    \* history: items selected that were deleted during the walk
    tied,       \* history: a page was cut from a list with equal sort keys
    changes     \* creates and deletes so far

walk == <<phase, ask, token, seen, repeated, tied>>
vars == <<kind, items, clock, phase, ask, token, seen, repeated, steady, created,
          deleted, tied, changes>>

TypeOK ==
    /\ kind \in Kinds
    /\ items \subseteq Item /\ IsFiniteSet(items) /\ Cardinality(items) <= MaxItems
    /\ \A x, y \in items : x.owner = y.owner /\ x.id = y.id => x = y
    /\ clock \in Nat
    /\ phase \in {"idle", "walking", "done", "failed"}
    /\ ask \in Ask
    /\ token \in Tokens
    /\ seen \subseteq Item
    /\ repeated \subseteq seen
    /\ steady \subseteq items
    /\ created \in Nat /\ deleted \in Nat /\ changes \in 0..MaxChanges
    /\ tied \in BOOLEAN

\* The providers are there from the start.
Seeds == {[owner |-> CHOOSE o \in Owners : TRUE, id |-> i, time |-> 0] : i \in Ids}

Init ==
    /\ kind \in Kinds
    /\ items \in IF kind = "provider"
                 THEN {S \in SUBSET Seeds : IsFiniteSet(S) /\ Cardinality(S) <= MaxItems}
                 ELSE {{}}
    /\ clock = 0
    /\ phase = "idle"
    /\ ask \in Asks
    /\ ask.filter # None => kind = "trigger"
    /\ token = ask.token
    /\ seen = {} /\ repeated = {} /\ steady = {}
    /\ created = 0 /\ deleted = 0 /\ tied = FALSE /\ changes = 0

-----------------------------------------------------------------------------
(* What a request selects, and in which order.                             *)

\* trigger_id=X keeps the trigger with that id.
Filtered(x) == ask.filter \in {None, x.id}

\* Providers are listed under every parent, operations under every prefix of
\* their name, whatever segment it ends in.
Selects(x) ==
    CASE kind = "provider"  -> TRUE
      [] kind = "operation" -> <<ask.owner, x.owner>> \in Prefixes
      [] kind = "trigger"   -> x.owner = ask.owner /\ Filtered(x)
      [] OTHER              -> x.owner = ask.owner

Selected == {x \in items : Selects(x)}

\* sort.Slice by name, or by creation time with the latest first.
Precedes(order, x, y) ==
    IF order = "create_time desc" THEN x.time > y.time ELSE x.id < y.id

\* Mutant: the items stay in the order of the map.
Unsorted(S, order) ==
    {index \in [S -> 0..(Cardinality(S) - 1)] : \A x, y \in S : index[x] = index[y] => x = y}

\* Ways to sort S, each as the index of every item: sort.Slice is free to put
\* items with equal keys in any order, and starts from the order of a map.
Sorted(S, order) ==
    {index \in [S -> 0..(Cardinality(S) - 1)] :
        /\ \A x, y \in S : index[x] = index[y] => x = y
        /\ \A x \in S : index[x] = Cardinality({y \in S : index[y] < index[x]})
        /\ \A x, y \in S : Precedes(order, x, y) => index[x] < index[y]}

\* Some two items have equal keys.
Ties(S, order) ==
    \E x, y \in S : x # y /\ ~Precedes(order, x, y) /\ ~Precedes(order, y, x)
-----------------------------------------------------------------------------
(* The store changes, and the client calls.                                *)

\* Nobody creates or deletes a provider.
Mutable == kind # "provider"

Count(x) == IF phase = "walking" /\ Selects(x) THEN 1 ELSE 0

\* Mutant: a Create overwrites.
NeverTaken(o, i) == FALSE

Taken(o, i) == \E y \in items : y.owner = o /\ y.id = i

\* A Create, which refuses a name that is taken; the clock of the machine need
\* not have moved since the last one.
Create ==
    /\ Mutable
    /\ changes < MaxChanges /\ Cardinality(items) < MaxItems
    /\ \E o \in Owners, i \in Ids, t \in {clock, clock + 1} :
          LET x == [owner |-> o, id |-> i, time |-> t]
          IN  /\ ~Taken(o, i)
              /\ items' = items \cup {x}
              /\ clock' = t
              /\ created' = created + Count(x)
    /\ changes' = changes + 1
    /\ UNCHANGED <<walk, kind, steady, deleted>>

Delete ==
    /\ Mutable
    /\ changes < MaxChanges
    /\ \E x \in items :
          /\ items' = items \ {x}
          /\ steady' = steady \ {x}
          /\ deleted' = deleted + Count(x)
    /\ changes' = changes + 1
    /\ UNCHANGED <<walk, kind, clock, created>>

Begin ==
    /\ phase = "idle"
    /\ phase' = "walking"
    /\ steady' = Selected
    /\ UNCHANGED <<kind, items, clock, ask, token, seen, repeated, tied, created,
                   deleted, changes>>

Fails ==
    /\ phase' = "failed"
    /\ UNCHANGED <<ask, token, seen, repeated, tied>>

\* requireField on the parent, and checkPermission.
Refused == ask.owner = None /\ Fails
Denied == ask.owner # None /\ ~ask.allowed /\ Fails
Admitted == ask.owner # None /\ ask.allowed

\* The client keeps the page and asks for the next one, if there is one.
Shows(page, next) ==
    /\ seen' = seen \cup page
    /\ repeated' = repeated \cup (page \cap seen)
    /\ token' = next
    /\ phase' = IF next = Last THEN "done" ELSE "walking"
    /\ UNCHANGED ask

\* A page of the selected items in the given order.
CutBy(order) ==
    \/ BadToken(token) /\ Fails
    \/ /\ ~BadToken(token)
       /\ \E size \in Sizes, index \in Sorted(Selected, order) :
             LET n == Cardinality(Selected)
             IN  Shows({x \in Selected : OnPage(index[x], token, size, n)},
                       NextToken(token, size, n))
       /\ tied' = (tied \/ Ties(Selected, order))

\* The listings of storage*.go.
StorageListTriggers == CutBy(ask.order)
StorageListChannels == CutBy(ask.order)
StorageListChannelConnections == CutBy("name")
StorageListMessageBuses == CutBy(ask.order)
StorageListMessageBusEnrollments == CutBy("name")
StorageListEnrollments == CutBy(ask.order)
StorageListPipelines == CutBy(ask.order)
StorageListGoogleApiSources == CutBy(ask.order)
StorageListProviders == CutBy("name")

\* The RPCs of server.go.
ListTriggers ==
    kind = "trigger" /\ (Refused \/ Denied \/ (Admitted /\ StorageListTriggers))
ListChannels ==
    kind = "channel" /\ (Refused \/ Denied \/ (Admitted /\ StorageListChannels))
ListChannelConnections ==
    /\ kind = "channelConnection"
    /\ Refused \/ Denied \/ (Admitted /\ StorageListChannelConnections)
ListMessageBuses ==
    /\ kind = "messageBus"
    /\ Refused \/ Denied \/ (Admitted /\ StorageListMessageBuses)
ListMessageBusEnrollments ==
    /\ kind = "busEnrollment"
    /\ Refused \/ Denied \/ (Admitted /\ StorageListMessageBusEnrollments)
ListEnrollments ==
    /\ kind = "enrollment"
    /\ Refused \/ Denied \/ (Admitted /\ StorageListEnrollments)
ListPipelines ==
    kind = "pipeline" /\ (Refused \/ Denied \/ (Admitted /\ StorageListPipelines))
ListGoogleApiSources ==
    /\ kind = "googleApiSource"
    /\ Refused \/ Denied \/ (Admitted /\ StorageListGoogleApiSources)
ListProviders ==
    kind = "provider" /\ (Refused \/ Denied \/ (Admitted /\ StorageListProviders))

\* ListOperations of the LRO store: everything at once, without a check, a page
\* size or a page token.
ListOperations ==
    /\ kind = "operation"
    /\ Shows(Selected, Last)
    /\ UNCHANGED tied

List ==
    /\ phase = "walking"
    /\ \/ ListTriggers
       \/ ListChannels
       \/ ListChannelConnections
       \/ ListMessageBuses
       \/ ListMessageBusEnrollments
       \/ ListEnrollments
       \/ ListPipelines
       \/ ListGoogleApiSources
       \/ ListProviders
       \/ ListOperations
    /\ UNCHANGED <<kind, items, clock, steady, created, deleted, changes>>

\* The walk is over: nothing that happens later is about it.
Over == phase \in {"done", "failed"} /\ UNCHANGED vars

Next ==
    \/ phase \in {"idle", "walking"} /\ (Create \/ Delete)
    \/ Begin
    \/ List
    \/ Over

\* A client that walks asks for the next page, and a List waits for nobody but
\* the methods of the store, which are short.
Fairness == WF_vars(List)

Spec == Init /\ [][Next]_vars /\ Fairness

-----------------------------------------------------------------------------
(* Properties.                                                             *)

\* The client began at the first page.
FromStart == ask.token = Last

\* The whole listing was walked, and no page of it was cut from a list with
\* equal sort keys.
Walked == phase = "done" /\ FromStart /\ ~tied

\* A walk during which nothing it selects is created or deleted shows every
\* selected item, once, and nothing else, whatever the page sizes.
UnchangedWalkIsExact ==
    Walked /\ created = 0 /\ deleted = 0 => seen = Selected /\ repeated = {}

\* A walk misses no more of the items that were there all the time than were
\* deleted meanwhile: a Delete moves one item past the offset, no more.
MissesNeedDeletes == Walked => Cardinality(steady \ seen) <= deleted

\* A walk shows no more items twice than were created meanwhile.
RepeatsNeedCreates == Walked => Cardinality(repeated) <= created

\* A token the server handed out is one it accepts: a walk from the first page
\* fails only if its parent is missing or its permission is refused.
TokensAreAccepted == FromStart /\ phase = "walking" => ~BadToken(token)

\* Every walk comes to an end once the store has stopped growing: each page
\* brings the client nearer to the end of the list.
WalkEnds == phase = "walking" ~> phase \in {"done", "failed"}
=============================================================================

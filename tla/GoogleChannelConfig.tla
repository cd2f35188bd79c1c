------------------------ MODULE GoogleChannelConfig ------------------------
(***************************************************************************)
(* The GoogleChannelConfig of one location (storage_channel.go): the only  *)
(* resource that Get creates, and the only one that is read outside the    *)
(* lock.                                                                   *)
(*                                                                         *)
(* GetGoogleChannelConfig takes the pointer under RLock and clones what it *)
(* points to after RUnlock, while UpdateGoogleChannelConfig writes through *)
(* the same pointer under Lock.  The clone and the writes are therefore    *)
(* broken into machine words: a Go string is a pointer and a length, a map *)
(* or a message is one pointer.  The order of the words inside a clone, or *)
(* inside the mask, is left open.  What happens under Lock and touches no  *)
(* object that others can see is one step.                                 *)
(*                                                                         *)
(* An operator introduced by "Mutant" is a plausible mistake in the        *)
(* definition after it, and not part of the specification.                 *)
(***************************************************************************)
EXTENDS Naturals

CONSTANTS
    Handlers,   \* goroutines
    Updates,    \* the updates clients send: a mask and the values
    MaxCalls,   \* bound: calls in a behaviour
    None        \* no config stored, nothing read

Paths == {"crypto_key_name", "labels"}
WordsOf(path) == IF path = "labels" THEN {"labels"} ELSE {"key.ptr", "key.len"}
Words == {"key.ptr", "key.len", "labels", "update_time"}

\* An update sets the fields of its mask, perhaps to nothing.  Without mask, and
\* by "*", it sets both; a mask of other paths, or of none, sets neither.
ASSUME UpdatesAssumption ==
    \A u \in Updates : u.mask \subseteq Paths /\ u.value \in STRING
ASSUME MaxCallsAssumption == MaxCalls \in Nat

\* A config, word by word: what updates send, nothing, or a timestamp.
Values == {u.value : u \in Updates} \cup {""} \cup Nat
Config == [Words -> Values]

\* Mutant: an update copies the name of the request, too.
MaskedAndNamed(u) == UNION {WordsOf(p) : p \in u.mask} \cup {"name"}

\* The words an update writes, and what it writes there.
Masked(u) == UNION {WordsOf(p) : p \in u.mask}
Edit(u) == [w \in Masked(u) |-> u.value]

ASSUME NoneAssumption ==
    None \notin Handlers \cup Updates \cup Config \cup {Edit(u) : u \in Updates}

VARIABLES
    config,     \* the object in the map, word by word, or None
    readers,    \* the handlers that hold Storage.mu for reading
    writer,     \* the handler that holds it for writing, or None
    clock,      \* the next timestamp
    pc, call,   \* where each handler is, and its update (None for a Get)
    hit,        \* did the handler find the config under RLock
    copy,       \* the words a handler has cloned so far
    todo,       \* the words a handler has yet to write
    calls,      \* calls made so far
    versions,   \* history: the config as each locked section left it
    base        \* history: the config each update started from

vars == <<config, readers, writer, clock, pc, call, hit, copy, todo, calls,
          versions, base>>

Default(now) == [w \in Words |-> IF w = "update_time" THEN now ELSE ""]

Init ==
    /\ config = None
    /\ readers = {}
    /\ writer = None
    /\ clock = 1
    /\ pc = [h \in Handlers |-> "idle"]
    /\ call = [h \in Handlers |-> None]
    /\ hit = [h \in Handlers |-> FALSE]
    /\ copy = [h \in Handlers |-> <<>>]
    /\ todo = [h \in Handlers |-> {}]
    /\ calls = 0
    /\ versions = {}
    /\ base = [h \in Handlers |-> None]

Goto(h, label) == pc' = [pc EXCEPT ![h] = label]

-----------------------------------------------------------------------------
(* sync.RWMutex.                                                           *)

\* Mutant: the section runs without the lock.
NoLock == TRUE

LockFree == writer = None /\ readers = {}

\* Mutant: a miss goes on to Lock without RUnlock.
ReleaseOnHit(h) ==
    readers' = IF hit[h] THEN readers \ {h} ELSE readers

ReleaseRead(h) == readers' = readers \ {h}

-----------------------------------------------------------------------------
Start(h, c, label) ==
    /\ pc[h] \in {"idle", "done"}
    /\ calls < MaxCalls
    /\ calls' = calls + 1
    /\ call' = [call EXCEPT ![h] = c]
    /\ copy' = [copy EXCEPT ![h] = <<>>]
    /\ Goto(h, label)
    /\ UNCHANGED <<config, readers, writer, clock, hit, todo, versions, base>>

CallGet(h) == Start(h, None, "rlock")
CallUpdate(h) == \E u \in Updates : Start(h, u, "lock")

\* Get: the pointer is read from the map under RLock.
ReadMap(h) ==
    /\ pc[h] = "rlock"
    /\ writer = None
    /\ readers' = readers \cup {h}
    /\ hit' = [hit EXCEPT ![h] = config # None]
    /\ Goto(h, "runlock")
    /\ UNCHANGED <<config, writer, clock, call, copy, todo, calls, versions, base>>

RUnlock(h) ==
    /\ pc[h] = "runlock"
    /\ ReleaseRead(h)
    /\ Goto(h, IF hit[h] THEN "clone" ELSE "init")
    /\ UNCHANGED <<config, writer, clock, call, hit, copy, todo, calls, versions, base>>

\* Get: the clone reads the words of the object with no lock held.
CloneWord(h) ==
    /\ pc[h] = "clone"
    /\ \E w \in Words \ DOMAIN copy[h] :
          LET c == [v \in DOMAIN copy[h] \cup {w} |->
                       IF v = w THEN config[w] ELSE copy[h][v]]
          IN  /\ copy' = [copy EXCEPT ![h] = c]
              /\ Goto(h, IF DOMAIN c = Words THEN "done" ELSE "clone")
    /\ UNCHANGED <<config, readers, writer, clock, call, hit, todo, calls, versions,
                   base>>

\* Mutant: the miss under RLock is believed under Lock.
StoreDefaultUnchecked == config' = Default(clock)

\* Get, second look: another handler may have stored a config in between.
StoreDefault == config' = IF config = None THEN Default(clock) ELSE config

InitDefault(h) ==
    /\ pc[h] = "init"
    /\ LockFree
    /\ StoreDefault
    /\ clock' = clock + 1
    /\ copy' = [copy EXCEPT ![h] = config']
    /\ versions' = versions \cup {config'}
    /\ Goto(h, "done")
    /\ UNCHANGED <<readers, writer, call, hit, todo, calls, base>>

\* Update of a config that is not there: a new object, stored when complete.
Insert(h) ==
    /\ pc[h] = "lock"
    /\ LockFree
    /\ config = None
    /\ config' = [w \in Words |-> IF w \in Masked(call[h]) THEN call[h].value
                                  ELSE Default(clock)[w]]
    /\ clock' = clock + 1
    /\ copy' = [copy EXCEPT ![h] = config']
    /\ versions' = versions \cup {config'}
    /\ base' = [base EXCEPT ![h] = Default(clock)]
    /\ Goto(h, "done")
    /\ UNCHANGED <<readers, writer, call, hit, todo, calls>>

\* Update in place: Lock, the words of the mask, the timestamp, Unlock.
Lock(h) ==
    /\ pc[h] = "lock"
    /\ LockFree
    /\ config # None
    /\ writer' = h
    /\ todo' = [todo EXCEPT ![h] = Masked(call[h])]
    /\ base' = [base EXCEPT ![h] = config]
    /\ Goto(h, "write")
    /\ UNCHANGED <<config, readers, clock, call, hit, copy, calls, versions>>

\* Mutant: a field is cleared before it is set, as Reset and Merge would do.
ClearThenSet(h, w) ==
    IF config[w] \in {"", call[h].value}
    THEN /\ config' = [config EXCEPT ![w] = call[h].value]
         /\ todo' = [todo EXCEPT ![h] = todo[h] \ {w}]
    ELSE config' = [config EXCEPT ![w] = ""] /\ UNCHANGED todo

SetWord(h, w) ==
    /\ config' = [config EXCEPT ![w] = call[h].value]
    /\ todo' = [todo EXCEPT ![h] = todo[h] \ {w}]

WriteWord(h) ==
    /\ pc[h] = "write"
    /\ \E w \in todo[h] : SetWord(h, w)
    /\ UNCHANGED <<readers, writer, clock, pc, call, hit, copy, calls, versions, base>>

\* Mutant: an update keeps the time of the first one.
KeepTime == config' = config

SetTime == config' = [config EXCEPT !["update_time"] = clock]

Stamp(h) ==
    /\ pc[h] = "write"
    /\ todo[h] = {}
    /\ SetTime
    /\ clock' = clock + 1
    /\ Goto(h, "unlock")
    /\ UNCHANGED <<readers, writer, call, hit, copy, todo, calls, versions, base>>

\* The clone that Update returns is taken before the deferred Unlock.
Unlock(h) ==
    /\ pc[h] = "unlock"
    /\ copy' = [copy EXCEPT ![h] = config]
    /\ versions' = versions \cup {config}
    /\ writer' = None
    /\ Goto(h, "done")
    /\ UNCHANGED <<config, readers, clock, call, hit, todo, calls, base>>

Get(h) == ReadMap(h) \/ RUnlock(h) \/ CloneWord(h) \/ InitDefault(h)
Update(h) == Insert(h) \/ Lock(h) \/ WriteWord(h) \/ Stamp(h) \/ Unlock(h)

Exhausted ==
    /\ calls = MaxCalls
    /\ \A h \in Handlers : pc[h] \in {"idle", "done"}
    /\ UNCHANGED vars

Next ==
    \/ \E h \in Handlers : CallGet(h) \/ CallUpdate(h) \/ Get(h) \/ Update(h)
    \/ Exhausted

\* sync.RWMutex lets every waiter in eventually, so the steps that take the
\* lock are strongly fair; the others never wait.
Fairness == \A h \in Handlers : SF_vars(Get(h)) /\ SF_vars(Update(h))

Spec == Init /\ [][Next]_vars /\ Fairness

-----------------------------------------------------------------------------
Done(h) == pc[h] = "done"

TypeOK ==
    /\ config = None \/ DOMAIN config = Words
    /\ readers \subseteq Handlers
    /\ writer \in Handlers \cup {None}
    /\ clock \in Nat \ {0}
    /\ pc \in [Handlers -> {"idle", "rlock", "runlock", "clone", "init", "lock",
                            "write", "unlock", "done"}]
    /\ call \in [Handlers -> Updates \cup {None}]
    /\ hit \in [Handlers -> BOOLEAN]
    /\ \A h \in Handlers : DOMAIN copy[h] \subseteq Words
    /\ todo \in [Handlers -> SUBSET Words]
    /\ calls \in 0..MaxCalls

\* Two updates do not mix: an Update answers with the config it started from,
\* with its own fields, and only those, replaced.
UpdatesAreAtomic ==
    \A h \in Handlers : Done(h) /\ call[h] # None =>
        \A w \in Words \ {"update_time"} :
            copy[h][w] = IF w \in Masked(call[h]) THEN call[h].value ELSE base[h][w]

\* What a Get returns was the config at some time.
ReadIsVersion(h) == Done(h) /\ call[h] = None => copy[h] \in versions
ReadsAreVersions == \A h \in Handlers : ReadIsVersion(h)

\* A Get that is torn mixes what was stored, and makes nothing up: each of its
\* words is that word of a version, or of the config as it is being written.
Stored(w) == {c[w] : c \in versions \cup ({config} \ {None})}
ReadsInventNothing ==
    \A h \in Handlers : Done(h) /\ call[h] = None =>
        \A w \in Words : copy[h][w] \in Stored(w)

\* What readers and writers of a register would see: an update that holds the
\* lock has changed nothing yet, an answer is what a finished update returned.
Visible == IF writer = None THEN config ELSE base[writer]
Asked == [h \in Handlers |-> IF call[h] = None THEN None ELSE Edit(call[h])]
Answered == [h \in Handlers |-> IF Done(h) /\ call[h] # None THEN copy[h] ELSE None]

\* The words are written one by one, and nobody who writes can tell: default,
\* updates and their answers are those of a register that changes at one
\* instant.  The default, whose update_time "is set once and never regenerated",
\* is stored when there is no config, and never over one.
Register == INSTANCE ConfigRegister WITH
    Edits <- {Edit(u) : u \in Updates},
    value <- Visible, asked <- Asked, answer <- Answered
RegisterSpec == Register!Spec

\* No call waits for ever: no handler takes Lock while it holds RLock.
EveryCallReplies == \A h \in Handlers : pc[h] \notin {"idle", "done"} ~> Done(h)
=============================================================================

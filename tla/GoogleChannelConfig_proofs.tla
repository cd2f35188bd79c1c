--------------------- MODULE GoogleChannelConfig_proofs ---------------------
(***************************************************************************)
(* Theorems about GoogleChannelConfig, for any handlers, updates and number*)
(* of calls: updates do not mix although each writes its words one by one, *)
(* and to those who write, the config is a register that takes its default *)
(* once and changes at one instant.  Those who read it outside the lock    *)
(* get words that were stored, and a version that was stored if no update  *)
(* wrote meanwhile.                                                        *)
(***************************************************************************)
EXTENDS GoogleChannelConfig, TLAPS

-----------------------------------------------------------------------------
(* Types.                                                                  *)

\* What a handler has cloned: some of the words of a config.
Clones == UNION {[D -> Values] : D \in SUBSET Words}

\* The places a handler can be at.
Labels == {"idle", "rlock", "runlock", "clone", "init", "lock", "write", "unlock", "done"}

\* TypeOK, with what the objects hold.
Typed ==
    /\ TypeOK
    /\ config \in {None} \cup Config
    /\ copy \in [Handlers -> Clones]
    /\ base \in [Handlers -> {None} \cup Config]
    /\ versions \subseteq Config

LEMMA MaskedWords ==
    ASSUME NEW u \in Updates
    PROVE  /\ Masked(u) \subseteq Words \ {"update_time"}
           /\ u.value \in Values
  <1>1. u.mask \subseteq Paths
    BY UpdatesAssumption
  <1>2. \A p \in Paths : WordsOf(p) \subseteq Words \ {"update_time"}
    BY DEF WordsOf, Words, Paths
  <1>3. \A w : w \in Masked(u) <=> \E p \in u.mask : w \in WordsOf(p)
    BY DEF Masked
  <1> QED
    BY <1>1, <1>2, <1>3 DEF Values

LEMMA DefaultTyped ==
    ASSUME clock \in Nat
    PROVE  Default(clock) \in Config /\ Default(clock) # None
  <1>1. "" \in Values /\ clock \in Values
    BY DEF Values
  <1>2. \A w \in Words : Default(clock)[w] \in Values
    BY <1>1, Zenon DEF Default
  <1>3. Default(clock) \in Config
    BY <1>2, Zenon DEF Default, Config
  <1> QED
    BY <1>3, NoneAssumption

\* A whole config is a complete clone.
LEMMA ConfigIsClone == Config \subseteq Clones
  BY DEF Config, Clones

LEMMA EmptyClone == <<>> \in Clones
  <1>1. DOMAIN <<>> = {} /\ <<>> = [w \in {} |-> ""]
    OBVIOUS
  <1>2. <<>> \in [{} -> Values]
    BY <1>1
  <1> QED
    BY <1>2 DEF Clones

LEMMA CloneWords == \A c \in Clones : DOMAIN c \subseteq Words
  BY DEF Clones

-----------------------------------------------------------------------------
(* The lock.                                                               *)

Writing(h) == pc[h] \in {"write", "unlock"}

\* A reader holds the lock at RUnlock only, a writer from Lock to Unlock, and
\* the call of a handler is one that gets it where it is.
LockHeld ==
    /\ \A h \in Handlers : h \in readers <=> pc[h] = "runlock"
    /\ \A h \in Handlers : writer = h <=> Writing(h)
    /\ writer # None => readers = {}
    /\ \A h \in Handlers :
          /\ Writing(h) \/ pc[h] = "lock" => call[h] # None
          /\ pc[h] \in {"rlock", "runlock", "clone", "init"} => call[h] = None
    /\ \A h \in Handlers : pc[h] = "clone" => config # None
    /\ \A h \in Handlers : pc[h] = "runlock" /\ hit[h] => config # None

-----------------------------------------------------------------------------
(* What an update has done so far, and what has been stored.               *)

\* Words of the mask that are no longer to do have the value of the call; all
\* the others are as the update found them.
Replaced(h, c, left) ==
    \A w \in Words \ {"update_time"} :
        c[w] = IF w \in Masked(call[h]) \ left THEN call[h].value ELSE base[h][w]

UpdateProgress(h) ==
    /\ Writing(h) => /\ config # None
                     /\ base[h] # None
                     /\ todo[h] \subseteq Masked(call[h])
                     /\ Replaced(h, config, todo[h])
    /\ pc[h] = "unlock" => todo[h] = {}
    /\ Done(h) /\ call[h] # None => Replaced(h, copy[h], {})

\* Every version is the config at the end of a locked section.
VersionsInv ==
    /\ config = None => versions = {}
    /\ writer = None /\ config # None => config \in versions

ConfigInv ==
    /\ Typed
    /\ LockHeld
    /\ \A h \in Handlers : UpdateProgress(h)
    /\ VersionsInv

LEMMA ConfigInvInit == Init => ConfigInv
  <1> SUFFICES ASSUME Init PROVE ConfigInv
    OBVIOUS
  <1>1. <<>> \in Clones
    BY EmptyClone
  <1>2. copy \in [Handlers -> Clones]
    BY <1>1 DEF Init
  <1>3. \A h \in Handlers : DOMAIN copy[h] \subseteq Words
    BY <1>2, CloneWords
  <1>4. Typed
    BY <1>2, <1>3, MaxCallsAssumption DEF Init, Typed, TypeOK
  <1>5. LockHeld
    BY NoneAssumption DEF Init, LockHeld, Writing
  <1>6. \A h \in Handlers : UpdateProgress(h)
    BY DEF Init, UpdateProgress, Writing, Done
  <1>7. VersionsInv
    BY DEF Init, VersionsInv
  <1> QED
    BY <1>4, <1>5, <1>6, <1>7 DEF ConfigInv

-----------------------------------------------------------------------------
(* The steps.  A handler that takes one leaves the locals of the others.   *)

LEMMA StepKeepsOthers ==
    ASSUME Typed, NEW h \in Handlers, NEW g \in Handlers, g # h,
           CallGet(h) \/ CallUpdate(h) \/ Get(h) \/ Update(h)
    PROVE  /\ pc'[g] = pc[g] /\ call'[g] = call[g] /\ hit'[g] = hit[g]
           /\ copy'[g] = copy[g] /\ todo'[g] = todo[g] /\ base'[g] = base[g]
  <1>1. /\ DOMAIN pc = Handlers /\ DOMAIN call = Handlers /\ DOMAIN hit = Handlers
        /\ DOMAIN copy = Handlers /\ DOMAIN todo = Handlers /\ DOMAIN base = Handlers
    BY DEF Typed, TypeOK
  <1>2. CASE CallGet(h) \/ CallUpdate(h)
    BY <1>1, <1>2 DEF CallGet, CallUpdate, Start, Goto
  <1>3. CASE ReadMap(h) \/ RUnlock(h) \/ InitDefault(h)
    BY <1>1, <1>3 DEF ReadMap, RUnlock, InitDefault, Goto
  <1>4. CASE CloneWord(h)
    BY <1>1, <1>4 DEF CloneWord, Goto
  <1>5. CASE Insert(h) \/ Lock(h) \/ WriteWord(h) \/ Stamp(h) \/ Unlock(h)
    BY <1>1, <1>5 DEF Insert, Lock, WriteWord, SetWord, Stamp, Unlock, Goto
  <1> QED
    BY <1>2, <1>3, <1>4, <1>5 DEF Get, Update

LEMMA StartTyped ==
    ASSUME Typed, NEW h \in Handlers, CallGet(h) \/ CallUpdate(h)
    PROVE  Typed'
  <1>1. PICK c \in Updates \cup {None}, label \in {"rlock", "lock"} : Start(h, c, label)
    BY DEF CallGet, CallUpdate
  <1>2. <<>> \in Clones
    BY EmptyClone
  <1>3. /\ copy' \in [Handlers -> Clones] /\ call' \in [Handlers -> Updates \cup {None}]
        /\ pc' \in [Handlers -> Labels]
    BY <1>1, <1>2 DEF Start, Goto, Typed, TypeOK, Labels
  <1>4. calls' \in 0..MaxCalls
    BY <1>1, MaxCallsAssumption DEF Start, Typed, TypeOK
  <1>5. UNCHANGED <<config, readers, writer, clock, hit, todo, versions, base>>
    BY <1>1 DEF Start
  <1> QED
    BY <1>3, <1>4, <1>5, CloneWords DEF Typed, TypeOK, Labels

LEMMA GetTyped ==
    ASSUME Typed, LockHeld, NEW h \in Handlers, Get(h)
    PROVE  Typed'
  <1>1. CASE ReadMap(h)
    <2>1. /\ pc' \in [Handlers -> Labels] /\ hit' \in [Handlers -> BOOLEAN]
          /\ readers' \subseteq Handlers
      BY <1>1 DEF ReadMap, Goto, Typed, TypeOK, Labels
    <2>2. UNCHANGED <<config, writer, clock, call, copy, todo, calls, versions, base>>
      BY <1>1 DEF ReadMap
    <2> QED
      BY <2>1, <2>2 DEF Typed, TypeOK, Labels
  <1>2. CASE RUnlock(h)
    <2>1. pc' \in [Handlers -> Labels] /\ readers' \subseteq Handlers
      BY <1>2 DEF RUnlock, ReleaseRead, Goto, Typed, TypeOK, Labels
    <2>2. UNCHANGED <<config, writer, clock, call, hit, copy, todo, calls, versions, base>>
      BY <1>2 DEF RUnlock
    <2> QED
      BY <2>1, <2>2 DEF Typed, TypeOK, Labels
  <1>3. CASE CloneWord(h)
    <2>1. config \in Config /\ copy[h] \in Clones
      BY <1>3 DEF CloneWord, LockHeld, Typed
    <2>2. PICK w \in Words \ DOMAIN copy[h] :
             LET c == [v \in DOMAIN copy[h] \cup {w} |->
                         IF v = w THEN config[w] ELSE copy[h][v]]
             IN  /\ copy' = [copy EXCEPT ![h] = c]
                 /\ Goto(h, IF DOMAIN c = Words THEN "done" ELSE "clone")
      BY <1>3 DEF CloneWord
    <2> DEFINE D == DOMAIN copy[h] \cup {w}
               c == [v \in D |-> IF v = w THEN config[w] ELSE copy[h][v]]
    <2>3. D \in SUBSET Words
      BY <2>1, <2>2, CloneWords
    <2>4. \A v \in D : c[v] \in Values
      <3>1. config[w] \in Values
        BY <2>1, <2>2 DEF Config
      <3>2. \A v \in DOMAIN copy[h] : copy[h][v] \in Values
        BY <2>1 DEF Clones
      <3> QED
        BY <3>1, <3>2
    <2>5. c \in Clones
      <3>1. c \in [D -> Values]
        BY <2>4
      <3> HIDE DEF D, c
      <3> QED
        BY <2>3, <3>1 DEF Clones
    <2>6. copy' = [copy EXCEPT ![h] = c] /\ \E l \in {"done", "clone"} : Goto(h, l)
      BY <2>2
    <2> HIDE DEF c
    <2>7. copy' \in [Handlers -> Clones] /\ pc' \in [Handlers -> Labels]
      BY <2>5, <2>6 DEF Goto, Typed, TypeOK, Labels
    <2>8. UNCHANGED <<config, readers, writer, clock, call, hit, todo, calls, versions, base>>
      BY <1>3 DEF CloneWord
    <2> QED
      BY <2>7, <2>8, CloneWords DEF Typed, TypeOK, Labels
  <1>4. CASE InitDefault(h)
    <2>1. clock' = clock + 1 /\ clock \in Nat /\ clock' \in Nat \ {0}
      BY <1>4 DEF InitDefault, Typed, TypeOK
    <2>2. config' \in Config
      BY <1>4, <2>1, DefaultTyped DEF InitDefault, StoreDefault, Typed
    <2>3. /\ copy' = [copy EXCEPT ![h] = config'] /\ versions' = versions \cup {config'}
          /\ Goto(h, "done")
      BY <1>4 DEF InitDefault
    <2>4. /\ copy' \in [Handlers -> Clones] /\ versions' \subseteq Config
          /\ pc' \in [Handlers -> Labels]
      BY <2>2, <2>3, ConfigIsClone DEF Typed, TypeOK, Goto, Labels
    <2>5. UNCHANGED <<readers, writer, call, hit, todo, calls, base>>
      BY <1>4 DEF InitDefault
    <2>6. DOMAIN config' = Words
      BY <2>2 DEF Config
    <2> QED
      BY <2>1, <2>2, <2>4, <2>5, <2>6, CloneWords DEF Typed, TypeOK, Labels
  <1> QED
    BY <1>1, <1>2, <1>3, <1>4 DEF Get

\* Writing a word, or the timestamp, leaves a config.
LEMMA WordWritten ==
    ASSUME Typed, LockHeld, config # None, NEW h \in Handlers, WriteWord(h) \/ Stamp(h)
    PROVE  config' \in Config
  <1>1. config \in Config
    BY DEF Typed
  <1>2. clock \in Values
    <2>1. clock \in Nat
      BY DEF Typed, TypeOK
    <2> QED
      BY <2>1, Zenon DEF Values
  <1>3. call[h] \in Updates
    BY DEF WriteWord, Stamp, LockHeld, Writing, Typed, TypeOK
  <1>4. call[h].value \in Values
    BY <1>3, MaskedWords
  <1> QED
    BY <1>1, <1>2, <1>4 DEF WriteWord, SetWord, Stamp, SetTime, Config

LEMMA UpdateTyped ==
    ASSUME Typed, LockHeld, \A h \in Handlers : UpdateProgress(h),
           NEW h \in Handlers, Update(h)
    PROVE  Typed'
  <1>1. clock \in Nat /\ clock + 1 \in Nat \ {0}
    BY DEF Typed, TypeOK
  <1>2. call[h] \in Updates
    BY DEF Update, Insert, Lock, WriteWord, Stamp, Unlock, LockHeld, Writing, Typed, TypeOK
  <1>3. CASE Insert(h)
    <2> DEFINE c == [w \in Words |-> IF w \in Masked(call[h]) THEN call[h].value
                                     ELSE Default(clock)[w]]
    <2>1. c \in Config /\ Default(clock) \in Config
      <3>1. \A w \in Words : c[w] \in Values
        BY <1>1, <1>2, MaskedWords, DefaultTyped DEF Config
      <3> QED
        BY <1>1, <3>1, DefaultTyped DEF Config
    <2>2. /\ config' = c /\ copy' = [copy EXCEPT ![h] = c] /\ versions' = versions \cup {c}
          /\ base' = [base EXCEPT ![h] = Default(clock)] /\ clock' = clock + 1
          /\ Goto(h, "done") /\ UNCHANGED <<readers, writer, call, hit, todo, calls>>
      BY <1>3 DEF Insert
    <2> HIDE DEF c
    <2>3. /\ copy' \in [Handlers -> Clones] /\ versions' \subseteq Config
          /\ pc' \in [Handlers -> Labels] /\ base' \in [Handlers -> {None} \cup Config]
      BY <2>1, <2>2, ConfigIsClone DEF Typed, TypeOK, Goto, Labels
    <2>4. DOMAIN c = Words
      BY <2>1 DEF Config
    <2> QED
      BY <1>1, <2>1, <2>2, <2>3, <2>4, CloneWords DEF Typed, TypeOK, Labels
  <1>4. CASE Lock(h)
    <2>1. /\ pc' \in [Handlers -> Labels] /\ base' \in [Handlers -> {None} \cup Config]
          /\ todo' \in [Handlers -> SUBSET Words] /\ writer' = h
      BY <1>2, <1>4, MaskedWords DEF Lock, Typed, TypeOK, Goto, Labels
    <2>2. UNCHANGED <<config, readers, clock, call, hit, copy, calls, versions>>
      BY <1>4 DEF Lock
    <2> QED
      BY <2>1, <2>2 DEF Typed, TypeOK, Labels
  <1>5. CASE WriteWord(h)
    <2>1. config # None
      BY <1>5 DEF WriteWord, UpdateProgress, Writing
    <2>2. config' \in Config
      BY <1>5, <2>1, WordWritten
    <2>3. todo' \in [Handlers -> SUBSET Words]
      <3>1. todo \in [Handlers -> SUBSET Words]
        BY DEF Typed, TypeOK
      <3>2. PICK w \in todo[h] : todo' = [todo EXCEPT ![h] = todo[h] \ {w}]
        BY <1>5 DEF WriteWord, SetWord
      <3> QED
        BY <3>1, <3>2
    <2>4. DOMAIN config' = Words
      BY <2>2 DEF Config
    <2>5. UNCHANGED <<readers, writer, clock, pc, call, hit, copy, calls, versions, base>>
      BY <1>5 DEF WriteWord
    <2> QED
      BY <2>2, <2>3, <2>4, <2>5 DEF Typed, TypeOK
  <1>6. CASE Stamp(h)
    <2>1. config # None
      BY <1>6 DEF Stamp, UpdateProgress, Writing
    <2>2. config' \in Config
      BY <1>6, <2>1, WordWritten
    <2>3. clock' = clock + 1 /\ pc' \in [Handlers -> Labels]
      BY <1>6 DEF Stamp, Typed, TypeOK, Goto, Labels
    <2>4. DOMAIN config' = Words
      BY <2>2 DEF Config
    <2>5. UNCHANGED <<readers, writer, call, hit, copy, todo, calls, versions, base>>
      BY <1>6 DEF Stamp
    <2> QED
      BY <1>1, <2>2, <2>3, <2>4, <2>5 DEF Typed, TypeOK, Labels
  <1>7. CASE Unlock(h)
    <2>1. config \in Config
      BY <1>7 DEF Unlock, UpdateProgress, Writing, Typed
    <2>2. /\ copy' \in [Handlers -> Clones] /\ versions' \subseteq Config
          /\ pc' \in [Handlers -> Labels] /\ writer' = None
      BY <1>7, <2>1, ConfigIsClone DEF Unlock, Typed, TypeOK, Goto, Labels
    <2>3. UNCHANGED <<config, readers, clock, call, hit, todo, calls, base>>
      BY <1>7 DEF Unlock
    <2> QED
      BY <2>2, <2>3, CloneWords DEF Typed, TypeOK, Labels
  <1> QED
    BY <1>3, <1>4, <1>5, <1>6, <1>7 DEF Update

LEMMA LockHeldStep ==
    ASSUME Typed, LockHeld, NEW h \in Handlers,
           CallGet(h) \/ CallUpdate(h) \/ Get(h) \/ Update(h)
    PROVE  LockHeld'
  <1>1. \A g \in Handlers : g # h =>
           pc'[g] = pc[g] /\ call'[g] = call[g] /\ hit'[g] = hit[g]
    BY StepKeepsOthers
  <1>2. /\ DOMAIN pc = Handlers /\ DOMAIN call = Handlers /\ DOMAIN hit = Handlers
        /\ None \notin Handlers /\ None \notin Updates
    BY NoneAssumption DEF Typed, TypeOK
  <1>3. CASE CallGet(h) \/ CallUpdate(h)
    <2>1. /\ pc[h] \in {"idle", "done"} /\ UNCHANGED <<config, readers, writer>>
          /\ \/ pc'[h] = "rlock" /\ call'[h] = None
             \/ pc'[h] = "lock" /\ call'[h] # None
      BY <1>2, <1>3 DEF CallGet, CallUpdate, Start, Goto
    <2> QED
      BY <1>1, <2>1 DEF LockHeld, Writing
  <1>4. CASE ReadMap(h)
    <2>1. /\ pc[h] = "rlock" /\ pc'[h] = "runlock" /\ writer = None
          /\ readers' = readers \cup {h} /\ UNCHANGED <<config, writer, call>>
          /\ hit'[h] => config # None
      BY <1>2, <1>4 DEF ReadMap, Goto
    <2> QED
      BY <1>1, <2>1 DEF LockHeld, Writing
  <1>5. CASE RUnlock(h)
    <2>1. /\ pc[h] = "runlock" /\ pc'[h] \in {"clone", "init"}
          /\ pc'[h] = "clone" => hit[h]
          /\ readers' = readers \ {h} /\ UNCHANGED <<config, writer, call>>
      BY <1>2, <1>5 DEF RUnlock, ReleaseRead, Goto
    <2>2. \A g \in Handlers : g # h => (g \in readers' <=> g \in readers)
      BY <2>1
    <2> QED
      BY <1>1, <2>1, <2>2 DEF LockHeld, Writing
  <1>6. CASE CloneWord(h)
    <2>1. /\ pc[h] = "clone" /\ pc'[h] \in {"clone", "done"}
          /\ UNCHANGED <<config, readers, writer, call, hit>>
      BY <1>2, <1>6 DEF CloneWord, Goto
    <2> QED
      BY <1>1, <2>1 DEF LockHeld, Writing
  <1>7. CASE InitDefault(h)
    <2>1. /\ pc[h] = "init" /\ pc'[h] = "done" /\ config' # None
          /\ UNCHANGED <<readers, writer, call, hit>>
      BY <1>2, <1>7, DefaultTyped DEF InitDefault, StoreDefault, Goto, Typed, TypeOK
    <2> QED
      BY <1>1, <2>1 DEF LockHeld, Writing
  <1>8. CASE Insert(h)
    <2>1. /\ pc[h] = "lock" /\ pc'[h] = "done"
          /\ UNCHANGED <<readers, writer, call, hit>> /\ config = None
      BY <1>2, <1>8 DEF Insert, Goto
    <2> QED
      BY <1>1, <2>1 DEF LockHeld, Writing
  <1>9. CASE Lock(h)
    <2>1. /\ pc[h] = "lock" /\ pc'[h] = "write" /\ writer' = h /\ writer = None
          /\ readers = {} /\ UNCHANGED <<config, readers, call, hit>> /\ config # None
      BY <1>2, <1>9 DEF Lock, LockFree, Goto
    <2> QED
      BY <1>1, <1>2, <2>1 DEF LockHeld, Writing
  <1>10. CASE WriteWord(h) \/ Stamp(h)
    <2>1. /\ Writing(h) /\ Writing(h)' /\ UNCHANGED <<readers, writer, call, hit>>
      BY <1>2, <1>10 DEF WriteWord, Stamp, Goto, Writing
    <2>2. writer = h /\ readers = {}
      BY <1>2, <2>1 DEF LockHeld
    <2>3. config # None => config' # None
      BY <1>10, NoneAssumption, WordWritten
    <2> QED
      BY <1>1, <2>1, <2>2, <2>3 DEF LockHeld, Writing
  <1>11. CASE Unlock(h)
    <2>1. /\ pc[h] = "unlock" /\ pc'[h] = "done" /\ writer' = None
          /\ UNCHANGED <<config, readers, call, hit>>
      BY <1>2, <1>11 DEF Unlock, Goto
    <2>2. writer = h
      BY <2>1 DEF LockHeld, Writing
    <2> QED
      BY <1>1, <1>2, <2>1, <2>2 DEF LockHeld, Writing
  <1> QED
    BY <1>3, <1>4, <1>5, <1>6, <1>7, <1>8, <1>9, <1>10, <1>11 DEF Get, Update

\* Nobody but the writer changes the config while there is one.
LEMMA WriterExcludes ==
    ASSUME Typed, LockHeld, NEW h \in Handlers, NEW g \in Handlers, g # h, Writing(g),
           CallGet(h) \/ CallUpdate(h) \/ Get(h) \/ Update(h)
    PROVE  config' = config
  <1>1. writer = g /\ writer # None /\ ~Writing(h)
    BY NoneAssumption DEF LockHeld
  <1> QED
    BY <1>1 DEF CallGet, CallUpdate, Start, Get, ReadMap, RUnlock, CloneWord, InitDefault,
                Update, Insert, Lock, WriteWord, Stamp, Unlock, LockFree, Writing

LEMMA OwnUpdateProgress ==
    ASSUME Typed, LockHeld, NEW h \in Handlers, UpdateProgress(h), Update(h)
    PROVE  UpdateProgress(h)'
  <1>1. /\ DOMAIN pc = Handlers /\ DOMAIN copy = Handlers /\ DOMAIN todo = Handlers
        /\ DOMAIN base = Handlers
    BY DEF Typed, TypeOK
  <1>2. call[h] \in Updates /\ call[h] # None /\ UNCHANGED call
    BY NoneAssumption
    DEF Update, Insert, Lock, WriteWord, Stamp, Unlock, LockHeld, Writing, Typed, TypeOK
  <1>3. /\ Masked(call[h]) \subseteq Words \ {"update_time"}
        /\ Masked(call[h])' = Masked(call[h])
    BY <1>2, MaskedWords DEF Masked
  <1>4. CASE Insert(h)
    <2> DEFINE c == [w \in Words |-> IF w \in Masked(call[h]) THEN call[h].value
                                     ELSE Default(clock)[w]]
    <2>1. /\ pc'[h] = "done" /\ copy'[h] = c /\ base'[h] = Default(clock)
      BY <1>1, <1>4 DEF Insert, Goto
    <2>2. \A w \in Words \ {"update_time"} :
             c[w] = IF w \in Masked(call[h]) \ {} THEN call[h].value ELSE Default(clock)[w]
      OBVIOUS
    <2> HIDE DEF c
    <2> QED
      BY <1>2, <1>3, <2>1, <2>2 DEF UpdateProgress, Writing, Done, Replaced
  <1>5. CASE Lock(h)
    <2>1. /\ pc'[h] = "write" /\ todo'[h] = Masked(call[h]) /\ base'[h] = config
          /\ UNCHANGED config /\ config # None
      BY <1>1, <1>5 DEF Lock, Goto
    <2> QED
      BY <1>2, <1>3, <2>1 DEF UpdateProgress, Writing, Done, Replaced
  <1>6. CASE WriteWord(h)
    <2>1. PICK w \in todo[h] : /\ config' = [config EXCEPT ![w] = call[h].value]
                               /\ todo' = [todo EXCEPT ![h] = todo[h] \ {w}]
      BY <1>6 DEF WriteWord, SetWord
    <2>2. /\ pc[h] = "write" /\ UNCHANGED <<pc, copy, base>>
      BY <1>6 DEF WriteWord
    <2>3. /\ config \in Config /\ base[h] # None /\ todo[h] \subseteq Masked(call[h])
          /\ Replaced(h, config, todo[h])
      BY <2>2 DEF UpdateProgress, Writing, Typed
    <2>4. config' # None
      BY <1>6, <2>3, NoneAssumption, WordWritten
    <2>5. todo'[h] = todo[h] \ {w}
      BY <1>1, <2>1
    <2>6. \A v \in Words : config'[v] = IF v = w THEN call[h].value ELSE config[v]
      BY <2>1, <2>3 DEF Config
    <2>7. \A v \in Words \ {"update_time"} :
             config'[v] = IF v \in Masked(call[h]) \ todo'[h]
                          THEN call[h].value ELSE base[h][v]
      BY <1>3, <2>3, <2>5, <2>6 DEF Replaced
    <2> QED
      BY <1>2, <1>3, <2>2, <2>3, <2>4, <2>5, <2>7
      DEF UpdateProgress, Writing, Done, Replaced
  <1>7. CASE Stamp(h)
    <2>1. /\ pc[h] = "write" /\ todo[h] = {} /\ UNCHANGED <<copy, base, todo>>
          /\ config' = [config EXCEPT !["update_time"] = clock] /\ pc'[h] = "unlock"
      BY <1>1, <1>7 DEF Stamp, SetTime, Goto
    <2>2. /\ config \in Config /\ base[h] # None /\ todo[h] \subseteq Masked(call[h])
          /\ Replaced(h, config, todo[h])
      BY <2>1 DEF UpdateProgress, Writing, Typed
    <2>3. config' # None
      BY <1>7, <2>2, NoneAssumption, WordWritten
    <2>4. \A v \in Words \ {"update_time"} : config'[v] = config[v]
      BY <2>1, <2>2 DEF Config
    <2> QED
      BY <1>2, <1>3, <2>1, <2>2, <2>3, <2>4 DEF UpdateProgress, Writing, Done, Replaced
  <1>8. CASE Unlock(h)
    <2>1. /\ pc[h] = "unlock" /\ pc'[h] = "done" /\ copy'[h] = config /\ UNCHANGED base
      BY <1>1, <1>8 DEF Unlock, Goto
    <2>2. Replaced(h, config, {})
      BY <2>1 DEF UpdateProgress, Writing
    <2> QED
      BY <1>2, <1>3, <2>1, <2>2 DEF UpdateProgress, Writing, Done, Replaced
  <1> QED
    BY <1>4, <1>5, <1>6, <1>7, <1>8 DEF Update

LEMMA UpdateProgressStep ==
    ASSUME Typed, LockHeld, \A g \in Handlers : UpdateProgress(g), NEW h \in Handlers,
           CallGet(h) \/ CallUpdate(h) \/ Get(h) \/ Update(h)
    PROVE  \A g \in Handlers : UpdateProgress(g)'
  <1>1. ASSUME NEW g \in Handlers, g # h PROVE UpdateProgress(g)'
    <2>1. /\ pc'[g] = pc[g] /\ call'[g] = call[g] /\ copy'[g] = copy[g]
          /\ todo'[g] = todo[g] /\ base'[g] = base[g]
      BY <1>1, StepKeepsOthers
    <2>2. Writing(g) => config' = config
      BY <1>1, WriterExcludes
    <2>3. Masked(call[g])' = Masked(call[g])
      BY <2>1 DEF Masked
    <2> QED
      BY <2>1, <2>2, <2>3 DEF UpdateProgress, Writing, Done, Replaced
  <1>2. CASE CallGet(h) \/ CallUpdate(h)
    <2>1. pc'[h] \in {"rlock", "lock"}
      BY <1>2 DEF CallGet, CallUpdate, Start, Goto, Typed, TypeOK
    <2>2. UpdateProgress(h)'
      BY <2>1 DEF UpdateProgress, Writing, Done
    <2> QED
      BY <1>1, <2>2
  <1>3. CASE Get(h)
    <2>1. pc[h] \in {"rlock", "runlock", "clone", "init"} /\ UNCHANGED call
      BY <1>3 DEF Get, ReadMap, RUnlock, CloneWord, InitDefault
    <2>2. pc'[h] \in {"runlock", "init", "clone", "done"}
      BY <1>3 DEF Get, ReadMap, RUnlock, CloneWord, InitDefault, Goto, Typed, TypeOK
    <2>3. UpdateProgress(h)'
      BY <2>1, <2>2 DEF UpdateProgress, Writing, Done, LockHeld
    <2> QED
      BY <1>1, <2>3
  <1>4. CASE Update(h)
    BY <1>1, <1>4, OwnUpdateProgress
  <1> QED
    BY <1>2, <1>3, <1>4

-----------------------------------------------------------------------------
(* The versions.                                                           *)

LEMMA VersionsInvStep ==
    ASSUME Typed, LockHeld, \A g \in Handlers : UpdateProgress(g), VersionsInv,
           NEW h \in Handlers, CallGet(h) \/ CallUpdate(h) \/ Get(h) \/ Update(h)
    PROVE  VersionsInv'
  <1>1. CASE UNCHANGED <<config, writer, versions>>
    BY <1>1 DEF VersionsInv
  <1>2. CASE InitDefault(h)
    <2>1. writer = None /\ UNCHANGED writer /\ versions' = versions \cup {config'}
      BY <1>2 DEF InitDefault, LockFree
    <2>2. config' = IF config = None THEN Default(clock) ELSE config
      BY <1>2 DEF InitDefault, StoreDefault
    <2>3. config' # None
      BY <2>2, DefaultTyped DEF Typed, TypeOK
    <2>4. config = None => versions' = {config'}
      BY <2>1 DEF VersionsInv
    <2>5. config # None => versions' = versions /\ config' = config
      BY <2>1, <2>2 DEF VersionsInv
    <2> QED
      BY <2>1, <2>3, <2>4, <2>5 DEF VersionsInv
  <1>3. CASE Insert(h)
    <2>1. /\ writer = None /\ UNCHANGED writer /\ config = None
          /\ versions' = versions \cup {config'}
      BY <1>3 DEF Insert, LockFree
    <2>2. config' # None /\ versions' = {config'}
      <3>1. Typed'
        BY <1>3, UpdateTyped DEF Update
      <3> QED
        BY <2>1, <3>1, NoneAssumption DEF VersionsInv, Typed
    <2> QED
      BY <2>1, <2>2 DEF VersionsInv
  <1>4. CASE Lock(h) \/ WriteWord(h) \/ Stamp(h)
    <2>1. versions' = versions /\ writer' = h /\ writer' # None /\ config # None
      BY <1>4, NoneAssumption
      DEF Lock, WriteWord, Stamp, LockHeld, Writing, UpdateProgress
    <2>2. config' # None
      BY <1>4, <2>1, NoneAssumption, WordWritten DEF Lock
    <2> QED
      BY <2>1, <2>2 DEF VersionsInv
  <1>5. CASE Unlock(h)
    <2>1. /\ pc[h] = "unlock" /\ versions' = versions \cup {config} /\ UNCHANGED config
      BY <1>5 DEF Unlock
    <2>2. config # None
      BY <2>1 DEF UpdateProgress, Writing
    <2> QED
      BY <2>1, <2>2 DEF VersionsInv
  <1>6. CASE CallGet(h) \/ CallUpdate(h) \/ ReadMap(h) \/ RUnlock(h) \/ CloneWord(h)
    BY <1>1, <1>6 DEF CallGet, CallUpdate, Start, ReadMap, RUnlock, CloneWord
  <1> QED
    BY <1>2, <1>3, <1>4, <1>5, <1>6 DEF Get, Update

-----------------------------------------------------------------------------
LEMMA ConfigInvStep ==
    ASSUME ConfigInv, [Next]_vars
    PROVE  ConfigInv'
  <1>1. ASSUME NEW h \in Handlers, CallGet(h) \/ CallUpdate(h) \/ Get(h) \/ Update(h)
        PROVE  ConfigInv'
    <2>1. Typed'
      BY <1>1, StartTyped, GetTyped, UpdateTyped DEF ConfigInv
    <2> QED
      BY <1>1, <2>1, LockHeldStep, UpdateProgressStep, VersionsInvStep DEF ConfigInv
  <1>2. CASE UNCHANGED vars
    <2>1. Typed'
      BY <1>2 DEF vars, ConfigInv, Typed, TypeOK
    <2>2. LockHeld'
      BY <1>2 DEF vars, ConfigInv, LockHeld, Writing
    <2>3. ASSUME NEW h \in Handlers PROVE UpdateProgress(h)'
      BY <1>2 DEF vars, ConfigInv, UpdateProgress, Writing, Done, Replaced
    <2>4. VersionsInv'
      BY <1>2 DEF vars, ConfigInv, VersionsInv
    <2> QED
      BY <2>1, <2>2, <2>3, <2>4 DEF ConfigInv
  <1> QED
    BY <1>1, <1>2 DEF Next, Exhausted

LEMMA ConfigCorrect == Spec => []ConfigInv
  BY ConfigInvInit, ConfigInvStep, PTL DEF Spec

\* The lock, the config and the handlers keep their types.
THEOREM TypeCorrect == Spec => []TypeOK
  <1>1. ConfigInv => TypeOK
    BY DEF ConfigInv, Typed
  <1> QED
    BY <1>1, ConfigCorrect, PTL

\* An Update answers with the config it found, with the words of its mask, and
\* no others, replaced: two Updates that write word by word do not mix.
THEOREM UpdatesDoNotMix == Spec => []UpdatesAreAtomic
  <1>1. ConfigInv => UpdatesAreAtomic
    BY DEF ConfigInv, UpdateProgress, Replaced, UpdatesAreAtomic
  <1> QED
    BY <1>1, ConfigCorrect, PTL

-----------------------------------------------------------------------------
(* What reads return.                                                      *)

\* What an update does to the config, word by word.
LEMMA UpdateWrites ==
    ASSUME Typed, LockHeld, NEW h \in Handlers, UpdateProgress(h), WriteWord(h) \/ Stamp(h)
    PROVE  /\ config \in Config /\ config' \in Config /\ config' # None
           /\ \A w \in Words : \/ config'[w] = config[w]
                               \/ WriteWord(h) /\ w \in todo[h] \ {"update_time"}
                               \/ Stamp(h) /\ w = "update_time" /\ config'[w] = clock
  <1>1. config \in Config /\ config # None
    BY DEF WriteWord, Stamp, UpdateProgress, Writing, Typed
  <1>2. config' \in Config
    BY <1>1, WordWritten
  <1>3. CASE WriteWord(h)
    <2>1. PICK w \in todo[h] : config' = [config EXCEPT ![w] = call[h].value]
      BY <1>3 DEF WriteWord, SetWord
    <2>2. call[h] \in Updates /\ todo[h] \subseteq Masked(call[h])
      BY <1>3 DEF WriteWord, UpdateProgress, LockHeld, Writing, Typed, TypeOK
    <2>3. w # "update_time"
      BY <2>1, <2>2, MaskedWords
    <2>4. \A v \in Words : v # w => config'[v] = config[v]
      BY <1>1, <2>1 DEF Config
    <2> QED
      BY <1>1, <1>2, <1>3, <2>1, <2>3, <2>4, NoneAssumption
  <1>4. CASE Stamp(h)
    <2>1. config' = [config EXCEPT !["update_time"] = clock]
      BY <1>4 DEF Stamp, SetTime
    <2>2. \A v \in Words : config'[v] = IF v = "update_time" THEN clock ELSE config[v]
      BY <1>1, <2>1 DEF Config
    <2> QED
      BY <1>1, <1>2, <1>4, <2>2, NoneAssumption
  <1> QED
    BY <1>3, <1>4

\* An update started from a version, and leaves the time alone until it stamps.
UpdateStart(h) ==
    /\ Writing(h) => base[h] \in versions
    /\ pc[h] = "write" => config["update_time"] = base[h]["update_time"]
    /\ pc[h] = "unlock" => config["update_time"] > base[h]["update_time"]

\* The words of a clone that is being made, or was, have been stored.
ReadProgress(h) ==
    /\ pc[h] \in {"rlock", "runlock"} => copy[h] = <<>>
    /\ call[h] = None => \A w \in DOMAIN copy[h] : copy[h][w] \in Stored(w)
    /\ Done(h) => DOMAIN copy[h] = Words

\* No timestamp is from the future.
TimesPassed ==
    /\ config # None => config["update_time"] \in Nat /\ config["update_time"] < clock
    /\ \A v \in versions : v["update_time"] \in Nat /\ v["update_time"] < clock

HistoryInv ==
    /\ \A h \in Handlers : UpdateStart(h)
    /\ \A h \in Handlers : ReadProgress(h)
    /\ TimesPassed

LEMMA HistoryInvInit == Init => HistoryInv
  BY DEF Init, HistoryInv, UpdateStart, ReadProgress, TimesPassed, Writing, Done

\* A step that takes a config away has put it among the versions, or replaces a
\* word that is still the one of a version.
LEMMA StoredStays ==
    ASSUME ConfigInv, HistoryInv, NEW h \in Handlers,
           CallGet(h) \/ CallUpdate(h) \/ Get(h) \/ Update(h), NEW w \in Words
    PROVE  Stored(w) \subseteq Stored(w)'
  <1>1. Typed /\ LockHeld /\ UpdateProgress(h) /\ UpdateStart(h)
    BY DEF ConfigInv, HistoryInv
  <1>2. versions \subseteq versions'
    <2>1. CASE CallGet(h) \/ CallUpdate(h)
      BY <2>1 DEF CallGet, CallUpdate, Start
    <2>2. CASE Get(h)
      BY <2>2 DEF Get, ReadMap, RUnlock, CloneWord, InitDefault
    <2>3. CASE Update(h)
      BY <2>3 DEF Update, Insert, Lock, WriteWord, Stamp, Unlock
    <2> QED
      BY <2>1, <2>2, <2>3
  <1>3. CASE config = None \/ config' = config
    BY <1>2, <1>3 DEF Stored
  <1>4. CASE config # None /\ config' # config
    <2>1. WriteWord(h) \/ Stamp(h)
      BY <1>4 DEF CallGet, CallUpdate, Start, Get, ReadMap, RUnlock, CloneWord, InitDefault,
                  StoreDefault, Update, Insert, Lock, Unlock
    <2>2. /\ \/ config'[w] = config[w]
             \/ w \in todo[h] \ {"update_time"}
             \/ w = "update_time" /\ pc[h] = "write"
          /\ config' # None
      BY <1>1, <2>1, UpdateWrites DEF Stamp
    <2>3. /\ base[h] \in versions
          /\ Replaced(h, config, todo[h])
          /\ pc[h] = "write" => config["update_time"] = base[h]["update_time"]
      BY <1>1, <2>1 DEF UpdateStart, UpdateProgress, WriteWord, Stamp, Writing
    <2>4. config'[w] = config[w] \/ config[w] = base[h][w]
      BY <2>2, <2>3 DEF Replaced
    <2>5. config[w] \in Stored(w)'
      BY <1>2, <2>2, <2>3, <2>4 DEF Stored
    <2> QED
      BY <1>2, <2>5 DEF Stored
  <1> QED
    BY <1>3, <1>4

LEMMA ReadProgressStep ==
    ASSUME ConfigInv, HistoryInv, NEW h \in Handlers,
           CallGet(h) \/ CallUpdate(h) \/ Get(h) \/ Update(h)
    PROVE  \A g \in Handlers : ReadProgress(g)'
  <1>1. Typed /\ LockHeld /\ UpdateProgress(h) /\ Typed'
    BY ConfigInvStep DEF ConfigInv, Next
  <1>2. /\ DOMAIN pc = Handlers /\ DOMAIN call = Handlers /\ DOMAIN copy = Handlers
        /\ \A g \in Handlers : DOMAIN copy[g] \subseteq Words
    BY <1>1 DEF Typed, TypeOK
  <1>3. \A w \in Words : Stored(w) \subseteq Stored(w)'
    BY StoredStays
  <1>4. ASSUME NEW g \in Handlers, pc'[g] = pc[g], call'[g] = call[g], copy'[g] = copy[g]
        PROVE  ReadProgress(g)'
    BY <1>2, <1>3, <1>4 DEF HistoryInv, ReadProgress, Done
  <1>5. \A g \in Handlers : g # h => ReadProgress(g)'
    BY <1>1, <1>4, StepKeepsOthers
  <1>6. CASE CallGet(h) \/ CallUpdate(h)
    <2>1. copy'[h] = <<>> /\ pc'[h] \in {"rlock", "lock"}
      BY <1>2, <1>6 DEF CallGet, CallUpdate, Start, Goto
    <2> QED
      BY <1>5, <2>1 DEF ReadProgress, Done
  <1>7. CASE ReadMap(h) \/ RUnlock(h)
    <2>1. /\ copy'[h] = <<>> /\ pc'[h] \in {"runlock", "clone", "init"}
      BY <1>2, <1>7 DEF ReadMap, RUnlock, Goto, HistoryInv, ReadProgress
    <2> QED
      BY <1>5, <2>1 DEF ReadProgress, Done
  <1>8. CASE CloneWord(h)
    <2>1. config \in Config /\ config # None /\ call[h] = None /\ UNCHANGED call
      BY <1>1, <1>8 DEF CloneWord, LockHeld, Typed
    <2>2. PICK w \in Words \ DOMAIN copy[h] :
             LET c == [v \in DOMAIN copy[h] \cup {w} |->
                         IF v = w THEN config[w] ELSE copy[h][v]]
             IN  /\ copy' = [copy EXCEPT ![h] = c]
                 /\ Goto(h, IF DOMAIN c = Words THEN "done" ELSE "clone")
      BY <1>8 DEF CloneWord
    <2> DEFINE c == [v \in DOMAIN copy[h] \cup {w} |->
                         IF v = w THEN config[w] ELSE copy[h][v]]
    <2>3. copy'[h] = c /\ pc'[h] = IF DOMAIN c = Words THEN "done" ELSE "clone"
      BY <1>2, <2>2 DEF Goto
    <2>4. \A v \in DOMAIN c : c[v] \in Stored(v)
      <3>1. config[w] \in Stored(w)
        BY <2>1 DEF Stored
      <3>2. \A v \in DOMAIN copy[h] : copy[h][v] \in Stored(v)
        BY <2>1 DEF HistoryInv, ReadProgress
      <3> QED
        BY <3>1, <3>2
    <2>5. DOMAIN c \subseteq Words
      BY <1>2, <2>2
    <2> HIDE DEF c
    <2> QED
      BY <1>3, <1>5, <2>1, <2>3, <2>4, <2>5 DEF ReadProgress, Done
  <1>9. CASE InitDefault(h)
    <2>1. /\ copy'[h] = config' /\ pc'[h] = "done" /\ config' \in versions'
      BY <1>2, <1>9 DEF InitDefault, Goto
    <2>2. DOMAIN config' = Words
      BY <1>1, <2>1 DEF Typed, Config
    <2> QED
      BY <1>5, <2>1, <2>2 DEF ReadProgress, Done, Stored
  <1>10. CASE Insert(h) \/ Unlock(h)
    <2>1. /\ copy'[h] = config' /\ pc'[h] = "done" /\ config' \in versions'
          /\ call[h] # None /\ UNCHANGED call
      BY <1>1, <1>2, <1>10 DEF Insert, Unlock, Goto, LockHeld, Writing
    <2>2. DOMAIN config' = Words
      BY <1>1, <2>1 DEF Typed, Config
    <2> QED
      BY <1>5, <2>1, <2>2 DEF ReadProgress, Done
  <1>11. CASE Lock(h) \/ WriteWord(h) \/ Stamp(h)
    <2>1. /\ pc'[h] \in {"write", "unlock"} /\ call[h] # None /\ UNCHANGED call
      BY <1>1, <1>2, <1>11 DEF Lock, WriteWord, Stamp, Goto, LockHeld, Writing
    <2> QED
      BY <1>5, <2>1 DEF ReadProgress, Done
  <1> QED
    BY <1>6, <1>7, <1>8, <1>9, <1>10, <1>11 DEF Get, Update

LEMMA TimesPassedStep ==
    ASSUME ConfigInv, HistoryInv, NEW h \in Handlers,
           CallGet(h) \/ CallUpdate(h) \/ Get(h) \/ Update(h)
    PROVE  TimesPassed'
  <1>1. Typed /\ LockHeld /\ UpdateProgress(h) /\ TimesPassed /\ clock \in Nat
    BY DEF ConfigInv, HistoryInv, Typed, TypeOK
  <1>2. CASE UNCHANGED <<config, clock, versions>>
    BY <1>1, <1>2 DEF TimesPassed
  <1>3. CASE InitDefault(h) \/ Insert(h)
    <2>1. /\ clock' = clock + 1 /\ versions' = versions \cup {config'}
          /\ config' = config \/ config'["update_time"] = clock
      <3>1. CASE InitDefault(h)
        BY <3>1 DEF InitDefault, StoreDefault, Default, Words
      <3>2. CASE Insert(h)
        <4>1. "update_time" \in Words \ Masked(call[h])
          BY <1>1, <3>2, MaskedWords DEF Insert, LockHeld, Typed, TypeOK, Words
        <4> QED
          BY <3>2, <4>1 DEF Insert, Default
      <3> QED
        BY <1>3, <3>1, <3>2
    <2>2. config' # None
      <3>1. CASE InitDefault(h)
        BY <1>1, <3>1, DefaultTyped DEF InitDefault, StoreDefault
      <3>2. CASE Insert(h)
        BY <1>1, <3>2, UpdateTyped, NoneAssumption DEF Update, ConfigInv, Insert, Typed
      <3> QED
        BY <1>3, <3>1, <3>2
    <2>3. CASE config = None
      <3>1. config'["update_time"] = clock
        BY <1>3, <2>1, <2>2, <2>3
      <3> QED
        BY <1>1, <2>1, <2>2, <3>1 DEF TimesPassed
    <2>4. CASE config # None
      <3>1. config'["update_time"] \in Nat /\ config'["update_time"] < clock + 1
        BY <1>1, <2>1, <2>4 DEF TimesPassed
      <3> QED
        BY <1>1, <2>1, <3>1 DEF TimesPassed
    <2> QED
      BY <2>3, <2>4
  <1>4. CASE WriteWord(h)
    <2>1. config'["update_time"] = config["update_time"]
      BY <1>1, <1>4, UpdateWrites DEF Words, Stamp, WriteWord, SetWord
    <2>2. UNCHANGED <<clock, versions>> /\ config # None
      BY <1>1, <1>4 DEF WriteWord, UpdateProgress, Writing
    <2> QED
      BY <1>1, <2>1, <2>2 DEF TimesPassed
  <1>5. CASE Stamp(h)
    <2>1. config \in Config /\ UNCHANGED versions /\ clock' = clock + 1
      BY <1>1, <1>5, UpdateWrites DEF Stamp
    <2>2. config'["update_time"] = clock
      BY <1>5, <2>1 DEF Stamp, SetTime, Config, Words
    <2> QED
      BY <1>1, <2>1, <2>2 DEF TimesPassed
  <1>6. CASE Unlock(h)
    <2>1. UNCHANGED <<config, clock>> /\ versions' = versions \cup {config} /\ config # None
      BY <1>1, <1>6 DEF Unlock, UpdateProgress, Writing
    <2> QED
      BY <1>1, <2>1 DEF TimesPassed
  <1>7. CASE CallGet(h) \/ CallUpdate(h) \/ ReadMap(h) \/ RUnlock(h) \/ CloneWord(h)
             \/ Lock(h)
    BY <1>2, <1>7 DEF CallGet, CallUpdate, Start, ReadMap, RUnlock, CloneWord, Lock
  <1> QED
    BY <1>3, <1>4, <1>5, <1>6, <1>7 DEF Get, Update

LEMMA UpdateStartStep ==
    ASSUME ConfigInv, HistoryInv, NEW h \in Handlers,
           CallGet(h) \/ CallUpdate(h) \/ Get(h) \/ Update(h)
    PROVE  \A g \in Handlers : UpdateStart(g)'
  <1>1. Typed /\ LockHeld /\ UpdateProgress(h) /\ UpdateStart(h)
    BY DEF ConfigInv, HistoryInv
  <1>2. DOMAIN pc = Handlers /\ DOMAIN base = Handlers /\ clock \in Nat
    BY <1>1 DEF Typed, TypeOK
  <1>3. ASSUME NEW g \in Handlers, g # h PROVE UpdateStart(g)'
    <2>1. pc'[g] = pc[g] /\ base'[g] = base[g]
      BY <1>1, <1>3, StepKeepsOthers
    <2>2. Writing(g) => config' = config
      BY <1>1, <1>3, WriterExcludes
    <2>3. Writing(g) => base[g] \in versions'
      <3>1. versions \subseteq versions'
        BY DEF CallGet, CallUpdate, Start, Get, ReadMap, RUnlock, CloneWord, InitDefault,
               Update, Insert, Lock, WriteWord, Stamp, Unlock
      <3> QED
        BY <3>1 DEF HistoryInv, UpdateStart
    <2> QED
      BY <2>1, <2>2, <2>3 DEF HistoryInv, UpdateStart, Writing
  <1>4. CASE CallGet(h) \/ CallUpdate(h) \/ Get(h) \/ Insert(h) \/ Unlock(h)
    <2>1. ~Writing(h)'
      BY <1>2, <1>4 DEF CallGet, CallUpdate, Start, Get, ReadMap, RUnlock, CloneWord,
                        InitDefault, Insert, Unlock, Goto, Writing
    <2> QED
      BY <1>3, <2>1 DEF UpdateStart, Writing
  <1>5. CASE Lock(h)
    <2>1. /\ pc'[h] = "write" /\ base'[h] = config /\ UNCHANGED <<config, versions>>
          /\ writer = None /\ config # None
      BY <1>2, <1>5 DEF Lock, LockFree, Goto
    <2>2. config \in versions
      BY <2>1 DEF ConfigInv, VersionsInv
    <2> QED
      BY <1>3, <2>1, <2>2 DEF UpdateStart, Writing
  <1>6. CASE WriteWord(h)
    <2>1. config'["update_time"] = config["update_time"]
      BY <1>1, <1>6, UpdateWrites DEF Words, Stamp, WriteWord, SetWord
    <2>2. pc[h] = "write" /\ UNCHANGED <<pc, base, versions>>
      BY <1>6 DEF WriteWord
    <2> QED
      BY <1>1, <1>3, <2>1, <2>2 DEF UpdateStart, Writing
  <1>7. CASE Stamp(h)
    <2>1. /\ pc[h] = "write" /\ pc'[h] = "unlock" /\ UNCHANGED <<base, versions>>
          /\ config \in Config
      BY <1>1, <1>2, <1>7, UpdateWrites DEF Stamp, Goto
    <2>2. config'["update_time"] = clock
      BY <1>7, <2>1 DEF Stamp, SetTime, Config, Words
    <2>3. base[h]["update_time"] \in Nat /\ base[h]["update_time"] < clock
      BY <1>1, <2>1 DEF UpdateStart, Writing, HistoryInv, TimesPassed
    <2>4. clock > base[h]["update_time"]
      BY <1>2, <2>3
    <2> QED
      BY <1>1, <1>3, <2>1, <2>2, <2>4 DEF UpdateStart, Writing
  <1> QED
    BY <1>4, <1>5, <1>6, <1>7 DEF Update

LEMMA HistoryInvStep ==
    ASSUME ConfigInv, HistoryInv, [Next]_vars
    PROVE  HistoryInv'
  <1>1. CASE UNCHANGED vars
    BY <1>1 DEF vars, HistoryInv, UpdateStart, ReadProgress, TimesPassed, Writing, Done,
                Stored
  <1>2. ASSUME NEW h \in Handlers, CallGet(h) \/ CallUpdate(h) \/ Get(h) \/ Update(h)
        PROVE  HistoryInv'
    BY <1>2, UpdateStartStep, ReadProgressStep, TimesPassedStep DEF HistoryInv
  <1> QED
    BY <1>1, <1>2 DEF Next, Exhausted

LEMMA HistoryCorrect == Spec => [](ConfigInv /\ HistoryInv)
  BY ConfigInvInit, ConfigInvStep, HistoryInvInit, HistoryInvStep, PTL DEF Spec

\* A Get that clones while an Update writes mixes words of several versions; each
\* of them has been stored all the same, none is made up or half cleared.
THEOREM TornReadsAreStored == Spec => []ReadsInventNothing
  <1>1. HistoryInv => ReadsInventNothing
    BY DEF HistoryInv, ReadProgress, ReadsInventNothing, Done
  <1> QED
    BY <1>1, HistoryCorrect, PTL

-----------------------------------------------------------------------------
(* Reads that no update disturbs.                                          *)

\* No update holds the lock while the handler clones.
Undisturbed(h) == pc[h] = "clone" => writer = None

\* What has been cloned so far is the config as it still is.
CloneIsConfig(h) ==
    /\ pc[h] = "clone" => \A w \in DOMAIN copy[h] : copy[h][w] = config[w]
    /\ ReadIsVersion(h)

LEMMA CloneIsConfigStep ==
    ASSUME ConfigInv, HistoryInv, NEW h \in Handlers, CloneIsConfig(h),
           Undisturbed(h), [Next]_vars
    PROVE  CloneIsConfig(h)'
  <1>1. Typed /\ LockHeld
    BY DEF ConfigInv
  <1>2. DOMAIN pc = Handlers /\ DOMAIN call = Handlers /\ DOMAIN copy = Handlers
    BY <1>1 DEF Typed, TypeOK
  <1>3. ASSUME NEW g \in Handlers, CallGet(g) \/ CallUpdate(g) \/ Get(g) \/ Update(g)
        PROVE  versions \subseteq versions'
    BY <1>3 DEF CallGet, CallUpdate, Start, Get, ReadMap, RUnlock, CloneWord, InitDefault,
                Update, Insert, Lock, WriteWord, Stamp, Unlock
  <1>4. CASE UNCHANGED vars
    BY <1>4 DEF vars, CloneIsConfig, ReadIsVersion, Done
  <1>5. ASSUME NEW g \in Handlers, g # h,
               CallGet(g) \/ CallUpdate(g) \/ Get(g) \/ Update(g)
        PROVE  CloneIsConfig(h)'
    <2>1. pc'[h] = pc[h] /\ call'[h] = call[h] /\ copy'[h] = copy[h]
      BY <1>1, <1>5, StepKeepsOthers
    <2>2. pc[h] = "clone" => config' = config
      <3> SUFFICES ASSUME pc[h] = "clone" PROVE config' = config
        OBVIOUS
      <3>1. config # None /\ ~Writing(g)
        BY <1>1, NoneAssumption DEF LockHeld, Undisturbed
      <3> QED
        BY <1>5, <3>1 DEF CallGet, CallUpdate, Start, Get, ReadMap, RUnlock, CloneWord,
              InitDefault, StoreDefault, Update, Insert, Lock, WriteWord, Stamp, Unlock, Writing
    <2> QED
      BY <1>3, <1>5, <2>1, <2>2 DEF CloneIsConfig, ReadIsVersion, Done
  <1>6. CASE CallGet(h) \/ CallUpdate(h) \/ ReadMap(h)
    <2>1. pc'[h] \in {"rlock", "lock", "runlock"}
      BY <1>2, <1>6 DEF CallGet, CallUpdate, Start, ReadMap, Goto
    <2> QED
      BY <2>1 DEF CloneIsConfig, ReadIsVersion, Done
  <1>7. CASE RUnlock(h)
    <2>1. pc'[h] \in {"clone", "init"} /\ copy'[h] = <<>>
      BY <1>2, <1>7 DEF RUnlock, Goto, HistoryInv, ReadProgress
    <2> QED
      BY <2>1 DEF CloneIsConfig, ReadIsVersion, Done
  <1>8. CASE CloneWord(h)
    <2>1. /\ config \in Config /\ config \in versions /\ pc[h] = "clone"
          /\ UNCHANGED <<config, call, versions>>
      BY <1>1, <1>8 DEF CloneWord, Undisturbed, LockHeld, Typed, ConfigInv, VersionsInv
    <2>2. PICK w \in Words \ DOMAIN copy[h] :
             LET c == [v \in DOMAIN copy[h] \cup {w} |->
                         IF v = w THEN config[w] ELSE copy[h][v]]
             IN  /\ copy' = [copy EXCEPT ![h] = c]
                 /\ Goto(h, IF DOMAIN c = Words THEN "done" ELSE "clone")
      BY <1>8 DEF CloneWord
    <2> DEFINE c == [v \in DOMAIN copy[h] \cup {w} |->
                         IF v = w THEN config[w] ELSE copy[h][v]]
    <2>3. copy'[h] = c /\ pc'[h] = IF DOMAIN c = Words THEN "done" ELSE "clone"
      BY <1>2, <2>2 DEF Goto
    <2>4. \A v \in DOMAIN c : c[v] = config[v]
      BY <2>1 DEF CloneIsConfig
    <2>5. c = [v \in DOMAIN c |-> c[v]]
      OBVIOUS
    <2> HIDE DEF c
    <2>6. DOMAIN c = Words => c = config
      BY <2>1, <2>4, <2>5 DEF Config
    <2> QED
      BY <2>1, <2>3, <2>4, <2>6 DEF CloneIsConfig, ReadIsVersion, Done
  <1>9. CASE InitDefault(h)
    <2>1. copy'[h] = config' /\ pc'[h] = "done" /\ config' \in versions'
      BY <1>2, <1>9 DEF InitDefault, Goto
    <2> QED
      BY <2>1 DEF CloneIsConfig, ReadIsVersion
  <1>10. CASE Update(h)
    <2>1. pc'[h] # "clone" /\ call'[h] # None
      BY <1>1, <1>2, <1>10
      DEF Update, Insert, Lock, WriteWord, Stamp, Unlock, Goto, LockHeld, Writing
    <2> QED
      BY <2>1 DEF CloneIsConfig, ReadIsVersion
  <1> QED
    BY <1>4, <1>5, <1>6, <1>7, <1>8, <1>9, <1>10 DEF Next, Exhausted, Get

\* Only an Update that writes while a Get clones tears it: a handler whose clones
\* meet no writer answers with a config that was stored, whatever others read.
THEOREM UndisturbedReadsAreVersions ==
    ASSUME NEW h \in Handlers
    PROVE  Spec /\ []Undisturbed(h) => []ReadIsVersion(h)
  <1>1. Init => CloneIsConfig(h)
    BY DEF Init, CloneIsConfig, ReadIsVersion, Done
  <1>2. CloneIsConfig(h) => ReadIsVersion(h)
    BY DEF CloneIsConfig
  <1>3. ConfigInv /\ HistoryInv /\ CloneIsConfig(h) /\ Undisturbed(h) /\ [Next]_vars
          => CloneIsConfig(h)'
    BY CloneIsConfigStep
  <1> QED
    BY <1>1, <1>2, <1>3, HistoryCorrect, PTL DEF Spec

-----------------------------------------------------------------------------
(* The register.                                                           *)

LEMMA EditOf ==
    ASSUME NEW u \in Updates
    PROVE  /\ Edit(u) # None /\ Edit(u) \in {Edit(v) : v \in Updates}
           /\ DOMAIN Edit(u) = Masked(u)
           /\ \A w \in Masked(u) : Edit(u)[w] = u.value
  BY NoneAssumption DEF Edit

\* The step of a handler leaves what the others asked and were answered.
LEMMA OthersKeepAnswers ==
    ASSUME Typed, NEW h \in Handlers, CallGet(h) \/ CallUpdate(h) \/ Get(h) \/ Update(h)
    PROVE  \A g \in Handlers : g # h => Asked'[g] = Asked[g] /\ Answered'[g] = Answered[g]
  <1> SUFFICES ASSUME NEW g \in Handlers, g # h
               PROVE  Asked'[g] = Asked[g] /\ Answered'[g] = Answered[g]
    OBVIOUS
  <1>1. pc'[g] = pc[g] /\ call'[g] = call[g] /\ copy'[g] = copy[g]
    BY StepKeepsOthers
  <1>2. Edit(call[g])' = Edit(call[g])
    BY <1>1 DEF Edit, Masked
  <1> QED
    BY <1>1, <1>2 DEF Asked, Answered, Done

\* A handler that goes on with its call without finishing an update has asked
\* what it asked, and no answer yet.
LEMMA NothingAnswered ==
    ASSUME Typed, NEW h \in Handlers, CallGet(h) \/ CallUpdate(h) \/ Get(h) \/ Update(h),
           call'[h] = call[h], ~Done(h), ~Done(h)' \/ call[h] = None
    PROVE  UNCHANGED <<Asked, Answered>>
  <1>1. Asked'[h] = Asked[h] /\ Answered'[h] = Answered[h]
    <2>1. Edit(call[h])' = Edit(call[h])
      BY DEF Edit, Masked
    <2> QED
      BY <2>1 DEF Asked, Answered, Done
  <1>2. \A g \in Handlers : Asked'[g] = Asked[g] /\ Answered'[g] = Answered[g]
    BY <1>1, OthersKeepAnswers
  <1> QED
    BY <1>2 DEF Asked, Answered

\* The step at which an update lets go of the lock applies its edit at once.
LEMMA AppliedAtOnce ==
    ASSUME Typed, Typed', LockHeld, NEW h \in Handlers, UpdateProgress(h)',
           Insert(h) \/ Unlock(h),
           copy'[h] = config', Visible' = config', config' \in Config,
           \A w \in Words \ {"update_time"} :
              base'[h][w] = IF Visible = None THEN "" ELSE Visible[w],
           Visible # None => config'["update_time"] > Visible["update_time"]
    PROVE  Register!Apply(h)
  <1>1. /\ call[h] \in Updates /\ call[h] # None /\ call'[h] = call[h]
        /\ ~Done(h) /\ Done(h)'
    <2>1. /\ pc[h] \in {"lock", "unlock"} /\ pc' = [pc EXCEPT ![h] = "done"]
          /\ UNCHANGED call
      BY DEF Insert, Unlock, Goto
    <2>2. call[h] \in Updates
      BY <2>1 DEF LockHeld, Writing, Typed, TypeOK
    <2> QED
      BY <2>1, <2>2, NoneAssumption DEF Typed, TypeOK, Done
  <1>2. /\ Asked[h] = Edit(call[h]) /\ Asked'[h] = Asked[h]
        /\ Answered[h] = None /\ Answered'[h] = config'
    <2>1. Edit(call[h])' = Edit(call[h])
      BY <1>1 DEF Edit, Masked
    <2> QED
      BY <1>1, <2>1 DEF Asked, Answered, Done
  <1>3. \A g \in Handlers : /\ Asked'[g] = Asked[g]
                            /\ Answered'[g] = IF g = h THEN config' ELSE Answered[g]
    BY <1>2, OthersKeepAnswers DEF Update
  <1>4. Asked' = Asked /\ Answered' = [Answered EXCEPT ![h] = config']
    BY <1>3 DEF Asked, Answered
  <1>5. /\ DOMAIN Edit(call[h]) = Masked(call[h]) /\ Edit(call[h]) # None
        /\ \A w \in Masked(call[h]) : Edit(call[h])[w] = call[h].value
    BY <1>1, EditOf
  <1>6. \A w \in Words \ {"update_time"} :
           config'[w] = IF w \in Masked(call[h]) THEN call[h].value ELSE base'[h][w]
    <2>1. Masked(call[h])' = Masked(call[h])
      BY <1>1 DEF Masked
    <2> QED
      BY <1>1, <2>1 DEF UpdateProgress, Replaced
  <1>7. Register!Becomes(Asked[h])
    <2>1. config' # None /\ DOMAIN config' = Words
      BY NoneAssumption DEF Config
    <2>2. \A w \in Words \ {"update_time"} :
             config'[w] = IF w \in DOMAIN Asked[h] THEN Asked[h][w]
                          ELSE IF Visible = None THEN "" ELSE Visible[w]
      BY <1>2, <1>5, <1>6
    <2> QED
      BY <2>1, <2>2 DEF Register!Becomes
  <1> QED
    BY <1>2, <1>4, <1>5, <1>7 DEF Register!Apply

LEMMA RegisterStep ==
    ASSUME ConfigInv, ConfigInv', HistoryInv, NEW h \in Handlers,
           CallGet(h) \/ CallUpdate(h) \/ Get(h) \/ Update(h)
    PROVE  Register!Next \/ UNCHANGED Register!vars
  <1>1. /\ Typed /\ Typed' /\ LockHeld /\ UpdateProgress(h) /\ UpdateProgress(h)'
        /\ UpdateStart(h)
    BY DEF ConfigInv, HistoryInv
  <1>2. /\ DOMAIN pc = Handlers /\ DOMAIN call = Handlers /\ DOMAIN copy = Handlers
        /\ DOMAIN base = Handlers /\ clock \in Nat /\ writer \in Handlers \cup {None}
        /\ None \notin Handlers
    BY <1>1, NoneAssumption DEF Typed, TypeOK
  <1>3. CASE CallGet(h) \/ CallUpdate(h)
    <2>1. /\ Visible' = Visible
          /\ pc'[h] \in {"rlock", "lock"} /\ call'[h] \in Updates \cup {None}
      BY <1>2, <1>3 DEF CallGet, CallUpdate, Start, Goto, Visible
    <2> DEFINE e == IF call'[h] = None THEN None ELSE Edit(call'[h])
    <2>2. e \in {Edit(u) : u \in Updates} \cup {None}
      BY <2>1
    <2>3. Asked'[h] = e /\ Answered'[h] = None
      BY <2>1 DEF Asked, Answered, Done, Edit, Masked
    <2>4. Asked' = [Asked EXCEPT ![h] = e] /\ Answered' = [Answered EXCEPT ![h] = None]
      BY <1>1, <2>3, OthersKeepAnswers DEF Asked, Answered
    <2>5. Register!Ask(h)
      BY <2>1, <2>2, <2>4 DEF Register!Ask
    <2> QED
      BY <2>5 DEF Register!Next
  <1>4. CASE ReadMap(h) \/ RUnlock(h) \/ CloneWord(h)
    <2>1. /\ Visible' = Visible /\ ~Done(h)
          /\ call'[h] = call[h] /\ call[h] = None
      BY <1>1, <1>4 DEF ReadMap, RUnlock, CloneWord, Visible, Done, LockHeld
    <2>2. UNCHANGED <<Asked, Answered>>
      BY <1>1, <1>4, <2>1, NothingAnswered DEF Get
    <2> QED
      BY <2>1, <2>2 DEF Register!vars
  <1>5. CASE InitDefault(h)
    <2>1. /\ ~Done(h) /\ call'[h] = call[h] /\ call[h] = None
          /\ Visible = config /\ Visible' = config'
      BY <1>1, <1>5 DEF InitDefault, LockFree, Done, LockHeld, Visible
    <2>2. UNCHANGED <<Asked, Answered>>
      BY <1>1, <1>5, <2>1, NothingAnswered DEF Get
    <2>3. CASE config # None
      BY <1>5, <2>1, <2>2, <2>3 DEF InitDefault, StoreDefault, Register!vars
    <2>4. CASE config = None
      <3>1. config' = Default(clock) /\ config' \in Config /\ config' # None
        BY <1>2, <1>5, <2>4, DefaultTyped DEF InitDefault, StoreDefault
      <3>2. DOMAIN config' = Words /\ \A w \in Words \ {"update_time"} : config'[w] = ""
        BY <3>1 DEF Default
      <3>3. Register!Becomes(<<>>)
        <4>1. \A w \in Words \ {"update_time"} : w \notin DOMAIN <<>>
          OBVIOUS
        <4>2. /\ Visible' # None /\ DOMAIN Visible' = Words /\ Visible = None
              /\ \A w \in Words \ {"update_time"} : Visible'[w] = ""
          BY <2>1, <2>4, <3>1, <3>2
        <4> QED
          BY <4>1, <4>2, Zenon DEF Register!Becomes
      <3>4. Register!TakeDefault
        BY <2>1, <2>2, <2>4, <3>3 DEF Register!TakeDefault
      <3> QED
        BY <3>4 DEF Register!Next
    <2> QED
      BY <2>3, <2>4
  <1>6. CASE Insert(h)
    <2>1. /\ Visible = None /\ Visible' = config'
          /\ copy'[h] = config' /\ base'[h] = Default(clock)
      BY <1>2, <1>6 DEF Insert, LockFree, Visible
    <2>2. config' \in Config
      <3>1. config' \in versions'
        BY <1>6 DEF Insert
      <3> QED
        BY <1>1, <3>1 DEF Typed
    <2>3. \A w \in Words \ {"update_time"} : base'[h][w] = ""
      BY <2>1 DEF Default
    <2>4. Register!Apply(h)
      BY <1>1, <1>6, <2>1, <2>2, <2>3, AppliedAtOnce
    <2> QED
      BY <2>4 DEF Register!Next
  <1>7. CASE Lock(h)
    <2>1. /\ ~Done(h) /\ ~Done(h)' /\ call'[h] = call[h]
          /\ Visible = config /\ Visible' = config
      BY <1>2, <1>7 DEF Lock, LockFree, Done, Visible, Goto
    <2>2. UNCHANGED <<Asked, Answered>>
      BY <1>1, <1>7, <2>1, NothingAnswered DEF Update
    <2> QED
      BY <2>1, <2>2 DEF Register!vars
  <1>8. CASE WriteWord(h) \/ Stamp(h)
    <2>1. /\ ~Done(h) /\ ~Done(h)' /\ call'[h] = call[h]
          /\ writer = h /\ UNCHANGED <<writer, base>>
      BY <1>1, <1>2, <1>8 DEF WriteWord, Stamp, Done, Goto, LockHeld, Writing
    <2>2. Visible' = Visible
      BY <1>2, <2>1 DEF Visible
    <2>3. UNCHANGED <<Asked, Answered>>
      BY <1>1, <1>8, <2>1, NothingAnswered DEF Update
    <2> QED
      BY <2>2, <2>3 DEF Register!vars
  <1>9. CASE Unlock(h)
    <2>1. /\ pc[h] = "unlock" /\ UNCHANGED <<config, base>> /\ copy'[h] = config'
          /\ writer = h /\ writer' = None
      BY <1>1, <1>2, <1>9 DEF Unlock, LockHeld, Writing
    <2>2. Visible = base[h] /\ Visible' = config'
      BY <1>2, <2>1 DEF Visible
    <2>3. config' \in Config /\ base[h] # None
      BY <1>1, <2>1 DEF UpdateProgress, Writing, Typed
    <2>4. config'["update_time"] > Visible["update_time"]
      BY <1>1, <2>1, <2>2 DEF UpdateStart
    <2>5. Register!Apply(h)
      BY <1>1, <1>9, <2>1, <2>2, <2>3, <2>4, AppliedAtOnce
    <2> QED
      BY <2>5 DEF Register!Next
  <1> QED
    BY <1>3, <1>4, <1>5, <1>6, <1>7, <1>8, <1>9 DEF Get, Update

\* Those who write the config cannot tell that it is written word by word: its
\* default, its updates and their answers are those of ConfigRegister, which
\* changes at one instant and whose timestamp only moves on.
THEOREM ConfigIsRegister == Spec => RegisterSpec
  <1>1. Init => Register!Init
    BY DEF Init, Register!Init, Visible, Asked, Answered, Done
  <1>2. ConfigInv /\ ConfigInv' /\ HistoryInv /\ [Next]_vars
          => [Register!Next]_(Register!vars)
    <2> SUFFICES ASSUME ConfigInv, ConfigInv', HistoryInv, [Next]_vars
                 PROVE  Register!Next \/ UNCHANGED Register!vars
      OBVIOUS
    <2>1. CASE UNCHANGED vars
      <3>1. Visible' = Visible /\ Asked' = Asked /\ Answered' = Answered
        BY <2>1 DEF vars, Visible, Asked, Answered, Done, Edit, Masked
      <3> QED
        BY <3>1 DEF Register!vars
    <2>2. CASE \E h \in Handlers : CallGet(h) \/ CallUpdate(h) \/ Get(h) \/ Update(h)
      BY <2>2, RegisterStep
    <2> QED
      BY <2>1, <2>2 DEF Next, Exhausted
  <1> QED
    BY <1>1, <1>2, HistoryCorrect, PTL DEF Spec, RegisterSpec, Register!Spec
=============================================================================

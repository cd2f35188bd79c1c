-------------------------- MODULE Publisher_proofs --------------------------
(***************************************************************************)
(* Theorems about EventRouting and Publisher, for any patterns, values,    *)
(* triggers, publishes and handlers: the matching of path patterns means   *)
(* what PatternCovers says, and events reach the triggers that want them,  *)
(* and only these, once.                                                   *)
(***************************************************************************)
EXTENDS Publisher, FiniteSetTheorems, SequenceTheorems, TLAPS

-----------------------------------------------------------------------------
(* Numbers.  The principle is stated for a set, not for a predicate.       *)

\* Every set of natural numbers that is not empty has a least element: among
\* the initial segments 1..n that end in it there is a smallest.
LEMMA LeastNumber ==
    ASSUME NEW X, X \subseteq Nat, X # {}
    PROVE  \E x \in X : \A y \in X : x <= y
  <1> DEFINE T == {1..n : n \in X}
             R == StrictSubsetOrdering(Nat)
  <1>1. T \subseteq FiniteSubsetsOf(Nat)
    BY FS_Interval DEF FiniteSubsetsOf
  <1>2. IsWellFoundedOn(R, FiniteSubsetsOf(Nat))
    BY FS_StrictSubsetOrderingWellFounded
  <1>3. T # {}
    OBVIOUS
  <1> HIDE DEF T, R
  <1>4. PICK t \in T : \A u \in T : ~ (<<u, t>> \in R)
    BY <1>1, <1>2, <1>3, WFMin
  <1>5. PICK x \in X : t = 1..x
    BY DEF T
  <1>6. ASSUME NEW y \in X, y < x PROVE FALSE
    <2>1. 1..y \in T
      BY DEF T
    <2>2. 1..y \subseteq 1..x /\ x \in 1..x /\ x \notin 1..y
      BY <1>6
    <2>3. <<1..y, 1..x>> \in R
      BY <2>2 DEF R, StrictSubsetOrdering
    <2> QED
      BY <1>4, <1>5, <2>1, <2>3
  <1> QED
    BY <1>6

-----------------------------------------------------------------------------
(* The matching of path patterns.                                          *)

\* One line of the table that matchSegs fills, from the line after it.
MatchStep(p, v, f, i) ==
    {j \in 1..(Len(v) + 1) :
        IF i > Len(p) THEN j > Len(v)
        ELSE IF p[i] = "**"
             THEN \E l \in j..(Len(v) + 1) : l \in f[i + 1]
             ELSE /\ j <= Len(v)
                  /\ p[i] \in {"*", v[j]}
                  /\ j + 1 \in f[i + 1]}

IsMatch(p, v, f) == f = [i \in 1..(Len(p) + 1) |-> MatchStep(p, v, f, i)]

\* The segments of the pattern from i on cover those of the value from j on, cut
\* at the given places.
CutAt(p, v, i, j, cut) ==
    /\ cut[i] = j
    /\ cut[Len(p) + 1] = Len(v) + 1
    /\ \A k \in i..Len(p) : PieceFits(p[k], v, cut[k], cut[k + 1])

Cuts(p, v) == [1..(Len(p) + 1) -> 1..(Len(v) + 1)]
Covers(p, v, i, j) == \E cut \in Cuts(p, v) : CutAt(p, v, i, j, cut)

\* The table that the meaning of patterns asks for.
Covering(p, v) == [i \in 1..(Len(p) + 1) |-> {j \in 1..(Len(v) + 1) : Covers(p, v, i, j)}]

\* A cut of the rest of the pattern and a piece before it are a cut.
LEMMA CoversFirst ==
    ASSUME NEW S, NEW p \in Seq(S), NEW v \in Seq(S),
           NEW i \in 1..Len(p), NEW j \in 1..(Len(v) + 1), NEW l \in 1..(Len(v) + 1),
           Covers(p, v, i + 1, l), PieceFits(p[i], v, j, l)
    PROVE  Covers(p, v, i, j)
  <1>1. PICK cut \in Cuts(p, v) : CutAt(p, v, i + 1, l, cut)
    BY DEF Covers
  <1> DEFINE new == [cut EXCEPT ![i] = j]
  <1>2. Len(p) \in Nat /\ Len(v) \in Nat
    OBVIOUS
  <1>3. new \in Cuts(p, v)
    BY <1>2 DEF Cuts
  <1>4. new[i] = j /\ \A k \in (i + 1)..(Len(p) + 1) : new[k] = cut[k]
    BY <1>2 DEF Cuts
  <1>5. cut[i + 1] = l /\ cut[Len(p) + 1] = Len(v) + 1
    BY <1>1 DEF CutAt
  <1> HIDE DEF new
  <1>6. ASSUME NEW k \in i..Len(p)
        PROVE  PieceFits(p[k], v, new[k], new[k + 1])
    <2>1. CASE k = i
      <3>1. new[k + 1] = l
        BY <1>2, <1>4, <1>5, <2>1
      <3> QED
        BY <1>4, <2>1, <3>1
    <2>2. CASE k # i
      <3>1. k \in (i + 1)..Len(p)
        BY <1>2, <2>2
      <3>2. new[k] = cut[k] /\ new[k + 1] = cut[k + 1]
        BY <1>2, <1>4, <3>1
      <3>3. PieceFits(p[k], v, cut[k], cut[k + 1])
        BY <1>1, <3>1 DEF CutAt
      <3> QED
        BY <3>2, <3>3
    <2> QED
      BY <2>1, <2>2
  <1>7. new[Len(p) + 1] = Len(v) + 1
    BY <1>2, <1>4, <1>5
  <1>8. CutAt(p, v, i, j, new)
    BY <1>4, <1>6, <1>7 DEF CutAt
  <1> QED
    BY <1>3, <1>8 DEF Covers

\* A cut is a piece and a cut of the rest of the pattern.
LEMMA CoversRest ==
    ASSUME NEW S, NEW p \in Seq(S), NEW v \in Seq(S),
           NEW i \in 1..Len(p), NEW j \in 1..(Len(v) + 1), Covers(p, v, i, j)
    PROVE  \E l \in 1..(Len(v) + 1) : Covers(p, v, i + 1, l) /\ PieceFits(p[i], v, j, l)
  <1>1. PICK cut \in Cuts(p, v) : CutAt(p, v, i, j, cut)
    BY DEF Covers
  <1>2. Len(p) \in Nat /\ Len(v) \in Nat
    OBVIOUS
  <1>3. cut[i + 1] \in 1..(Len(v) + 1)
    BY <1>2 DEF Cuts
  <1>4. CutAt(p, v, i + 1, cut[i + 1], cut)
    BY <1>1, <1>2 DEF CutAt
  <1>5. PieceFits(p[i], v, j, cut[i + 1])
    <2>1. i \in i..Len(p)
      BY <1>2
    <2> QED
      BY <1>1, <2>1 DEF CutAt
  <1> QED
    BY <1>3, <1>4, <1>5 DEF Covers

\* The end of the pattern covers the end of the value, and nothing else.
LEMMA CoversEnd ==
    ASSUME NEW S, NEW p \in Seq(S), NEW v \in Seq(S), NEW j \in 1..(Len(v) + 1)
    PROVE  Covers(p, v, Len(p) + 1, j) <=> j > Len(v)
  <1>1. Len(p) \in Nat /\ Len(v) \in Nat
    OBVIOUS
  <1>2. ASSUME j > Len(v) PROVE Covers(p, v, Len(p) + 1, j)
    <2> DEFINE cut == [k \in 1..(Len(p) + 1) |-> Len(v) + 1]
    <2>1. cut \in Cuts(p, v)
      BY <1>1 DEF Cuts
    <2>2. CutAt(p, v, Len(p) + 1, j, cut)
      BY <1>1, <1>2 DEF CutAt
    <2> QED
      BY <2>1, <2>2 DEF Covers
  <1>3. ASSUME Covers(p, v, Len(p) + 1, j) PROVE j > Len(v)
    BY <1>1, <1>3 DEF Covers, CutAt
  <1> QED
    BY <1>2, <1>3

\* The meaning of patterns solves the equations of matchSegs.
LEMMA CoveringIsMatch ==
    ASSUME NEW S, NEW p \in Seq(S), NEW v \in Seq(S)
    PROVE  IsMatch(p, v, Covering(p, v))
  <1> DEFINE f == Covering(p, v)
  <1>1. Len(p) \in Nat /\ Len(v) \in Nat
    OBVIOUS
  <1>2. ASSUME NEW i \in 1..(Len(p) + 1) PROVE f[i] = MatchStep(p, v, f, i)
    <2>1. f[i] = {j \in 1..(Len(v) + 1) : Covers(p, v, i, j)}
      BY DEF Covering
    <2>2. CASE i = Len(p) + 1
      <3>1. MatchStep(p, v, f, i) = {j \in 1..(Len(v) + 1) : j > Len(v)}
        BY <1>1, <2>2 DEF MatchStep
      <3> QED
        BY <2>1, <2>2, <3>1, CoversEnd
    <2>3. CASE i # Len(p) + 1
      <3>1. i \in 1..Len(p) /\ i + 1 \in 1..(Len(p) + 1) /\ ~(i > Len(p))
        BY <1>1, <2>3
      <3>2. \A l \in 1..(Len(v) + 1) : l \in f[i + 1] <=> Covers(p, v, i + 1, l)
        BY <3>1 DEF Covering
      <3> HIDE DEF f
      <3>3. ASSUME NEW j \in 1..(Len(v) + 1)
            PROVE  Covers(p, v, i, j)
                     <=> \E l \in 1..(Len(v) + 1) : l \in f[i + 1] /\ PieceFits(p[i], v, j, l)
        BY <3>1, <3>2, CoversFirst, CoversRest
      <3>4. ASSUME NEW j \in 1..(Len(v) + 1)
            PROVE  (\E l \in 1..(Len(v) + 1) : l \in f[i + 1] /\ PieceFits(p[i], v, j, l))
                     <=> j \in MatchStep(p, v, f, i)
        <4>1. CASE p[i] = "**"
          BY <1>1, <3>1, <4>1 DEF MatchStep, PieceFits
        <4>2. CASE p[i] # "**"
          <5>1. j \in MatchStep(p, v, f, i)
                  <=> j <= Len(v) /\ p[i] \in {"*", v[j]} /\ j + 1 \in f[i + 1]
            BY <3>1, <4>2 DEF MatchStep
          <5>2. ASSUME NEW l \in 1..(Len(v) + 1)
                PROVE  PieceFits(p[i], v, j, l) <=> l = j + 1 /\ p[i] \in {"*", v[j]}
            BY <4>2 DEF PieceFits
          <5> QED
            BY <1>1, <5>1, <5>2
        <4> QED
          BY <4>1, <4>2
      <3>5. MatchStep(p, v, f, i) \subseteq 1..(Len(v) + 1)
        BY DEF MatchStep
      <3> QED
        BY <2>1, <3>3, <3>4, <3>5
    <2> QED
      BY <2>2, <2>3
  <1>3. f = [i \in 1..(Len(p) + 1) |-> f[i]]
    BY DEF Covering
  <1> HIDE DEF f
  <1> QED
    BY <1>2, <1>3 DEF IsMatch, f

\* The equations of matchSegs have one solution: the last line at which two
\* solutions differ does not exist.
LEMMA OneMatch ==
    ASSUME NEW S, NEW p \in Seq(S), NEW v \in Seq(S), NEW f, NEW g,
           IsMatch(p, v, f), IsMatch(p, v, g)
    PROVE  \A i \in 1..(Len(p) + 1) : f[i] = g[i]
  <1> DEFINE X == {Len(p) + 1 - i : i \in {k \in 1..(Len(p) + 1) : f[k] # g[k]}}
  <1>1. Len(p) \in Nat
    OBVIOUS
  <1>2. SUFFICES ASSUME X # {} PROVE FALSE
    OBVIOUS
  <1>3. X \subseteq Nat
    BY <1>1
  <1>4. PICK x \in X : \A y \in X : x <= y
    BY <1>2, <1>3, LeastNumber
  <1>5. PICK i \in 1..(Len(p) + 1) : x = Len(p) + 1 - i /\ f[i] # g[i]
    BY <1>4
  <1>6. i <= Len(p) => f[i + 1] = g[i + 1]
    <2>1. SUFFICES ASSUME i <= Len(p), f[i + 1] # g[i + 1] PROVE FALSE
      OBVIOUS
    <2>2. i + 1 \in 1..(Len(p) + 1)
      BY <1>1, <2>1
    <2>3. Len(p) + 1 - (i + 1) \in X
      BY <2>1, <2>2
    <2> HIDE DEF X
    <2>4. Len(p) + 1 - i <= Len(p) + 1 - (i + 1)
      BY <1>4, <1>5, <2>3
    <2> QED
      BY <1>1, <2>4
  <1> HIDE DEF X
  <1>7. f[i] = MatchStep(p, v, f, i) /\ g[i] = MatchStep(p, v, g, i)
    BY DEF IsMatch
  <1>8. MatchStep(p, v, f, i) = MatchStep(p, v, g, i)
    BY <1>1, <1>6 DEF MatchStep
  <1> QED
    BY <1>5, <1>7, <1>8

\* matchPathPattern and matchSegs: for patterns and values of any length, the
\* recursion finds a way to cut the value into pieces that fit the segments of
\* the pattern exactly if there is one.
THEOREM PatternsMeanCovers ==
    ASSUME NEW S, NEW p \in Seq(S), NEW v \in Seq(S)
    PROVE  MatchSegs(p, v) <=> PatternCovers(p, v)
  <1> DEFINE match == CHOOSE f : IsMatch(p, v, f)
  <1>1. MatchSegs(p, v) <=> 1 \in match[1]
    BY DEF MatchSegs, IsMatch, MatchStep
  <1>2. IsMatch(p, v, Covering(p, v))
    BY CoveringIsMatch
  <1>3. IsMatch(p, v, match)
    BY <1>2
  <1> HIDE DEF match
  <1>4. 1 \in 1..(Len(p) + 1) /\ 1 \in 1..(Len(v) + 1)
    OBVIOUS
  <1>5. match[1] = Covering(p, v)[1]
    BY <1>2, <1>3, <1>4, OneMatch
  <1>6. 1 \in Covering(p, v)[1] <=> Covers(p, v, 1, 1)
    BY <1>4 DEF Covering
  <1>7. Covers(p, v, 1, 1) <=> PatternCovers(p, v)
    BY DEF Covers, CutAt, Cuts, PatternCovers
  <1> QED
    BY <1>1, <1>5, <1>6, <1>7

-----------------------------------------------------------------------------
(* The publisher's invariant.                                              *)

Posts == [event : Nat, trigger : Versions]

Shape ==
    /\ triggers \in [TriggerNames -> {None} \cup Versions]
    /\ \A n \in TriggerNames : triggers[n] # None => triggers[n].name = n
    /\ channels \subseteq ChannelNames
    /\ changes \in 0..MaxChanges
    /\ pc \in [Handlers -> {"idle", "check", "events", "dispatch", "await", "done"}]
    /\ call \in [Handlers -> {None} \cup Publishes]
    /\ next \in [Handlers -> Nat]
    /\ batch \in [Handlers -> SUBSET Versions]
    /\ gone \in [Handlers -> BOOLEAN]
    /\ reply \in [Handlers -> {"", "OK", "NotFound"}]
    /\ published \in 0..MaxPublishes
    /\ posts \in [Handlers -> Seq(Posts)]
    /\ steady \in [Handlers -> SUBSET Versions]
    /\ lived \in [Handlers -> SUBSET Versions]

Dispatching(h) == pc[h] \in {"dispatch", "await"}

\* Where a handler is in its request.
Progress(h) ==
    /\ call[h] = None => pc[h] = "idle"
    /\ pc[h] \in {"idle", "check"} => next[h] = 1 /\ posts[h] = <<>>
    /\ call[h] # None => next[h] \in 1..(Len(call[h].events) + 1)
    /\ ~Dispatching(h) => batch[h] = {}
    /\ Dispatching(h) =>
          next[h] <= Len(call[h].events) /\ call[h].events[next[h]] # None
    /\ pc[h] = "done" /\ reply[h] = "OK" => next[h] = Len(call[h].events) + 1

\* The posts so far are of events up to the current one.
Numbered(h) ==
    \A i \in DOMAIN posts[h] :
        /\ posts[h][i].event \in 1..next[h]
        /\ posts[h][i].event = next[h] => Dispatching(h)

\* No trigger has two posts of an event, or one and another to come.
Once(h) ==
    /\ \A t, u \in batch[h] : t.name = u.name => t = u
    /\ \A i \in DOMAIN posts[h], t \in batch[h] :
          posts[h][i].event = next[h] => posts[h][i].trigger.name # t.name
    /\ \A i, j \in DOMAIN posts[h] :
          i # j /\ posts[h][i].event = posts[h][j].event
              => posts[h][i].trigger.name # posts[h][j].trigger.name

\* What has been posted, and what is about to be, is wanted.
Meant(h) ==
    /\ Running(h) => Stored \subseteq lived[h]
    /\ batch[h] \subseteq lived[h]
    /\ \A t \in batch[h] : Wants(t, call[h], call[h].events[next[h]])
    /\ \A i \in DOMAIN posts[h] :
          /\ Wants(posts[h][i].trigger, call[h], call[h].events[posts[h][i].event])
          /\ posts[h][i].event = next[h] => posts[h][i].trigger \in lived[h]

HandlerInv(h) == Progress(h) /\ Numbered(h) /\ Once(h) /\ Meant(h)

PublisherInv == Shape /\ \A h \in Handlers : HandlerInv(h)

\* The invariant is at least what the runs check.
LEMMA InvChecked ==
    ASSUME PublisherInv
    PROVE  TypeOK /\ NoStrayPost /\ OnePostPerTrigger
  <1>1. TypeOK
    <2>1. ASSUME NEW h \in Handlers
          PROVE  /\ call[h] \in {None} \cup Publishes
                 /\ next[h] \in 1..(IF call[h] = None THEN 1 ELSE Len(call[h].events) + 1)
                 /\ batch[h] \subseteq Versions
                 /\ gone[h] \in BOOLEAN
                 /\ reply[h] \in {"", "OK", "NotFound"}
      <3>1. Progress(h)
        BY DEF PublisherInv, HandlerInv
      <3>2. next[h] \in 1..(IF call[h] = None THEN 1 ELSE Len(call[h].events) + 1)
        BY <3>1 DEF Progress
      <3> QED
        BY <3>2 DEF PublisherInv, Shape
    <2>2. ASSUME NEW h \in Handlers, NEW i \in DOMAIN posts[h]
          PROVE  posts[h][i] \in [event : 1..next[h], trigger : Versions]
      <3>1. posts[h][i] \in Posts
        <4>1. posts[h] \in Seq(Posts)
          BY DEF PublisherInv, Shape
        <4> QED
          BY <4>1
      <3>2. posts[h][i].event \in 1..next[h]
        BY DEF PublisherInv, HandlerInv, Numbered
      <3> QED
        BY <3>1, <3>2 DEF Posts
    <2> QED
      BY <2>1, <2>2 DEF TypeOK, PublisherInv, Shape
  <1>2. NoStrayPost
    BY DEF NoStrayPost, PublisherInv, HandlerInv, Meant
  <1>3. OnePostPerTrigger
    BY DEF OnePostPerTrigger, PublisherInv, HandlerInv, Once
  <1> QED
    BY <1>1, <1>2, <1>3

\* Every stored version is one.
LEMMA StoredAreVersions ==
    ASSUME Shape
    PROVE  /\ Stored \subseteq Versions
           /\ \A t, u \in Stored : t.name = u.name => t = u
  <1>1. ASSUME NEW t \in Stored
        PROVE  t \in Versions /\ t.name \in TriggerNames /\ t = triggers[t.name]
    <2>1. PICK n \in TriggerNames : triggers[n] # None /\ t = triggers[n]
      BY DEF Stored
    <2>2. triggers[n] \in Versions /\ triggers[n].name = n
      BY <2>1 DEF Shape
    <2> QED
      BY <2>1, <2>2
  <1> QED
    BY <1>1

LEMMA InvInit == Init => PublisherInv
  <1> SUFFICES ASSUME Init PROVE PublisherInv
    OBVIOUS
  <1>1. Shape
    <2>1. 0 \in 0..MaxChanges /\ 0 \in 0..MaxPublishes
      BY BoundsAssumption
    <2>2. <<>> \in Seq(Posts)
      OBVIOUS
    <2>3. posts \in [Handlers -> Seq(Posts)]
      BY <2>2 DEF Init
    <2>4. \A n \in TriggerNames : triggers[n] = None
      BY DEF Init
    <2> QED
      BY <2>1, <2>3, <2>4 DEF Init, Shape
  <1>2. ASSUME NEW h \in Handlers PROVE HandlerInv(h)
    <2>1. /\ pc[h] = "idle" /\ call[h] = None /\ next[h] = 1 /\ batch[h] = {}
          /\ posts[h] = <<>>
      BY DEF Init
    <2>2. DOMAIN posts[h] = {}
      BY <2>1
    <2>3. Progress(h)
      BY <2>1 DEF Progress, Dispatching
    <2>4. Numbered(h) /\ Once(h)
      BY <2>1, <2>2 DEF Numbered, Once
    <2>5. Meant(h)
      BY <2>1, <2>2 DEF Meant, Running
    <2> QED
      BY <2>3, <2>4, <2>5 DEF HandlerInv
  <1> QED
    BY <1>1, <1>2 DEF PublisherInv

\* Create and Update store a new version of the trigger they name.
LEMMA CreatedVersion ==
    ASSUME NEW n \in TriggerNames, NEW s \in Specs, changes \in 0..MaxChanges,
           changes < MaxChanges
    PROVE  /\ Version(n, s) \in Versions
           /\ Version(n, s) # None
           /\ Version(n, s).name = n
  <1>1. changes + 1 \in 1..MaxChanges
    BY BoundsAssumption
  <1>2. s.destination \in Destinations
    BY SpecsAssumption
  <1>3. Version(n, s) \in Versions
    BY <1>1, <1>2 DEF Version, Versions
  <1> QED
    BY <1>3, NoneAssumption DEF Version

LEMMA ChangeKeepsShape ==
    ASSUME Shape, ChangeStorage
    PROVE  Shape'
  <1>1. ASSUME NEW t, NEW c, Change(t, c),
               t \in [TriggerNames -> {None} \cup Versions],
               \A n \in TriggerNames : t[n] # None => t[n].name = n,
               c \subseteq ChannelNames
        PROVE  Shape'
    <2>1. changes' \in 0..MaxChanges
      <3>1. changes \in 0..MaxChanges
        BY DEF Shape
      <3>2. changes < MaxChanges /\ changes' = changes + 1
        BY <1>1 DEF Change
      <3> QED
        BY <3>1, <3>2, BoundsAssumption
    <2>2. /\ triggers' \in [TriggerNames -> {None} \cup Versions]
          /\ \A n \in TriggerNames : triggers'[n] # None => triggers'[n].name = n
      BY <1>1 DEF Change
    <2>3. Stored' \subseteq Versions
      BY <2>2 DEF Stored
    <2>4. /\ steady' \in [Handlers -> SUBSET Versions]
          /\ lived' \in [Handlers -> SUBSET Versions]
      BY <1>1, <2>3 DEF Change, Shape
    <2> QED
      BY <1>1, <2>1, <2>2, <2>4 DEF Change, Shape
  <1>2. ASSUME NEW n \in TriggerNames, NEW s \in Specs,
               Change([triggers EXCEPT ![n] = Version(n, s)], channels)
        PROVE  Shape'
    <2> DEFINE t == [triggers EXCEPT ![n] = Version(n, s)]
    <2>1. changes \in 0..MaxChanges /\ changes < MaxChanges
      BY <1>2 DEF Shape, Change
    <2>2. t \in [TriggerNames -> {None} \cup Versions]
      BY <2>1, CreatedVersion DEF Shape
    <2>3. ASSUME NEW m \in TriggerNames, t[m] # None PROVE t[m].name = m
      BY <2>1, <2>3, CreatedVersion DEF Shape
    <2> HIDE DEF t
    <2> QED
      BY <1>1, <1>2, <2>2, <2>3 DEF Shape, t
  <1>3. ASSUME NEW n \in TriggerNames, DeleteTrigger(n) PROVE Shape'
    <2> DEFINE t == [triggers EXCEPT ![n] = None]
    <2>1. /\ t \in [TriggerNames -> {None} \cup Versions]
          /\ \A m \in TriggerNames : t[m] # None => t[m].name = m
      BY DEF Shape
    <2>2. Change(t, channels)
      BY <1>3 DEF DeleteTrigger
    <2> HIDE DEF t
    <2> QED
      BY <1>1, <2>1, <2>2 DEF Shape
  <1>4. ASSUME NEW c \in ChannelNames, CreateChannel(c) \/ DeleteChannel(c) PROVE Shape'
    <2>1. /\ triggers \in [TriggerNames -> {None} \cup Versions]
          /\ \A n \in TriggerNames : triggers[n] # None => triggers[n].name = n
          /\ channels \subseteq ChannelNames
      BY DEF Shape
    <2>2. Change(triggers, channels \cup {c}) \/ Change(triggers, channels \ {c})
      BY <1>4 DEF CreateChannel, DeleteChannel
    <2>3. channels \cup {c} \subseteq ChannelNames /\ channels \ {c} \subseteq ChannelNames
      BY <2>1
    <2> QED
      BY <1>1, <2>1, <2>2, <2>3
  <1> QED
    BY <1>2, <1>3, <1>4 DEF ChangeStorage, CreateTrigger, UpdateTrigger

\* What a publish does to its own variables is well typed.
LEMMA HandlersKeepShape ==
    ASSUME Shape, NEW h \in Handlers,
           Publish(h) \/ Run(h) \/ Respond(h) \/ ClientLeaves(h)
    PROVE  Shape'
  <1>0. Stored \subseteq Versions
    BY StoredAreVersions
  <1>1. CASE Publish(h)
    <2>1. /\ steady' \in [Handlers -> SUBSET Versions]
          /\ lived' \in [Handlers -> SUBSET Versions]
          /\ batch' \in [Handlers -> SUBSET Versions]
      BY <1>0, <1>1 DEF Publish, Shape
    <2>2. posts' \in [Handlers -> Seq(Posts)]
      <3>1. posts \in [Handlers -> Seq(Posts)]
        BY DEF Shape
      <3>2. <<>> \in Seq(Posts)
        OBVIOUS
      <3> QED
        BY <1>1, <3>1, <3>2 DEF Publish
    <2>3. published' \in 0..MaxPublishes
      <3>1. published \in 0..MaxPublishes
        BY DEF Shape
      <3>2. published < MaxPublishes /\ published' = published + 1
        BY <1>1 DEF Publish
      <3> QED
        BY <3>1, <3>2, BoundsAssumption
    <2>4. call' \in [Handlers -> {None} \cup Publishes]
      BY <1>1 DEF Publish, Shape
    <2>5. pc' \in [Handlers -> {"idle", "check", "events", "dispatch", "await", "done"}]
      BY <1>1 DEF Publish, Goto, Shape
    <2> QED
      BY <1>1, <2>1, <2>2, <2>3, <2>4, <2>5 DEF Publish, storage, Shape
  <1>2. CASE CheckChannel(h)
    BY <1>2 DEF CheckChannel, Goto, Return, storage, Shape
  <1>3. ASSUME NextEvent(h), pc' = [pc EXCEPT ![h] = "events"] PROVE Shape'
    <2>1. lived' \in [Handlers -> SUBSET Versions]
      BY <1>0, <1>3 DEF NextEvent, Shape
    <2>2. next' \in [Handlers -> Nat]
      <3>1. next \in [Handlers -> Nat]
        BY DEF Shape
      <3> QED
        BY <1>3, <3>1 DEF NextEvent, Advance
    <2> QED
      BY <1>3, <2>1, <2>2 DEF NextEvent, storage, Shape
  <1>4. CASE Match(h)
    <2>1. batch' \in [Handlers -> SUBSET Versions]
      BY <1>0, <1>4 DEF Match, ListAllTriggers, Shape
    <2> QED
      BY <1>4, <2>1 DEF Match, Goto, storage, Shape
  <1>5. CASE DispatchFails(h)
    <2>1. batch' \in [Handlers -> SUBSET Versions]
      <3>1. batch \in [Handlers -> SUBSET Versions]
        BY DEF Shape
      <3>2. PICK t \in batch[h] : batch' = [batch EXCEPT ![h] = batch[h] \ {t}]
        BY <1>5 DEF DispatchFails
      <3>3. batch[h] \ {t} \in SUBSET Versions
        BY <3>1
      <3> QED
        BY <3>1, <3>2, <3>3
    <2> QED
      BY <1>5, <2>1 DEF DispatchFails, storage, Shape
  <1>6. CASE Post(h)
    <2>1. PICK t \in batch[h] :
             /\ posts' = [posts EXCEPT ![h] =
                             Append(posts[h], [event |-> next[h], trigger |-> t])]
             /\ batch' = [batch EXCEPT ![h] = Rest(h, t)]
      BY <1>6 DEF Post
    <2>2. [event |-> next[h], trigger |-> t] \in Posts
      BY DEF Posts, Shape
    <2>3. posts \in [Handlers -> Seq(Posts)]
      BY DEF Shape
    <2> DEFINE new == Append(posts[h], [event |-> next[h], trigger |-> t])
    <2>7. new \in Seq(Posts)
      BY <2>2, <2>3
    <2>4. posts' \in [Handlers -> Seq(Posts)]
      <3>1. posts' = [posts EXCEPT ![h] = new]
        BY <2>1
      <3> HIDE DEF new
      <3> QED
        BY <2>3, <2>7, <3>1
    <2>5. batch' \in [Handlers -> SUBSET Versions]
      BY <2>1 DEF Rest, Shape
    <2> QED
      BY <1>6, <2>4, <2>5 DEF Post, Goto, storage, Shape
  <1>7. CASE GiveUp(h)
    BY <1>7 DEF GiveUp, LogError, Goto, storage, Shape
  <1>8. CASE Finish(h)
    BY <1>8 DEF Finish, Return, Goto, storage, Shape
  <1>9. CASE Respond(h)
    BY <1>9 DEF Respond, Goto, storage, Shape
  <1>10. CASE ClientLeaves(h)
    BY <1>10 DEF ClientLeaves, storage, Shape
  <1>11. CASE SkipEvent(h) \/ Dispatched(h)
    BY <1>3, <1>11 DEF SkipEvent, Dispatched, NextEvent, Goto
  <1> QED
    BY <1>1, <1>2, <1>4, <1>5, <1>6, <1>7, <1>8, <1>9, <1>10, <1>11 DEF Run

\* A handler that does nothing keeps its invariant.
Kept(h) ==
    /\ pc'[h] = pc[h] /\ call'[h] = call[h] /\ next'[h] = next[h]
    /\ batch'[h] = batch[h] /\ reply'[h] = reply[h] /\ posts'[h] = posts[h]

LEMMA IdleKeeps ==
    ASSUME NEW h \in Handlers, HandlerInv(h), Kept(h), lived[h] \subseteq lived'[h],
           Running(h) => Stored' \subseteq lived'[h]
    PROVE  HandlerInv(h)'
  <1>1. Progress(h)'
    BY DEF Kept, HandlerInv, Progress, Dispatching
  <1>2. Numbered(h)' /\ Once(h)'
    BY DEF Kept, HandlerInv, Numbered, Once, Dispatching
  <1>3. Meant(h)'
    BY DEF Kept, HandlerInv, Meant, Running
  <1> QED
    BY <1>1, <1>2, <1>3 DEF HandlerInv

\* The publishes go on after a change of the storage.
LEMMA ChangeKeepsHandlers ==
    ASSUME Shape, ChangeStorage, NEW h \in Handlers, HandlerInv(h)
    PROVE  HandlerInv(h)'
  <1>1. PICK t, c : Change(t, c)
    BY DEF ChangeStorage, CreateTrigger, UpdateTrigger, DeleteTrigger, CreateChannel,
           DeleteChannel
  <1>2. Kept(h)
    BY <1>1 DEF Change, Kept
  <1>3. lived'[h] = IF Running(h) THEN lived[h] \cup Stored' ELSE lived[h]
    BY <1>1 DEF Change
  <1> QED
    BY <1>2, <1>3, IdleKeeps

\* A step of one handler is none of another.
LEMMA OthersAreKept ==
    ASSUME Shape, NEW h \in Handlers, NEW k \in Handlers, h # k,
           Publish(h) \/ Run(h) \/ Respond(h) \/ ClientLeaves(h)
    PROVE  /\ Kept(k) /\ lived'[k] = lived[k]
           /\ gone'[k] = gone[k] /\ steady'[k] = steady[k]
           /\ UNCHANGED storage
  <1> DEFINE Others == /\ Kept(k) /\ lived'[k] = lived[k]
                       /\ gone'[k] = gone[k] /\ steady'[k] = steady[k]
                       /\ UNCHANGED storage
  <1>0. /\ DOMAIN pc = Handlers /\ DOMAIN call = Handlers /\ DOMAIN next = Handlers
        /\ DOMAIN batch = Handlers /\ DOMAIN gone = Handlers /\ DOMAIN reply = Handlers
        /\ DOMAIN posts = Handlers /\ DOMAIN steady = Handlers /\ DOMAIN lived = Handlers
    BY DEF Shape
  <1>1. CASE Publish(h)
    BY <1>0, <1>1 DEF Kept, Publish, Goto
  <1>2. CASE CheckChannel(h)
    BY <1>0, <1>2 DEF Kept, CheckChannel, Goto, Return
  <1>3. CASE SkipEvent(h) \/ Dispatched(h)
    BY <1>0, <1>3 DEF Kept, SkipEvent, Dispatched, NextEvent, Advance, Goto
  <1>4. CASE Match(h)
    BY <1>0, <1>4 DEF Kept, Match, Goto
  <1>5. CASE DispatchFails(h)
    BY <1>0, <1>5 DEF Kept, DispatchFails
  <1>6. CASE Post(h)
    BY <1>0, <1>6 DEF Kept, Post, Goto
  <1>7. CASE GiveUp(h) \/ Respond(h)
    BY <1>0, <1>7 DEF Kept, GiveUp, LogError, Respond, Goto
  <1>8. CASE Finish(h)
    BY <1>0, <1>8 DEF Kept, Finish, Return, Goto
  <1>9. CASE ClientLeaves(h)
    BY <1>0, <1>9 DEF Kept, ClientLeaves
  <1> HIDE DEF Others
  <1> QED
    BY <1>1, <1>2, <1>3, <1>4, <1>5, <1>6, <1>7, <1>8, <1>9 DEF Run, Others

LEMMA OthersKeep ==
    ASSUME Shape, NEW h \in Handlers, NEW k \in Handlers, h # k, HandlerInv(k),
           Publish(h) \/ Run(h) \/ Respond(h) \/ ClientLeaves(h)
    PROVE  HandlerInv(k)'
  <1>1. Kept(k) /\ lived'[k] = lived[k] /\ UNCHANGED storage
    BY OthersAreKept
  <1>2. Stored' = Stored
    BY <1>1 DEF storage, Stored
  <1>3. Running(k) => Stored \subseteq lived[k]
    BY DEF HandlerInv, Meant
  <1> QED
    BY <1>1, <1>2, <1>3, IdleKeeps

LEMMA PublishKeeps ==
    ASSUME Shape, NEW h \in Handlers, Publish(h)
    PROVE  HandlerInv(h)'
  <1>1. PICK r \in Publishes : call'[h] = r
    BY DEF Publish, Shape
  <1>2. /\ pc'[h] \in {"check", "events"} /\ next'[h] = 1 /\ batch'[h] = {}
        /\ posts'[h] = <<>> /\ lived'[h] = Stored /\ Stored' = Stored
    <2>1. pc'[h] \in {"check", "events"}
      BY DEF Publish, Goto, Shape
    <2>2. posts'[h] = <<>>
      BY DEF Publish, Shape
    <2>3. next'[h] = 1 /\ batch'[h] = {} /\ lived'[h] = Stored
      BY DEF Publish, Shape
    <2>4. Stored' = Stored
      BY DEF Publish, storage, Stored
    <2> QED
      BY <2>1, <2>2, <2>3, <2>4
  <1>3. DOMAIN posts'[h] = {}
    BY <1>2
  <1>4. r # None /\ Len(r.events) \in Nat
    BY PublishesAssumption, NoneAssumption
  <1>5. Progress(h)'
    BY <1>1, <1>2, <1>4 DEF Progress, Dispatching
  <1>6. Numbered(h)' /\ Once(h)'
    BY <1>2, <1>3 DEF Numbered, Once
  <1>7. Meant(h)'
    BY <1>2, <1>3 DEF Meant, Running
  <1> QED
    BY <1>5, <1>6, <1>7 DEF HandlerInv

\* A publish that has begun has a request with a sequence of events.
LEMMA RunningCall ==
    ASSUME Shape, NEW h \in Handlers, HandlerInv(h), pc[h] # "idle"
    PROVE  /\ call[h] \in Publishes
           /\ call[h] # None
           /\ Len(call[h].events) \in Nat
           /\ DOMAIN call[h].events = 1..Len(call[h].events)
           /\ next[h] \in 1..(Len(call[h].events) + 1)
           /\ next[h] \in Nat
  <1>1. call[h] \in Publishes /\ call[h] # None
    BY DEF Shape, HandlerInv, Progress
  <1>2. Len(call[h].events) \in Nat /\ DOMAIN call[h].events = 1..Len(call[h].events)
    BY <1>1, PublishesAssumption
  <1> QED
    BY <1>1, <1>2 DEF Shape, HandlerInv, Progress

LEMMA CheckChannelKeeps ==
    ASSUME Shape, NEW h \in Handlers, HandlerInv(h), CheckChannel(h)
    PROVE  HandlerInv(h)'
  <1>1. /\ pc[h] = "check" /\ call'[h] = call[h] /\ next'[h] = next[h]
        /\ batch'[h] = batch[h] /\ posts'[h] = posts[h] /\ lived'[h] = lived[h]
        /\ Stored' = Stored
    BY DEF CheckChannel, storage, Stored
  <1>2. pc'[h] = "events" \/ (pc'[h] = "done" /\ reply'[h] = "NotFound")
    BY DEF CheckChannel, Goto, Return, Shape
  <1>3. posts[h] = <<>> /\ DOMAIN posts[h] = {} /\ batch[h] = {}
    BY <1>1 DEF HandlerInv, Progress, Dispatching
  <1>4. Progress(h)'
    BY <1>1, <1>2, <1>3, RunningCall DEF HandlerInv, Progress, Dispatching
  <1>5. Numbered(h)' /\ Once(h)'
    BY <1>1, <1>3 DEF Numbered, Once
  <1>6. Meant(h)'
    BY <1>1, <1>2, <1>3 DEF HandlerInv, Meant, Running
  <1> QED
    BY <1>4, <1>5, <1>6 DEF HandlerInv

\* SkipEvent and Dispatched: the loop turns to the next event.
LEMMA NextEventKeeps ==
    ASSUME Shape, NEW h \in Handlers, HandlerInv(h), NextEvent(h), pc[h] # "idle",
           next[h] <= Len(call[h].events), batch[h] = {}
    PROVE  HandlerInv(h)'
  <1>1. /\ call'[h] = call[h] /\ next'[h] = next[h] + 1 /\ pc'[h] = "events"
        /\ batch'[h] = {} /\ posts'[h] = posts[h] /\ lived'[h] = Stored
        /\ Stored' = Stored
    BY DEF NextEvent, Advance, Goto, Shape, storage, Stored
  <1>2. ASSUME NEW i \in DOMAIN posts[h]
        PROVE  posts[h][i].event \in 1..next'[h] /\ posts[h][i].event # next'[h]
    <2>1. posts[h][i].event \in 1..next[h]
      BY DEF HandlerInv, Numbered
    <2> QED
      BY <1>1, <2>1, RunningCall
  <1>3. Progress(h)'
    BY <1>1, RunningCall DEF HandlerInv, Progress, Dispatching
  <1>4. Numbered(h)'
    BY <1>1, <1>2 DEF Numbered
  <1>5. Once(h)'
    BY <1>1 DEF HandlerInv, Once
  <1>6. Meant(h)'
    BY <1>1, <1>2 DEF HandlerInv, Meant
  <1> QED
    BY <1>3, <1>4, <1>5, <1>6 DEF HandlerInv

-----------------------------------------------------------------------------
(* Which triggers a publish is for.                                        *)

\* The parent that a publish derives from its source is a prefix of it.
LEMMA ParentFirst ==
    ASSUME NEW r \in Publishes
    PROVE  /\ Len(Parent(r)) \in Nat /\ Len(Parent(r)) > 0
           /\ Parent(r)[1] = r.source[1]
  <1>1. r.source \in Seq(STRING) /\ Len(r.source) > 0
    BY PublishesAssumption DEF IsName
  <1>2. ASSUME NEW c
        PROVE  LET parent == Before(r.source, c)
               IN  Len(parent) \in Nat /\ Len(parent) > 0 /\ parent[1] = r.source[1]
    <2> DEFINE cuts == {i \in 2..(Len(r.source) - 1) : r.source[i] = c}
               X == {Len(r.source) - i : i \in cuts}
               last == CHOOSE i \in cuts : \A j \in cuts : j <= i
    <2>1. CASE cuts = {}
      BY <1>1, <2>1 DEF Before
    <2>2. CASE cuts # {}
      <3>1. X \subseteq Nat /\ X # {}
        <4>1. Len(r.source) \in Nat
          BY <1>1
        <4>2. X \subseteq Nat
          BY <4>1
        <4>3. PICK i \in cuts : TRUE
          BY <2>2
        <4>4. Len(r.source) - i \in X
          OBVIOUS
        <4> QED
          BY <4>2, <4>4
      <3>2. PICK x \in X : \A y \in X : x <= y
        BY <3>1, LeastNumber
      <3>3. \E i \in cuts : \A j \in cuts : j <= i
        <4>1. PICK i \in cuts : x = Len(r.source) - i
          BY <3>2
        <4>2. ASSUME NEW j \in cuts PROVE j <= i
          <5>1. Len(r.source) - j \in X
            OBVIOUS
          <5>2. Len(r.source) - i <= Len(r.source) - j
            BY <3>2, <4>1, <5>1
          <5> QED
            BY <1>1, <5>2
        <4> QED
          BY <4>2
      <3>4. last \in cuts
        BY <3>3
      <3>5. Before(r.source, c) = SubSeq(r.source, 1, last - 1)
        BY <2>2 DEF Before
      <3>6. last \in 2..(Len(r.source) - 1)
        BY <3>4
      <3> HIDE DEF last
      <3> QED
        BY <1>1, <3>5, <3>6
    <2> QED
      BY <2>1, <2>2
  <1> QED
    BY <1>2 DEF Parent, ParentFromChannel, ParentFromChannelConnection

\* A trigger listed under a publish's parent is in the location of its source.
LEMMA UnderIsThere ==
    ASSUME NEW n \in TriggerNames, NEW r \in Publishes, Under(n, Parent(r), "triggers")
    PROVE  n[1] = r.source[1]
  <1> DEFINE p == Parent(r)
  <1>1. Len(p) \in Nat /\ Len(p) > 0 /\ p[1] = r.source[1]
    BY ParentFirst
  <1>2. SubSeq(n, 1, Len(p) + 1) = Append(p, "triggers") /\ Len(n) > Len(p) + 1
    BY DEF Under
  <1>3. n \in Seq(STRING)
    BY NamesAssumption
  <1>4. SubSeq(n, 1, Len(p) + 1)[1] = n[1]
    BY <1>1, <1>2, <1>3
  <1>5. Append(p, "triggers")[1] = p[1]
    BY <1>1
  <1> QED
    BY <1>1, <1>2, <1>4, <1>5

LEMMA SegmentsOrEmpty == Seq(STRING) \subseteq Seq(STRING \cup {""})
  BY SeqMonotonic

\* An attribute that can be read is a sequence of segments.
LEMMA AttrSegments ==
    ASSUME NEW r \in Publishes, NEW i \in DOMAIN r.events, r.events[i] # None, NEW a
    PROVE  AttrValue(r.events[i], a) \in Seq(STRING \cup {""})
  <1>1. CASE a \in DOMAIN r.events[i]
    <2>1. r.events[i][a] \in Seq(STRING)
      BY <1>1, PublishesAssumption
    <2> QED
      BY <1>1, <2>1, SegmentsOrEmpty DEF AttrValue
  <1>2. CASE a \notin DOMAIN r.events[i]
    BY <1>2 DEF AttrValue, EmptyValue
  <1> QED
    BY <1>1, <1>2

\* What matching computes is what a trigger asks for, apart from its location.
LEMMA MatchesWants ==
    ASSUME NEW t \in Versions, NEW r \in Publishes, NEW i \in DOMAIN r.events,
           r.events[i] # None
    PROVE  TriggerMatches(t, r.events[i]) /\ t.name[1] = r.source[1]
             <=> Wants(t, r, r.events[i])
  <1> DEFINE e == r.events[i]
  <1>1. ASSUME NEW f \in t.filters
        PROVE  MatchSegs(f.value, AttrValue(e, f.attribute))
                 <=> PatternCovers(f.value, AttrValue(e, f.attribute))
    <2>1. AttrValue(e, f.attribute) \in Seq(STRING \cup {""})
      BY AttrSegments
    <2>2. PICK s \in Specs : t.filters = s.filters
      BY DEF Versions
    <2>3. f.value \in Seq(STRING)
      BY <2>2, SpecsAssumption
    <2>4. f.value \in Seq(STRING \cup {""})
      BY <2>3, SegmentsOrEmpty
    <2> QED
      BY <2>1, <2>4, PatternsMeanCovers
  <1> HIDE DEF e
  <1>2. (\A f \in t.filters : FilterMatches(f, e))
          <=> \A f \in t.filters : IF f.operator \in PathOperators
                                   THEN PatternCovers(f.value, AttrValue(e, f.attribute))
                                   ELSE f.value = AttrValue(e, f.attribute)
    BY <1>1 DEF FilterMatches
  <1>3. ASSUME NEW c \in t.condition
        PROVE  ConditionHolds(c, e) <=> ConditionMet(c, e)
    BY DEF ConditionHolds, Declared, ConditionMet, Extensions
  <1> QED
    BY <1>2, <1>3 DEF TriggerMatches, Wants, e

-----------------------------------------------------------------------------
(* The invariant is inductive.                                             *)

LEMMA MatchKeeps ==
    ASSUME Shape, NEW h \in Handlers, HandlerInv(h), Match(h)
    PROVE  HandlerInv(h)'
  <1> DEFINE r == call[h]
             e == call[h].events[next[h]]
  <1>1. /\ pc[h] = "events" /\ next[h] <= Len(r.events) /\ e # None
        /\ call'[h] = call[h] /\ next'[h] = next[h] /\ pc'[h] = "dispatch"
        /\ posts'[h] = posts[h] /\ lived'[h] = lived[h] /\ reply'[h] = reply[h]
        /\ Stored' = Stored
        /\ batch'[h] = {t \in ListAllTriggers(Parent(r)) : TriggerMatches(t, e)}
    <2>1. /\ pc[h] = "events" /\ next[h] <= Len(r.events) /\ e # None
          /\ UNCHANGED <<storage, call, next, posts, lived, reply>>
      BY DEF Match
    <2>2. pc'[h] = "dispatch"
      BY DEF Match, Goto, Shape
    <2>3. batch'[h] = {t \in ListAllTriggers(Parent(r)) : TriggerMatches(t, e)}
      BY DEF Match, Shape
    <2>4. Stored' = Stored
      BY <2>1 DEF storage, Stored
    <2> QED
      BY <2>1, <2>2, <2>3, <2>4
  <1>2. r \in Publishes /\ next[h] \in DOMAIN r.events
    BY <1>1, RunningCall
  <1>3. ASSUME NEW t \in batch'[h]
        PROVE  t \in Stored /\ Wants(t, r, e)
    <2>1. t \in Stored /\ Under(t.name, Parent(r), "triggers") /\ TriggerMatches(t, e)
      BY <1>1 DEF ListAllTriggers
    <2>2. t \in Versions /\ t.name \in TriggerNames
      BY <2>1, StoredAreVersions DEF Versions
    <2>3. t.name[1] = r.source[1]
      BY <1>2, <2>1, <2>2, UnderIsThere
    <2> QED
      BY <1>1, <1>2, <2>1, <2>2, <2>3, MatchesWants
  <1>4. ASSUME NEW i \in DOMAIN posts[h] PROVE posts[h][i].event # next[h]
    BY <1>1 DEF HandlerInv, Numbered, Dispatching
  <1>5. Progress(h)'
    BY <1>1, RunningCall DEF HandlerInv, Progress, Dispatching
  <1>6. Numbered(h)'
    BY <1>1, <1>4 DEF HandlerInv, Numbered
  <1>7. Once(h)'
    BY <1>1, <1>3, <1>4, StoredAreVersions DEF HandlerInv, Once
  <1>8. Meant(h)'
    BY <1>1, <1>3, <1>4 DEF HandlerInv, Meant, Running
  <1> QED
    BY <1>5, <1>6, <1>7, <1>8 DEF HandlerInv

\* Steps of a dispatch that post nothing, and steps outside of one that change
\* nothing but the label, the reply and the client.
LEMMA QuietKeeps ==
    ASSUME Shape, NEW h \in Handlers, HandlerInv(h), UNCHANGED storage,
           call'[h] = call[h], next'[h] = next[h], batch'[h] \subseteq batch[h],
           posts'[h] = posts[h], lived'[h] = lived[h],
           \/ pc'[h] = pc[h] /\ reply'[h] = reply[h]
           \/ Dispatching(h) /\ Dispatching(h)'
           \/ /\ pc[h] = "events" /\ next[h] = Len(call[h].events) + 1
              /\ pc'[h] = "done"
    PROVE  HandlerInv(h)'
  <1>1. Dispatching(h)' <=> Dispatching(h)
    BY DEF Dispatching
  <1>2. Progress(h)'
    <2>1. CASE pc'[h] = pc[h] /\ reply'[h] = reply[h]
      BY <1>1, <2>1 DEF HandlerInv, Progress
    <2>2. CASE pc'[h] # pc[h] \/ reply'[h] # reply[h]
      <3>1. /\ pc[h] # "idle" /\ pc'[h] \notin {"idle", "check"}
            /\ pc'[h] = "done" => next[h] = Len(call[h].events) + 1
        BY <2>2 DEF Dispatching
      <3> QED
        BY <1>1, <3>1, RunningCall DEF HandlerInv, Progress
    <2> QED
      BY <2>1, <2>2
  <1>3. Numbered(h)' /\ Once(h)'
    BY <1>1 DEF HandlerInv, Numbered, Once
  <1>4. Meant(h)'
    <2>1. Stored' = Stored
      BY DEF storage, Stored
    <2>2. Running(h)' => Running(h)
      BY DEF Running, Dispatching
    <2> QED
      BY <2>1, <2>2 DEF HandlerInv, Meant
  <1> QED
    BY <1>2, <1>3, <1>4 DEF HandlerInv

LEMMA PostKeeps ==
    ASSUME Shape, NEW h \in Handlers, HandlerInv(h), Post(h)
    PROVE  HandlerInv(h)'
  <1>1. PICK t \in batch[h] :
           /\ posts'[h] = Append(posts[h], [event |-> next[h], trigger |-> t])
           /\ batch'[h] = batch[h] \ {t}
    BY DEF Post, Rest, Shape
  <1>2. /\ pc[h] = "dispatch" /\ pc'[h] = "await" /\ call'[h] = call[h]
        /\ next'[h] = next[h] /\ lived'[h] = lived[h] /\ reply'[h] = reply[h]
        /\ Stored' = Stored
    <2>1. pc[h] = "dispatch" /\ pc'[h] = "await"
      BY DEF Post, Goto, Shape
    <2>2. UNCHANGED <<storage, call, next, reply, lived>>
      BY DEF Post
    <2> QED
      BY <2>1, <2>2 DEF storage, Stored
  <1> DEFINE p == [event |-> next[h], trigger |-> t]
             n == Len(posts[h])
  <1>3. /\ p.event = next[h] /\ p.trigger = t
        /\ DOMAIN posts[h] = 1..n /\ n \in Nat
        /\ DOMAIN posts'[h] = 1..(n + 1)
        /\ posts'[h][n + 1] = p
        /\ \A i \in 1..n : posts'[h][i] = posts[h][i]
    <2>1. posts[h] \in Seq(Posts)
      BY DEF Shape
    <2>2. p \in Posts
      BY DEF Posts, Shape
    <2> HIDE DEF p
    <2>3. posts'[h] = Append(posts[h], p)
      BY <1>1 DEF p
    <2>4. /\ DOMAIN posts[h] = 1..n /\ n \in Nat
          /\ DOMAIN posts'[h] = 1..(n + 1)
          /\ posts'[h][n + 1] = p
          /\ \A i \in 1..n : posts'[h][i] = posts[h][i]
      BY <2>1, <2>2, <2>3, AppendProperties, LenProperties
    <2> QED
      BY <2>4 DEF p
  <1> HIDE DEF p, n
  <1>4. \A i \in DOMAIN posts'[h] :
           \/ i \in DOMAIN posts[h] /\ posts'[h][i] = posts[h][i]
           \/ i = n + 1 /\ posts'[h][i] = p
    BY <1>3
  <1>5. next[h] \in 1..next[h]
    BY <1>2, RunningCall
  <1>6. Progress(h)'
    BY <1>1, <1>2, RunningCall DEF HandlerInv, Progress, Dispatching
  <1>7. Numbered(h)'
    BY <1>2, <1>3, <1>4, <1>5 DEF HandlerInv, Numbered, Dispatching
  <1>8. Once(h)'
    <2>1. \A u, w \in batch'[h] : u.name = w.name => u = w
      BY <1>1 DEF HandlerInv, Once
    <2>2. ASSUME NEW i \in DOMAIN posts'[h], NEW u \in batch'[h],
                 posts'[h][i].event = next'[h]
          PROVE  posts'[h][i].trigger.name # u.name
      BY <1>1, <1>2, <1>3, <1>4, <2>2 DEF HandlerInv, Once
    <2>3. ASSUME NEW i \in DOMAIN posts'[h], NEW j \in DOMAIN posts'[h], i # j,
                 posts'[h][i].event = posts'[h][j].event
          PROVE  posts'[h][i].trigger.name # posts'[h][j].trigger.name
      <3>1. ASSUME NEW k \in DOMAIN posts[h], posts[h][k].event = next[h]
            PROVE  posts[h][k].trigger.name # t.name
        BY <3>1 DEF HandlerInv, Once
      <3>2. CASE i = n + 1
        BY <1>3, <1>4, <2>3, <3>1, <3>2
      <3>3. CASE j = n + 1
        BY <1>3, <1>4, <2>3, <3>1, <3>3
      <3>4. CASE i # n + 1 /\ j # n + 1
        BY <1>4, <2>3, <3>4 DEF HandlerInv, Once
      <3> QED
        BY <3>2, <3>3, <3>4
    <2> QED
      BY <2>1, <2>2, <2>3 DEF Once
  <1>9. Meant(h)'
    <2>1. ASSUME NEW i \in DOMAIN posts'[h]
          PROVE  /\ Wants(posts'[h][i].trigger, call'[h],
                          call'[h].events[posts'[h][i].event])
                 /\ posts'[h][i].event = next'[h] => posts'[h][i].trigger \in lived'[h]
      BY <1>1, <1>2, <1>3, <1>4 DEF HandlerInv, Meant
    <2>2. /\ Running(h)' => Stored' \subseteq lived'[h]
          /\ batch'[h] \subseteq lived'[h]
          /\ \A u \in batch'[h] : Wants(u, call'[h], call'[h].events[next'[h]])
      BY <1>1, <1>2 DEF HandlerInv, Meant, Running
    <2> QED
      BY <2>1, <2>2 DEF Meant
  <1> QED
    BY <1>6, <1>7, <1>8, <1>9 DEF HandlerInv

LEMMA OwnStepKeeps ==
    ASSUME Shape, NEW h \in Handlers, HandlerInv(h),
           Publish(h) \/ Run(h) \/ Respond(h) \/ ClientLeaves(h)
    PROVE  HandlerInv(h)'
  <1>1. CASE Publish(h)
    BY <1>1, PublishKeeps
  <1>2. CASE CheckChannel(h)
    BY <1>2, CheckChannelKeeps
  <1>3. CASE SkipEvent(h)
    <2>1. NextEvent(h) /\ pc[h] # "idle" /\ next[h] <= Len(call[h].events) /\ batch[h] = {}
      BY <1>3 DEF SkipEvent, HandlerInv, Progress, Dispatching
    <2> QED
      BY <2>1, NextEventKeeps
  <1>4. CASE Match(h)
    BY <1>4, MatchKeeps
  <1>5. CASE DispatchFails(h)
    <2>1. PICK t \in batch[h] : batch' = [batch EXCEPT ![h] = batch[h] \ {t}]
      BY <1>5 DEF DispatchFails
    <2>2. batch'[h] \subseteq batch[h]
      BY <2>1 DEF Shape
    <2>3. UNCHANGED <<storage, pc, call, next, reply, posts, lived>>
      BY <1>5 DEF DispatchFails
    <2> QED
      BY <2>2, <2>3, QuietKeeps DEF Shape
  <1>6. CASE Post(h)
    BY <1>6, PostKeeps
  <1>7. CASE GiveUp(h)
    BY <1>7, QuietKeeps DEF GiveUp, LogError, Goto, Dispatching, Shape
  <1>8. CASE Dispatched(h)
    <2>1. NextEvent(h) /\ pc[h] # "idle" /\ next[h] <= Len(call[h].events) /\ batch[h] = {}
      BY <1>8 DEF Dispatched, HandlerInv, Progress, Dispatching
    <2> QED
      BY <2>1, NextEventKeeps
  <1>9. CASE Finish(h)
    <2>1. next[h] = Len(call[h].events) + 1
      BY <1>9, RunningCall DEF Finish
    <2> QED
      BY <1>9, <2>1, QuietKeeps DEF Finish, Return, Goto, Shape
  <1>10. CASE Respond(h)
    BY <1>10, QuietKeeps DEF Respond, Goto, Dispatching, Shape
  <1>11. CASE ClientLeaves(h)
    BY <1>11, QuietKeeps DEF ClientLeaves
  <1> QED
    BY <1>1, <1>2, <1>3, <1>4, <1>5, <1>6, <1>7, <1>8, <1>9, <1>10, <1>11 DEF Run

LEMMA InvStep == PublisherInv /\ [Next]_vars => PublisherInv'
  <1> SUFFICES ASSUME PublisherInv, [Next]_vars PROVE PublisherInv'
    OBVIOUS
  <1>1. Shape /\ \A h \in Handlers : HandlerInv(h)
    BY DEF PublisherInv
  <1>2. ASSUME NEW h \in Handlers, Publish(h) \/ Run(h) \/ Respond(h) \/ ClientLeaves(h)
        PROVE  PublisherInv'
    <2>1. Shape'
      BY <1>1, <1>2, HandlersKeepShape
    <2>2. ASSUME NEW k \in Handlers PROVE HandlerInv(k)'
      BY <1>1, <1>2, OwnStepKeeps, OthersKeep
    <2> QED
      BY <2>1, <2>2 DEF PublisherInv
  <1>3. CASE ChangeStorage
    <2>1. Shape'
      BY <1>1, <1>3, ChangeKeepsShape
    <2>2. ASSUME NEW k \in Handlers PROVE HandlerInv(k)'
      BY <1>1, <1>3, ChangeKeepsHandlers
    <2> QED
      BY <2>1, <2>2 DEF PublisherInv
  <1>4. CASE UNCHANGED vars
    <2>1. Shape'
      BY <1>1, <1>4 DEF vars, storage, Shape
    <2>2. ASSUME NEW k \in Handlers PROVE HandlerInv(k)'
      <3>1. Kept(k) /\ lived'[k] = lived[k] /\ Stored' = Stored
        BY <1>4 DEF vars, storage, Kept, Stored
      <3>2. Running(k) => Stored \subseteq lived[k]
        BY <1>1 DEF HandlerInv, Meant
      <3> QED
        BY <1>1, <3>1, <3>2, IdleKeeps
    <2> QED
      BY <2>1, <2>2 DEF PublisherInv
  <1> QED
    BY <1>2, <1>3, <1>4 DEF Next, Exhausted

LEMMA InvCorrect == Spec => []PublisherInv
  <1> QED
    BY InvInit, InvStep, PTL DEF Spec

\* TypeOK: the state of a publish stays within the events of its request.
THEOREM TypeCorrect == Spec => []TypeOK
  <1> QED
    BY InvCorrect, InvChecked, PTL

\* NoStrayPost: whatever the storage does meanwhile, an event is posted only to
\* triggers of the location of its channel that want it, by the meaning of their
\* patterns, in a version that was stored since the event became the current one.
THEOREM PostsAreMeant == Spec => []NoStrayPost
  <1> QED
    BY InvCorrect, InvChecked, PTL

\* OnePostPerTrigger: a publish posts an event at most once to a trigger.
THEOREM PostsAreSingle == Spec => []OnePostPerTrigger
  <1> QED
    BY InvCorrect, InvChecked, PTL

-----------------------------------------------------------------------------
(* Steady triggers are served.  A name has one segment for its project and *)
(* location, the collection and the id: what any Create stores, and what a *)
(* publisher that names its channel or connection in full sends.           *)

Collection(r) ==
    IF r.rpc = "PublishEvents" THEN "channels" ELSE "channelConnections"

Located ==
    /\ \A n \in TriggerNames : Len(n) = 3 /\ n[2] = "triggers"
    /\ \A r \in Publishes :
          \/ Len(r.source) = 1
          \/ Len(r.source) = 3 /\ r.source[2] = Collection(r)

\* The start of a sequence is what comes before and the last of it.
LEMMA StartIsAppend ==
    ASSUME NEW S, NEW p \in Seq(S), NEW n \in Seq(S), Len(n) > Len(p),
           \A i \in 1..Len(p) : p[i] = n[i]
    PROVE  SubSeq(n, 1, Len(p) + 1) = Append(p, n[Len(p) + 1])
  <1> DEFINE m == Len(p) + 1
             e == n[m]
  <1>1. Len(p) \in Nat /\ m \in 1..Len(n) /\ e \in S
    OBVIOUS
  <1>2. /\ SubSeq(n, 1, m) \in Seq(S) /\ Len(SubSeq(n, 1, m)) = m
        /\ \A i \in 1..m : SubSeq(n, 1, m)[i] = n[i]
    BY <1>1
  <1> HIDE DEF e
  <1>3. /\ Append(p, e) \in Seq(S) /\ Len(Append(p, e)) = m
        /\ \A i \in 1..Len(p) : Append(p, e)[i] = p[i]
        /\ Append(p, e)[m] = e
    BY <1>1, AppendProperties
  <1>4. \A i \in 1..m : SubSeq(n, 1, m)[i] = Append(p, e)[i]
    <2>1. SUFFICES ASSUME NEW i \in 1..m PROVE n[i] = Append(p, e)[i]
      BY <1>2
    <2>2. CASE i = m
      BY <1>3, <2>2 DEF e
    <2>3. CASE i # m
      BY <1>1, <1>3, <2>3
    <2> QED
      BY <2>2, <2>3
  <1> HIDE DEF m
  <1>5. SubSeq(n, 1, m) = Append(p, e)
    BY <1>2, <1>3, <1>4, SeqEqual
  <1> QED
    BY <1>5 DEF m, e

\* The list that a publish reads has every trigger of the location of its source.
LEMMA LocatedIsUnder ==
    ASSUME Located, NEW n \in TriggerNames, NEW r \in Publishes, n[1] = r.source[1]
    PROVE  Under(n, Parent(r), "triggers")
  <1> DEFINE s == r.source
             c == Collection(r)
             cuts == {i \in 2..(Len(s) - 1) : s[i] = c}
             last == CHOOSE i \in cuts : \A j \in cuts : j <= i
  <1>1. s \in Seq(STRING) /\ n \in Seq(STRING) /\ Len(n) = 3 /\ n[2] = "triggers"
    BY PublishesAssumption, NamesAssumption DEF Located
  <1>2. Parent(r) = Before(s, c)
    BY PublishesAssumption
       DEF Parent, ParentFromChannel, ParentFromChannelConnection, Collection
  <1>3. Len(Parent(r)) = 1 /\ Parent(r) \in Seq(STRING)
    <2>1. CASE Len(s) = 1
      BY <1>1, <1>2, <2>1 DEF Before
    <2>2. CASE Len(s) = 3 /\ s[2] = c
      <3>1. cuts = {2}
        BY <2>2
      <3>2. last = 2
        BY <3>1
      <3>3. Before(s, c) = SubSeq(s, 1, last - 1)
        BY <3>1 DEF Before
      <3> HIDE DEF last
      <3> QED
        BY <1>1, <1>2, <2>2, <3>2, <3>3
    <2> QED
      BY <2>1, <2>2 DEF Located
  <1>4. Parent(r)[1] = n[1]
    BY ParentFirst
  <1> HIDE DEF s, c
  <1>5. SubSeq(n, 1, 2) = Append(Parent(r), n[2])
    <2> DEFINE p == Parent(r)
    <2>1. p \in Seq(STRING) /\ Len(p) = 1 /\ \A i \in 1..Len(p) : p[i] = n[i]
      BY <1>3, <1>4
    <2> HIDE DEF p
    <2>2. SubSeq(n, 1, Len(p) + 1) = Append(p, n[Len(p) + 1])
      <3>1. Len(n) > Len(p) /\ n \in Seq(STRING)
        BY <1>1, <2>1
      <3> QED
        BY <2>1, <3>1, StartIsAppend
    <2>3. Len(p) + 1 = 2
      BY <2>1
    <2>4. SubSeq(n, 1, 2) = Append(p, n[2])
      BY <2>2, <2>3, Zenon
    <2> QED
      BY <2>4 DEF p
  <1> QED
    BY <1>1, <1>3, <1>5 DEF Under

Due(h, i, t) ==
    /\ call[h].events[i] # None
    /\ HasURL(t)
    /\ Wants(t, call[h], call[h].events[i])

Posted(h, i, t) ==
    \E k \in DOMAIN posts[h] : posts[h][k] = [event |-> i, trigger |-> t]

\* What was due has been posted, or is about to be.
Served(h) ==
    /\ Running(h) => steady[h] \subseteq Stored
    /\ ~gone[h] => \A i \in 1..next[h], t \in steady[h] :
          Due(h, i, t) =>
              \/ Posted(h, i, t)
              \/ i = next[h] /\ (~Dispatching(h) \/ t \in batch[h])

ServedInv == \A h \in Handlers : Served(h)

LEMMA ServedInit == Init => ServedInv
  <1> SUFFICES ASSUME Init, NEW h \in Handlers PROVE Served(h)
    BY DEF ServedInv
  <1> QED
    BY DEF Init, Served, Running

\* A post stays posted.
LEMMA PostedStays ==
    ASSUME Shape, NEW h \in Handlers, Post(h), NEW i, NEW t, Posted(h, i, t)
    PROVE  Posted(h, i, t)'
  <1>1. PICK u \in batch[h] :
           posts'[h] = Append(posts[h], [event |-> next[h], trigger |-> u])
    BY DEF Post, Shape
  <1>2. posts[h] \in Seq(Posts) /\ [event |-> next[h], trigger |-> u] \in Posts
    BY DEF Posts, Shape
  <1> DEFINE p == [event |-> next[h], trigger |-> u]
  <1> HIDE DEF p
  <1>3. PICK k \in DOMAIN posts[h] : posts[h][k] = [event |-> i, trigger |-> t]
    BY DEF Posted
  <1>4. k \in DOMAIN posts'[h] /\ posts'[h][k] = posts[h][k]
    BY <1>1, <1>2, AppendProperties, LenProperties DEF p
  <1> QED
    BY <1>3, <1>4 DEF Posted

LEMMA ServedStep ==
    ASSUME Located, PublisherInv, PublisherInv', ServedInv, [Next]_vars
    PROVE  ServedInv'
  <1>1. Shape /\ Shape' /\ \A h \in Handlers : HandlerInv(h) /\ Served(h)
    BY DEF PublisherInv, ServedInv
  \* Everyone but the handler that takes the step.
  <1>2. ASSUME NEW h \in Handlers, Kept(h), gone[h] => gone'[h],
               steady'[h] \subseteq steady[h], Running(h) => steady'[h] \subseteq Stored'
        PROVE  Served(h)'
    <2>1. \A i, t : Due(h, i, t)' <=> Due(h, i, t)
      BY <1>2 DEF Kept, Due
    <2>2. \A i, t : Posted(h, i, t)' <=> Posted(h, i, t)
      BY <1>2 DEF Kept, Posted
    <2>3. (Dispatching(h)' <=> Dispatching(h)) /\ (Running(h)' <=> Running(h))
      BY <1>2 DEF Kept, Dispatching, Running
    <2> QED
      BY <1>1, <1>2, <2>1, <2>2, <2>3 DEF Served, Kept
  <1>3. ASSUME NEW h \in Handlers, Publish(h) PROVE Served(h)'
    <2>1. /\ pc'[h] \in {"check", "events"} /\ next'[h] = 1
          /\ steady'[h] = Stored /\ Stored' = Stored
      <3>1. pc'[h] \in {"check", "events"} /\ next'[h] = 1
        BY <1>1, <1>3 DEF Publish, Goto, Shape
      <3>2. steady'[h] = Stored
        BY <1>1, <1>3 DEF Publish, Shape
      <3>3. UNCHANGED triggers
        BY <1>3 DEF Publish, storage
      <3> QED
        BY <3>1, <3>2, <3>3 DEF Stored
    <2>2. ~Dispatching(h)'
      BY <2>1 DEF Dispatching
    <2>3. \A i \in 1..next'[h] : i = next'[h]
      BY <2>1
    <2> QED
      BY <2>1, <2>2, <2>3 DEF Served
  <1>4. ASSUME NEW h \in Handlers, NextEvent(h), pc[h] # "idle", pc[h] # "done",
               \A t \in steady[h] : gone[h] \/ ~Due(h, next[h], t) \/ Posted(h, next[h], t)
        PROVE  Served(h)'
    <2>1. /\ next'[h] = next[h] + 1 /\ pc'[h] = "events" /\ call'[h] = call[h]
          /\ posts'[h] = posts[h] /\ steady'[h] = steady[h] /\ gone'[h] = gone[h]
          /\ Stored' = Stored
      <3>1. next'[h] = next[h] + 1 /\ pc'[h] = "events"
        BY <1>1, <1>4 DEF NextEvent, Advance, Goto, Shape
      <3>2. UNCHANGED <<storage, call, posts, steady, gone>>
        BY <1>4 DEF NextEvent
      <3> QED
        BY <3>1, <3>2 DEF storage, Stored
    <2>2. \A i, t : (Due(h, i, t)' <=> Due(h, i, t)) /\ (Posted(h, i, t)' <=> Posted(h, i, t))
      BY <2>1 DEF Due, Posted
    <2>3. next[h] \in Nat /\ Running(h)
      BY <1>1, <1>4 DEF Shape, Running
    <2>4. ASSUME ~gone[h], NEW i \in 1..next[h], NEW t \in steady[h], Due(h, i, t)
          PROVE  Posted(h, i, t)
      BY <1>1, <1>4, <2>4 DEF Served
    <2>5. ASSUME NEW i \in 1..next'[h] PROVE i \in 1..next[h] \/ i = next'[h]
      BY <2>1, <2>3
    <2>6. ~Dispatching(h)'
      BY <2>1 DEF Dispatching
    <2> QED
      BY <1>1, <2>1, <2>2, <2>3, <2>4, <2>5, <2>6 DEF Served
  <1>5. ASSUME NEW h \in Handlers, SkipEvent(h) PROVE Served(h)'
    BY <1>4, <1>5 DEF SkipEvent, Due
  <1>6. ASSUME NEW h \in Handlers, Dispatched(h) PROVE Served(h)'
    <2>1. next[h] \in 1..next[h] /\ Dispatching(h)
      BY <1>1, <1>6, RunningCall DEF Dispatched, Dispatching
    <2> QED
      BY <1>1, <1>4, <1>6, <2>1 DEF Dispatched, Served
  <1>7. ASSUME NEW h \in Handlers, Match(h) PROVE Served(h)'
    <2> DEFINE r == call[h]
               e == call[h].events[next[h]]
    <2>1. /\ pc[h] = "events" /\ next[h] <= Len(r.events) /\ e # None
          /\ batch'[h] = {t \in ListAllTriggers(Parent(r)) : TriggerMatches(t, e)}
      BY <1>1, <1>7 DEF Match, Shape
    <2>2. UNCHANGED <<storage, call, next, gone, posts, steady>>
      BY <1>7 DEF Match
    <2>3. Stored' = Stored /\ Running(h)
      BY <2>1, <2>2 DEF storage, Stored, Running
    <2>4. \A i, t : (Due(h, i, t)' <=> Due(h, i, t)) /\ (Posted(h, i, t)' <=> Posted(h, i, t))
      BY <2>2 DEF Due, Posted
    <2>5. r \in Publishes /\ next[h] \in DOMAIN r.events
      BY <1>1, <2>1, RunningCall
    <2>6. ASSUME NEW t \in steady[h], Due(h, next[h], t) PROVE t \in batch'[h]
      <3>1. t \in Stored /\ t \in Versions /\ t.name \in TriggerNames
        BY <1>1, <2>3, StoredAreVersions DEF Served, Versions
      <3>2. Wants(t, r, e)
        BY <2>6 DEF Due
      <3>3. TriggerMatches(t, e) /\ t.name[1] = r.source[1]
        BY <2>1, <2>5, <3>1, <3>2, MatchesWants
      <3>4. Under(t.name, Parent(r), "triggers")
        BY <2>5, <3>1, <3>3, LocatedIsUnder
      <3> QED
        BY <2>1, <3>1, <3>3, <3>4 DEF ListAllTriggers
    <2> HIDE DEF r, e
    <2> QED
      BY <1>1, <2>2, <2>3, <2>4, <2>6 DEF Served
  <1>8. ASSUME NEW h \in Handlers, Post(h) PROVE Served(h)'
    <2>1. PICK u \in batch[h] :
             /\ posts'[h] = Append(posts[h], [event |-> next[h], trigger |-> u])
             /\ batch'[h] = batch[h] \ {u}
      BY <1>1, <1>8 DEF Post, Rest, Shape
    <2>2. UNCHANGED <<storage, call, next, gone, steady>> /\ pc[h] = "dispatch"
      BY <1>8 DEF Post
    <2>3. Stored' = Stored /\ Running(h) /\ Dispatching(h)
      BY <2>2 DEF storage, Stored, Running, Dispatching
    <2>4. \A i, t : Due(h, i, t)' <=> Due(h, i, t)
      BY <2>2 DEF Due
    <2>5. \A i, t : Posted(h, i, t) => Posted(h, i, t)'
      BY <1>1, <1>8, PostedStays
    <2>6. \A i : i = next[h] => Posted(h, i, u)'
      <3>1. posts[h] \in Seq(Posts)
        BY <1>1 DEF Shape
      <3> DEFINE p == [event |-> next[h], trigger |-> u]
      <3>2. p \in Posts
        BY <1>1 DEF Posts, Shape
      <3>3. posts'[h] = Append(posts[h], p)
        BY <2>1
      <3> HIDE DEF p
      <3>4. Len(posts[h]) + 1 \in DOMAIN posts'[h] /\ posts'[h][Len(posts[h]) + 1] = p
        BY <3>1, <3>2, <3>3, AppendProperties, LenProperties
      <3> QED
        BY <3>4 DEF Posted, p
    <2> QED
      BY <1>1, <2>1, <2>2, <2>3, <2>4, <2>5, <2>6 DEF Served
  <1>9. ASSUME NEW h \in Handlers, DispatchFails(h) PROVE Served(h)'
    <2>1. PICK u \in batch[h] : /\ ~HasURL(u) \/ gone[h]
                                /\ batch'[h] = batch[h] \ {u}
      BY <1>1, <1>9 DEF DispatchFails, Shape
    <2>2. UNCHANGED <<storage, pc, call, next, gone, posts, steady>>
      BY <1>9 DEF DispatchFails
    <2>3. \A i, t : (Due(h, i, t)' <=> Due(h, i, t)) /\ (Posted(h, i, t)' <=> Posted(h, i, t))
      BY <2>2 DEF Due, Posted
    <2>4. \A i : ~gone[h] => ~Due(h, i, u)
      BY <2>1 DEF Due
    <2>5. Stored' = Stored /\ (Running(h)' <=> Running(h)) /\ (Dispatching(h)' <=> Dispatching(h))
      BY <2>2 DEF storage, Stored, Running, Dispatching
    <2> QED
      BY <1>1, <2>1, <2>2, <2>3, <2>4, <2>5 DEF Served
  \* Steps that leave the events, the posts and what is left of the batch alone.
  <1>10. ASSUME NEW h \in Handlers,
                CheckChannel(h) \/ GiveUp(h) \/ Finish(h) \/ Respond(h) \/ ClientLeaves(h)
         PROVE  Served(h)'
    <2>1. /\ UNCHANGED <<storage, call, next, batch, posts, steady>>
          /\ gone[h] => gone'[h]
          /\ Running(h)
          /\ Dispatching(h)' <=> Dispatching(h)
      <3>1. CASE CheckChannel(h) \/ Finish(h)
        BY <1>1, <3>1 DEF CheckChannel, Finish, Goto, Return, Running, Dispatching, Shape
      <3>2. CASE GiveUp(h) \/ Respond(h)
        BY <1>1, <3>2 DEF GiveUp, Respond, LogError, Goto, Running, Dispatching, Shape
      <3>3. CASE ClientLeaves(h)
        BY <1>1, <3>3 DEF ClientLeaves, Running, Dispatching, Shape
      <3> QED
        BY <1>10, <3>1, <3>2, <3>3
    <2>2. \A i, t : (Due(h, i, t)' <=> Due(h, i, t)) /\ (Posted(h, i, t)' <=> Posted(h, i, t))
      BY <2>1 DEF Due, Posted
    <2>3. Stored' = Stored
      BY <2>1 DEF storage, Stored
    <2> QED
      BY <1>1, <2>1, <2>2, <2>3 DEF Served
  <1>11. ASSUME NEW h \in Handlers, Publish(h) \/ Run(h) \/ Respond(h) \/ ClientLeaves(h)
         PROVE  ServedInv'
    <2>1. ASSUME NEW k \in Handlers, k # h PROVE Served(k)'
      <3>1. /\ Kept(k) /\ gone'[k] = gone[k] /\ steady'[k] = steady[k]
            /\ UNCHANGED storage
        BY <1>1, <1>11, <2>1, OthersAreKept
      <3>2. Stored' = Stored
        BY <3>1 DEF storage, Stored
      <3> QED
        BY <1>1, <1>2, <3>1, <3>2 DEF Served
    <2>2. Served(h)'
      BY <1>3, <1>5, <1>6, <1>7, <1>8, <1>9, <1>10, <1>11 DEF Run
    <2> QED
      BY <2>1, <2>2 DEF ServedInv
  <1>12. CASE ChangeStorage
    <2>1. PICK t, c : Change(t, c)
      BY <1>12 DEF ChangeStorage, CreateTrigger, UpdateTrigger, DeleteTrigger, CreateChannel,
                   DeleteChannel
    <2>2. ASSUME NEW k \in Handlers PROVE Served(k)'
      <3>1. Kept(k) /\ gone'[k] = gone[k]
        BY <2>1 DEF Kept, Change
      <3>2. steady'[k] = IF Running(k) THEN steady[k] \cap Stored' ELSE steady[k]
        BY <2>1 DEF Change
      <3> QED
        BY <1>2, <3>1, <3>2
    <2> QED
      BY <2>2 DEF ServedInv
  <1>13. CASE UNCHANGED vars
    <2>1. ASSUME NEW k \in Handlers PROVE Served(k)'
      <3>1. Kept(k) /\ gone'[k] = gone[k] /\ steady'[k] = steady[k] /\ Stored' = Stored
        BY <1>13 DEF vars, storage, Kept, Stored
      <3> QED
        BY <1>1, <1>2, <3>1 DEF Served
    <2> QED
      BY <2>1 DEF ServedInv
  <1> QED
    BY <1>11, <1>12, <1>13 DEF Next, Exhausted

LEMMA ServedChecked ==
    ASSUME PublisherInv, ServedInv
    PROVE  SteadyTriggersAreServed
  <1> SUFFICES ASSUME NEW h \in Handlers, pc[h] = "done", reply[h] = "OK", ~gone[h],
                      NEW i \in DOMAIN call[h].events, NEW t \in steady[h], Due(h, i, t)
               PROVE  Posted(h, i, t)
    BY DEF SteadyTriggersAreServed, Due, Posted
  <1>1. HandlerInv(h) /\ Served(h) /\ Shape
    BY DEF PublisherInv, ServedInv
  <1>2. next[h] = Len(call[h].events) + 1 /\ i \in 1..Len(call[h].events)
        /\ Len(call[h].events) \in Nat
    BY <1>1, RunningCall DEF HandlerInv, Progress
  <1>3. i \in 1..next[h] /\ i # next[h]
    BY <1>2
  <1> QED
    BY <1>1, <1>3 DEF Served

\* SteadyTriggersAreServed: with names as Create makes them, a publish that returns
\* OK to a client that waited has posted every event to every trigger of the
\* location that wants it, has a URL, and was stored unchanged all the time,
\* whatever its other receivers did and whatever else happened to the storage.
THEOREM SteadyAreServed ==
    ASSUME Located
    PROVE  Spec => []SteadyTriggersAreServed
  <1>1. PublisherInv /\ PublisherInv' /\ ServedInv /\ [Next]_vars => ServedInv'
    BY ServedStep
  <1>2. PublisherInv /\ ServedInv => SteadyTriggersAreServed
    BY ServedChecked
  <1> QED
    BY <1>1, <1>2, ServedInit, InvCorrect, PTL DEF Spec
=============================================================================

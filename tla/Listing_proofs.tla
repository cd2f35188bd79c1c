--------------------------- MODULE Listing_proofs ---------------------------
(***************************************************************************)
(* Theorems about Listing, for any listings, owners, names, requests, page  *)
(* sizes and page limit, and any number of creates and deletes.            *)
(***************************************************************************)
EXTENDS Listing, TLAPS, FiniteSetTheorems

-----------------------------------------------------------------------------
(* The pages.                                                              *)

\* How many items of S come before x.
Rank(S, order, x) == Cardinality({y \in S : Precedes(order, y, x)})

\* The items of S that the pages before the given token hold.
Behind(S, order, tok) == {x \in S : Rank(S, order, x) < Offset(tok)}

\* The tokens the server hands out.
Issued == {Last} \cup 0..MaxItems

\* For these tokens the arithmetic of PaginatePage does not overflow.
LEMMA PageEnd ==
    ASSUME NEW tok \in Issued, NEW size \in Int, NEW n \in 0..MaxItems
    PROVE  /\ ~BadToken(tok)
           /\ Offset(tok) \in 0..MaxItems
           /\ End(tok, size, n) \in 0..n
           /\ Offset(tok) < n => Offset(tok) < End(tok, size, n)
           /\ n <= Offset(tok) => End(tok, size, n) = n
           /\ NextToken(tok, size, n) \in Issued
  <1>1. Last \notin Int /\ MaxItems \in Nat /\ PageLimit \in Nat \ {0} /\ MaxInt \in Nat
        /\ MaxItems + PageLimit <= MaxInt
    BY PaginationAssumption, ListingAssumption
  <1>2. ~BadToken(tok) /\ Offset(tok) \in 0..MaxItems
    BY <1>1 DEF BadToken, Offset, Issued
  <1>3. Size(size) \in 1..PageLimit
    BY <1>1 DEF Size
  <1>4. Wrap(Offset(tok) + Size(size)) = Offset(tok) + Size(size)
    BY <1>1, <1>2, <1>3 DEF Wrap
  <1>5. End(tok, size, n) =
            IF Offset(tok) + Size(size) > n THEN n ELSE Offset(tok) + Size(size)
    BY <1>4 DEF End
  <1>6. /\ End(tok, size, n) \in 0..n
        /\ Offset(tok) < n => Offset(tok) < End(tok, size, n)
        /\ n <= Offset(tok) => End(tok, size, n) = n
    BY <1>1, <1>2, <1>3, <1>5
  <1>7. NextToken(tok, size, n) \in Issued
    BY <1>1, <1>6 DEF NextToken, Issued
  <1> QED
    BY <1>2, <1>6, <1>7

\* The items before another one are counted by a number.
LEMMA RankIsNatural ==
    ASSUME NEW S, IsFiniteSet(S), NEW order, NEW x
    PROVE  Rank(S, order, x) \in Nat
  BY FS_Subset, FS_CardinalityType DEF Rank

\* Without equal sort keys there is one way to sort: an item's index is its rank.
LEMMA IndexIsRank ==
    ASSUME NEW S, IsFiniteSet(S), NEW order, ~Ties(S, order),
           NEW index \in Sorted(S, order), NEW x \in S
    PROVE  /\ index[x] = Rank(S, order, x)
           /\ index[x] \in 0..(Cardinality(S) - 1)
  <1>1. /\ index \in [S -> 0..(Cardinality(S) - 1)]
        /\ \A y, z \in S : index[y] = index[z] => y = z
        /\ index[x] = Cardinality({y \in S : index[y] < index[x]})
        /\ \A y, z \in S : Precedes(order, y, z) => index[y] < index[z]
    BY DEF Sorted
  <1>2. ASSUME NEW y \in S
        PROVE  index[y] < index[x] <=> Precedes(order, y, x)
    <2>1. index[x] \in Int /\ index[y] \in Int
      <3>1. Cardinality(S) \in Nat
        BY FS_CardinalityType
      <3>2. index \in [S -> 0..(Cardinality(S) - 1)]
        BY <1>1
      <3>3. index \in [S -> Int]
        BY <3>1, <3>2
      <3> QED
        BY <1>2, <3>3
    <2>2. /\ Precedes(order, y, x) => index[y] < index[x]
          /\ Precedes(order, x, y) => index[x] < index[y]
      BY <1>1, <1>2
    <2>3. ASSUME index[y] < index[x]
          PROVE  Precedes(order, y, x)
      <3>1. x # y /\ ~Precedes(order, x, y)
        BY <2>1, <2>2, <2>3
      <3> QED
        BY <1>2, <3>1 DEF Ties
    <2> QED
      BY <2>2, <2>3
  <1>3. {y \in S : index[y] < index[x]} = {y \in S : Precedes(order, y, x)}
    BY <1>2
  <1> QED
    BY <1>1, <1>3 DEF Rank

\* A page and the pages before it are the pages before the next token; the last
\* page leaves nothing over.
LEMMA PagesAddUp ==
    ASSUME NEW S, IsFiniteSet(S), Cardinality(S) <= MaxItems,
           NEW order, ~Ties(S, order), NEW index \in Sorted(S, order),
           NEW tok \in Issued, NEW size \in Int
    PROVE  LET n == Cardinality(S)
               page == {x \in S : OnPage(index[x], tok, size, n)}
               next == NextToken(tok, size, n)
           IN  /\ page \cap Behind(S, order, tok) = {}
               /\ next # Last => Behind(S, order, tok) \cup page = Behind(S, order, next)
               /\ next = Last => Behind(S, order, tok) \cup page = S
  <1> DEFINE n == Cardinality(S)
             page == {x \in S : OnPage(index[x], tok, size, n)}
             next == NextToken(tok, size, n)
             end == End(tok, size, n)
  <1>1. n \in 0..MaxItems
    BY FS_CardinalityType, ListingAssumption
  <1>2. /\ Offset(tok) \in 0..MaxItems /\ end \in 0..n
        /\ Offset(tok) < n => Offset(tok) < end
        /\ n <= Offset(tok) => end = n
    BY <1>1, PageEnd
  <1>3. \A x \in S : index[x] = Rank(S, order, x) /\ Rank(S, order, x) \in 0..(n - 1)
    BY IndexIsRank
  <1>4. page = {x \in S : Offset(tok) <= Rank(S, order, x) /\ Rank(S, order, x) < end}
    <2>1. ASSUME NEW x \in S
          PROVE  OnPage(index[x], tok, size, n)
                    <=> Offset(tok) <= Rank(S, order, x) /\ Rank(S, order, x) < end
      BY <1>1, <1>2, <1>3 DEF OnPage
    <2> QED
      BY <2>1
  <1>5. page \cap Behind(S, order, tok) = {}
    BY <1>1, <1>2, <1>3, <1>4 DEF Behind
  <1>6. Behind(S, order, tok) \cup page = {x \in S : Rank(S, order, x) < end}
    BY <1>1, <1>2, <1>3, <1>4 DEF Behind
  <1>7. ASSUME next # Last
        PROVE  Offset(next) = end
    <2>1. next = end
      BY <1>7 DEF NextToken
    <2> QED
      BY <1>7, <2>1 DEF Offset
  <1>8. ASSUME next = Last
        PROVE  end = n
    <2>1. end \in Int /\ Last \notin Int
      BY <1>2, PaginationAssumption
    <2> QED
      BY <1>1, <1>2, <1>8, <2>1 DEF NextToken
  <1>9. next # Last => Behind(S, order, tok) \cup page = Behind(S, order, next)
    BY <1>6, <1>7 DEF Behind
  <1>10. next = Last => Behind(S, order, tok) \cup page = S
    BY <1>1, <1>3, <1>6, <1>8
  <1> QED
    BY <1>5, <1>9, <1>10

-----------------------------------------------------------------------------
(* The steps.                                                              *)

\* The order a listing is sorted in.
Order ==
    IF kind \in {"channelConnection", "busEnrollment", "provider"} THEN "name" ELSE ask.order

\* Whatever the listing, a List fails, cuts a page or shows all operations.
LEMMA ListCases ==
    ASSUME List
    PROVE  /\ phase = "walking"
           /\ \/ Fails
              \/ kind # "operation" /\ CutBy(Order)
              \/ kind = "operation" /\ Shows(Selected, Last) /\ UNCHANGED tied
           /\ UNCHANGED <<kind, items, clock, steady, created, deleted, changes, ask>>
  <1> USE DEF List
  <1>1. \/ Fails
        \/ kind # "operation" /\ CutBy(Order)
        \/ kind = "operation" /\ Shows(Selected, Last) /\ UNCHANGED tied
    <2> USE DEF Refused, Denied, Order
    <2>1. CASE ListTriggers
      BY <2>1 DEF ListTriggers, StorageListTriggers
    <2>2. CASE ListChannels
      BY <2>2 DEF ListChannels, StorageListChannels
    <2>3. CASE ListChannelConnections
      BY <2>3 DEF ListChannelConnections, StorageListChannelConnections
    <2>4. CASE ListMessageBuses
      BY <2>4 DEF ListMessageBuses, StorageListMessageBuses
    <2>5. CASE ListMessageBusEnrollments
      BY <2>5 DEF ListMessageBusEnrollments, StorageListMessageBusEnrollments
    <2>6. CASE ListEnrollments
      BY <2>6 DEF ListEnrollments, StorageListEnrollments
    <2>7. CASE ListPipelines
      BY <2>7 DEF ListPipelines, StorageListPipelines
    <2>8. CASE ListGoogleApiSources
      BY <2>8 DEF ListGoogleApiSources, StorageListGoogleApiSources
    <2>9. CASE ListProviders
      BY <2>9 DEF ListProviders, StorageListProviders
    <2>10. CASE ListOperations
      BY <2>10 DEF ListOperations
    <2> QED
      BY <2>1, <2>2, <2>3, <2>4, <2>5, <2>6, <2>7, <2>8, <2>9, <2>10
  <1>2. UNCHANGED ask
    BY <1>1 DEF Fails, CutBy, Shows
  <1> QED
    BY <1>1, <1>2

\* What a request selects changes only with the items.
LEMMA SelectedNext ==
    ASSUME UNCHANGED <<kind, ask>>
    PROVE  Selected' = {x \in items' : Selects(x)}
  BY DEF Selected, Selects, Filtered

LEMMA SelectedFinite ==
    ASSUME TypeOK
    PROVE  /\ Selected \subseteq items
           /\ IsFiniteSet(Selected)
           /\ Cardinality(Selected) \in 0..MaxItems
  <1>1. Selected \subseteq items
    BY DEF Selected
  <1>2. IsFiniteSet(items) /\ Cardinality(items) <= MaxItems
    BY DEF TypeOK
  <1>3. /\ IsFiniteSet(Selected) /\ Cardinality(Selected) <= Cardinality(items)
        /\ Cardinality(Selected) \in Nat /\ Cardinality(items) \in Nat
    BY <1>1, <1>2, FS_Subset, FS_CardinalityType
  <1> QED
    BY <1>1, <1>2, <1>3, ListingAssumption

LEMMA CountIsNatural == \A x : Count(x) \in {0, 1}
  BY DEF Count

-----------------------------------------------------------------------------
(* Type correctness.                                                       *)

LEMMA TypeOKInit == Init => TypeOK
  <1> SUFFICES ASSUME Init PROVE TypeOK
    OBVIOUS
  <1>1. ask \in Ask /\ kind \in Kinds
    BY ListingAssumption DEF Init
  <1>2. /\ items \subseteq Item /\ IsFiniteSet(items) /\ Cardinality(items) <= MaxItems
        /\ \A x, y \in items : x.owner = y.owner /\ x.id = y.id => x = y
    <2>1. CASE kind = "provider"
      <3>1. items \subseteq Seeds /\ IsFiniteSet(items) /\ Cardinality(items) <= MaxItems
        BY <2>1 DEF Init
      <3>2. (CHOOSE o \in Owners : TRUE) \in Owners
        BY ListingAssumption
      <3>3. \A x \in Seeds : x \in Item
        BY <3>2 DEF Seeds, Item
      <3>4. \A x, y \in Seeds : x.id = y.id => x = y
        <4>1. \A x \in Seeds :
                 x = [owner |-> CHOOSE o \in Owners : TRUE, id |-> x.id, time |-> 0]
          BY DEF Seeds
        <4> QED
          BY <4>1
      <3> QED
        BY <3>1, <3>3, <3>4
    <2>2. CASE kind # "provider"
      <3>1. items = {}
        BY <2>2 DEF Init
      <3> QED
        BY <3>1, FS_EmptySet, ListingAssumption
    <2> QED
      BY <2>1, <2>2
  <1>3. token \in Tokens
    BY <1>1 DEF Init, Ask
  <1>4. clock \in Nat /\ created \in Nat /\ deleted \in Nat /\ changes \in 0..MaxChanges
    BY ListingAssumption DEF Init
  <1>5. /\ phase \in {"idle", "walking", "done", "failed"} /\ tied \in BOOLEAN
        /\ seen \subseteq Item /\ repeated \subseteq seen /\ steady \subseteq items
    BY DEF Init
  <1> QED
    BY <1>1, <1>2, <1>3, <1>4, <1>5 DEF TypeOK

LEMMA TypeOKCreate ==
    ASSUME TypeOK, Create
    PROVE  TypeOK'
  <1>1. PICK o \in Owners, i \in Ids, t \in {clock, clock + 1} :
          LET x == [owner |-> o, id |-> i, time |-> t]
          IN  /\ ~Taken(o, i)
              /\ items' = items \cup {x}
              /\ clock' = t
              /\ created' = created + Count(x)
    BY DEF Create
  <1> DEFINE x == [owner |-> o, id |-> i, time |-> t]
  <1>2. x \in Item /\ clock' \in Nat
    BY <1>1 DEF Item, TypeOK
  <1>3. IsFiniteSet(items') /\ Cardinality(items') <= MaxItems
    <2>1. IsFiniteSet(items) /\ Cardinality(items) < MaxItems /\ items' = items \cup {x}
      BY <1>1 DEF TypeOK, Create
    <2>2. Cardinality(items) \in Nat
      BY <2>1, FS_CardinalityType
    <2>3. IsFiniteSet(items') /\ Cardinality(items') \in {Cardinality(items), Cardinality(items) + 1}
      BY <2>1, <2>2, FS_AddElement
    <2> QED
      BY <2>1, <2>2, <2>3, ListingAssumption
  <1>4. \A y, z \in items' : y.owner = z.owner /\ y.id = z.id => y = z
    <2>1. \A y \in items : y.owner # x.owner \/ y.id # x.id
      BY <1>1 DEF Taken
    <2> QED
      BY <1>1, <2>1 DEF TypeOK
  <1>5. created' \in Nat
    BY <1>1, CountIsNatural DEF TypeOK
  <1>6. changes' \in 0..MaxChanges
    BY ListingAssumption DEF Create, TypeOK
  <1>7. items' \subseteq Item
    BY <1>1, <1>2 DEF TypeOK
  <1>8. steady' \subseteq items'
    BY <1>1 DEF TypeOK, Create
  <1> QED
    BY <1>2, <1>3, <1>4, <1>5, <1>6, <1>7, <1>8 DEF TypeOK, Create, walk

LEMMA TypeOKDelete ==
    ASSUME TypeOK, Delete
    PROVE  TypeOK'
  <1>1. PICK x \in items : /\ items' = items \ {x}
                           /\ steady' = steady \ {x}
                           /\ deleted' = deleted + Count(x)
    BY DEF Delete
  <1>2. IsFiniteSet(items') /\ Cardinality(items') <= MaxItems
    <2>1. IsFiniteSet(items) /\ items' \subseteq items /\ Cardinality(items) <= MaxItems
      BY <1>1 DEF TypeOK
    <2>2. /\ IsFiniteSet(items') /\ Cardinality(items') <= Cardinality(items)
          /\ Cardinality(items') \in Nat /\ Cardinality(items) \in Nat
      BY <2>1, FS_Subset, FS_CardinalityType
    <2> QED
      BY <2>1, <2>2, ListingAssumption
  <1>3. deleted' \in Nat
    BY <1>1, CountIsNatural DEF TypeOK
  <1>4. changes' \in 0..MaxChanges
    BY ListingAssumption DEF Delete, TypeOK
  <1>5. /\ items' \subseteq Item /\ steady' \subseteq items'
        /\ \A y, z \in items' : y.owner = z.owner /\ y.id = z.id => y = z
    BY <1>1 DEF TypeOK
  <1> QED
    BY <1>2, <1>3, <1>4, <1>5 DEF TypeOK, Delete, walk

\* The next token of any page is a token.
LEMMA NextTokenTyped ==
    ASSUME NEW tok \in Tokens, ~BadToken(tok), NEW size \in Int, NEW n \in Nat
    PROVE  NextToken(tok, size, n) \in Tokens
  <1>1. Offset(tok) \in Int /\ Size(size) \in Int /\ MaxInt \in Int
    BY PaginationAssumption DEF BadToken, Offset, Size
  <1>2. Wrap(Offset(tok) + Size(size)) \in Int
    BY <1>1 DEF Wrap
  <1>3. End(tok, size, n) \in Int
    BY <1>2 DEF End
  <1> QED
    BY <1>3 DEF NextToken, Tokens

LEMMA TypeOKShows ==
    ASSUME TypeOK, NEW page, page \subseteq Selected, NEW next \in Tokens, Shows(page, next),
           UNCHANGED <<kind, items, clock, steady, created, deleted, changes>>,
           tied' \in BOOLEAN
    PROVE  TypeOK'
  <1>1. seen' \subseteq Item /\ repeated' \subseteq seen'
    BY DEF Shows, Selected, TypeOK
  <1> QED
    BY <1>1 DEF Shows, TypeOK

LEMMA TypeOKList ==
    ASSUME TypeOK, List
    PROVE  TypeOK'
  <1>1. UNCHANGED <<kind, items, clock, steady, created, deleted, changes, ask>>
    BY ListCases
  <1>2. CASE Fails
    BY <1>1, <1>2 DEF Fails, TypeOK
  <1>3. CASE CutBy(Order) /\ ~Fails
    <2>1. ~BadToken(token) /\ tied' \in BOOLEAN
      BY <1>3 DEF CutBy, TypeOK, Ties
    <2>2. PICK size \in Sizes, index \in Sorted(Selected, Order) :
             LET n == Cardinality(Selected)
             IN  Shows({x \in Selected : OnPage(index[x], token, size, n)},
                       NextToken(token, size, n))
      BY <1>3 DEF CutBy
    <2>3. NextToken(token, size, Cardinality(Selected)) \in Tokens
      <3>1. token \in Tokens /\ size \in Int
        BY ListingAssumption DEF TypeOK
      <3>2. Cardinality(Selected) \in Nat
        BY SelectedFinite
      <3> QED
        BY <2>1, <3>1, <3>2, NextTokenTyped
    <2> QED
      BY <1>1, <2>1, <2>2, <2>3, TypeOKShows
  <1>4. CASE Shows(Selected, Last) /\ UNCHANGED tied
    <2>1. Last \in Tokens /\ tied' \in BOOLEAN
      BY <1>4 DEF Tokens, TypeOK
    <2> QED
      BY <1>1, <1>4, <2>1, TypeOKShows
  <1> QED
    BY <1>2, <1>3, <1>4, ListCases

LEMMA TypeOKStep == TypeOK /\ [Next]_vars => TypeOK'
  <1> SUFFICES ASSUME TypeOK, [Next]_vars PROVE TypeOK'
    OBVIOUS
  <1>1. CASE Create
    BY <1>1, TypeOKCreate
  <1>2. CASE Delete
    BY <1>2, TypeOKDelete
  <1>3. CASE Begin
    BY <1>3 DEF Begin, TypeOK, Selected
  <1>4. CASE List
    BY <1>4, TypeOKList
  <1>5. CASE UNCHANGED vars
    BY <1>5 DEF vars, TypeOK
  <1> QED
    BY <1>1, <1>2, <1>3, <1>4, <1>5 DEF Next, Over

\* Every variable keeps its type: a store never lists two resources under one
\* name, and a page holds nothing but resources.
THEOREM TypeCorrect == Spec => []TypeOK
  <1> QED
    BY TypeOKInit, TypeOKStep, PTL DEF Spec

-----------------------------------------------------------------------------
(* Tokens.                                                                 *)

\* A walk from the first page holds tokens of the server, and the walk of the
\* operations is its first page.
ClientInv ==
    /\ phase = "idle" => token = ask.token /\ seen = {} /\ repeated = {}
    /\ FromStart /\ phase \in {"idle", "walking"} => token \in Issued
    /\ kind = "operation" /\ phase \in {"idle", "walking"} => token = ask.token

LEMMA ClientInvInit == Init => ClientInv
  BY DEF Init, ClientInv, FromStart, Issued

LEMMA ClientInvStep == TypeOK /\ ClientInv /\ [Next]_vars => ClientInv'
  <1> SUFFICES ASSUME TypeOK, ClientInv, [Next]_vars PROVE ClientInv'
    OBVIOUS
  <1>1. CASE Create \/ Delete
    BY <1>1 DEF Create, Delete, walk, ClientInv, FromStart
  <1>2. CASE Begin
    BY <1>2 DEF Begin, ClientInv, FromStart
  <1>3. CASE List
    <2>1. phase = "walking" /\ UNCHANGED <<kind, ask>>
      BY <1>3, ListCases
    <2>2. CASE Fails
      BY <2>1, <2>2 DEF Fails, ClientInv
    <2>3. CASE CutBy(Order) /\ ~Fails
      <3>1. PICK size \in Sizes, index \in Sorted(Selected, Order) :
               LET n == Cardinality(Selected)
               IN  Shows({x \in Selected : OnPage(index[x], token, size, n)},
                         NextToken(token, size, n))
        BY <2>3 DEF CutBy
      <3>2. FromStart => token' \in Issued
        <4> SUFFICES ASSUME FromStart PROVE token' \in Issued
          OBVIOUS
        <4>1. token \in Issued
          BY <2>1 DEF ClientInv
        <4>2. size \in Int /\ Cardinality(Selected) \in 0..MaxItems
          BY SelectedFinite, ListingAssumption
        <4>3. NextToken(token, size, Cardinality(Selected)) \in Issued
          BY <4>1, <4>2, PageEnd
        <4> QED
          BY <3>1, <4>3 DEF Shows
      <3>3. kind = "operation" => phase' = "done"
        BY <1>3, <2>3 DEF List, ListTriggers, ListChannels, ListChannelConnections,
                          ListMessageBuses, ListMessageBusEnrollments, ListEnrollments,
                          ListPipelines, ListGoogleApiSources, ListProviders,
                          ListOperations, Shows
      <3> QED
        BY <2>1, <3>1, <3>2, <3>3 DEF ClientInv, FromStart, Shows
    <2>4. CASE Shows(Selected, Last)
      BY <2>1, <2>4 DEF Shows, ClientInv
    <2> QED
      BY <1>3, <2>2, <2>3, <2>4, ListCases
  <1>4. CASE UNCHANGED vars
    BY <1>4 DEF vars, ClientInv, FromStart
  <1> QED
    BY <1>1, <1>2, <1>3, <1>4 DEF Next, Over

\* PaginatePage accepts every token it has made: a client that starts at the
\* first page and follows next_page_token never gets InvalidArgument for it,
\* however the store changes meanwhile.
THEOREM TokensAccepted == Spec => []TokensAreAccepted
  <1>1. ClientInv => TokensAreAccepted
    <2> SUFFICES ASSUME ClientInv, FromStart, phase = "walking" PROVE ~BadToken(token)
      BY DEF TokensAreAccepted
    <2>1. token \in {Last} \cup Nat
      BY ListingAssumption DEF ClientInv, Issued
    <2> QED
      BY <2>1 DEF BadToken
  <1> QED
    BY <1>1, TypeOKInit, TypeOKStep, ClientInvInit, ClientInvStep, PTL DEF Spec

-----------------------------------------------------------------------------
(* Walks of a list that does not change.                                   *)

Unchanged == FromStart /\ ~tied /\ created = 0 /\ deleted = 0

\* The pages so far hold what the list has before the next token.
Progress ==
    Unchanged =>
        /\ phase \in {"idle", "walking"} =>
              seen = Behind(Selected, Order, token) /\ repeated = {}
        /\ phase = "done" => seen = Selected /\ repeated = {}

LEMMA NothingBehindStart ==
    ASSUME NEW S, IsFiniteSet(S), NEW order
    PROVE  Behind(S, order, Last) = {}
  <1>1. \A x \in S : Rank(S, order, x) \in Nat
    BY RankIsNatural
  <1> QED
    BY <1>1 DEF Behind, Offset

LEMMA ProgressInit == Init => Progress
  <1> SUFFICES ASSUME Init, FromStart PROVE Progress
    BY DEF Progress, Unchanged
  <1>1. Behind(Selected, Order, Last) = {}
    BY TypeOKInit, SelectedFinite, NothingBehindStart
  <1> QED
    BY <1>1 DEF Init, Progress, FromStart

\* Creates and deletes count for the walk, or leave what it selects alone.
LEMMA ProgressChange ==
    ASSUME TypeOK, TypeOK', ClientInv, Progress, Create \/ Delete,
           phase \in {"idle", "walking"}
    PROVE  Progress'
  <1> SUFFICES ASSUME Unchanged' PROVE Progress'
    BY DEF Progress
  <1>1. UNCHANGED <<phase, ask, token, seen, repeated, tied, kind>>
    BY DEF Create, Delete, walk
  <1>2. Order' = Order
    BY <1>1 DEF Order
  <1>3. CASE phase = "idle"
    <2>1. token' = Last /\ seen' = {} /\ repeated' = {}
      BY <1>1, <1>3 DEF ClientInv, Unchanged, FromStart
    <2>2. IsFiniteSet(Selected')
      <3>1. Selected' \subseteq items' /\ IsFiniteSet(items')
        BY <1>1, SelectedNext DEF TypeOK
      <3> QED
        BY <3>1, FS_Subset
    <2>3. Behind(Selected', Order', Last) = {}
      BY <2>2, NothingBehindStart
    <2> QED
      BY <1>1, <1>3, <2>1, <2>3 DEF Progress
  <1>4. CASE phase = "walking"
    <2> SUFFICES created = 0 /\ deleted = 0 /\ Selected' = Selected
      BY <1>1, <1>2, <1>4 DEF Progress, Unchanged, FromStart
    <2>1. CASE Create
      <3>1. PICK x : created' = created + Count(x) /\ items' = items \cup {x}
        BY <2>1 DEF Create
      <3>2. created' = 0 /\ deleted = 0
        BY <2>1 DEF Unchanged, Create
      <3>3. created = 0 /\ Count(x) = 0
        BY <3>1, <3>2, CountIsNatural DEF TypeOK
      <3>4. ~Selects(x)
        BY <1>4, <3>3 DEF Count
      <3> QED
        BY <1>1, <3>1, <3>2, <3>3, <3>4, SelectedNext DEF Selected
    <2>2. CASE Delete
      <3>1. PICK x : deleted' = deleted + Count(x) /\ items' = items \ {x}
        BY <2>2 DEF Delete
      <3>2. created = 0 /\ deleted' = 0
        BY <2>2 DEF Unchanged, Delete
      <3>3. deleted = 0 /\ Count(x) = 0
        BY <3>1, <3>2, CountIsNatural DEF TypeOK
      <3>4. ~Selects(x)
        BY <1>4, <3>3 DEF Count
      <3> QED
        BY <1>1, <3>1, <3>2, <3>3, <3>4, SelectedNext DEF Selected
    <2> QED
      BY <2>1, <2>2
  <1> QED
    BY <1>3, <1>4

LEMMA ProgressList ==
    ASSUME TypeOK, ClientInv, Progress, List
    PROVE  Progress'
  <1> SUFFICES ASSUME Unchanged' PROVE Progress'
    BY DEF Progress
  <1>1. phase = "walking" /\ UNCHANGED <<kind, items, created, deleted, ask>>
    BY ListCases
  <1>2. Selected' = Selected
    BY <1>1, SelectedNext DEF Selected
  <1>3. Order' = Order
    BY <1>1 DEF Order
  <1>4. Unchanged
    BY <1>1, ListCases DEF Unchanged, FromStart, Fails, CutBy, TypeOK
  <1>5. seen = Behind(Selected, Order, token) /\ repeated = {} /\ token \in Issued
    BY <1>1, <1>4 DEF Progress, ClientInv, Unchanged
  <1>6. IsFiniteSet(Selected) /\ Cardinality(Selected) \in 0..MaxItems
    BY SelectedFinite
  <1>7. CASE Fails
    BY <1>7 DEF Fails, Progress
  <1>8. CASE CutBy(Order) /\ ~Fails
    <2>1. PICK size \in Sizes, index \in Sorted(Selected, Order) :
             LET n == Cardinality(Selected)
             IN  Shows({x \in Selected : OnPage(index[x], token, size, n)},
                       NextToken(token, size, n))
      BY <1>8 DEF CutBy
    <2> DEFINE n == Cardinality(Selected)
               page == {x \in Selected : OnPage(index[x], token, size, n)}
               next == NextToken(token, size, n)
    <2>2. ~Ties(Selected, Order)
      BY <1>8 DEF CutBy, Unchanged
    <2>3. /\ page \cap Behind(Selected, Order, token) = {}
          /\ next # Last =>
                Behind(Selected, Order, token) \cup page = Behind(Selected, Order, next)
          /\ next = Last => Behind(Selected, Order, token) \cup page = Selected
      <3>1. size \in Int /\ Cardinality(Selected) <= MaxItems
        BY <1>6, ListingAssumption
      <3> QED
        BY <1>5, <1>6, <2>2, <3>1, PagesAddUp
    <2>4. /\ seen' = seen \cup page /\ repeated' = repeated \cup (page \cap seen)
          /\ token' = next /\ phase' = IF next = Last THEN "done" ELSE "walking"
      BY <2>1 DEF Shows
    <2> QED
      BY <1>2, <1>3, <1>5, <2>3, <2>4 DEF Progress
  <1>9. CASE kind = "operation" /\ Shows(Selected, Last)
    <2>1. token = Last
      BY <1>1, <1>4, <1>9 DEF ClientInv, Unchanged, FromStart
    <2>2. seen = {}
      BY <1>5, <1>6, <2>1, NothingBehindStart
    <2> QED
      BY <1>2, <1>5, <1>9, <2>2 DEF Shows, Progress
  <1> QED
    BY <1>7, <1>8, <1>9, ListCases

LEMMA ProgressStep == TypeOK /\ TypeOK' /\ ClientInv /\ Progress /\ [Next]_vars => Progress'
  <1> SUFFICES ASSUME TypeOK, TypeOK', ClientInv, Progress, [Next]_vars PROVE Progress'
    OBVIOUS
  <1>1. CASE phase \in {"idle", "walking"} /\ (Create \/ Delete)
    BY <1>1, ProgressChange
  <1>2. CASE Begin
    <2>1. Selected' = Selected /\ Order' = Order
      BY <1>2, SelectedNext DEF Begin, Order, Selected
    <2> QED
      BY <1>2, <2>1 DEF Begin, Progress, Unchanged, FromStart
  <1>3. CASE List
    BY <1>3, ProgressList
  <1>4. CASE UNCHANGED vars
    <2>1. Selected' = Selected /\ Order' = Order
      BY <1>4, SelectedNext DEF vars, Order, Selected
    <2> QED
      BY <1>4, <2>1 DEF vars, Progress, Unchanged, FromStart
  <1> QED
    BY <1>1, <1>2, <1>3, <1>4 DEF Next, Over

\* A client that walks all pages of a list, whatever sizes it asks for, has
\* seen each resource it asked for once and nothing else, if none of them was
\* created or deleted on the way and no two have the same sort key.
THEOREM UnchangedWalksAreExact == Spec => []UnchangedWalkIsExact
  <1>1. Progress => UnchangedWalkIsExact
    BY DEF Progress, UnchangedWalkIsExact, Walked, Unchanged
  <1> QED
    BY <1>1, TypeOKInit, TypeOKStep, ClientInvInit, ClientInvStep, ProgressInit,
       ProgressStep, PTL DEF Spec

-----------------------------------------------------------------------------
(* Walks of a list that changes.  Where the sort keys of two items are equal *)
(* for a while, between two pages, the items are put in order by their id:  *)
(* then a Create or a Delete moves one item across the offset, no more.     *)

\* Listings of one owner, whose items have different ids.
Scoped == kind \notin {"provider", "operation"}

Before(order, x, y) ==
    Precedes(order, x, y) \/ (~Precedes(order, y, x) /\ x.id < y.id)

Place(S, order, x) == Cardinality({y \in S : Before(order, y, x)})

\* Items there all the time that no page has shown, and no page will.
Missed == {x \in steady \ seen : Place(Selected, Order, x) < Offset(token)}

\* Items that two pages have shown, or that one has and the next ones will.
Twice == repeated \cup {x \in seen \cap Selected : Place(Selected, Order, x) >= Offset(token)}

WalkInv ==
    /\ steady \subseteq Selected
    /\ IsFiniteSet(repeated)
    /\ phase = "idle" => steady = {}
    /\ kind = "provider" => created = 0 /\ deleted = 0
    /\ kind = "operation" /\ phase \in {"idle", "walking"} => seen = {} /\ repeated = {}
    /\ Scoped /\ FromStart /\ ~tied /\ phase = "walking" =>
          Cardinality(Missed) <= deleted /\ Cardinality(Twice) <= created
    /\ FromStart /\ ~tied /\ phase = "done" =>
          Cardinality(steady \ seen) <= deleted /\ Cardinality(repeated) <= created

\* The order is a strict one, total where the ids differ.
LEMMA BeforeOrders ==
    ASSUME NEW order, NEW x \in Item, NEW y \in Item
    PROVE  /\ ~Before(order, x, x)
           /\ ~(Before(order, x, y) /\ Before(order, y, x))
           /\ x.id # y.id => Before(order, x, y) \/ Before(order, y, x)
           /\ \A z \in Item : Before(order, x, y) /\ Before(order, y, z) => Before(order, x, z)
  <1>1. \A z \in Item : z.id \in Nat /\ z.time \in Nat
    BY ListingAssumption DEF Item
  <1>2. CASE order = "create_time desc"
    <2>1. \A a, b : Precedes(order, a, b) <=> a.time > b.time
      BY <1>2 DEF Precedes
    <2> QED
      BY <1>1, <2>1 DEF Before
  <1>3. CASE order # "create_time desc"
    <2>1. \A a, b : Precedes(order, a, b) <=> a.id < b.id
      BY <1>3 DEF Precedes
    <2> QED
      BY <1>1, <2>1 DEF Before
  <1> QED
    BY <1>2, <1>3

LEMMA PlaceIsNatural ==
    ASSUME NEW S, IsFiniteSet(S), NEW order, NEW x
    PROVE  Place(S, order, x) \in Nat
  BY FS_Subset, FS_CardinalityType DEF Place

LEMMA PlacesDiffer ==
    ASSUME NEW S \in SUBSET Item, IsFiniteSet(S), NEW order,
           NEW x \in S, NEW y \in S
    PROVE  /\ Before(order, x, y) => Place(S, order, x) < Place(S, order, y)
           /\ x.id # y.id => Place(S, order, x) # Place(S, order, y)
  <1>1. ASSUME NEW a \in S, NEW b \in S, Before(order, a, b)
        PROVE  Place(S, order, a) < Place(S, order, b)
    <2> DEFINE A == {z \in S : Before(order, z, a)}
               B == {z \in S : Before(order, z, b)}
    <2>1. A \subseteq B
      BY <1>1, BeforeOrders
    <2>2. a \in B /\ a \notin A
      BY <1>1, BeforeOrders
    <2>3. IsFiniteSet(A) /\ IsFiniteSet(B)
      BY FS_Subset
    <2> HIDE DEF A, B
    <2>4. /\ Cardinality(A) \in Nat /\ Cardinality(B) \in Nat
          /\ Cardinality(A) <= Cardinality(B)
          /\ Cardinality(A) # Cardinality(B)
      BY <2>1, <2>2, <2>3, FS_Subset, FS_CardinalityType
    <2>5. Cardinality(A) < Cardinality(B)
      BY <2>4
    <2> QED
      BY <2>5 DEF Place, A, B
  <1>2. Place(S, order, x) \in Nat /\ Place(S, order, y) \in Nat
    BY PlaceIsNatural
  <1>3. x.id # y.id => Before(order, x, y) \/ Before(order, y, x)
    BY BeforeOrders
  <1>4. Before(order, x, y) => Place(S, order, x) < Place(S, order, y)
    BY <1>1
  <1>5. Before(order, y, x) => Place(S, order, y) < Place(S, order, x)
    BY <1>1
  <1> QED
    BY <1>2, <1>3, <1>4, <1>5

\* A new item moves those after it by one.
LEMMA PlaceMoves ==
    ASSUME NEW S, IsFiniteSet(S), NEW e, e \notin S, NEW order, NEW x
    PROVE  Place(S \cup {e}, order, x) =
               IF Before(order, e, x) THEN Place(S, order, x) + 1 ELSE Place(S, order, x)
  <1> DEFINE A == {y \in S : Before(order, y, x)}
             B == {y \in S \cup {e} : Before(order, y, x)}
  <1>1. IsFiniteSet(A) /\ e \notin A
    BY FS_Subset
  <1>2. CASE Before(order, e, x)
    <2>1. B = A \cup {e}
      BY <1>2
    <2>2. Cardinality(A \cup {e}) = Cardinality(A) + 1
      BY <1>1, FS_AddElement
    <2> QED
      BY <1>2, <2>1, <2>2 DEF Place
  <1>3. CASE ~Before(order, e, x)
    <2>1. B = A
      BY <1>3
    <2> QED
      BY <1>3, <2>1 DEF Place
  <1> QED
    BY <1>2, <1>3

\* Without equal sort keys the place is the rank.
LEMMA PlaceIsRank ==
    ASSUME NEW S \in SUBSET Item, NEW order, ~Ties(S, order), NEW x \in S
    PROVE  Place(S, order, x) = Rank(S, order, x)
  <1>1. ASSUME NEW y \in S
        PROVE  Before(order, y, x) <=> Precedes(order, y, x)
    <2>1. /\ Precedes(order, y, x) => Before(order, y, x)
          /\ Precedes(order, x, y) => Before(order, x, y)
      BY DEF Before
    <2>2. ~Before(order, x, x) /\ ~(Before(order, x, y) /\ Before(order, y, x))
      BY BeforeOrders
    <2> QED
      BY <2>1, <2>2 DEF Ties
  <1>2. {y \in S : Before(order, y, x)} = {y \in S : Precedes(order, y, x)}
    BY <1>1
  <1> QED
    BY <1>2 DEF Place, Rank

\* A set that another one with at most one more member includes.
LEMMA OneMore ==
    ASSUME NEW S, IsFiniteSet(S), NEW T, NEW n \in Nat, Cardinality(S) <= n,
           \A x, y \in T \ S : x = y
    PROVE  IsFiniteSet(T) /\ Cardinality(T) <= n + 1
  <1>1. Cardinality(S) \in Nat
    BY FS_CardinalityType
  <1>2. CASE T \subseteq S
    <2>1. IsFiniteSet(T) /\ Cardinality(T) <= Cardinality(S) /\ Cardinality(T) \in Nat
      BY <1>2, FS_Subset, FS_CardinalityType
    <2> QED
      BY <1>1, <2>1
  <1>3. ASSUME NEW e \in T \ S
        PROVE  IsFiniteSet(T) /\ Cardinality(T) <= n + 1
    <2>1. T \subseteq S \cup {e}
      BY <1>3
    <2>2. IsFiniteSet(S \cup {e}) /\ Cardinality(S \cup {e}) = Cardinality(S) + 1
      BY <1>3, FS_AddElement
    <2>3. /\ IsFiniteSet(T) /\ Cardinality(T) \in Nat
          /\ Cardinality(T) <= Cardinality(S \cup {e})
      BY <2>1, <2>2, FS_Subset, FS_CardinalityType
    <2> QED
      BY <1>1, <2>2, <2>3
  <1> QED
    BY <1>2, <1>3

LEMMA NoMore ==
    ASSUME NEW S, IsFiniteSet(S), NEW T, T \subseteq S, NEW n \in Nat, Cardinality(S) <= n
    PROVE  Cardinality(T) <= n
  <1>1. Cardinality(T) <= Cardinality(S) /\ Cardinality(T) \in Nat /\ Cardinality(S) \in Nat
    BY FS_Subset, FS_CardinalityType
  <1> QED
    BY <1>1

\* Whatever the offset, a new item has at most one item cross it.
LEMMA OneCrosses ==
    ASSUME NEW S \in SUBSET Item, IsFiniteSet(S), NEW e \in Item, e \notin S,
           \A x, y \in S \cup {e} : x.id = y.id => x = y,
           NEW order, NEW off \in Int
    PROVE  LET T == S \cup {e}
               crosses(x) == /\ x \in T /\ Place(T, order, x) >= off
                             /\ ~(x \in S /\ Place(S, order, x) >= off)
           IN  /\ \A x \in S : Place(S, order, x) >= off => Place(T, order, x) >= off
               /\ \A x, y \in T : crosses(x) /\ crosses(y) => x = y
  <1> DEFINE T == S \cup {e}
             crosses(x) == /\ x \in T /\ Place(T, order, x) >= off
                           /\ ~(x \in S /\ Place(S, order, x) >= off)
  <1>1. /\ T \in SUBSET Item /\ IsFiniteSet(T)
        /\ \A x, y \in T : x.id = y.id => x = y
        /\ S \subseteq T /\ e \in T /\ \A x \in T : x = e \/ x \in S
    BY FS_AddElement
  <1>2. \A x : /\ Place(S, order, x) \in Nat /\ Place(T, order, x) \in Nat
               /\ Place(T, order, x) = IF Before(order, e, x) THEN Place(S, order, x) + 1
                                       ELSE Place(S, order, x)
    BY <1>1, PlaceIsNatural, PlaceMoves
  <1> HIDE DEF T
  <1>3. \A x, y \in T : /\ Before(order, x, y) => Place(T, order, x) < Place(T, order, y)
                        /\ x # y => Place(T, order, x) # Place(T, order, y)
    BY <1>1, PlacesDiffer
  <1>4. \A x \in S : Place(S, order, x) >= off => Place(T, order, x) >= off
    BY <1>2
  <1>5. ASSUME NEW x \in S, crosses(x)
        PROVE  Before(order, e, x) /\ Place(T, order, x) = off
    BY <1>2, <1>5
  <1>6. ASSUME NEW x \in S, crosses(x), crosses(e)
        PROVE  FALSE
    BY <1>1, <1>2, <1>3, <1>5, <1>6
  <1>7. ASSUME NEW x \in T, NEW y \in T, crosses(x), crosses(y)
        PROVE  x = y
    <2>1. CASE x \in S /\ y \in S
      BY <1>3, <1>5, <1>7, <2>1
    <2>2. CASE x = e /\ y = e
      BY <2>2
    <2> QED
      BY <1>1, <1>6, <1>7, <2>1, <2>2
  <1> QED
    BY <1>4, <1>7 DEF T

\* The items of a scoped listing have different ids.
LEMMA ScopedIds ==
    ASSUME Scoped, NEW S, \A x, y \in S : x.owner = y.owner /\ x.id = y.id => x = y,
           \A x \in S : Selects(x)
    PROVE  \A x, y \in S : x.id = y.id => x = y
  <1>1. \A x \in S : x.owner = ask.owner
    BY DEF Scoped, Selects
  <1> QED
    BY <1>1

LEMMA WalkInvInit == Init => WalkInv
  <1> SUFFICES ASSUME Init PROVE WalkInv
    OBVIOUS
  <1>1. /\ steady = {} /\ repeated = {} /\ seen = {} /\ phase = "idle"
        /\ created = 0 /\ deleted = 0
    BY DEF Init
  <1> QED
    BY <1>1, FS_EmptySet DEF WalkInv

\* A Create has at most one item cross the offset towards the pages to come.
LEMMA WalkInvCreate ==
    ASSUME TypeOK, TypeOK', ClientInv, WalkInv, Create, phase \in {"idle", "walking"}
    PROVE  WalkInv'
  <1>1. /\ UNCHANGED <<phase, ask, token, seen, repeated, tied, kind, steady, deleted>>
        /\ kind # "provider"
    BY DEF Create, walk, Mutable
  <1>2. Order' = Order
    BY <1>1 DEF Order
  <1>3. PICK o \in Owners, i \in Ids, t \in {clock, clock + 1} :
          LET x == [owner |-> o, id |-> i, time |-> t]
          IN  /\ ~Taken(o, i)
              /\ items' = items \cup {x}
              /\ created' = created + Count(x)
    BY DEF Create
  <1> DEFINE e == [owner |-> o, id |-> i, time |-> t]
  <1>4. /\ e \in Item /\ e \notin items
        /\ items' = items \cup {e} /\ created' = created + Count(e)
    BY <1>3 DEF Item, TypeOK, Taken
  <1> HIDE DEF e
  <1>5. Selected' = IF Selects(e) THEN Selected \cup {e} ELSE Selected
    BY <1>1, <1>4, SelectedNext DEF Selected
  <1>6. steady' \subseteq Selected'
    BY <1>1, <1>5 DEF WalkInv
  <1>7. ASSUME Scoped, FromStart, ~tied, phase = "walking"
        PROVE  Cardinality(Missed') <= deleted' /\ Cardinality(Twice') <= created'
    <2>1. /\ Cardinality(Missed) <= deleted /\ Cardinality(Twice) <= created
          /\ steady \subseteq Selected /\ IsFiniteSet(repeated)
          /\ created \in Nat /\ deleted \in Nat
      BY <1>7 DEF WalkInv, TypeOK
    <2>2. /\ Selected \in SUBSET Item /\ IsFiniteSet(Selected) /\ e \notin Selected
      BY <1>4, SelectedFinite DEF TypeOK
    <2>3. IsFiniteSet(Missed) /\ IsFiniteSet(Twice)
      <3>1. Missed \subseteq Selected
        BY <2>1 DEF Missed
      <3>2. IsFiniteSet({x \in seen \cap Selected : Place(Selected, Order, x) >= Offset(token)})
        BY <2>2, FS_Subset
      <3> QED
        BY <2>1, <2>2, <3>1, <3>2, FS_Subset, FS_Union DEF Twice
    <2>4. CASE ~Selects(e)
      <3>1. Selected' = Selected /\ created' = created
        BY <1>4, <1>5, <2>1, <2>4 DEF Count
      <3>2. Missed' = Missed /\ Twice' = Twice
        BY <1>1, <1>2, <3>1 DEF Missed, Twice, Offset
      <3> QED
        BY <1>1, <2>1, <3>1, <3>2
    <2>5. CASE Selects(e)
      <3> DEFINE T == Selected \cup {e}
                 off == Offset(token)
      <3>1. Selected' = T /\ created' = created + 1
        BY <1>4, <1>5, <1>7, <2>1, <2>5 DEF Count
      <3>2. \A x, y \in T : x.id = y.id => x = y
        <4>1. T \subseteq items' /\ \A x \in T : Selects(x)
          BY <1>4, <2>5 DEF Selected
        <4>2. \A x, y \in items' : x.owner = y.owner /\ x.id = y.id => x = y
          BY DEF TypeOK
        <4> HIDE DEF T
        <4> QED
          BY <1>7, <4>1, <4>2, ScopedIds
      <3>3. off \in Int
        <4>1. token \in Issued
          BY <1>7 DEF ClientInv
        <4> QED
          BY <4>1, ListingAssumption DEF Issued, Offset
      <3>4. /\ \A x \in Selected : Place(Selected, Order, x) >= off => Place(T, Order, x) >= off
            /\ \A x, y \in T :
                  /\ Place(T, Order, x) >= off /\ Place(T, Order, y) >= off
                  /\ ~(x \in Selected /\ Place(Selected, Order, x) >= off)
                  /\ ~(y \in Selected /\ Place(Selected, Order, y) >= off)
                  => x = y
        <4> HIDE DEF off
        <4> QED
          BY <1>4, <2>2, <3>2, <3>3, OneCrosses
      <3>5. Offset(token)' = off
        BY <1>1 DEF Offset
      <3>6. \A x \in Selected : Place(Selected, Order, x) \in Nat /\ Place(T, Order, x) \in Nat
        BY <2>2, FS_AddElement, PlaceIsNatural
      <3> HIDE DEF T, off
      <3>7. Missed' \subseteq Missed
        <4>1. Missed' = {x \in steady \ seen : Place(T, Order, x) < off}
          BY <1>1, <1>2, <3>1, <3>5 DEF Missed
        <4>2. Missed = {x \in steady \ seen : Place(Selected, Order, x) < off}
          BY DEF Missed, off
        <4> QED
          BY <2>1, <3>3, <3>4, <3>6, <4>1, <4>2
      <3>8. \A x, y \in Twice' \ Twice : x = y
        <4>1. Twice' = repeated \cup {x \in seen \cap T : Place(T, Order, x) >= off}
          BY <1>1, <1>2, <3>1, <3>5 DEF Twice
        <4>2. Twice = repeated \cup {x \in seen \cap Selected : Place(Selected, Order, x) >= off}
          BY DEF Twice, off
        <4> QED
          BY <3>4, <4>1, <4>2
      <3>9. Cardinality(Missed') <= deleted
        BY <2>1, <2>3, <3>7, NoMore
      <3>10. Cardinality(Twice') <= created + 1
        BY <2>1, <2>3, <3>8, OneMore
      <3> QED
        BY <1>1, <3>1, <3>9, <3>10
    <2> QED
      BY <2>4, <2>5
  <1> QED
    BY <1>1, <1>6, <1>7 DEF WalkInv, Scoped, FromStart

\* A Delete has at most one item cross the offset away from them.
LEMMA WalkInvDelete ==
    ASSUME TypeOK, ClientInv, WalkInv, Delete, phase \in {"idle", "walking"}
    PROVE  WalkInv'
  <1>1. /\ UNCHANGED <<phase, ask, token, seen, repeated, tied, kind, created>>
        /\ kind # "provider"
    BY DEF Delete, walk, Mutable
  <1>2. Order' = Order
    BY <1>1 DEF Order
  <1>3. PICK e \in items : /\ items' = items \ {e} /\ steady' = steady \ {e}
                           /\ deleted' = deleted + Count(e)
    BY DEF Delete
  <1>4. Selected' = Selected \ {e} /\ (e \in Selected <=> Selects(e))
    BY <1>1, <1>3, SelectedNext DEF Selected
  <1>5. steady' \subseteq Selected' /\ (phase = "idle" => steady' = {})
    BY <1>3, <1>4 DEF WalkInv
  <1>6. ASSUME Scoped, FromStart, ~tied, phase = "walking"
        PROVE  Cardinality(Missed') <= deleted' /\ Cardinality(Twice') <= created'
    <2>1. /\ Cardinality(Missed) <= deleted /\ Cardinality(Twice) <= created
          /\ steady \subseteq Selected /\ IsFiniteSet(repeated)
          /\ created \in Nat /\ deleted \in Nat
      BY <1>6 DEF WalkInv, TypeOK
    <2>2. Selected \in SUBSET Item /\ IsFiniteSet(Selected)
      BY SelectedFinite DEF TypeOK
    <2>3. IsFiniteSet(Missed) /\ IsFiniteSet(Twice)
      <3>1. Missed \subseteq Selected
        BY <2>1 DEF Missed
      <3>2. IsFiniteSet({x \in seen \cap Selected : Place(Selected, Order, x) >= Offset(token)})
        BY <2>2, FS_Subset
      <3> QED
        BY <2>1, <2>2, <3>1, <3>2, FS_Subset, FS_Union DEF Twice
    <2>4. CASE ~Selects(e)
      <3>1. Selected' = Selected /\ deleted' = deleted /\ steady' = steady
        BY <1>3, <1>4, <2>1, <2>4 DEF Count
      <3>2. Missed' = Missed /\ Twice' = Twice
        BY <1>1, <1>2, <3>1 DEF Missed, Twice, Offset
      <3> QED
        BY <1>1, <2>1, <3>1, <3>2
    <2>5. CASE Selects(e)
      <3> DEFINE S == Selected \ {e}
                 off == Offset(token)
      <3>1. Selected' = S /\ deleted' = deleted + 1 /\ Selected = S \cup {e}
        BY <1>3, <1>4, <1>6, <2>1, <2>5 DEF Count
      <3>2. off \in Int
        <4>1. token \in Issued
          BY <1>6 DEF ClientInv
        <4> QED
          BY <4>1, ListingAssumption DEF Issued, Offset
      <3>3. /\ S \in SUBSET Item /\ IsFiniteSet(S) /\ e \in Item /\ e \notin S
            /\ \A x, y \in S \cup {e} : x.id = y.id => x = y
        <4>1. \A x, y \in items : x.owner = y.owner /\ x.id = y.id => x = y
          BY DEF TypeOK
        <4>2. Selected \subseteq items /\ \A x \in Selected : Selects(x)
          BY DEF Selected
        <4>3. \A x, y \in Selected : x.id = y.id => x = y
          BY <1>6, <4>1, <4>2, ScopedIds
        <4>4. e \in Item /\ IsFiniteSet(S)
          BY <1>3, <2>2, FS_Subset DEF TypeOK
        <4> QED
          BY <2>2, <3>1, <4>3, <4>4
      <3> HIDE DEF S, off
      <3>4. /\ \A x \in S : Place(S, Order, x) >= off => Place(Selected, Order, x) >= off
            /\ \A x, y \in Selected :
                  /\ Place(Selected, Order, x) >= off /\ Place(Selected, Order, y) >= off
                  /\ ~(x \in S /\ Place(S, Order, x) >= off)
                  /\ ~(y \in S /\ Place(S, Order, y) >= off)
                  => x = y
        BY <3>1, <3>2, <3>3, OneCrosses
      <3>5. Offset(token)' = off
        BY <1>1 DEF Offset, off
      <3>6. \A x : Place(Selected, Order, x) \in Nat /\ Place(S, Order, x) \in Nat
        BY <2>2, <3>3, PlaceIsNatural
      <3>7. Twice' \subseteq Twice
        <4>1. Twice' = repeated \cup {x \in seen \cap S : Place(S, Order, x) >= off}
          BY <1>1, <1>2, <3>1, <3>5 DEF Twice
        <4>2. Twice = repeated \cup {x \in seen \cap Selected : Place(Selected, Order, x) >= off}
          BY DEF Twice, off
        <4> QED
          BY <3>1, <3>4, <4>1, <4>2
      <3>8. \A x, y \in Missed' \ Missed : x = y
        <4>1. Missed' = {x \in (steady \ {e}) \ seen : Place(S, Order, x) < off}
          BY <1>1, <1>2, <1>3, <3>1, <3>5 DEF Missed
        <4>2. Missed = {x \in steady \ seen : Place(Selected, Order, x) < off}
          BY DEF Missed, off
        <4>3. \A x \in Missed' \ Missed :
                 /\ x \in Selected /\ Place(Selected, Order, x) >= off
                 /\ ~(Place(S, Order, x) >= off)
          BY <2>1, <3>2, <3>6, <4>1, <4>2
        <4> QED
          BY <3>4, <4>3
      <3>9. Cardinality(Twice') <= created
        BY <2>1, <2>3, <3>7, NoMore
      <3>10. Cardinality(Missed') <= deleted + 1
        BY <2>1, <2>3, <3>8, OneMore
      <3> QED
        BY <1>1, <3>1, <3>9, <3>10
    <2> QED
      BY <2>4, <2>5
  <1> QED
    BY <1>1, <1>5, <1>6 DEF WalkInv, Scoped, FromStart

LEMMA WalkInvBegin ==
    ASSUME TypeOK, ClientInv, WalkInv, Begin
    PROVE  WalkInv'
  <1>1. /\ phase = "idle" /\ phase' = "walking" /\ steady' = Selected
        /\ UNCHANGED <<kind, items, ask, token, seen, repeated, tied, created, deleted>>
    BY DEF Begin
  <1>2. Selected' = Selected
    BY <1>1, SelectedNext DEF Selected
  <1>3. seen' = {} /\ repeated' = {} /\ created' \in Nat /\ deleted' \in Nat
    BY <1>1 DEF ClientInv, TypeOK
  <1>4. ASSUME FromStart
        PROVE  Missed' = {} /\ Twice' = {}
    <2>1. token' = Last
      BY <1>1, <1>4 DEF ClientInv, FromStart
    <2>2. Twice' = {}
      BY <1>3 DEF Twice
    <2>3. ASSUME NEW x \in Selected' PROVE ~(Place(Selected', Order', x) < Offset(token'))
      <3>1. Place(Selected', Order', x) \in Nat
        BY <1>2, SelectedFinite, PlaceIsNatural
      <3> QED
        BY <2>1, <3>1 DEF Offset
    <2>4. Missed' = {x \in steady' \ seen' : Place(Selected', Order', x) < Offset(token')}
      BY DEF Missed, Offset
    <2> QED
      BY <1>1, <1>2, <2>2, <2>3, <2>4
  <1>5. FromStart' = FromStart
    BY <1>1 DEF FromStart
  <1> QED
    BY <1>1, <1>2, <1>3, <1>4, <1>5, FS_EmptySet DEF WalkInv

\* A page, or the end, takes the items before the offset into account.
LEMMA WalkInvCut ==
    ASSUME TypeOK, ClientInv, WalkInv, Scoped, FromStart, ~tied, phase = "walking",
           ~Ties(Selected, Order), UNCHANGED <<kind, items, ask, steady, created, deleted>>,
           NEW size \in Int, NEW index \in Sorted(Selected, Order),
           LET n == Cardinality(Selected)
           IN  Shows({x \in Selected : OnPage(index[x], token, size, n)},
                     NextToken(token, size, n))
    PROVE  /\ phase' = "walking" =>
                 Cardinality(Missed') <= deleted' /\ Cardinality(Twice') <= created'
           /\ phase' = "done" =>
                 Cardinality(steady' \ seen') <= deleted' /\ Cardinality(repeated') <= created'
  <1> DEFINE n == Cardinality(Selected)
             page == {x \in Selected : OnPage(index[x], token, size, n)}
             next == NextToken(token, size, n)
             early(tok) == {x \in Selected : Place(Selected, Order, x) < Offset(tok)}
  <1>1. /\ Selected \in SUBSET Item /\ IsFiniteSet(Selected) /\ Cardinality(Selected) <= MaxItems
        /\ token \in Issued /\ Selected' = Selected /\ Order' = Order
        /\ Cardinality(Selected) \in 0..MaxItems
    BY SelectedFinite, SelectedNext, ListingAssumption DEF TypeOK, ClientInv, Selected, Order
  <1>2. \A tok : early(tok) = Behind(Selected, Order, tok)
    BY <1>1, PlaceIsRank DEF Behind
  <1>3. /\ page \cap early(token) = {}
        /\ next # Last => early(token) \cup page = early(next)
        /\ next = Last => early(token) \cup page = Selected
    BY <1>1, <1>2, PagesAddUp
  <1>4. /\ seen' = seen \cup page /\ repeated' = repeated \cup (page \cap seen)
        /\ token' = next /\ phase' = IF next = Last THEN "done" ELSE "walking"
        /\ page \subseteq Selected
    BY DEF Shows
  <1>5. next \in Issued
    BY <1>1, PageEnd
  <1>6. \A x, tok : tok \in Issued => Place(Selected, Order, x) \in Nat /\ Offset(tok) \in Int
    BY <1>1, PlaceIsNatural, ListingAssumption DEF Issued, Offset
  <1>7. \A tok \in Issued : \A s :
           {x \in s \cap Selected : Place(Selected, Order, x) >= Offset(tok)}
              = (s \cap Selected) \ early(tok)
    BY <1>6
  <1>8. /\ Missed = (steady \ seen) \cap early(token)
        /\ Twice = repeated \cup ((seen \cap Selected) \ early(token))
        /\ steady \subseteq Selected /\ IsFiniteSet(repeated)
        /\ Cardinality(Missed) <= deleted /\ Cardinality(Twice) <= created
        /\ created \in Nat /\ deleted \in Nat
    BY <1>1, <1>7 DEF Missed, Twice, WalkInv, TypeOK
  <1>9. next # Last => /\ Missed' = (steady \ seen') \cap early(next)
                        /\ Twice' = repeated' \cup ((seen' \cap Selected) \ early(next))
    <2>1. /\ Missed' = {x \in steady \ seen' : Place(Selected, Order, x) < Offset(next)}
          /\ Twice' = repeated' \cup
                {x \in seen' \cap Selected : Place(Selected, Order, x) >= Offset(next)}
      BY <1>1, <1>4 DEF Missed, Twice, Offset
    <2> QED
      BY <1>5, <1>7, <1>8, <2>1
  <1>10. IsFiniteSet(Missed) /\ IsFiniteSet(Twice)
    <2>1. Missed \subseteq Selected /\ ((seen \cap Selected) \ early(token)) \subseteq Selected
      BY <1>8
    <2> QED
      BY <1>1, <1>8, <2>1, FS_Subset, FS_Union
  <1> HIDE DEF page, next, early, n
  <1>11. /\ next # Last => Missed' \subseteq Missed /\ Twice' \subseteq Twice
         /\ next = Last => steady \ seen' \subseteq Missed /\ repeated' \subseteq Twice
    BY <1>3, <1>4, <1>8, <1>9
  <1> QED
    BY <1>4, <1>8, <1>10, <1>11, NoMore

LEMMA WalkInvList ==
    ASSUME TypeOK, ClientInv, Progress, Progress', WalkInv, List
    PROVE  WalkInv'
  <1>1. phase = "walking" /\ UNCHANGED <<kind, items, steady, created, deleted, ask>>
    BY ListCases
  <1>2. Selected' = Selected /\ steady \subseteq Selected /\ IsFiniteSet(Selected)
    BY <1>1, SelectedNext, SelectedFinite DEF Selected, WalkInv
  <1>3. CASE Fails
    <2>1. phase' = "failed" /\ repeated' = repeated
      BY <1>3 DEF Fails
    <2> QED
      BY <1>1, <1>2, <2>1 DEF WalkInv
  <1>4. CASE kind # "operation" /\ CutBy(Order) /\ ~Fails
    <2>1. PICK size \in Sizes, index \in Sorted(Selected, Order) :
             LET n == Cardinality(Selected)
             IN  Shows({x \in Selected : OnPage(index[x], token, size, n)},
                       NextToken(token, size, n))
      BY <1>4 DEF CutBy
    <2> DEFINE page == {x \in Selected :
                           OnPage(index[x], token, size, Cardinality(Selected))}
    <2>2. tied' = (tied \/ Ties(Selected, Order)) /\ tied \in BOOLEAN
      BY <1>4 DEF CutBy, TypeOK
    <2>3. size \in Int
      BY ListingAssumption
    <2>4. repeated' = repeated \cup (page \cap seen) /\ page \subseteq Selected
      BY <2>1 DEF Shows
    <2>5. IsFiniteSet(repeated')
      BY <1>2, <2>4, FS_Subset, FS_Union DEF WalkInv
    <2>6. phase' \in {"walking", "done"}
      BY <2>1 DEF Shows
    <2>7. CASE Scoped
      <3>1. ASSUME FromStart', ~tied'
            PROVE  /\ phase' = "walking" =>
                         Cardinality(Missed') <= deleted' /\ Cardinality(Twice') <= created'
                   /\ phase' = "done" => /\ Cardinality(steady' \ seen') <= deleted'
                                         /\ Cardinality(repeated') <= created'
        <4>1. FromStart /\ ~tied /\ ~Ties(Selected, Order)
          BY <1>1, <2>2, <3>1 DEF FromStart
        <4> QED
          BY <1>1, <2>1, <2>3, <2>7, <4>1, WalkInvCut
      <3> QED
        BY <1>1, <1>2, <1>4, <2>5, <2>6, <3>1 DEF WalkInv
    <2>8. CASE ~Scoped
      <3>1. kind = "provider" /\ created = 0 /\ deleted = 0
        BY <1>4, <2>8 DEF Scoped, WalkInv
      <3>2. ASSUME FromStart', ~tied', phase' = "done"
            PROVE  seen' = Selected /\ repeated' = {}
        BY <1>1, <1>2, <3>1, <3>2 DEF Progress, Unchanged
      <3>3. ASSUME FromStart', ~tied', phase' = "done"
            PROVE  Cardinality(steady' \ seen') <= deleted' /\ Cardinality(repeated') <= created'
        <4>1. steady' \ seen' = {} /\ repeated' = {}
          BY <1>1, <1>2, <3>2, <3>3
        <4> QED
          BY <1>1, <3>1, <4>1, FS_EmptySet
      <3> QED
        BY <1>1, <1>2, <2>5, <2>6, <2>8, <3>1, <3>3 DEF WalkInv, Scoped
    <2> QED
      BY <2>7, <2>8
  <1>5. CASE kind = "operation" /\ Shows(Selected, Last)
    <2>1. seen = {} /\ repeated = {} /\ created \in Nat /\ deleted \in Nat
      BY <1>1, <1>5 DEF WalkInv, TypeOK
    <2>2. seen' = Selected /\ repeated' = {} /\ phase' = "done"
      BY <1>5, <2>1 DEF Shows
    <2>3. steady' \ seen' = {}
      BY <1>1, <1>2, <2>2
    <2> QED
      BY <1>1, <1>2, <1>5, <2>1, <2>2, <2>3, FS_EmptySet DEF WalkInv
  <1> QED
    BY <1>3, <1>4, <1>5, ListCases

LEMMA WalkInvStep ==
    ASSUME TypeOK, TypeOK', ClientInv, Progress, Progress', WalkInv, [Next]_vars
    PROVE  WalkInv'
  <1>1. CASE phase \in {"idle", "walking"} /\ (Create \/ Delete)
    BY <1>1, WalkInvCreate, WalkInvDelete
  <1>2. CASE Begin
    BY <1>2, WalkInvBegin
  <1>3. CASE List
    BY <1>3, WalkInvList
  <1>4. CASE UNCHANGED vars
    <2>1. Selected' = Selected /\ Order' = Order
      BY <1>4, SelectedNext DEF vars, Order, Selected
    <2>2. Missed' = Missed /\ Twice' = Twice
      BY <1>4, <2>1 DEF vars, Missed, Twice, Offset
    <2> QED
      BY <1>4, <2>1, <2>2 DEF vars, WalkInv, Scoped, FromStart
  <1> QED
    BY <1>1, <1>2, <1>3, <1>4 DEF Next, Over

LEMMA WalksCorrect == Spec => [](TypeOK /\ WalkInv)
  BY TypeOKInit, TypeOKStep, ClientInvInit, ClientInvStep, ProgressInit, ProgressStep,
     WalkInvInit, WalkInvStep, PTL DEF Spec

\* A client that walks all pages of a changing list misses at most as many of
\* the resources that were there all the time as were deleted meanwhile.
THEOREM MissesAreDeletes == Spec => []MissesNeedDeletes
  <1>1. WalkInv => MissesNeedDeletes
    BY DEF WalkInv, MissesNeedDeletes, Walked
  <1> QED
    BY <1>1, WalksCorrect, PTL

\* It sees at most as many resources twice as were created meanwhile.
THEOREM RepeatsAreCreates == Spec => []RepeatsNeedCreates
  <1>1. WalkInv => RepeatsNeedCreates
    BY DEF WalkInv, RepeatsNeedCreates, Walked
  <1> QED
    BY <1>1, WalksCorrect, PTL
=============================================================================

-------------------------- MODULE OrderBookProofs --------------------------
(***************************************************************************)
(* Proofs about OrderBook, for any number of orders and requests.          *)
(***************************************************************************)
EXTENDS OrderBook, FiniteSetTheorems, TLAPS

(* The types hold of an empty order book.                                    *)
LEMMA TypeInit == Init => TypeOK
BY ConstantsAssumption DEF Init, TypeOK, NoPost, NoRead, PostType, ReadType

\* What Observe leaves: the requests as they were, less what they may count on,
\* and with what was restored between the two queries of a list.
LEMMA ObserveType ==
    ASSUME TypeOK, NEW restored \in SUBSET Orders, Observe(restored)
    PROVE  /\ read' \in [Reads -> ReadType]
           /\ \A r \in Reads :
                /\ read'[r].pc = read[r].pc /\ read'[r].order = read[r].order
                /\ read'[r].minExpiry = read[r].minExpiry /\ read'[r].records = read[r].records
                /\ read'[r].sure \subseteq read[r].sure
                /\ read[r].restored \subseteq read'[r].restored
                /\ read[r].pc = "kept" => restored \subseteq read'[r].restored
                /\ read[r].pc \in {"open", "kept"} =>
                     read'[r].sure = read[r].sure \cap Listed(valid', persistent', read[r].minExpiry)
                /\ read[r].pc \notin {"open", "kept"} =>
                     read'[r].sure = read[r].sure \cap Known(valid', persistent')
<1>. DEFINE S(r) == read[r].sure \cap (IF read[r].pc \in {"open", "kept"}
                                       THEN Listed(valid', persistent', read[r].minExpiry)
                                       ELSE Known(valid', persistent'))
            T(r) == IF read[r].pc = "kept" THEN read[r].restored \cup restored ELSE read[r].restored
<1>1. read' = [r \in Reads |-> [read[r] EXCEPT !.sure = S(r), !.restored = T(r)]]
  BY DEF Observe
<1>2. \A r \in Reads : read[r] \in ReadType
  BY DEF TypeOK
<1>3. \A r \in Reads : S(r) \subseteq read[r].sure /\ T(r) \subseteq read[r].restored \cup restored
  OBVIOUS
<1>. HIDE DEF S, T
<1>4. ASSUME NEW r \in Reads
      PROVE  /\ read'[r] \in ReadType
             /\ read'[r].pc = read[r].pc /\ read'[r].order = read[r].order
             /\ read'[r].minExpiry = read[r].minExpiry /\ read'[r].records = read[r].records
             /\ read'[r].sure = S(r) /\ read'[r].restored = T(r)
  BY <1>1, <1>2, <1>3 DEF ReadType
<1>5. read' \in [Reads -> ReadType]
  BY <1>1, <1>4
<1>. QED  BY <1>3, <1>4, <1>5 DEF S, T

\* Updates of single fields keep the types of the requests.
LEMMA PostUpdate ==
    ASSUME post \in [Posts -> PostType], NEW p \in Posts, NEW a \in {"none", "ok", "error"}
    PROVE  [post EXCEPT ![p].pc = "done", ![p].response = a] \in [Posts -> PostType]
BY DEF PostType

(* A lookup that has read the first table is a read.                         *)
LEMMA FirstUpdate ==
    ASSUME read \in [Reads -> ReadType], NEW r \in Reads,
           NEW A \in SUBSET Orders, NEW B \in SUBSET Orders
    PROVE  [read EXCEPT ![r].pc = "first", ![r].order = A, ![r].sure = B] \in [Reads -> ReadType]
<1>1. ASSUME NEW x \in ReadType PROVE [x EXCEPT !.pc = "first", !.order = A, !.sure = B] \in ReadType
  BY DEF ReadType
<1>2. read[r] \in ReadType
  OBVIOUS
<1>. DEFINE x == [read[r] EXCEPT !.pc = "first", !.order = A, !.sure = B]
<1>3. [read EXCEPT ![r].pc = "first", ![r].order = A, ![r].sure = B] = [read EXCEPT ![r] = x]
  BY <1>2 DEF ReadType
<1>4. x \in ReadType
  BY <1>1, <1>2
<1>. QED  BY <1>3, <1>4

(* A list that has read the open orders is a read.                           *)
LEMMA OpenUpdate ==
    ASSUME read \in [Reads -> ReadType], NEW r \in Reads, NEW m \in Nat, NEW A \in SUBSET Orders
    PROVE  [read EXCEPT ![r].pc = "open", ![r].minExpiry = m, ![r].sure = A] \in [Reads -> ReadType]
<1>1. ASSUME NEW x \in ReadType PROVE [x EXCEPT !.pc = "open", !.minExpiry = m, !.sure = A] \in ReadType
  BY DEF ReadType
<1>2. read[r] \in ReadType
  OBVIOUS
<1>. DEFINE x == [read[r] EXCEPT !.pc = "open", !.minExpiry = m, !.sure = A]
<1>3. [read EXCEPT ![r].pc = "open", ![r].minExpiry = m, ![r].sure = A] = [read EXCEPT ![r] = x]
  BY <1>2 DEF ReadType
<1>4. x \in ReadType
  BY <1>1, <1>2
<1>. QED  BY <1>3, <1>4

(* Every request, read and event keeps the types.                            *)
LEMMA TypeStep ==
    ASSUME TypeOK, [Next]_vars
    PROVE  TypeOK'
<1>. USE ConstantsAssumption DEF tables
<1>1. CASE Tick
  BY <1>1 DEF TypeOK, Tick
<1>2. ASSUME NEW p \in Posts, NEW orders \in SUBSET Orders \ {{}}, NEW keep \in BOOLEAN,
             NEW skip \in BOOLEAN, Post(p, orders, keep, skip)
      PROVE  TypeOK'
  BY <1>2 DEF TypeOK, Post, NoPost, PostType
<1>3. ASSUME NEW p \in Posts,
             RejectPost(p) \/ WatcherAnswers(p) \/ WatcherFails(p) \/ FindAdded(p) \/ PersistFails(p)
      PROVE  TypeOK'
  BY <1>3 DEF TypeOK, RejectPost, WatcherAnswers, WatcherFails, FindAdded, PersistFails, Respond, PostType
<1>4. ASSUME NEW p \in Posts, WatcherAccepts(p) PROVE TypeOK'
  <2>1. read' \in [Reads -> ReadType]
    BY <1>4, ObserveType DEF WatcherAccepts
  <2>2. post' \in [Posts -> PostType] /\ valid' \subseteq Orders
    BY <1>4 DEF TypeOK, WatcherAccepts, PostType
  <2>. QED  BY <1>4, <2>1, <2>2 DEF TypeOK, WatcherAccepts
<1>5. ASSUME NEW p \in Posts, SaveAdded(p) PROVE TypeOK'
  <2>1. read' \in [Reads -> ReadType]
    BY <1>5, ObserveType DEF SaveAdded
  <2>2. post' \in [Posts -> PostType]
    <3>1. post' = [post EXCEPT ![p].pc = "done", ![p].response = Respond(p, "ok")]
      BY <1>5 DEF SaveAdded
    <3>2. Respond(p, "ok") \in {"none", "ok", "error"}
      BY DEF TypeOK, PostType, Respond
    <3>. QED  BY <3>1, <3>2, PostUpdate DEF TypeOK
  <2>3. persistent' \in [Orders -> {"none", "watched", "removed"}]
    BY <1>5 DEF TypeOK, SaveAdded
  <2>. QED  BY <1>5, <2>1, <2>2, <2>3 DEF TypeOK, SaveAdded
<1>6. ASSUME NEW o \in Orders, WatcherRemoves(o) \/ WatcherMarks(o) \/ WatcherRestores(o)
      PROVE  TypeOK'
  <2>1. read' \in [Reads -> ReadType]
    BY <1>6, ObserveType DEF WatcherRemoves, WatcherMarks, WatcherRestores
  <2>2. /\ valid' \subseteq Orders /\ removedOnce' \subseteq Orders
        /\ persistent' \in [Orders -> {"none", "watched", "removed"}]
    BY <1>6 DEF TypeOK, WatcherRemoves, WatcherMarks, WatcherRestores
  <2>. QED  BY <1>6, <2>1, <2>2 DEF TypeOK, WatcherRemoves, WatcherMarks, WatcherRestores
<1>7. ASSUME NEW r \in Reads, NEW o \in Orders, GetOrder(r, o) PROVE TypeOK'
  <2>1. {o} \in SUBSET Orders /\ {o} \cap Known(valid, persistent) \in SUBSET Orders
    OBVIOUS
  <2>. DEFINE S == {o} \cap Known(valid, persistent)
  <2>2. read' = [read EXCEPT ![r].pc = "first", ![r].order = {o}, ![r].sure = S]
    BY <1>7 DEF GetOrder
  <2>. HIDE DEF S
  <2>3. read' \in [Reads -> ReadType]
    <3>1. S \in SUBSET Orders
      BY <2>1 DEF S
    <3>. QED  BY <2>1, <2>2, <3>1, FirstUpdate DEF TypeOK
  <2>. QED  BY <1>7, <2>3 DEF TypeOK, GetOrder
<1>8. ASSUME NEW r \in Reads, FindOrder(r) PROVE TypeOK'
  BY <1>8 DEF TypeOK, FindOrder, LookIn, ReadType
<1>9. ASSUME NEW r \in Reads, GetOrders(r) PROVE TypeOK'
  <2>1. Listed(valid, persistent, now + Buffer) \in SUBSET Orders /\ now + Buffer \in Nat
    <3>1. now + Buffer \in Nat
      BY DEF TypeOK
    <3>2. Fresh(valid, now + Buffer) \subseteq Orders /\ Removed(persistent) \subseteq Orders
      BY DEF TypeOK, Fresh, Removed
    <3>. QED  BY <3>1, <3>2 DEF Listed
  <2>. DEFINE S == Listed(valid, persistent, now + Buffer)
  <2>2. read' = [read EXCEPT ![r].pc = "open", ![r].minExpiry = now + Buffer, ![r].sure = S]
    BY <1>9 DEF GetOrders
  <2>. HIDE DEF S
  <2>3. read' \in [Reads -> ReadType]
    <3>1. S \in SUBSET Orders
      BY <2>1 DEF S
    <3>. QED  BY <2>1, <2>2, <3>1, OpenUpdate DEF TypeOK
  <2>. QED  BY <1>9, <2>3 DEF TypeOK, GetOrders
<1>10. ASSUME NEW r \in Reads, ListOrders(r) PROVE TypeOK'
  <2>1. ASSUME NEW rows \in SUBSET Orders PROVE read[r].records \cup Page(rows, 1) \in SUBSET Orders
    BY DEF Page, TypeOK, ReadType
  <2>2. Fresh(valid, read[r].minExpiry) \in SUBSET Orders /\ Removed(persistent) \in SUBSET Orders
    BY DEF TypeOK, Fresh, Removed
  <2>. QED  BY <1>10, <2>1, <2>2 DEF TypeOK, ListOrders, Query, ReadType
<1>11. CASE UNCHANGED vars
  BY <1>11 DEF TypeOK, vars
<1>. QED  BY <1>1, <1>2, <1>3, <1>4, <1>5, <1>6, <1>7, <1>8, <1>9, <1>10, <1>11 DEF Next

-----------------------------------------------------------------------------
(* POST. *)

\* Where a request stands, and what it knows by then.
PostInv ==
    \A p \in Posts :
        /\ post[p].accepted \subseteq post[p].orders
        /\ post[p].accepted \cup post[p].found \subseteq valid \cup removedOnce
        /\ post[p].pc = "idle" => post[p] = NoPost
        /\ post[p].pc = "saving" => post[p].accepted \ removedOnce \subseteq post[p].found
        /\ post[p].pc # "done" /\ ~post[p].skip => post[p].response # "ok"
        /\ post[p].pc = "abandoned" /\ ~post[p].skip => post[p].response = "error"

KeepInv == PostInv /\ KeptWereAccepted /\ ConfirmedAreKept

(* Nothing is kept at first.                                                 *)
LEMMA KeepInit == Init => KeepInv
BY DEF Init, KeepInv, PostInv, KeptWereAccepted, ConfirmedAreKept, NoPost

(* Every step keeps the invariant of persistent orders.                      *)
LEMMA KeepStep ==
    ASSUME TypeOK, KeepInv, [Next]_vars
    PROVE  KeepInv'
<1>. USE DEF tables, KeepInv
\* Steps that touch neither the tables nor the posts.
<1>0. ASSUME UNCHANGED <<tables, post>> PROVE KeepInv'
  BY <1>0 DEF PostInv, KeptWereAccepted, ConfirmedAreKept
<1>2. ASSUME NEW p \in Posts, NEW orders \in SUBSET Orders \ {{}}, NEW keep \in BOOLEAN,
             NEW skip \in BOOLEAN, Post(p, orders, keep, skip)
      PROVE  KeepInv'
  BY <1>2 DEF TypeOK, PostType, Post, NoPost, PostInv, KeptWereAccepted, ConfirmedAreKept
<1>3. ASSUME NEW p \in Posts, RejectPost(p) PROVE KeepInv'
  BY <1>3 DEF TypeOK, PostType, RejectPost, NoPost, PostInv, KeptWereAccepted, ConfirmedAreKept
<1>4. ASSUME NEW p \in Posts, WatcherAnswers(p) PROVE KeepInv'
  BY <1>4 DEF TypeOK, PostType, WatcherAnswers, Respond, PostInv, KeptWereAccepted, ConfirmedAreKept
<1>5. ASSUME NEW p \in Posts, WatcherFails(p) PROVE KeepInv'
  BY <1>5 DEF TypeOK, PostType, WatcherFails, Respond, PostInv, KeptWereAccepted, ConfirmedAreKept
<1>6. ASSUME NEW p \in Posts, FindAdded(p) PROVE KeepInv'
  <2>1. PostInv'
    <3>1. /\ post[p].pc = "answered" /\ UNCHANGED <<valid, removedOnce>>
          /\ post' = [post EXCEPT ![p].pc = "saving", ![p].found = post[p].orders \cap valid]
      BY <1>6 DEF FindAdded
    <3>2. /\ post'[p].pc = "saving" /\ post'[p].found = post[p].orders \cap valid
          /\ post'[p].accepted = post[p].accepted /\ post'[p].orders = post[p].orders
          /\ post'[p].skip = post[p].skip
          /\ post'[p].response = post[p].response
      BY <3>1 DEF TypeOK, PostType
    <3>3. \A q \in Posts \ {p} : post'[q] = post[q]
      BY <3>1 DEF TypeOK
    <3>4. post[p].accepted \ removedOnce \subseteq post[p].orders \cap valid
      BY DEF PostInv
    <3>. SUFFICES ASSUME NEW q \in Posts PROVE PostInv!(q)'
      BY DEF PostInv
    <3>5. CASE q = p
      BY <3>1, <3>2, <3>4, <3>5 DEF PostInv
    <3>6. CASE q # p
      BY <3>1, <3>3, <3>6 DEF PostInv
    <3>. QED  BY <3>5, <3>6
  <2>2. KeptWereAccepted' /\ ConfirmedAreKept'
    BY <1>6 DEF TypeOK, PostType, FindAdded, KeptWereAccepted, ConfirmedAreKept
  <2>. QED  BY <2>1, <2>2
<1>7. ASSUME NEW p \in Posts, PersistFails(p) PROVE KeepInv'
  BY <1>7 DEF TypeOK, PostType, PersistFails, Respond, PostInv, KeptWereAccepted, ConfirmedAreKept
<1>8. ASSUME NEW p \in Posts, WatcherAccepts(p) PROVE KeepInv'
  BY <1>8 DEF TypeOK, PostType, WatcherAccepts, PostInv, KeptWereAccepted, ConfirmedAreKept
<1>9. ASSUME NEW p \in Posts, SaveAdded(p) PROVE KeepInv'
  <2>1. PostInv'
    BY <1>9 DEF TypeOK, PostType, SaveAdded, PostInv, Respond
  <2>2. KeptWereAccepted'
    BY <1>9 DEF TypeOK, PostType, SaveAdded, PostInv, KeptWereAccepted
  <2>3. ConfirmedAreKept'
    BY <1>9 DEF TypeOK, PostType, SaveAdded, PostInv, ConfirmedAreKept, Respond
  <2>. QED  BY <2>1, <2>2, <2>3
<1>10. ASSUME NEW o \in Orders, WatcherRemoves(o) \/ WatcherMarks(o) \/ WatcherRestores(o)
       PROVE  KeepInv'
  BY <1>10 DEF TypeOK, WatcherRemoves, WatcherMarks, WatcherRestores,
       PostInv, KeptWereAccepted, ConfirmedAreKept
<1>. QED
  BY <1>0, <1>2, <1>3, <1>4, <1>5, <1>6, <1>7, <1>8, <1>9, <1>10
  DEF Next, vars, Tick, GetOrder, FindOrder, LookIn, GetOrders, ListOrders, Query

-----------------------------------------------------------------------------
(* GET of one order. *)

\* An order that was missed in the view has been kept, and stays so.
LookupInv ==
    \A r \in Reads :
        /\ read[r].pc \in {"first", "second"} => read[r].sure \subseteq read[r].order
        /\ read[r].pc = "first" => read[r].sure \subseteq Known(valid, persistent)
        /\ read[r].pc = "second" => read[r].sure \subseteq Kept(persistent)
        /\ read[r].pc \in {"first", "second"} => \E o \in Orders : read[r].order = {o}
        /\ read[r].pc = "notFound" => read[r].sure = {}

(* No lookup is under way at first.                                          *)
LEMMA LookupInit == Init => LookupInv
BY DEF Init, LookupInv, NoRead

(* A persistent order stays in its table.                                    *)
LEMMA KeptForGood ==
    ASSUME TypeOK, [Next]_vars
    PROVE  Kept(persistent) \subseteq Kept(persistent')
<1>1. ASSUME UNCHANGED persistent PROVE Kept(persistent) \subseteq Kept(persistent')
  BY <1>1 DEF Kept
<1>2. ASSUME NEW p \in Posts, SaveAdded(p) PROVE Kept(persistent) \subseteq Kept(persistent')
  BY <1>2 DEF TypeOK, Kept, SaveAdded
<1>3. ASSUME NEW o \in Orders, WatcherMarks(o) \/ WatcherRestores(o)
      PROVE  Kept(persistent) \subseteq Kept(persistent')
  BY <1>3 DEF TypeOK, Kept, WatcherMarks, WatcherRestores
<1>. QED
  BY <1>1, <1>2, <1>3
  DEF Next, vars, tables, Tick, Post, RejectPost, WatcherAccepts, WatcherAnswers, WatcherFails,
      FindAdded, PersistFails, WatcherRemoves, GetOrder, FindOrder, LookIn, GetOrders, ListOrders, Query

(* Every step keeps the invariant of lookups between their two reads.        *)
LEMMA LookupStep ==
    ASSUME TypeOK, LookupInv, [Next]_vars
    PROVE  LookupInv'
<1>. USE DEF tables
<1>1. ASSUME NEW restored \in SUBSET Orders, Observe(restored) PROVE LookupInv'
  <2>. SUFFICES ASSUME NEW r \in Reads
                PROVE  LookupInv!(r)'
    BY DEF LookupInv
  <2>1. read'[r].pc = read[r].pc /\ read'[r].order = read[r].order
        /\ read'[r].sure \subseteq read[r].sure
    BY <1>1, ObserveType
  <2>2. read[r].pc = "first" => read'[r].sure \subseteq Known(valid', persistent')
    BY <1>1, ObserveType
  <2>. QED  BY <2>1, <2>2, KeptForGood DEF LookupInv
<1>2. ASSUME UNCHANGED <<read, tables>> PROVE LookupInv'
  BY <1>2 DEF LookupInv
<1>3. ASSUME NEW r \in Reads, NEW o \in Orders, GetOrder(r, o) PROVE LookupInv'
  BY <1>3 DEF TypeOK, ReadType, LookupInv, GetOrder
<1>4. ASSUME NEW r \in Reads, FindOrder(r) PROVE LookupInv'
  BY <1>4 DEF TypeOK, ReadType, LookupInv, FindOrder, LookIn, Known
<1>5. ASSUME NEW r \in Reads, GetOrders(r) PROVE LookupInv'
  BY <1>5 DEF TypeOK, ReadType, LookupInv, GetOrders
<1>6. ASSUME NEW r \in Reads, ListOrders(r) PROVE LookupInv'
  BY <1>6 DEF TypeOK, ReadType, LookupInv, ListOrders, Query
<1>. QED
  BY <1>1, <1>2, <1>3, <1>4, <1>5, <1>6
  DEF Next, vars, Tick, Post, RejectPost, WatcherAccepts, WatcherAnswers, WatcherFails, FindAdded,
      SaveAdded, PersistFails, WatcherRemoves, WatcherMarks, WatcherRestores

-----------------------------------------------------------------------------
(* GET of a list. *)

\* A page that is as long as the book holds every row.
LEMMA WholePage ==
    ASSUME PerPage >= Cardinality(Orders), NEW rows \in SUBSET Orders
    PROVE  Page(rows, 1) = rows
<1>. SUFFICES ASSUME NEW o \in rows
              PROVE  Cardinality({x \in rows : x < o}) \in (1 - 1) * PerPage .. 1 * PerPage - 1
  BY DEF Page
<1>. DEFINE before == {x \in rows : x < o}
<1>1. before \subseteq Orders \ {o}
  <2>1. o \in Nat
    BY ConstantsAssumption
  <2>2. \A x \in rows : x < o => x # o
    BY <2>1
  <2>. QED  BY <2>2
<1>2. /\ IsFiniteSet(Orders \ {o})
      /\ Cardinality(Orders \ {o}) = Cardinality(Orders) - 1
  BY ConstantsAssumption, FS_RemoveElement
<1>3. /\ IsFiniteSet(before)
      /\ Cardinality(before) <= Cardinality(Orders \ {o})
  BY <1>1, <1>2, FS_Subset
<1>4. Cardinality(before) \in Nat /\ Cardinality(Orders) \in Nat
  BY <1>3, ConstantsAssumption, FS_CardinalityType
<1>. HIDE DEF before
<1>5. Cardinality(before) \in (1 - 1) * PerPage .. 1 * PerPage - 1
  BY <1>2, <1>3, <1>4, ConstantsAssumption
<1>. QED  BY <1>5 DEF before

\* Before the first query the list still shows what the request counts on; after
\* it, what is missing is marked as removed until the watcher restores it.
ListInv ==
    PerPage >= Cardinality(Orders) =>
        \A r \in Reads :
            /\ read[r].pc = "open" => read[r].sure \subseteq Listed(valid, persistent, read[r].minExpiry)
            /\ read[r].pc = "kept" =>
                 read[r].sure \ read[r].records \subseteq Removed(persistent) \cup read[r].restored
            /\ read[r].pc = "listed" => read[r].sure \ read[r].records \subseteq read[r].restored

(* No list is under way at first.                                            *)
LEMMA ListInit == Init => ListInv
BY DEF Init, ListInv, NoRead

\* The watcher takes a mark back by restoring the order, and in no other way.
LEMMA MarkedUnlessRestored ==
    ASSUME TypeOK, [Next]_vars
    PROVE  \/ \E restored \in SUBSET Orders :
                Observe(restored) /\ Removed(persistent) \subseteq Removed(persistent') \cup restored
           \/ UNCHANGED <<read, tables>>
           \/ \E r \in Reads : (\E o \in Orders : GetOrder(r, o)) \/ FindOrder(r) \/ GetOrders(r) \/ ListOrders(r)
<1>. USE DEF tables
<1>1. ASSUME NEW p \in Posts, WatcherAccepts(p) \/ SaveAdded(p)
      PROVE  Observe({}) /\ Removed(persistent) \subseteq Removed(persistent')
  BY <1>1 DEF TypeOK, Removed, WatcherAccepts, SaveAdded
<1>2. ASSUME NEW o \in Orders, WatcherRemoves(o) \/ WatcherMarks(o)
      PROVE  Observe({}) /\ Removed(persistent) \subseteq Removed(persistent')
  BY <1>2 DEF TypeOK, Removed, WatcherRemoves, WatcherMarks
<1>3. ASSUME NEW o \in Orders, WatcherRestores(o)
      PROVE  Observe({o}) /\ Removed(persistent) \subseteq Removed(persistent') \cup {o}
  BY <1>3 DEF TypeOK, Removed, WatcherRestores
<1>4. {} \in SUBSET Orders /\ \A o \in Orders : {o} \in SUBSET Orders
  OBVIOUS
<1>. QED
  BY <1>1, <1>2, <1>3, <1>4
  DEF Next, vars, Tick, Post, RejectPost, WatcherAnswers, WatcherFails, FindAdded, PersistFails

(* Every step keeps the invariant of lists between their two reads.          *)
LEMMA ListStep ==
    ASSUME TypeOK, ListInv, [Next]_vars
    PROVE  ListInv'
<1>. SUFFICES ASSUME PerPage >= Cardinality(Orders), NEW r \in Reads
              PROVE  /\ read'[r].pc = "open" =>
                          read'[r].sure \subseteq Listed(valid', persistent', read'[r].minExpiry)
                     /\ read'[r].pc = "kept" =>
                          read'[r].sure \ read'[r].records \subseteq
                              Removed(persistent') \cup read'[r].restored
                     /\ read'[r].pc = "listed" =>
                          read'[r].sure \ read'[r].records \subseteq read'[r].restored
  BY DEF ListInv
<1>. DEFINE m == read[r].minExpiry
<1>. USE DEF tables
<1>0. /\ read[r].pc = "open" => read[r].sure \subseteq Listed(valid, persistent, m)
      /\ read[r].pc = "kept" =>
           read[r].sure \ read[r].records \subseteq Removed(persistent) \cup read[r].restored
      /\ read[r].pc = "listed" => read[r].sure \ read[r].records \subseteq read[r].restored
  BY DEF ListInv
<1>1. ASSUME NEW restored \in SUBSET Orders, Observe(restored),
             Removed(persistent) \subseteq Removed(persistent') \cup restored
      PROVE  ListInv!2!(r)'
  <2>1. /\ read'[r].pc = read[r].pc /\ read'[r].minExpiry = m /\ read'[r].records = read[r].records
        /\ read'[r].sure \subseteq read[r].sure /\ read[r].restored \subseteq read'[r].restored
        /\ read[r].pc = "kept" => restored \subseteq read'[r].restored
        /\ read[r].pc \in {"open", "kept"} =>
             read'[r].sure = read[r].sure \cap Listed(valid', persistent', m)
    BY <1>1, ObserveType
  <2>. QED  BY <1>0, <1>1, <2>1
<1>2. CASE UNCHANGED <<read, tables>>
  BY <1>0, <1>2
<1>3. ASSUME NEW q \in Reads, NEW o \in Orders, GetOrder(q, o)
      PROVE  UNCHANGED tables /\ (read'[r] = read[r] \/ read'[r].pc = "first")
  BY <1>3 DEF TypeOK, ReadType, GetOrder
<1>4. ASSUME NEW q \in Reads, FindOrder(q)
      PROVE  UNCHANGED tables /\ (read'[r] = read[r] \/ read'[r].pc \in {"found", "second", "notFound"})
  BY <1>4 DEF TypeOK, ReadType, FindOrder, LookIn
<1>5. ASSUME NEW q \in Reads, GetOrders(q)
      PROVE  /\ UNCHANGED tables
             /\ \/ read'[r] = read[r]
                \/ /\ read'[r].pc = "open"
                   /\ read'[r].sure = Listed(valid, persistent, read'[r].minExpiry)
  BY <1>5 DEF TypeOK, ReadType, GetOrders
<1>6. ASSUME NEW q \in Reads, ListOrders(q)
      PROVE  /\ UNCHANGED tables
             /\ \/ read'[r] = read[r]
                \/ /\ read[r].pc = "open" /\ read'[r].pc = "kept"
                   /\ read'[r].sure = read[r].sure /\ read'[r].minExpiry = m
                   /\ read'[r].restored = read[r].restored
                   /\ read'[r].records = read[r].records \cup Page(Fresh(valid, m), 1)
                \/ /\ read[r].pc = "kept" /\ read'[r].pc = "listed"
                   /\ read'[r].sure = read[r].sure /\ read'[r].restored = read[r].restored
                   /\ read'[r].records = read[r].records \cup Page(Removed(persistent), 1)
  BY <1>6 DEF TypeOK, ReadType, ListOrders, Query
<1>7. Page(Fresh(valid, m), 1) = Fresh(valid, m) /\ Page(Removed(persistent), 1) = Removed(persistent)
  <2>1. Fresh(valid, m) \in SUBSET Orders /\ Removed(persistent) \in SUBSET Orders
    BY DEF TypeOK, Fresh, Removed
  <2>. QED  BY <2>1, WholePage
<1>8. ASSUME NEW q \in Reads, (\E o \in Orders : GetOrder(q, o)) \/ FindOrder(q) \/ GetOrders(q)
      PROVE  ListInv!2!(r)'
  BY <1>0, <1>3, <1>4, <1>5, <1>8
<1>9. ASSUME NEW q \in Reads, ListOrders(q) PROVE ListInv!2!(r)'
  BY <1>0, <1>6, <1>7, <1>9 DEF Listed
<1>. QED  BY <1>1, <1>2, <1>8, <1>9, MarkedUnlessRestored

-----------------------------------------------------------------------------
\* Every reachable state satisfies the type invariant and the inductive ones.
LEMMA BookInvariant == Spec => [](TypeOK /\ KeepInv /\ LookupInv /\ ListInv)
<1>1. Init => TypeOK /\ KeepInv /\ LookupInv /\ ListInv
  BY TypeInit, KeepInit, LookupInit, ListInit
<1>2. TypeOK /\ KeepInv /\ LookupInv /\ ListInv /\ [Next]_vars
        => (TypeOK /\ KeepInv /\ LookupInv /\ ListInv)'
  BY TypeStep, KeepStep, LookupStep, ListStep
<1>. QED  BY <1>1, <1>2, PTL DEF Spec

(* addPersistentOrdersAsync keeps no order that the watcher has not accepted *)
(* at some time, for any number of posts of the same orders.                 *)
THEOREM KeptAreAccepted == Spec => []KeptWereAccepted
BY BookInvariant, PTL DEF KeepInv

(* A confirmed postPersistentOrderAsync has kept what the watcher accepted   *)
(* and has not removed since.                                                *)
THEOREM ConfirmedStay == Spec => []ConfirmedAreKept
BY BookInvariant, PTL DEF KeepInv

(* getOrderByHashIfExistsAsync finds every order that is in one of the       *)
(* tables during the whole call.                                             *)
THEOREM LookupFinds == Spec => []ExistingIsFound
<1>1. LookupInv => ExistingIsFound
  BY DEF LookupInv, ExistingIsFound
<1>. QED  BY <1>1, BookInvariant, PTL

(* getOrdersAsync with unfillable orders, if a page is as long as the book,  *)
(* misses no order that belongs in the list during the whole call, except    *)
(* one that the watcher restores between its two queries.                    *)
THEOREM ListMissesOnlyRestored == Spec => []OnlyRestoredAreMissed
<1>1. ListInv => OnlyRestoredAreMissed
  BY DEF ListInv, OnlyRestoredAreMissed
<1>. QED  BY <1>1, BookInvariant, PTL
=============================================================================

----------------------------- MODULE OrderBook -----------------------------
(***************************************************************************)
(* The order book (orderbook_service.ts, sra_handlers.ts, order_watcher.ts)*)
(* over two tables: the view valid_signed_orders_v4, whose rows the order  *)
(* watcher adds and removes, and persistent_signed_orders_v4, into which   *)
(* the service copies the orders of some makers and in which the watcher   *)
(* notes what became of them.                                              *)
(*                                                                         *)
(* The watcher is another program and is modelled by what the service      *)
(* relies on: it answers a post after it has added the orders that it      *)
(* accepts, and it never deletes a persistent row.  Every query of the     *)
(* service is one step; the tables change between two queries.             *)
(***************************************************************************)
EXTENDS Naturals, FiniteSets

CONSTANTS
    Orders,      \* order hashes, as numbers: answers are sorted by hash
    Expiry,      \* Expiry[o]: when o expires
    Buffer,      \* SRA_ORDER_EXPIRATION_BUFFER_SECONDS
    PerPage,     \* records per page
    Posts,       \* POST requests
    Reads,       \* GET requests: for one order, or for a maker's orders
    MaxTime      \* bound: the clock stops here

ASSUME ConstantsAssumption ==
    /\ Orders \subseteq Nat /\ IsFiniteSet(Orders)
    /\ Expiry \in [Orders -> Nat]
    /\ Buffer \in Nat /\ PerPage \in Nat \ {0} /\ MaxTime \in Nat

VARIABLES
    now,         \* Date.now(), in ticks
    valid,       \* the rows of the view valid_signed_orders_v4
    persistent,  \* the orderState of each persistent row: watched, removed, or no row
    removedOnce, \* history: the orders that the watcher has removed from the view
    post,        \* each POST request
    read         \* each GET request

tables == <<valid, persistent, removedOnce>>
vars == <<now, tables, post, read>>

\* A request that has not come in yet.
NoPost == [pc |-> "idle", orders |-> {}, keep |-> FALSE, skip |-> FALSE,
           accepted |-> {}, found |-> {}, response |-> "none"]
NoRead == [pc |-> "idle", order |-> {}, minExpiry |-> 0, records |-> {},
           sure |-> {}, restored |-> {}]

Init ==
    /\ now = 0
    /\ valid = {}
    /\ persistent = [o \in Orders |-> "none"]
    /\ removedOnce = {}
    /\ post = [p \in Posts |-> NoPost]
    /\ read = [r \in Reads |-> NoRead]

-----------------------------------------------------------------------------
(* What the requests under way may count on, kept for the properties. *)

\* The orders that are in one of the tables.
Kept(states) == {o \in Orders : states[o] # "none"}
Known(rows, states) == rows \cup Kept(states)

\* The orders that a list with minimum expiry m shows: fresh or removed ones.
Fresh(rows, m) == {o \in rows : Expiry[o] >= m}
Removed(states) == {o \in Orders : states[o] = "removed"}
Listed(rows, states, m) == Fresh(rows, m) \cup Removed(states)

\* After every change of a table: a request may count on an order if it has been
\* in one of the tables, or in the list, all the time.  A list also notes the orders
\* whose mark the watcher takes back between its two queries.
Observe(restored) ==
    read' = [r \in Reads |-> [read[r] EXCEPT
               !.sure = @ \cap (IF read[r].pc \in {"open", "kept"}
                                THEN Listed(valid', persistent', read[r].minExpiry)
                                ELSE Known(valid', persistent')),
               !.restored = IF read[r].pc = "kept" THEN @ \cup restored ELSE @]]

-----------------------------------------------------------------------------
(* POST: SRAHandlers, addOrdersAsync, addPersistentOrdersAsync and the watcher. *)

Tick ==
    /\ now < MaxTime
    /\ now' = now + 1
    /\ UNCHANGED <<tables, post, read>>

Respond(p, answer) ==
    IF post[p].response = "none" THEN answer ELSE post[p].response

\* postOrderAsync, postOrdersAsync and postPersistentOrderAsync up to the post to
\* the watcher.  With skipConfirmation the client is answered before it.  Orders to
\* keep come one at a time.
Post(p, orders, keep, skip) ==
    /\ post[p] = NoPost
    /\ keep => Cardinality(orders) = 1
    /\ post' = [post EXCEPT ![p] = [NoPost EXCEPT !.pc = "posting", !.orders = orders,
                   !.keep = keep, !.skip = skip, !.response = IF skip THEN "ok" ELSE "none"]]
    /\ UNCHANGED <<now, tables, read>>

\* The request breaks the schema, the key is not allowed to keep orders, or a
\* token is not on the whitelist.
RejectPost(p) ==
    /\ post[p] = NoPost
    /\ post' = [post EXCEPT ![p].pc = "done", ![p].response = "error"]
    /\ UNCHANGED <<now, tables, read>>

\* The watcher adds the orders it accepts, also if nobody waits any longer.
WatcherAccepts(p) ==
    /\ post[p].pc \in {"posting", "abandoned"}
    /\ \E accepted \in SUBSET post[p].orders :
         /\ valid' = valid \cup accepted
         /\ post' = [post EXCEPT ![p].accepted = accepted,
                       ![p].pc = IF @ = "posting" THEN "accepted" ELSE "done"]
    /\ UNCHANGED <<now, persistent, removedOnce>>
    /\ Observe({})

\* Its answer arrives.
WatcherAnswers(p) ==
    /\ post[p].pc = "accepted"
    /\ post' = [post EXCEPT ![p].pc = IF post[p].keep THEN "answered" ELSE "done",
                  ![p].response = IF post[p].keep THEN @ ELSE Respond(p, "ok")]
    /\ UNCHANGED <<now, tables, read>>

\* It reports validation errors, or does not answer within the timeout: the
\* handler throws.
WatcherFails(p) ==
    /\ post[p].pc \in {"posting", "accepted"}
    /\ post' = [post EXCEPT ![p].pc = IF @ = "posting" THEN "abandoned" ELSE "done",
                  ![p].response = Respond(p, "error")]
    /\ UNCHANGED <<now, tables, read>>

\* Mutant: all posted orders are taken for accepted.
FindAddedAll(p) ==
    /\ post[p].pc = "answered"
    /\ post' = [post EXCEPT ![p].pc = "saving", ![p].found = post[p].orders]
    /\ UNCHANGED <<now, tables, read>>

\* "Figure out which orders were accepted by looking for them in the database."
FindAdded(p) ==
    /\ post[p].pc = "answered"
    /\ post' = [post EXCEPT ![p].pc = "saving", ![p].found = post[p].orders \cap valid]
    /\ UNCHANGED <<now, tables, read>>

\* Mutant: the handler does not wait for the save.
SaveAddedUnawaited(p) ==
    /\ post[p].pc = "saving"
    /\ \/ /\ post[p].response = "none"
          /\ post' = [post EXCEPT ![p].response = "ok"]
          /\ UNCHANGED <<tables, read>>
       \/ /\ post[p].response # "none"
          /\ persistent' = [o \in Orders |-> IF o \in post[p].found /\ persistent[o] = "none"
                                             THEN "watched" ELSE persistent[o]]
          /\ post' = [post EXCEPT ![p].pc = "done"]
          /\ UNCHANGED <<valid, removedOnce>>
          /\ Observe({})
    /\ UNCHANGED now

\* save(addedOrders): a row that exists keeps its orderState, a new one is ADDED.
SaveAdded(p) ==
    /\ post[p].pc = "saving"
    /\ persistent' = [o \in Orders |-> IF o \in post[p].found /\ persistent[o] = "none"
                                       THEN "watched" ELSE persistent[o]]
    /\ post' = [post EXCEPT ![p].pc = "done", ![p].response = Respond(p, "ok")]
    /\ UNCHANGED <<now, valid, removedOnce>>
    /\ Observe({})

\* One of the two queries fails.
PersistFails(p) ==
    /\ post[p].pc \in {"answered", "saving"}
    /\ post' = [post EXCEPT ![p].pc = "done", ![p].response = Respond(p, "error")]
    /\ UNCHANGED <<now, tables, read>>

\* The watcher finds an order filled, cancelled, expired or unfunded: it leaves
\* the view, and its persistent row, if there is one, is marked, in any order.
WatcherRemoves(o) ==
    /\ o \in valid
    /\ valid' = valid \ {o}
    /\ removedOnce' = removedOnce \cup {o}
    /\ UNCHANGED <<now, persistent, post>>
    /\ Observe({})

WatcherMarks(o) ==
    /\ persistent[o] = "watched"
    /\ persistent' = [persistent EXCEPT ![o] = "removed"]
    /\ UNCHANGED <<now, valid, removedOnce, post>>
    /\ Observe({})

\* An order that was removed is fillable again: UNEXPIRED, FILLABILITY_INCREASED.
WatcherRestores(o) ==
    /\ persistent[o] = "removed"
    /\ valid' = valid \cup {o}
    /\ persistent' = [persistent EXCEPT ![o] = "watched"]
    /\ UNCHANGED <<now, removedOnce, post>>
    /\ Observe({o})

-----------------------------------------------------------------------------
(* GET of one order: getOrderByHashIfExistsAsync. *)

GetOrder(r, o) ==
    /\ read[r] = NoRead
    /\ read' = [read EXCEPT ![r].pc = "first", ![r].order = {o},
                  ![r].sure = {o} \cap Known(valid, persistent)]
    /\ UNCHANGED <<now, tables, post>>

LookIn(r, from, rows, to) ==
    /\ read[r].pc = from
    /\ read' = [read EXCEPT ![r].pc = IF read[r].order \subseteq rows THEN "found" ELSE to]
    /\ UNCHANGED <<now, tables, post>>

\* Mutant: the persistent orders are looked at first.
FindOrderKeptFirst(r) ==
    \/ LookIn(r, "first", Kept(persistent), "second")
    \/ LookIn(r, "second", valid, "notFound")

\* findOne in the view, then in the table of persistent orders.
FindOrder(r) ==
    \/ LookIn(r, "first", valid, "second")
    \/ LookIn(r, "second", Kept(persistent), "notFound")

-----------------------------------------------------------------------------
(* GET of a list: getOrdersAsync with isUnfillable, of one maker.  The count *)
(* that runs next to each query only reports a total.                        *)

\* paginateDBFilters with hash ASC: skip (page - 1) * PerPage rows, take PerPage.
Page(rows, page) ==
    {o \in rows : Cardinality({x \in rows : x < o}) \in (page - 1) * PerPage .. page * PerPage - 1}

GetOrders(r) ==
    /\ read[r] = NoRead
    /\ LET m == now + Buffer
       IN  read' = [read EXCEPT ![r].pc = "open", ![r].minExpiry = m,
                      ![r].sure = Listed(valid, persistent, m)]
    /\ UNCHANGED <<now, tables, post>>

\* A query for the first page is answered.
Query(r, from, rows, to) ==
    /\ read[r].pc = from
    /\ read' = [read EXCEPT ![r].pc = to, ![r].records = @ \cup Page(rows, 1)]
    /\ UNCHANGED <<now, tables, post>>

\* Mutant: the persistent orders are read first.
ListOrdersKeptFirst(r) ==
    \/ Query(r, "open", Removed(persistent), "kept")
    \/ Query(r, "kept", Fresh(valid, read[r].minExpiry), "listed")

\* The orders of the view that do not expire too soon, then the persistent ones
\* that have been removed.
ListOrders(r) ==
    \/ Query(r, "open", Fresh(valid, read[r].minExpiry), "kept")
    \/ Query(r, "kept", Removed(persistent), "listed")

-----------------------------------------------------------------------------
Next ==
    \/ Tick
    \/ \E p \in Posts :
         \/ \E orders \in SUBSET Orders \ {{}}, keep, skip \in BOOLEAN : Post(p, orders, keep, skip)
         \/ RejectPost(p) \/ WatcherAccepts(p) \/ WatcherAnswers(p) \/ WatcherFails(p)
         \/ FindAdded(p) \/ SaveAdded(p) \/ PersistFails(p)
    \/ \E o \in Orders : WatcherRemoves(o) \/ WatcherMarks(o) \/ WatcherRestores(o)
    \/ \E r \in Reads : (\E o \in Orders : GetOrder(r, o)) \/ FindOrder(r) \/ GetOrders(r) \/ ListOrders(r)

Spec == Init /\ [][Next]_vars

-----------------------------------------------------------------------------
(* Properties. *)

PostType ==
    [pc : {"idle", "posting", "abandoned", "accepted", "answered", "saving", "done"},
     orders : SUBSET Orders, keep : BOOLEAN, skip : BOOLEAN, accepted : SUBSET Orders,
     found : SUBSET Orders, response : {"none", "ok", "error"}]
ReadType ==
    [pc : {"idle", "first", "second", "found", "notFound", "open", "kept", "listed"},
     order : SUBSET Orders, minExpiry : Nat, records : SUBSET Orders, sure : SUBSET Orders,
     restored : SUBSET Orders]

TypeOK ==
    /\ now \in 0 .. MaxTime
    /\ valid \subseteq Orders /\ removedOnce \subseteq Orders
    /\ persistent \in [Orders -> {"none", "watched", "removed"}]
    /\ post \in [Posts -> PostType]
    /\ read \in [Reads -> ReadType]

(* "Figure out which orders were accepted": an order is only kept if the     *)
(* watcher has accepted it at some time, whatever timeouts, late additions   *)
(* and other posts of the same order there are (addPersistentOrdersAsync).   *)
KeptWereAccepted ==
    \A o \in Orders : persistent[o] # "none" => o \in valid \cup removedOnce

(* A client that waits for confirmation and is told that its post succeeded  *)
(* finds its accepted orders kept, unless the watcher has removed them since *)
(* (postPersistentOrderAsync).                                               *)
ConfirmedAreKept ==
    \A p \in Posts :
        post[p].keep /\ ~post[p].skip /\ post[p].response = "ok" =>
            \A o \in post[p].accepted \ removedOnce : persistent[o] # "none"

(* getOrderByHashIfExistsAsync finds an order that is in one of the two      *)
(* tables at every moment of the call, although it may leave the first and   *)
(* enter the second between the two queries.                                 *)
ExistingIsFound ==
    \A r \in Reads : read[r].pc = "notFound" => read[r].sure = {}

(* getOrdersAsync, if one page holds all orders: of the orders that belong   *)
(* in the list at every moment of the call, being fresh and valid or marked  *)
(* as removed, it only misses those whose mark the watcher takes back        *)
(* between the two queries (lines 141 and 174), when they are put back into  *)
(* the view that has been read already.                                      *)
OnlyRestoredAreMissed ==
    \A r \in Reads :
        read[r].pc = "listed" /\ PerPage >= Cardinality(Orders) =>
            read[r].sure \ read[r].records \subseteq read[r].restored
=============================================================================

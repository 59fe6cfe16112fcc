--------------------------- MODULE OrdersChannel ---------------------------
(***************************************************************************)
(* The websocket server of the orders channel                              *)
(* (src/src/services/websocket_service.ts): clients connect, subscribe     *)
(* under a requestId of their choice, and are sent the order events that   *)
(* the order watcher publishes on Kafka.                                   *)
(*                                                                         *)
(* A socket of the ws library is open, then closing (terminated by the     *)
(* server, or by its peer), then gone: the close event is delivered later  *)
(* than the termination, and messages that were already buffered are       *)
(* still delivered in between.  A socket is a member of _server.clients    *)
(* until it is gone.  Data sent to a socket that is closing is dropped.    *)
(***************************************************************************)
EXTENDS FiniteSets, Naturals

CONSTANTS
    Sockets,       \* connections over the life of the server
    RequestIds,    \* the requestId strings clients use
    MakerTokens,   \* addresses of tokens that orders sell
    TakerTokens,   \* addresses of tokens that orders buy
    IdsOf,         \* IdsOf[s]: the requestIds the client behind s uses
    AnyToken,      \* a field the subscription leaves out
    NoSocket,      \* no entry in _requestIdToSocket
    NoOpts,        \* no entry in _requestIdToSubscriptionOpts
    NoOrder        \* the last handler was not orderUpdate

Order == [makerToken : MakerTokens, takerToken : TakerTokens]

\* A subscription payload; an empty one is ALL_SUBSCRIPTION_OPTS.
Opts == [makerToken : MakerTokens \cup {AnyToken}, takerToken : TakerTokens \cup {AnyToken}]

ASSUME ConstantsAssumption ==
    /\ IdsOf \in [Sockets -> SUBSET RequestIds]
    /\ AnyToken \notin MakerTokens \cup TakerTokens
    /\ NoSocket \notin Sockets
    /\ NoOpts \notin Opts
    /\ NoOrder \notin Order

VARIABLES
    destroyed,     \* destroyAsync was called
    sock,          \* the state of each connection
    silent,        \* the peer vanished without closing: it answers no ping
    isAlive,       \* ws.isAlive
    requestIds,    \* ws.requestIds
    socketOf,      \* _requestIdToSocket
    optsOf,        \* _requestIdToSubscriptionOpts
    asked,         \* history: the latest subscription accepted under each requestId
    lastOrder,     \* the order the last handler published, or NoOrder
    outbox         \* the updates the last handler put on an open socket

connVars == <<sock, silent, isAlive>>
maps == <<requestIds, socketOf, optsOf, asked>>
vars == <<destroyed, connVars, maps, lastOrder, outbox>>

NeverAsked == [socket |-> NoSocket, opts |-> NoOpts]

Init ==
    /\ destroyed = FALSE
    /\ sock = [s \in Sockets |-> "none"]
    /\ silent = [s \in Sockets |-> FALSE]
    /\ isAlive = [s \in Sockets |-> FALSE]
    /\ requestIds = [s \in Sockets |-> {}]
    /\ socketOf = [r \in RequestIds |-> NoSocket]
    /\ optsOf = [r \in RequestIds |-> NoOpts]
    /\ asked = [r \in RequestIds |-> NeverAsked]
    /\ lastOrder = NoOrder
    /\ outbox = {}

\* A handler other than orderUpdate.
NothingSent == lastOrder' = NoOrder /\ outbox' = {}

\* _server.clients
Clients == {s \in Sockets : sock[s] \in {"open", "closing"}}

-----------------------------------------------------------------------------
\* _processConnection: the server has accepted a connection.
ProcessConnection(s) ==
    /\ ~destroyed
    /\ sock[s] = "none"
    /\ sock' = [sock EXCEPT ![s] = "open"]
    /\ isAlive' = [isAlive EXCEPT ![s] = TRUE]
    /\ requestIds' = [requestIds EXCEPT ![s] = {}]
    /\ NothingSent
    /\ UNCHANGED <<destroyed, silent, socketOf, optsOf, asked>>

\* Mutant: the options of an earlier subscription are kept.
SubscribeKeepsOpts(s, r, opts) ==
    /\ s \in Clients
    /\ requestIds' = [requestIds EXCEPT ![s] = @ \cup {r}]
    /\ optsOf' = [optsOf EXCEPT ![r] = IF @ = NoOpts THEN opts ELSE @]
    /\ socketOf' = [socketOf EXCEPT ![r] = s]
    /\ asked' = [asked EXCEPT ![r] = [socket |-> s, opts |-> opts]]
    /\ NothingSent
    /\ UNCHANGED <<destroyed, connVars>>

\* _processMessage, case Subscribe: the message has passed the schema.
Subscribe(s, r, opts) ==
    /\ s \in Clients
    /\ requestIds' = [requestIds EXCEPT ![s] = @ \cup {r}]
    /\ optsOf' = [optsOf EXCEPT ![r] = opts]
    /\ socketOf' = [socketOf EXCEPT ![r] = s]
    /\ asked' = [asked EXCEPT ![r] = [socket |-> s, opts |-> opts]]
    /\ NothingSent
    /\ UNCHANGED <<destroyed, connVars>>

\* _processMessage throws (malformed JSON, a message the schema refuses, a type
\* that is not implemented): _processError answers and terminates the socket.
RejectMessage(s) ==
    /\ s \in Clients
    /\ sock' = [sock EXCEPT ![s] = "closing"]
    /\ NothingSent
    /\ UNCHANGED <<destroyed, silent, isAlive, maps>>

\* _pongHandler
Pong(s) ==
    /\ s \in Clients /\ ~silent[s]
    /\ isAlive' = [isAlive EXCEPT ![s] = TRUE]
    /\ NothingSent
    /\ UNCHANGED <<destroyed, sock, silent, maps>>

\* Mutant: everyone is pinged, the answer to the last ping does not count.
CleanupOnlyPings ==
    /\ ~destroyed
    /\ isAlive' = [s \in Sockets |-> isAlive[s] /\ s \notin Clients]
    /\ NothingSent
    /\ UNCHANGED <<destroyed, sock, silent, maps>>

\* _cleanupConnections, every pongInterval: terminate who has not answered the
\* last ping, ping the others.
CleanupConnections ==
    /\ ~destroyed
    /\ sock' = [s \in Sockets |->
                  IF s \in Clients /\ ~isAlive[s] THEN "closing" ELSE sock[s]]
    /\ isAlive' = [s \in Sockets |-> isAlive[s] /\ s \notin Clients]
    /\ NothingSent
    /\ UNCHANGED <<destroyed, silent, maps>>

\* The peer closes the connection, or the connection breaks.
PeerCloses(s) ==
    /\ sock[s] = "open"
    /\ sock' = [sock EXCEPT ![s] = "closing"]
    /\ NothingSent
    /\ UNCHANGED <<destroyed, silent, isAlive, maps>>

\* The peer vanishes and nobody notices yet.
PeerVanishes(s) ==
    /\ sock[s] = "open" /\ ~silent[s]
    /\ silent' = [silent EXCEPT ![s] = TRUE]
    /\ NothingSent
    /\ UNCHANGED <<destroyed, sock, isAlive, maps>>

\* Mutant: the handler leaves _requestIdToSubscriptionOpts alone.
CloseKeepsOpts(s) ==
    /\ sock[s] = "closing"
    /\ sock' = [sock EXCEPT ![s] = "gone"]
    /\ socketOf' = [r \in RequestIds |-> IF r \in requestIds[s] THEN NoSocket ELSE socketOf[r]]
    /\ NothingSent
    /\ UNCHANGED <<destroyed, silent, isAlive, requestIds, optsOf, asked>>

\* Mutant: the handler clears the maps.
CloseClearsMaps(s) ==
    /\ sock[s] = "closing"
    /\ sock' = [sock EXCEPT ![s] = "gone"]
    /\ socketOf' = [r \in RequestIds |-> NoSocket]
    /\ optsOf' = [r \in RequestIds |-> NoOpts]
    /\ NothingSent
    /\ UNCHANGED <<destroyed, silent, isAlive, requestIds, asked>>

\* _closeHandler: the close event.
Close(s) ==
    /\ sock[s] = "closing"
    /\ sock' = [sock EXCEPT ![s] = "gone"]
    /\ socketOf' = [r \in RequestIds |-> IF r \in requestIds[s] THEN NoSocket ELSE socketOf[r]]
    /\ optsOf' = [r \in RequestIds |-> IF r \in requestIds[s] THEN NoOpts ELSE optsOf[r]]
    /\ NothingSent
    /\ UNCHANGED <<destroyed, silent, isAlive, requestIds, asked>>

\* _matchesOrdersChannelSubscription
Matches(order, opts) ==
    opts.takerToken \in {AnyToken, order.takerToken} /\ opts.makerToken \in {AnyToken, order.makerToken}

\* eachMessage and orderUpdate: one order event, sent under every requestId
\* whose subscription matches.  An event without a value, or one that does not
\* parse, changes nothing.  The Kafka consumer outlives destroyAsync.
OrderUpdate(order) ==
    /\ Clients # {}
    /\ lastOrder' = order
    /\ outbox' = {<<socketOf[r], r, order>> :
                    r \in {r \in RequestIds : /\ optsOf[r] # NoOpts
                                              /\ Matches(order, optsOf[r])
                                              /\ socketOf[r] # NoSocket
                                              /\ sock[socketOf[r]] = "open"}}
    /\ UNCHANGED <<destroyed, connVars, maps>>

\* destroyAsync
Destroy ==
    /\ ~destroyed
    /\ destroyed' = TRUE
    /\ sock' = [s \in Sockets |-> IF s \in Clients THEN "closing" ELSE sock[s]]
    /\ socketOf' = [r \in RequestIds |-> NoSocket]
    /\ optsOf' = [r \in RequestIds |-> NoOpts]
    /\ NothingSent
    /\ UNCHANGED <<silent, isAlive, requestIds, asked>>

Next ==
    \/ \E s \in Sockets :
         \/ ProcessConnection(s)
         \/ \E r \in IdsOf[s], opts \in Opts : Subscribe(s, r, opts)
         \/ RejectMessage(s)
         \/ Pong(s)
         \/ PeerCloses(s)
         \/ PeerVanishes(s)
         \/ Close(s)
    \/ CleanupConnections
    \/ \E order \in Order : OrderUpdate(order)
    \/ Destroy

Spec == Init /\ [][Next]_vars

\* The interval timer keeps firing, and every termination ends in a close event.
FairSpec ==
    /\ Spec
    /\ WF_vars(CleanupConnections)
    /\ \A s \in Sockets : WF_vars(Close(s))

-----------------------------------------------------------------------------
(* Properties. *)

TypeOK ==
    /\ destroyed \in BOOLEAN
    /\ sock \in [Sockets -> {"none", "open", "closing", "gone"}]
    /\ silent \in [Sockets -> BOOLEAN]
    /\ isAlive \in [Sockets -> BOOLEAN]
    /\ requestIds \in [Sockets -> SUBSET RequestIds]
    /\ socketOf \in [RequestIds -> Sockets \cup {NoSocket}]
    /\ optsOf \in [RequestIds -> Opts \cup {NoOpts}]
    /\ asked \in [RequestIds -> [socket : Sockets \cup {NoSocket}, opts : Opts \cup {NoOpts}]]
    /\ lastOrder \in Order \cup {NoOrder}
    /\ outbox \subseteq Sockets \X RequestIds \X Order

(* The two maps of the server have the same keys, and an entry never         *)
(* outlives its connection: whatever order subscriptions, errors, pings,     *)
(* terminations, late messages and close events come in, nothing leaks.      *)
MapsFollowConnections ==
    \A r \in RequestIds :
        /\ socketOf[r] = NoSocket <=> optsOf[r] = NoOpts
        /\ socketOf[r] # NoSocket => socketOf[r] \in Clients /\ r \in requestIds[socketOf[r]]

(* An update goes only to a connection that asked for it: the one whose      *)
(* subscription under that requestId is the latest, with the options that    *)
(* subscription gave, even when clients share requestIds.                    *)
OnlyAskedIsSent ==
    \A m \in outbox : /\ asked[m[2]].socket = m[1]
                      /\ Matches(m[3], asked[m[2]].opts)

\* The connection that subscribed last under r, if it is open and its options
\* match, is sent the last order.
IsServed(r) ==
    (/\ asked[r].socket # NoSocket
     /\ sock[asked[r].socket] = "open"
     /\ asked[r].opts.takerToken \in {AnyToken, lastOrder.takerToken}
     /\ asked[r].opts.makerToken \in {AnyToken, lastOrder.makerToken})
    => <<asked[r].socket, r, lastOrder>> \in outbox

\* No two connections use r.
IsOwn(r) == \A s, u \in Sockets : r \in IdsOf[s] \cap IdsOf[u] => s = u

(* "A websocket server that sends order updates to subscribed clients": the  *)
(* connection that subscribed last under a requestId is sent every matching  *)
(* order for as long as it is open.                                          *)
LatestSubscriberIsServed ==
    lastOrder # NoOrder => \A r \in RequestIds : IsServed(r)

(* The same for a requestId that no other connection uses, whatever the      *)
(* other clients do with theirs: no subscription, error, termination or late *)
(* close event of another connection takes an open subscription away.        *)
OwnSubscriberIsServed ==
    lastOrder # NoOrder => \A r \in RequestIds : IsOwn(r) => IsServed(r)

(* A peer that has vanished is noticed by the pings: its connection is       *)
(* closed and its subscriptions are removed.                                 *)
VanishedPeersAreDropped ==
    \A s \in Sockets : silent[s] ~>
        (sock[s] = "gone" /\ \A r \in RequestIds : socketOf[r] # s)
=============================================================================

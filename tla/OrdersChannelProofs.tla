------------------------ MODULE OrdersChannelProofs ------------------------
(***************************************************************************)
(* Proofs about the orders channel, for any number of connections,         *)
(* requestIds and tokens.                                                  *)
(***************************************************************************)
EXTENDS OrdersChannel, TLAPS

-----------------------------------------------------------------------------
(* Type correctness. *)

LEMMA TypeInit == Init => TypeOK
<1>. SUFFICES ASSUME Init PROVE TypeOK
  OBVIOUS
<1>1. NeverAsked \in [socket : Sockets \cup {NoSocket}, opts : Opts \cup {NoOpts}]
  BY DEF NeverAsked
<1>2. /\ asked \in [RequestIds -> [socket : Sockets \cup {NoSocket}, opts : Opts \cup {NoOpts}]]
      /\ socketOf \in [RequestIds -> Sockets \cup {NoSocket}]
      /\ optsOf \in [RequestIds -> Opts \cup {NoOpts}]
  BY <1>1 DEF Init
<1>3. /\ sock \in [Sockets -> {"none", "open", "closing", "gone"}]
      /\ silent \in [Sockets -> BOOLEAN] /\ isAlive \in [Sockets -> BOOLEAN]
      /\ requestIds \in [Sockets -> SUBSET RequestIds]
  BY DEF Init
<1>. QED  BY <1>2, <1>3 DEF Init, TypeOK

(* Every connection, message, ping and failure keeps the types.              *)
LEMMA TypeStep == TypeOK /\ [Next]_vars => TypeOK'
<1>. SUFFICES ASSUME TypeOK, [Next]_vars PROVE TypeOK'
  OBVIOUS
<1>. USE ConstantsAssumption DEF TypeOK, connVars, maps, NothingSent
<1>1. ASSUME NEW s \in Sockets, ProcessConnection(s) PROVE TypeOK'
  BY <1>1 DEF ProcessConnection
<1>2. ASSUME NEW s \in Sockets, NEW r \in IdsOf[s], NEW opts \in Opts, Subscribe(s, r, opts)
      PROVE  TypeOK'
  <2>1. r \in RequestIds
    OBVIOUS
  <2>2. [socket |-> s, opts |-> opts] \in [socket : Sockets \cup {NoSocket}, opts : Opts \cup {NoOpts}]
    OBVIOUS
  <2>. QED  BY <1>2, <2>1, <2>2 DEF Subscribe
<1>3. ASSUME NEW s \in Sockets, RejectMessage(s) \/ PeerCloses(s) PROVE TypeOK'
  BY <1>3 DEF RejectMessage, PeerCloses
<1>4. ASSUME NEW s \in Sockets, Pong(s) \/ PeerVanishes(s) PROVE TypeOK'
  BY <1>4 DEF Pong, PeerVanishes
<1>5. ASSUME NEW s \in Sockets, Close(s) PROVE TypeOK'
  BY <1>5 DEF Close
<1>6. CASE CleanupConnections
  BY <1>6 DEF CleanupConnections
<1>7. ASSUME NEW order \in Order, OrderUpdate(order) PROVE TypeOK'
  BY <1>7 DEF OrderUpdate
<1>8. CASE Destroy
  BY <1>8 DEF Destroy
<1>9. CASE UNCHANGED vars
  BY <1>9 DEF vars
<1>. QED  BY <1>1, <1>2, <1>3, <1>4, <1>5, <1>6, <1>7, <1>8, <1>9 DEF Next

-----------------------------------------------------------------------------
(* The maps of the server. *)

\* What the server still holds under a requestId is its latest subscription.
MapsAreLatest ==
    \A r \in RequestIds : socketOf[r] # NoSocket =>
        asked[r].socket = socketOf[r] /\ asked[r].opts = optsOf[r]

MapsInv == MapsFollowConnections /\ MapsAreLatest /\ OnlyAskedIsSent

(* There are no subscriptions at first.                                      *)
LEMMA MapsInit == Init => MapsInv
BY DEF Init, MapsInv, MapsFollowConnections, MapsAreLatest, OnlyAskedIsSent

(* Every step keeps the two maps of subscriptions in agreement.              *)
LEMMA MapsStep == TypeOK /\ MapsInv /\ [Next]_vars => MapsInv'
<1>. SUFFICES ASSUME TypeOK, MapsInv, [Next]_vars PROVE MapsInv'
  OBVIOUS
<1>. USE ConstantsAssumption DEF TypeOK, MapsInv, connVars, maps, NothingSent
<1>0. outbox' = {} => OnlyAskedIsSent'
  BY DEF OnlyAskedIsSent
<1>00. UNCHANGED maps => MapsAreLatest'
  BY DEF MapsAreLatest
<1>1. ASSUME UNCHANGED <<requestIds, socketOf, optsOf>>, Clients \subseteq Clients'
      PROVE  MapsFollowConnections'
  BY <1>1 DEF MapsFollowConnections
<1>2. ASSUME NEW s \in Sockets, ProcessConnection(s) PROVE MapsInv'
  <2>1. Clients' = Clients \cup {s} /\ s \notin Clients
    BY <1>2 DEF ProcessConnection, Clients
  <2>2. MapsFollowConnections'
    BY <1>2, <2>1 DEF ProcessConnection, MapsFollowConnections
  <2>3. MapsAreLatest'
    BY <1>2 DEF ProcessConnection, MapsAreLatest
  <2>. QED  BY <1>0, <1>2, <2>2, <2>3 DEF ProcessConnection
<1>3. ASSUME NEW s \in Sockets, NEW r \in IdsOf[s], NEW opts \in Opts, Subscribe(s, r, opts)
      PROVE  MapsInv'
  <2>1. r \in RequestIds /\ opts # NoOpts /\ s # NoSocket /\ s \in Clients /\ Clients' = Clients
    BY <1>3 DEF Subscribe, Clients
  <2>2. MapsFollowConnections'
    BY <1>3, <2>1 DEF Subscribe, MapsFollowConnections
  <2>3. MapsAreLatest'
    BY <1>3, <2>1 DEF Subscribe, MapsAreLatest
  <2>. QED  BY <1>0, <1>3, <2>2, <2>3 DEF Subscribe
<1>4. ASSUME NEW s \in Sockets, RejectMessage(s) \/ PeerCloses(s) \/ Pong(s) \/ PeerVanishes(s)
      PROVE  MapsInv'
  <2>1. Clients \subseteq Clients' /\ UNCHANGED maps /\ outbox' = {}
    BY <1>4 DEF RejectMessage, PeerCloses, Pong, PeerVanishes, Clients
  <2>. QED  BY <1>0, <1>00, <1>1, <2>1
<1>5. ASSUME NEW s \in Sockets, Close(s) PROVE MapsInv'
  <2>1. Clients' = Clients \ {s} /\ s # NoSocket
    BY <1>5 DEF Close, Clients
  <2>2. MapsFollowConnections'
    BY <1>5, <2>1 DEF Close, MapsFollowConnections
  <2>3. MapsAreLatest'
    BY <1>5 DEF Close, MapsAreLatest
  <2>. QED  BY <1>0, <1>5, <2>2, <2>3 DEF Close
<1>6. CASE CleanupConnections
  <2>1. Clients \subseteq Clients' /\ UNCHANGED maps /\ outbox' = {}
    BY <1>6 DEF CleanupConnections, Clients
  <2>. QED  BY <1>0, <1>00, <1>1, <2>1
<1>7. ASSUME NEW order \in Order, OrderUpdate(order) PROVE MapsInv'
  <2>1. Clients \subseteq Clients' /\ UNCHANGED maps
    BY <1>7 DEF OrderUpdate, Clients
  <2>2. OnlyAskedIsSent'
    BY <1>7 DEF OrderUpdate, OnlyAskedIsSent, MapsAreLatest
  <2>. QED  BY <1>00, <1>1, <2>1, <2>2
<1>8. CASE Destroy
  BY <1>0, <1>8 DEF Destroy, MapsFollowConnections, MapsAreLatest
<1>9. CASE UNCHANGED vars
  BY <1>9 DEF vars, MapsFollowConnections, MapsAreLatest, OnlyAskedIsSent, Clients
<1>. QED  BY <1>2, <1>3, <1>4, <1>5, <1>6, <1>7, <1>8, <1>9 DEF Next

(* The types and the agreement of the maps hold always.                      *)
LEMMA Invariance == Spec => [](TypeOK /\ MapsInv)
BY TypeInit, TypeStep, MapsInit, MapsStep, PTL DEF Spec

(* MapsFollowConnections: the close handler always finds every entry that    *)
(* points to its socket, so that neither map of the server leaks.            *)
THEOREM NothingLeaks == Spec => []MapsFollowConnections
<1>1. MapsInv => MapsFollowConnections
  BY DEF MapsInv
<1>. QED  BY <1>1, Invariance, PTL

(* OnlyAskedIsSent: orderUpdate never sends a client what another client     *)
(* asked for, whatever requestIds the clients choose.                        *)
THEOREM OnlyAskedIsDelivered == Spec => []OnlyAskedIsSent
<1>1. MapsInv => OnlyAskedIsSent
  BY DEF MapsInv
<1>. QED  BY <1>1, Invariance, PTL

-----------------------------------------------------------------------------
(* RequestIds that only one connection uses. *)

\* Every connection only ever uses its requestIds, and the subscription under
\* a requestId of its own is in the maps while it is open.
OwnInv ==
    /\ \A s \in Sockets : requestIds[s] \subseteq IdsOf[s]
    /\ \A r \in RequestIds : asked[r].socket # NoSocket => r \in IdsOf[asked[r].socket]
    /\ \A r \in RequestIds :
         IsOwn(r) /\ asked[r].socket # NoSocket /\ sock[asked[r].socket] = "open" =>
             socketOf[r] = asked[r].socket /\ optsOf[r] = asked[r].opts
    /\ \A r \in RequestIds :
         asked[r].socket # NoSocket => sock[asked[r].socket] # "none"

(* No connection has asked for a subscription at first.                       *)
LEMMA OwnInit == Init => OwnInv
BY DEF Init, OwnInv, NeverAsked

(* Every step keeps a subscription with the connection that made it.         *)
LEMMA OwnStep ==
    ASSUME TypeOK, MapsInv, OwnInv, [Next]_vars
    PROVE  OwnInv'
<1>. USE ConstantsAssumption DEF TypeOK, connVars, maps, NothingSent
<1>1. ASSUME NEW s \in Sockets, ProcessConnection(s) PROVE OwnInv'
  BY <1>1 DEF ProcessConnection, OwnInv
<1>2. ASSUME NEW s \in Sockets, NEW r \in IdsOf[s], NEW opts \in Opts, Subscribe(s, r, opts)
      PROVE  OwnInv'
  <2>1. r \in RequestIds /\ sock[s] # "none"
    BY <1>2 DEF Subscribe, Clients
  <2>. QED  BY <1>2, <2>1 DEF Subscribe, OwnInv
<1>3. ASSUME UNCHANGED maps, \A s \in Sockets : sock'[s] = sock[s] \/ sock'[s] = "closing"
      PROVE  OwnInv'
  BY <1>3 DEF OwnInv
<1>4. ASSUME NEW s \in Sockets, RejectMessage(s) \/ PeerCloses(s) \/ Pong(s) \/ PeerVanishes(s)
      PROVE  OwnInv'
  BY <1>3, <1>4 DEF RejectMessage, PeerCloses, Pong, PeerVanishes
<1>5. ASSUME NEW s \in Sockets, Close(s) PROVE OwnInv'
  <2>1. \A r \in RequestIds :
          IsOwn(r) /\ asked[r].socket # NoSocket /\ sock'[asked[r].socket] = "open"
            => r \notin requestIds[s]
    BY <1>5 DEF Close, OwnInv, IsOwn
  <2>. QED  BY <1>5, <2>1 DEF Close, OwnInv
<1>6. CASE CleanupConnections
  BY <1>3, <1>6 DEF CleanupConnections
<1>7. ASSUME NEW order \in Order, OrderUpdate(order) PROVE OwnInv'
  BY <1>3, <1>7 DEF OrderUpdate
<1>8. CASE Destroy
  BY <1>8 DEF Destroy, OwnInv, Clients
<1>9. CASE UNCHANGED vars
  BY <1>3, <1>9 DEF vars
<1>. QED  BY <1>1, <1>2, <1>4, <1>5, <1>6, <1>7, <1>8, <1>9 DEF Next

(* An order event reaches every subscription in the maps. *)
LEMMA ServedStep ==
    ASSUME TypeOK, MapsInv, OwnInv, OwnSubscriberIsServed, [Next]_vars
    PROVE  OwnSubscriberIsServed'
<1>1. ASSUME NEW order \in Order, OrderUpdate(order) PROVE OwnSubscriberIsServed'
  <2>. SUFFICES ASSUME NEW r \in RequestIds, IsOwn(r), asked[r].socket # NoSocket,
                       sock[asked[r].socket] = "open",
                       asked[r].opts.takerToken \in {AnyToken, order.takerToken},
                       asked[r].opts.makerToken \in {AnyToken, order.makerToken}
                PROVE  <<asked[r].socket, r, order>> \in outbox'
    BY <1>1 DEF OwnSubscriberIsServed, IsServed, OrderUpdate, connVars, maps
  <2>1. socketOf[r] = asked[r].socket /\ optsOf[r] = asked[r].opts
    BY DEF OwnInv
  <2>2. optsOf[r] # NoOpts
    BY <2>1 DEF MapsInv, MapsFollowConnections
  <2>. QED  BY <1>1, <2>1, <2>2 DEF OrderUpdate, Matches
<1>2. CASE UNCHANGED vars
  BY <1>2 DEF OwnSubscriberIsServed, IsServed, vars, connVars, maps
<1>3. CASE NothingSent
  BY <1>3 DEF NothingSent, OwnSubscriberIsServed
<1>. QED
  BY <1>1, <1>2, <1>3 DEF Next, ProcessConnection, Subscribe, RejectMessage, Pong, PeerCloses,
     PeerVanishes, Close, CleanupConnections, Destroy

(* OwnSubscriberIsServed: an open connection is sent every order that        *)
(* matches what it subscribed to under a requestId of its own.  For one that *)
(* another connection uses too it may not be: see the run that shares them.  *)
THEOREM SubscribersAreServed == Spec => []OwnSubscriberIsServed
<1>1. TypeOK /\ MapsInv /\ OwnInv /\ [Next]_vars => OwnInv'
  BY OwnStep
<1>2. TypeOK /\ MapsInv /\ OwnInv /\ OwnSubscriberIsServed /\ [Next]_vars
        => OwnSubscriberIsServed'
  BY ServedStep
<1>3. Init => OwnSubscriberIsServed
  BY DEF Init, OwnSubscriberIsServed
<1>. QED  BY <1>1, <1>2, <1>3, OwnInit, Invariance, PTL DEF Spec
=============================================================================

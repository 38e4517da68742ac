--------------------------- MODULE WsClientProofs ---------------------------
(***************************************************************************)
(* What holds of the WebSocket client for any number of sockets, channels, *)
(* owners and faults.  The first proofs follow the client through its      *)
(* socket and its timer; the last one follows the frames from the owners'  *)
(* subscriptions to the rooms of the server.                               *)
(***************************************************************************)
EXTENDS WsClient, FiniteSetTheorems, TLAPS

LinkType ==
    /\ stage \in {"new", "live", "stopped"}
    /\ socket \in Socket \cup {NoSocket}
    /\ sock \in [Socket -> {"connecting", "open", "closing", "closed"}]
    /\ attached \in SUBSET Socket
    /\ timer \in BOOLEAN /\ expelled \in BOOLEAN
    /\ intentionalClose \in BOOLEAN /\ listenersRegistered \in BOOLEAN

\* The timer runs only without a socket; the network listeners only while the
\* client is in use; an expelled client is closed on purpose.
RouteInv ==
    /\ LinkType
    /\ OneLiveSocket /\ RevokedStaysOut /\ AlwaysARoute
    /\ \A s \in attached : sock[s] # "closed"
    /\ timer => socket = NoSocket /\ stage = "live"
    /\ socket # NoSocket => stage = "live"
    /\ listenersRegistered => stage = "live"
    /\ expelled => intentionalClose /\ stage # "new"

\* What a step leaves alone of the client's route.
Idles == UNCHANGED <<stage, socket, sock, attached, timer, expelled, intentionalClose,
                     listenersRegistered>>

\* Steps of pings, frames, rooms and subscriptions do not touch the route.
LEMMA IdlesOK == RouteInv /\ Idles => RouteInv'
    BY DEF RouteInv, Idles, LinkType, OneLiveSocket, RevokedStaysOut, AlwaysARoute

\* connect() puts a free socket in the place of none.
LEMMA ConnectOK ==
    ASSUME RouteInv, socket = NoSocket, connect, stage' = "live", timer' = FALSE, ~expelled,
           UNCHANGED expelled
    PROVE  RouteInv'
<1> USE WsAssumption DEF RouteInv, LinkType, OneLiveSocket, RevokedStaysOut, AlwaysARoute
<1> DEFINE s == CHOOSE u \in Unreferenced : TRUE
<1>1. s \in Socket /\ sock[s] = "closed"
  <2>1. Unreferenced # {}
      BY DEF connect
  <2>2. s \in Unreferenced
      BY <2>1
  <2> QED
      BY <2>2 DEF Unreferenced
<1>2. /\ socket' = s /\ sock' = [sock EXCEPT ![s] = "connecting"]
      /\ attached' = attached \cup {s} /\ listenersRegistered' = TRUE
      /\ intentionalClose' = FALSE
    BY DEF connect
<1> HIDE DEF s
<1>3. s # NoSocket /\ attached' = {s}
    BY <1>1, <1>2
<1> QED
    BY <1>1, <1>2, <1>3

\* A reconnection is scheduled for a client in use that has no socket.
LEMMA ScheduleOK ==
    ASSUME timer \in BOOLEAN, scheduleReconnect
    PROVE  timer' = TRUE
    BY DEF scheduleReconnect

\* onclose of the current socket leaves the timer, or an expelled client.
LEMMA CloseOK ==
    ASSUME RouteInv, NEW s \in Socket, NEW dr \in BOOLEAN, onclose(s, dr)
    PROVE  RouteInv'
<1> USE WsAssumption DEF RouteInv, LinkType, OneLiveSocket, RevokedStaysOut, AlwaysARoute
<1>1. /\ sock' = [sock EXCEPT ![s] = "closed"]
      /\ attached' = attached \ {s} /\ stage' = stage
    BY DEF onclose
<1>2. CASE s \notin attached
    BY <1>1, <1>2 DEF onclose, flagVars
<1>3. CASE s \in attached
  <2>1. socket = s /\ socket' = NoSocket /\ attached' = {} /\ stage = "live" /\ ~timer /\ ~expelled
      BY <1>1, <1>3 DEF onclose
  <2>2. CASE dr
      BY <1>1, <1>3, <2>1, <2>2 DEF onclose
  <2>3. CASE ~dr
    <3>1. timer' = TRUE /\ UNCHANGED <<intentionalClose, expelled, listenersRegistered>>
        BY <1>3, <2>3, ScheduleOK DEF onclose
    <3> QED
        BY <1>1, <2>1, <3>1
  <2> QED
      BY <2>2, <2>3
<1> QED
    BY <1>2, <1>3

\* A socket that starts to close, or opens, keeps the route.
LEMMA TurnsOK ==
    ASSUME RouteInv, NEW s \in Socket, NEW st \in {"open", "closing"},
           sock' = [sock EXCEPT ![s] = st], sock[s] # "closed",
           UNCHANGED <<stage, socket, attached, timer, expelled, intentionalClose,
                       listenersRegistered>>
    PROVE  RouteInv'
    BY DEF RouteInv, LinkType, OneLiveSocket, RevokedStaysOut, AlwaysARoute

\* The route's invariant is inductive.
LEMMA RouteNext == RouteInv /\ [Next]_vars => RouteInv'
<1> SUFFICES ASSUME RouteInv, [Next]_vars PROVE RouteInv'
    OBVIOUS
<1> USE WsAssumption DEF connVars, flagVars, pingVars, subVars, netVars, envVars
<1>0. LinkType
    BY DEF RouteInv
<1>1. CASE Connect
  <2>1. ~expelled /\ ~timer /\ socket = NoSocket
      BY <1>1 DEF Connect, RouteInv, LinkType
  <2>2. stage' = "live" /\ connect /\ timer' = FALSE /\ expelled' = expelled
      BY <1>1, <2>1, <1>0 DEF Connect, LinkType
  <2> QED
      BY <2>1, <2>2, ConnectOK
<1>2. CASE TimerFires
  <2>1. stage = "live" /\ ~expelled /\ socket = NoSocket
      BY <1>2 DEF TimerFires, RouteInv, RevokedStaysOut
  <2>2. stage' = "live" /\ connect /\ timer' = FALSE /\ expelled' = expelled
      BY <1>2, <2>1 DEF TimerFires
  <2> QED
      BY <2>1, <2>2, ConnectOK
<1>3. CASE disconnect
  <2>1. /\ stage' = "stopped" /\ socket' = NoSocket /\ attached' = attached \ {socket}
        /\ intentionalClose' = TRUE /\ listenersRegistered' = FALSE /\ timer' = FALSE
        /\ expelled' = expelled
      BY <1>3 DEF disconnect
  <2>2. sock' \in [Socket -> {"connecting", "open", "closing", "closed"}]
      BY <1>0, <1>3 DEF disconnect, isConnected, LinkType
  <2>3. attached' = {}
      BY <2>1 DEF RouteInv, OneLiveSocket
  <2> QED
      BY <1>0, <2>1, <2>2, <2>3
         DEF RouteInv, LinkType, OneLiveSocket, RevokedStaysOut, AlwaysARoute
<1>4. CASE PingTick
  <2>1. socket \in Socket /\ sock[socket] = "open"
      BY <1>0, <1>4 DEF PingTick, isConnected, LinkType
  <2>2. /\ UNCHANGED <<stage, socket, attached, timer, expelled, intentionalClose,
                       listenersRegistered>>
        /\ sock' = sock \/ sock' = [sock EXCEPT ![socket] = "closing"]
      BY <1>4 DEF PingTick
  <2> QED
      BY <2>1, <2>2, TurnsOK, IdlesOK DEF Idles
<1>5. CASE NetworkEvent
  <2>1. /\ UNCHANGED <<stage, socket, attached, intentionalClose, listenersRegistered, expelled>>
        /\ listenersRegistered /\ ~intentionalClose
      BY <1>5 DEF NetworkEvent
  <2>2. stage = "live" /\ ~expelled
      BY <2>1 DEF RouteInv
  <2>3. CASE socket # NoSocket /\ Live(socket)
    <3>1. socket \in Socket /\ sock[socket] # "closed"
        BY <1>0, <2>3 DEF LinkType, Live
    <3>2. sock' = [sock EXCEPT ![socket] = "closing"] /\ timer' = timer
        BY <1>5, <2>3 DEF NetworkEvent
    <3> QED
        BY <2>1, <3>1, <3>2, TurnsOK
  <2>4. CASE ~(socket # NoSocket /\ Live(socket))
    <3>1. sock' = sock /\ (timer' = timer \/ (socket = NoSocket /\ timer' = TRUE))
        BY <1>0, <1>5, <2>4, ScheduleOK DEF NetworkEvent, LinkType
    <3>2. CASE timer' = timer
        BY <2>1, <3>1, <3>2, IdlesOK DEF Idles
    <3>3. CASE socket = NoSocket /\ timer' = TRUE
        BY <2>1, <2>2, <3>1, <3>3
           DEF RouteInv, LinkType, OneLiveSocket, RevokedStaysOut, AlwaysARoute
    <3> QED
        BY <3>1, <3>2, <3>3
  <2> QED
      BY <2>3, <2>4
<1>6. ASSUME NEW s \in Socket, Opens(s) PROVE RouteInv'
  <2>1. /\ sock[s] # "closed"
        /\ UNCHANGED <<stage, socket, attached, timer, expelled, intentionalClose,
                       listenersRegistered>>
        /\ \/ sock' = [sock EXCEPT ![s] = "closing"]
           \/ sock' = [sock EXCEPT ![s] = "open"]
      BY <1>6 DEF Opens
  <2> QED
      BY <2>1, TurnsOK
<1>7. ASSUME NEW s \in Socket, OpensDetached(s) PROVE RouteInv'
    BY <1>7, TurnsOK DEF OpensDetached
<1>8. ASSUME NEW s \in Socket,
             CloseCompletes(s) \/ RefusedByServer(s) \/ ExpelledByServer(s) \/ Drops(s)
      PROVE  RouteInv'
    BY <1>8, CloseOK DEF CloseCompletes, RefusedByServer, ExpelledByServer, Drops
<1>9. ASSUME NEW s \in Socket, Recovered(s) \/ ServerReceives(s) \/ GoesMute(s)
      PROVE  RouteInv'
    BY <1>9, IdlesOK DEF Recovered, ServerReceives, GoesMute, Idles
<1>10. CASE Pong \/ TokenChanges \/ RevokeDevice
    BY <1>10, IdlesOK DEF Pong, TokenChanges, RevokeDevice, Idles
<1>11. ASSUME NEW o \in Owner, NEW c \in Channel,
              subscribeChannel(o, c) \/ unsubscribeChannel(o, c)
       PROVE  RouteInv'
    BY <1>11, IdlesOK DEF subscribeChannel, unsubscribeChannel, Idles
<1>12. CASE UNCHANGED vars
    BY <1>12, IdlesOK DEF vars, Idles
<1> QED
    BY <1>1, <1>2, <1>3, <1>4, <1>5, <1>6, <1>7, <1>8, <1>9, <1>10, <1>11, <1>12
       DEF Next, Browser

\* The initial states satisfy it.
LEMMA RouteInit == Init => RouteInv
    BY WsAssumption
       DEF Init, RouteInv, LinkType, OneLiveSocket, RevokedStaysOut, AlwaysARoute

\* The client's invariant holds throughout.
LEMMA RouteHolds == Spec => []RouteInv
    BY RouteInit, RouteNext, PTL DEF Spec

\* Only the current socket has the client's handlers: no event is delivered
\* twice and no late close takes the reference to a newer socket.
THEOREM OneSocketHolds == Spec => []OneLiveSocket
<1>1. RouteInv => OneLiveSocket
    BY DEF RouteInv
<1> QED
    BY <1>1, RouteHolds, PTL

\* A client that was told its device is revoked never connects again.
THEOREM RevokedHolds == Spec => []RevokedStaysOut
<1>1. RouteInv => RevokedStaysOut
    BY DEF RouteInv
<1> QED
    BY <1>1, RouteHolds, PTL

\* A client in use always has a connection, or a timer that will make one.
THEOREM RouteIsThere == Spec => []AlwaysARoute
<1>1. RouteInv => AlwaysARoute
    BY DEF RouteInv
<1> QED
    BY <1>1, RouteHolds, PTL

-----------------------------------------------------------------------------
(* Frames in flight and rooms.                                              *)

\* A finite set, listed: a sequence of its elements that leaves none out.
LEMMA Listed ==
    ASSUME NEW S, IsFiniteSet(S)
    PROVE  /\ SetToSeq(S) \in Seq(S)
           /\ \A x \in S : \E i \in DOMAIN SetToSeq(S) : SetToSeq(S)[i] = x
<1> DEFINE n == Cardinality(S)
           f == SetToSeq(S)
<1>1. n \in Nat /\ ExistsBijection(1..n, S)
    BY FS_CardinalityType
<1>2. \E g \in [1..n -> S] : IsInjective(g)
    BY <1>1 DEF ExistsBijection, Bijection, Injection
<1>3. f \in [1..n -> S] /\ IsInjective(f)
    BY <1>2 DEF SetToSeq
<1>4. IsFiniteSet(1..n) /\ Cardinality(1..n) = n
    BY <1>1, FS_Interval
<1>5. f \in Surjection(1..n, S)
    BY <1>3, <1>4, FS_Injection DEF Injection
<1>6. DOMAIN f = 1..n /\ \A x \in S : \E i \in 1..n : f[i] = x
    BY <1>3, <1>5 DEF Surjection
<1>7. f \in Seq(S)
    BY <1>1, <1>3
<1> QED
    BY <1>6, <1>7

\* A channel's room once the server has read the frames w, from rooms R.
InTheEnd(w, R, c) ==
    \/ c \in R /\ \A j \in DOMAIN w : w[j] # Unsub(c)
    \/ \E i \in DOMAIN w :
          w[i] = Sub(c) /\ \A j \in DOMAIN w : w[j] = Unsub(c) => j < i

LEMMA RoomsInTheEnd ==
    ASSUME NEW s, NEW c \in Channel
    PROVE  c \in RoomsAtEnd(s) <=> InTheEnd(wire[s], rooms[s], c)
    BY DEF RoomsAtEnd, InTheEnd, Stays, Joins

\* Frames differ by their type and their channel.
LEMMA FramesDiffer ==
    /\ Auth \in Frame
    /\ \A c \in Channel : Sub(c) \in Frame /\ Unsub(c) \in Frame
    /\ \A c, d \in Channel :
          /\ Sub(c) # Unsub(d) /\ Sub(c) # Auth /\ Unsub(c) # Auth
          /\ Sub(c) = Sub(d) => c = d
          /\ Unsub(c) = Unsub(d) => c = d
    /\ \A f \in Frame : f = Auth \/ \E c \in Channel : f = Sub(c) \/ f = Unsub(c)
<1>1. /\ Auth \in Frame
      /\ \A c \in Channel : Sub(c) \in Frame /\ Unsub(c) \in Frame
    BY DEF Frame, Auth, Sub, Unsub
<1>2. ASSUME NEW c \in Channel, NEW d \in Channel
      PROVE  /\ Sub(c) # Unsub(d) /\ Sub(c) # Auth /\ Unsub(c) # Auth
             /\ Sub(c) = Sub(d) => c = d
             /\ Unsub(c) = Unsub(d) => c = d
  <2>1. Sub(c).type = "subscribe" /\ Unsub(c).type = "unsubscribe" /\ Auth.type = "auth"
        /\ Sub(c).channel = c /\ Unsub(c).channel = c
      BY DEF Auth, Sub, Unsub
  <2>2. Unsub(d).type = "unsubscribe" /\ Sub(d).channel = d /\ Unsub(d).channel = d
      BY DEF Sub, Unsub
  <2>3. Sub(c) # Unsub(d) /\ Sub(c) # Auth /\ Unsub(c) # Auth
      BY <2>1, <2>2
  <2>4. (Sub(c) = Sub(d) => c = d) /\ (Unsub(c) = Unsub(d) => c = d)
      BY <2>1, <2>2
  <2> QED
      BY <2>3, <2>4
<1>3. ASSUME NEW f \in Frame
      PROVE  f = Auth \/ \E c \in Channel : f = Sub(c) \/ f = Unsub(c)
  <2>1. CASE f \in [type : {"auth"}]
      BY <2>1 DEF Auth
  <2>2. CASE f \in [type : {"subscribe", "unsubscribe"}, channel : Channel]
      BY <2>2 DEF Sub, Unsub
  <2> QED
      BY <2>1, <2>2 DEF Frame
<1> QED
    BY <1>1, <1>2, <1>3

\* A subscribe in flight joins its channel in the end, whatever came before it.
LEMMA SubAppended ==
    ASSUME NEW w \in Seq(Frame), NEW R, NEW c \in Channel, NEW d \in Channel
    PROVE  InTheEnd(Append(w, Sub(d)), R, c) <=> (c = d \/ InTheEnd(w, R, c))
<1> DEFINE v == Append(w, Sub(d))
<1>1. /\ DOMAIN v = 1..(Len(w) + 1) /\ DOMAIN w = 1..Len(w) /\ Len(w) \in Nat
      /\ v[Len(w) + 1] = Sub(d) /\ \A j \in 1..Len(w) : v[j] = w[j]
    BY FramesDiffer
<1> HIDE DEF v
<1>2. Sub(d) # Unsub(c) /\ (Sub(d) = Sub(c) => c = d)
    BY FramesDiffer
<1>3. CASE c = d
  <2>1. v[Len(w) + 1] = Sub(c) /\ \A j \in DOMAIN v : v[j] = Unsub(c) => j < Len(w) + 1
      BY <1>1, <1>2, <1>3
  <2> QED
      BY <1>1, <1>3, <2>1 DEF InTheEnd, v
<1>4. CASE c # d
  <2>1. \A i \in DOMAIN v : v[i] = Sub(c) => i \in DOMAIN w /\ w[i] = Sub(c)
      BY <1>1, <1>2, <1>4
  <2>2. \A i \in DOMAIN v : v[i] = Unsub(c) => i \in DOMAIN w /\ w[i] = Unsub(c)
      BY <1>1, <1>2
  <2>3. \A i \in DOMAIN w : i \in DOMAIN v /\ v[i] = w[i]
      BY <1>1
  <2>4. InTheEnd(v, R, c) <=> InTheEnd(w, R, c)
      BY <2>1, <2>2, <2>3 DEF InTheEnd
  <2> QED
      BY <1>4, <2>4 DEF v
<1> QED
    BY <1>3, <1>4

\* An unsubscribe in flight leaves its channel in the end.
LEMMA UnsubAppended ==
    ASSUME NEW w \in Seq(Frame), NEW R, NEW c \in Channel, NEW d \in Channel
    PROVE  InTheEnd(Append(w, Unsub(d)), R, c) <=> (c # d /\ InTheEnd(w, R, c))
<1> DEFINE v == Append(w, Unsub(d))
<1>1. /\ DOMAIN v = 1..(Len(w) + 1) /\ DOMAIN w = 1..Len(w) /\ Len(w) \in Nat
      /\ v[Len(w) + 1] = Unsub(d) /\ \A j \in 1..Len(w) : v[j] = w[j]
    BY FramesDiffer
<1> HIDE DEF v
<1>2. Sub(c) # Unsub(d) /\ (Unsub(d) = Unsub(c) => c = d)
    BY FramesDiffer
<1>3. CASE c = d
  <2>1. Len(w) + 1 \in DOMAIN v /\ v[Len(w) + 1] = Unsub(c)
      BY <1>1, <1>3
  <2>2. \A i \in DOMAIN v : v[i] = Sub(c) => ~(Len(w) + 1 < i)
      BY <1>1
  <2>3. \A i \in DOMAIN v : v[i] = Sub(c) => i # Len(w) + 1
      BY <1>1, <1>2
  <2>4. \A i \in DOMAIN v : v[i] = Sub(c) => ~(Len(w) + 1 < i) /\ i # Len(w) + 1
      BY <2>2, <2>3
  <2>5. ~InTheEnd(v, R, c)
      BY <1>1, <2>1, <2>4 DEF InTheEnd
  <2> QED
      BY <1>3, <2>5 DEF v
<1>4. CASE c # d
  <2>1. \A i \in DOMAIN v : v[i] = Unsub(c) => i \in DOMAIN w /\ w[i] = Unsub(c)
      BY <1>1, <1>2, <1>4
  <2>2. \A i \in DOMAIN v : v[i] = Sub(c) => i \in DOMAIN w /\ w[i] = Sub(c)
      BY <1>1, <1>2
  <2>3. \A i \in DOMAIN w : i \in DOMAIN v /\ v[i] = w[i]
      BY <1>1
  <2>4. InTheEnd(v, R, c) <=> InTheEnd(w, R, c)
      BY <2>1, <2>2, <2>3 DEF InTheEnd
  <2> QED
      BY <1>4, <2>4 DEF v
<1> QED
    BY <1>3, <1>4

\* The server's reading of the first frame changes nothing in the end, if it
\* has read the authentication before.
LEMMA FrameRead ==
    ASSUME NEW w \in Seq(Frame), w # <<>>, NEW R \in SUBSET Channel, NEW auth \in BOOLEAN,
           auth \/ Head(w) = Auth, NEW c \in Channel
    PROVE  InTheEnd(Tail(w), RoomsAfter(Head(w), auth, R), c) <=> InTheEnd(w, R, c)
<1> DEFINE v == Tail(w)
           Q == RoomsAfter(Head(w), auth, R)
<1>1. /\ DOMAIN w = 1..Len(w) /\ Len(w) \in Nat /\ Len(w) > 0
      /\ DOMAIN v = 1..(Len(w) - 1)
      /\ \A i \in 1..(Len(w) - 1) : v[i] = w[i + 1]
      /\ w[1] = Head(w) /\ Head(w) \in Frame
    OBVIOUS
<1>2. /\ \A i \in DOMAIN w : i = 1 \/ (i - 1 \in DOMAIN v /\ v[i - 1] = w[i])
      /\ \A i \in DOMAIN v : i + 1 \in DOMAIN w /\ v[i] = w[i + 1]
      /\ \A i \in DOMAIN v : i \in Nat \ {0}
      /\ \A i \in DOMAIN w : i \in Nat \ {0}
      /\ 1 \in DOMAIN w
    BY <1>1
<1>3. CASE Head(w) = Unsub(c)
  <2>1. c \notin Q
      BY <1>3 DEF RoomsAfter, Unsub
  <2> HIDE DEF v, Q
  <2>2. w[1] = Unsub(c) /\ w[1] # Sub(c)
      BY <1>1, <1>3, FramesDiffer
  <2>3. ASSUME NEW i \in DOMAIN v, v[i] = Sub(c), \A j \in DOMAIN v : v[j] = Unsub(c) => j < i
        PROVE  w[i + 1] = Sub(c) /\ \A j \in DOMAIN w : w[j] = Unsub(c) => j < i + 1
      BY <1>2, <2>3
  <2>4. ASSUME NEW i \in DOMAIN w, w[i] = Sub(c), \A j \in DOMAIN w : w[j] = Unsub(c) => j < i
        PROVE  /\ i - 1 \in DOMAIN v /\ v[i - 1] = Sub(c)
               /\ \A j \in DOMAIN v : v[j] = Unsub(c) => j < i - 1
    <3>1. i # 1
        BY <2>2, <2>4
    <3>2. ASSUME NEW j \in DOMAIN v, v[j] = Unsub(c) PROVE j < i - 1
      <4>1. j + 1 < i
          BY <1>2, <2>4, <3>2
      <4> QED
          BY <1>2, <4>1
    <3> QED
        BY <1>2, <2>4, <3>1, <3>2
  <2>5. InTheEnd(v, Q, c) <=> \E i \in DOMAIN v : v[i] = Sub(c)
                                  /\ \A j \in DOMAIN v : v[j] = Unsub(c) => j < i
      BY <2>1 DEF InTheEnd
  <2>6. InTheEnd(w, R, c) <=> \E i \in DOMAIN w : w[i] = Sub(c)
                                  /\ \A j \in DOMAIN w : w[j] = Unsub(c) => j < i
      BY <1>2, <2>2 DEF InTheEnd
  <2>7. InTheEnd(v, Q, c) <=> InTheEnd(w, R, c)
      BY <1>2, <2>3, <2>4, <2>5, <2>6
  <2> QED
      BY <2>7 DEF v, Q
<1>4. CASE Head(w) = Sub(c)
  <2>0. auth
      BY <1>4, FramesDiffer
  <2>1. c \in Q
      BY <1>4, <2>0 DEF RoomsAfter, Sub
  <2> HIDE DEF v, Q
  <2>2. w[1] = Sub(c) /\ w[1] # Unsub(c)
      BY <1>1, <1>4, FramesDiffer
  <2>3. CASE \A j \in DOMAIN v : v[j] # Unsub(c)
    <3>1. InTheEnd(v, Q, c)
        BY <2>1, <2>3 DEF InTheEnd
    <3>2. \A j \in DOMAIN w : w[j] # Unsub(c)
        BY <1>2, <2>2, <2>3
    <3>3. InTheEnd(w, R, c)
        BY <1>2, <2>2, <3>2 DEF InTheEnd
    <3> QED
        BY <3>1, <3>3 DEF v, Q
  <2>4. CASE ~(\A j \in DOMAIN v : v[j] # Unsub(c))
    <3>1. PICK k \in DOMAIN v : v[k] = Unsub(c)
        BY <2>4
    <3>2. k + 1 \in DOMAIN w /\ w[k + 1] = Unsub(c)
        BY <1>2, <3>1
    <3>3. ASSUME NEW i \in DOMAIN v, v[i] = Sub(c), \A j \in DOMAIN v : v[j] = Unsub(c) => j < i
          PROVE  w[i + 1] = Sub(c) /\ \A j \in DOMAIN w : w[j] = Unsub(c) => j < i + 1
      <4>1. ASSUME NEW j \in DOMAIN w, w[j] = Unsub(c) PROVE j < i + 1
        <5>1. j # 1 /\ j - 1 \in DOMAIN v /\ v[j - 1] = Unsub(c)
            BY <1>2, <2>2, <4>1
        <5>2. j - 1 < i
            BY <3>3, <5>1
        <5> QED
            BY <1>2, <5>2
      <4> QED
          BY <1>2, <3>3, <4>1
    <3>4. ASSUME NEW i \in DOMAIN w, w[i] = Sub(c), \A j \in DOMAIN w : w[j] = Unsub(c) => j < i
          PROVE  /\ i - 1 \in DOMAIN v /\ v[i - 1] = Sub(c)
                 /\ \A j \in DOMAIN v : v[j] = Unsub(c) => j < i - 1
      <4>1. i # 1
          BY <1>2, <3>2, <3>4
      <4>2. ASSUME NEW j \in DOMAIN v, v[j] = Unsub(c) PROVE j < i - 1
        <5>1. j + 1 < i
            BY <1>2, <3>4, <4>2
        <5> QED
            BY <1>2, <5>1
      <4> QED
          BY <1>2, <3>4, <4>1, <4>2
    <3>5. InTheEnd(v, Q, c) <=> \E i \in DOMAIN v : v[i] = Sub(c)
                                    /\ \A j \in DOMAIN v : v[j] = Unsub(c) => j < i
        BY <2>4 DEF InTheEnd
    <3>6. InTheEnd(w, R, c) <=> \E i \in DOMAIN w : w[i] = Sub(c)
                                    /\ \A j \in DOMAIN w : w[j] = Unsub(c) => j < i
        BY <3>2 DEF InTheEnd
    <3>7. InTheEnd(v, Q, c) <=> InTheEnd(w, R, c)
        BY <1>2, <3>3, <3>4, <3>5, <3>6
    <3> QED
        BY <3>7 DEF v, Q
  <2> QED
      BY <2>3, <2>4
<1>5. CASE Head(w) # Sub(c) /\ Head(w) # Unsub(c)
  <2>1. c \in Q <=> c \in R
    <3>1. CASE Head(w) = Auth
        BY <3>1 DEF RoomsAfter, Auth
    <3>2. ASSUME NEW d \in Channel, d # c, Head(w) = Sub(d) \/ Head(w) = Unsub(d)
          PROVE  c \in Q <=> c \in R
        BY <3>2 DEF RoomsAfter, Sub, Unsub
    <3>3. Head(w) = Auth \/ \E d \in Channel : Head(w) = Sub(d) \/ Head(w) = Unsub(d)
        BY <1>1, FramesDiffer
    <3> QED
        BY <1>5, <3>1, <3>2, <3>3
  <2> HIDE DEF v, Q
  <2>2. w[1] # Sub(c) /\ w[1] # Unsub(c)
      BY <1>1, <1>5
  <2>3. (\A j \in DOMAIN v : v[j] # Unsub(c)) <=> (\A j \in DOMAIN w : w[j] # Unsub(c))
      BY <1>2, <2>2
  <2>4. ASSUME NEW i \in DOMAIN v, v[i] = Sub(c), \A j \in DOMAIN v : v[j] = Unsub(c) => j < i
        PROVE  w[i + 1] = Sub(c) /\ \A j \in DOMAIN w : w[j] = Unsub(c) => j < i + 1
      BY <1>2, <2>4
  <2>5. ASSUME NEW i \in DOMAIN w, w[i] = Sub(c), \A j \in DOMAIN w : w[j] = Unsub(c) => j < i
        PROVE  /\ i - 1 \in DOMAIN v /\ v[i - 1] = Sub(c)
               /\ \A j \in DOMAIN v : v[j] = Unsub(c) => j < i - 1
    <3>1. i # 1
        BY <2>2, <2>5
    <3>2. ASSUME NEW j \in DOMAIN v, v[j] = Unsub(c) PROVE j < i - 1
      <4>1. j + 1 < i
          BY <1>2, <2>5, <3>2
      <4> QED
          BY <1>2, <4>1
    <3> QED
        BY <1>2, <2>5, <3>1, <3>2
  <2>6. (\E i \in DOMAIN v : v[i] = Sub(c) /\ \A j \in DOMAIN v : v[j] = Unsub(c) => j < i)
        <=> (\E i \in DOMAIN w : w[i] = Sub(c) /\ \A j \in DOMAIN w : w[j] = Unsub(c) => j < i)
      BY <1>2, <2>4, <2>5
  <2>7. InTheEnd(v, Q, c) <=> InTheEnd(w, R, c)
      BY <2>1, <2>3, <2>6 DEF InTheEnd
  <2> QED
      BY <2>7 DEF v, Q
<1> QED
    BY <1>3, <1>4, <1>5

-----------------------------------------------------------------------------
(* The owners' subscriptions are counted.                                   *)

Holders(c) == {o \in Owner : <<o, c>> \in held}

\* A channel's counter is the number of owners that hold it.
SubsInv ==
    /\ held \in SUBSET (Owner \X Channel)
    /\ channelSubscriptions \in [Channel -> Nat]
    /\ IsFiniteSet(HeldChannels)
    /\ \A c \in Channel : /\ IsFiniteSet(Holders(c))
                          /\ channelSubscriptions[c] = Cardinality(Holders(c))

LEMMA CountersTell ==
    ASSUME SubsInv, NEW c \in Channel
    PROVE  /\ channelSubscriptions[c] \in Nat
           /\ channelSubscriptions[c] > 0 <=> c \in HeldChannels
           /\ channelSubscriptions[c] = 1 => \E o \in Owner : Holders(c) = {o}
<1>1. IsFiniteSet(Holders(c)) /\ channelSubscriptions[c] = Cardinality(Holders(c))
      /\ channelSubscriptions[c] \in Nat
    BY DEF SubsInv
<1>2. channelSubscriptions[c] = 0 <=> Holders(c) = {}
    BY <1>1, FS_EmptySet
<1>3. Holders(c) # {} <=> c \in HeldChannels
    BY DEF Holders, HeldChannels
<1>4. channelSubscriptions[c] = 1 => \E o : Holders(c) = {o}
    BY <1>1, FS_Singleton
<1>5. \A o : Holders(c) = {o} => o \in Owner
    BY DEF Holders
<1> QED
    BY <1>1, <1>2, <1>3, <1>4, <1>5

LEMMA SubscribedAreHeld == SubsInv => SubscribedChannels = HeldChannels
    BY CountersTell DEF SubscribedChannels, HeldChannels

\* An owner more.
LEMMA SubscribeOK ==
    ASSUME SubsInv, NEW o \in Owner, NEW c \in Channel, subscribeChannel(o, c)
    PROVE  /\ SubsInv'
           /\ HeldChannels' = HeldChannels \cup {c}
<1>1. /\ <<o, c>> \notin held /\ held' = held \cup {<<o, c>>}
      /\ channelSubscriptions' = [channelSubscriptions EXCEPT ![c] = @ + 1]
    BY DEF subscribeChannel
<1>2. HeldChannels' = HeldChannels \cup {c}
    BY <1>1 DEF HeldChannels
<1>3. IsFiniteSet(HeldChannels')
    BY <1>2, FS_AddElement DEF SubsInv
<1>4. ASSUME NEW d \in Channel
      PROVE  /\ IsFiniteSet(Holders(d)')
             /\ channelSubscriptions'[d] = Cardinality(Holders(d)')
  <2>0. /\ IsFiniteSet(Holders(d)) /\ channelSubscriptions[d] = Cardinality(Holders(d))
        /\ channelSubscriptions \in [Channel -> Nat]
      BY DEF SubsInv
  <2>1. CASE d = c
    <3>1. Holders(d)' = Holders(d) \cup {o} /\ o \notin Holders(d)
        BY <1>1, <2>1 DEF Holders
    <3>2. IsFiniteSet(Holders(d) \cup {o})
          /\ Cardinality(Holders(d) \cup {o}) = Cardinality(Holders(d)) + 1
        BY <2>0, <3>1, FS_AddElement
    <3>3. channelSubscriptions'[d] = channelSubscriptions[d] + 1
        BY <1>1, <2>0, <2>1
    <3> QED
        BY <2>0, <3>1, <3>2, <3>3
  <2>2. CASE d # c
    <3>1. Holders(d)' = Holders(d)
        BY <1>1, <2>2 DEF Holders
    <3>2. channelSubscriptions'[d] = channelSubscriptions[d]
        BY <1>1, <2>0, <2>2
    <3> QED
        BY <2>0, <3>1, <3>2
  <2> QED
      BY <2>1, <2>2
<1>5. held' \in SUBSET (Owner \X Channel) /\ channelSubscriptions' \in [Channel -> Nat]
    BY <1>1 DEF SubsInv
<1> QED
    BY <1>2, <1>3, <1>4, <1>5 DEF SubsInv

\* An owner less: the last one takes the channel with it.
LEMMA UnsubscribeOK ==
    ASSUME SubsInv, NEW o \in Owner, NEW c \in Channel, unsubscribeChannel(o, c)
    PROVE  /\ SubsInv'
           /\ HeldChannels' = IF channelSubscriptions[c] = 1 THEN HeldChannels \ {c}
                                                             ELSE HeldChannels
<1>1. /\ <<o, c>> \in held /\ held' = held \ {<<o, c>>} /\ channelSubscriptions[c] > 0
      /\ channelSubscriptions' = [channelSubscriptions EXCEPT ![c] = @ - 1]
    BY DEF unsubscribeChannel
<1>2. ASSUME NEW d \in Channel
      PROVE  /\ IsFiniteSet(Holders(d)')
             /\ channelSubscriptions'[d] = Cardinality(Holders(d)')
             /\ channelSubscriptions'[d] \in Nat
  <2>0. /\ IsFiniteSet(Holders(d)) /\ channelSubscriptions[d] = Cardinality(Holders(d))
        /\ channelSubscriptions \in [Channel -> Nat]
      BY DEF SubsInv
  <2>1. CASE d = c
    <3>1. Holders(d)' = Holders(d) \ {o} /\ o \in Holders(d)
        BY <1>1, <2>1 DEF Holders
    <3>2. IsFiniteSet(Holders(d) \ {o})
          /\ Cardinality(Holders(d) \ {o}) = Cardinality(Holders(d)) - 1
        BY <2>0, <3>1, FS_RemoveElement
    <3>3. channelSubscriptions'[d] = channelSubscriptions[d] - 1
          /\ channelSubscriptions'[d] \in Nat
        BY <1>1, <2>0, <2>1
    <3> QED
        BY <2>0, <3>1, <3>2, <3>3
  <2>2. CASE d # c
    <3>1. Holders(d)' = Holders(d)
        BY <1>1, <2>2 DEF Holders
    <3>2. channelSubscriptions'[d] = channelSubscriptions[d]
        BY <1>1, <2>0, <2>2
    <3> QED
        BY <2>0, <3>1, <3>2
  <2> QED
      BY <2>1, <2>2
<1>3. channelSubscriptions' \in [Channel -> Nat]
    BY <1>1, <1>2 DEF SubsInv
<1>4. HeldChannels' = IF channelSubscriptions[c] = 1 THEN HeldChannels \ {c} ELSE HeldChannels
  <2>1. HeldChannels' \ {c} = HeldChannels \ {c}
      BY <1>1 DEF HeldChannels
  <2>2. c \in HeldChannels
      BY <1>1 DEF HeldChannels
  <2>3. c \in HeldChannels' <=> Holders(c)' # {}
      BY DEF HeldChannels, Holders
  <2>4. Holders(c)' # {} <=> channelSubscriptions'[c] # 0
      BY <1>2, FS_EmptySet
  <2>5. channelSubscriptions'[c] = channelSubscriptions[c] - 1
        /\ channelSubscriptions[c] \in Nat
      BY <1>1 DEF SubsInv
  <2>6. c \in HeldChannels' <=> channelSubscriptions[c] # 1
      BY <1>1, <2>3, <2>4, <2>5
  <2> QED
      BY <2>1, <2>2, <2>6
<1>5. IsFiniteSet(HeldChannels')
  <2>1. HeldChannels' \in SUBSET HeldChannels /\ IsFiniteSet(HeldChannels)
      BY <1>4 DEF SubsInv
  <2> QED
      BY <2>1, FS_Subset
<1>6. held' \in SUBSET (Owner \X Channel)
    BY <1>1 DEF SubsInv
<1> QED
    BY <1>2, <1>3, <1>4, <1>5, <1>6 DEF SubsInv

-----------------------------------------------------------------------------
(* From the subscriptions to the server's rooms.                            *)

\* A connection that is not open has no rooms; on the open one the
\* authentication comes before anything else, and the frames in flight lead to
\* the rooms that the owners hold.
FrameInv ==
    /\ wire \in [Socket -> Seq(Frame)]
    /\ rooms \in [Socket -> SUBSET Channel]
    /\ authed \in SUBSET Socket
    /\ \A s \in Socket : sock[s] \in {"closed", "connecting"} => rooms[s] = {}
    /\ isConnected => /\ socket \in authed \/ (wire[socket] # <<>> /\ Head(wire[socket]) = Auth)
                      /\ \A c \in Channel :
                            InTheEnd(wire[socket], rooms[socket], c) <=> c \in HeldChannels

\* What a reconnection sends: the authentication, then every held channel.
LEMMA ReplayOK ==
    ASSUME SubsInv
    PROVE  /\ <<Auth>> \o Replay \in Seq(Frame)
           /\ <<Auth>> \o Replay # <<>> /\ Head(<<Auth>> \o Replay) = Auth
           /\ \A c \in Channel : InTheEnd(<<Auth>> \o Replay, {}, c) <=> c \in HeldChannels
<1> DEFINE S == {Sub(c) : c \in SubscribedChannels}
           g == [c \in SubscribedChannels |-> Sub(c)]
           w == <<Auth>> \o Replay
<1>1. SubscribedChannels = HeldChannels /\ IsFiniteSet(SubscribedChannels)
    BY SubscribedAreHeld DEF SubsInv
<1>2. g \in Surjection(SubscribedChannels, S)
    BY DEF Surjection
<1>3. IsFiniteSet(S)
  <2> HIDE DEF g, S
  <2> QED
      BY <1>1, <1>2, FS_Surjection
<1>4. /\ Replay \in Seq(S)
      /\ \A x \in S : \E i \in DOMAIN Replay : Replay[i] = x
  <2> HIDE DEF S
  <2>1. Replay = SetToSeq(S)
      BY DEF Replay, S
  <2> QED
      BY <1>3, <2>1, Listed
<1>5. SubscribedChannels \subseteq Channel
    BY DEF SubscribedChannels
<1>6. S \subseteq Frame
    BY <1>5, FramesDiffer
<1>7. Replay \in Seq(Frame)
  <2> HIDE DEF S
  <2> QED
      BY <1>4, <1>6
<1>8. /\ w \in Seq(Frame) /\ w # <<>> /\ Head(w) = Auth
      /\ DOMAIN w = 1..(Len(Replay) + 1) /\ DOMAIN Replay = 1..Len(Replay)
      /\ Len(Replay) \in Nat
      /\ w[1] = Auth /\ \A i \in 1..Len(Replay) : w[i + 1] = Replay[i]
    BY <1>7, FramesDiffer
<1>9. \A i \in DOMAIN w : w[i] = Auth \/ w[i] \in S
  <2> HIDE DEF S
  <2>1. \A i \in DOMAIN Replay : Replay[i] \in S
      BY <1>4
  <2>2. \A i \in DOMAIN w : i = 1 \/ (i - 1 \in 1..Len(Replay) /\ w[i] = Replay[i - 1])
      BY <1>8
  <2> HIDE DEF w
  <2> QED
      BY <1>8, <2>1, <2>2
<1>10. \A x \in S : \E i \in DOMAIN w : w[i] = x
  <2> HIDE DEF S
  <2>1. \A i \in DOMAIN Replay : i + 1 \in DOMAIN w /\ w[i + 1] = Replay[i]
      BY <1>8
  <2> HIDE DEF w
  <2> QED
      BY <1>4, <2>1
<1> HIDE DEF w
<1>11. ASSUME NEW c \in Channel
       PROVE  InTheEnd(w, {}, c) <=> c \in HeldChannels
  <2>1. \A j \in DOMAIN w : w[j] # Unsub(c)
      BY <1>5, <1>9, FramesDiffer
  <2>2. InTheEnd(w, {}, c) <=> \E i \in DOMAIN w : w[i] = Sub(c)
      BY <2>1 DEF InTheEnd
  <2>3. (\E i \in DOMAIN w : w[i] = Sub(c)) <=> Sub(c) \in S
      BY <1>9, <1>10, FramesDiffer
  <2>4. Sub(c) \in S <=> c \in SubscribedChannels
      BY <1>5, FramesDiffer
  <2> QED
      BY <1>1, <2>2, <2>3, <2>4
<1> QED
    BY <1>8, <1>11 DEF w

\* A step that leaves the frames and the owners alone, and opens nothing.
LEMMA KeepsOK ==
    ASSUME FrameInv, UNCHANGED <<wire, rooms, authed, held>>,
           \A s \in Socket : sock'[s] \in {"closed", "connecting"} =>
                                sock[s] \in {"closed", "connecting"},
           isConnected' => isConnected /\ socket' = socket
    PROVE  FrameInv'
<1>1. HeldChannels' = HeldChannels
    BY DEF HeldChannels
<1> HIDE DEF HeldChannels
<1>2. CASE isConnected'
    BY <1>1, <1>2 DEF FrameInv
<1>3. CASE ~isConnected'
    BY <1>3 DEF FrameInv
<1> QED
    BY <1>2, <1>3

\* A new connection is not open yet.
LEMMA ConnectKeeps ==
    ASSUME RouteInv, FrameInv, connect, UNCHANGED <<wire, rooms, authed, held>>
    PROVE  FrameInv'
<1> USE WsAssumption DEF RouteInv, LinkType
<1>1. CASE socket # NoSocket /\ Live(socket)
  <2>1. UNCHANGED <<socket, sock>>
      BY <1>1 DEF connect
  <2>2. isConnected' => isConnected
      BY <2>1 DEF isConnected
  <2> QED
      BY <2>1, <2>2, KeepsOK
<1>2. CASE ~(socket # NoSocket /\ Live(socket))
  <2> DEFINE s == CHOOSE u \in Unreferenced : TRUE
  <2>1. s \in Socket /\ sock[s] = "closed"
    <3>1. Unreferenced # {}
        BY <1>2 DEF connect
    <3>2. s \in Unreferenced
        BY <3>1
    <3> QED
        BY <3>2 DEF Unreferenced
  <2>2. socket' = s /\ sock' = [sock EXCEPT ![s] = "connecting"]
      BY <1>2 DEF connect
  <2> HIDE DEF s
  <2>3. ~isConnected'
      BY <2>1, <2>2 DEF isConnected
  <2>4. \A u \in Socket : sock'[u] \in {"closed", "connecting"} =>
                             sock[u] \in {"closed", "connecting"}
      BY <2>1, <2>2
  <2> QED
      BY <2>3, <2>4, KeepsOK
<1> QED
    BY <1>1, <1>2

\* A close takes the frames and the rooms of its own connection only.
LEMMA CloseKeeps ==
    ASSUME RouteInv, FrameInv, NEW s \in Socket, NEW dr \in BOOLEAN, onclose(s, dr)
    PROVE  FrameInv'
<1> USE WsAssumption DEF RouteInv, LinkType
<1>1. /\ sock' = [sock EXCEPT ![s] = "closed"]
      /\ wire' = [wire EXCEPT ![s] = <<>>]
      /\ rooms' = [rooms EXCEPT ![s] = {}]
      /\ authed' = authed \ {s}
      /\ held' = held
      /\ s \in attached => socket' = NoSocket
      /\ s \notin attached => socket' = socket
    BY DEF onclose, subVars
<1>2. HeldChannels' = HeldChannels
    BY <1>1 DEF HeldChannels
<1>3. /\ wire' \in [Socket -> Seq(Frame)] /\ rooms' \in [Socket -> SUBSET Channel]
      /\ authed' \in SUBSET Socket
    BY <1>1 DEF FrameInv
<1>4. \A u \in Socket : sock'[u] \in {"closed", "connecting"} => rooms'[u] = {}
    BY <1>1 DEF FrameInv
<1>5. CASE isConnected'
  <2>1. socket' = socket /\ socket \in Socket /\ socket # s /\ sock[socket] = "open"
      BY <1>1, <1>5 DEF isConnected, OneLiveSocket
  <2>2. wire'[socket] = wire[socket] /\ rooms'[socket] = rooms[socket]
        /\ (socket \in authed' <=> socket \in authed)
      BY <1>1, <2>1 DEF FrameInv
  <2>3. isConnected
      BY <2>1 DEF isConnected
  <2> QED
      BY <1>2, <1>3, <1>4, <2>1, <2>2, <2>3 DEF FrameInv
<1>6. CASE ~isConnected'
    BY <1>3, <1>4, <1>6 DEF FrameInv
<1> QED
    BY <1>5, <1>6

\* The socket that opens is the current one, and the replay is all it carries.
LEMMA OpensKeeps ==
    ASSUME RouteInv, SubsInv, FrameInv, NEW s \in Socket, Opens(s)
    PROVE  FrameInv'
<1> USE WsAssumption DEF RouteInv, LinkType
<1>1. /\ socket' = socket /\ socket = s /\ sock[s] = "connecting"
      /\ rooms' = rooms /\ authed' = authed /\ held' = held /\ rooms[s] = {}
    BY DEF Opens, OneLiveSocket, FrameInv, subVars
<1>2. CASE ~token
  <2>1. sock' = [sock EXCEPT ![s] = "closing"] /\ wire' = wire
      BY <1>2 DEF Opens
  <2>2. ~isConnected'
      BY <1>1, <2>1 DEF isConnected
  <2>3. \A u \in Socket : sock'[u] \in {"closed", "connecting"} =>
                             sock[u] \in {"closed", "connecting"}
      BY <2>1
  <2> QED
      BY <1>1, <2>1, <2>2, <2>3, KeepsOK
<1>3. CASE token
  <2>1. sock' = [sock EXCEPT ![s] = "open"] /\ wire' = [wire EXCEPT ![s] = <<Auth>> \o Replay]
      BY <1>3 DEF Opens
  <2>2. HeldChannels' = HeldChannels
      BY <1>1 DEF HeldChannels
  <2>3. PICK w : w = <<Auth>> \o Replay
      OBVIOUS
  <2>4. w \in Seq(Frame) /\ w # <<>> /\ Head(w) = Auth
        /\ \A c \in Channel : InTheEnd(w, {}, c) <=> c \in HeldChannels
      BY <2>3, ReplayOK
  <2>5. wire' = [wire EXCEPT ![s] = w]
      BY <2>1, <2>3
  <2>6. wire' \in [Socket -> Seq(Frame)] /\ wire'[s] = w /\ rooms'[s] = {}
      BY <1>1, <2>4, <2>5 DEF FrameInv
  <2>7. \A u \in Socket : sock'[u] \in {"closed", "connecting"} => rooms'[u] = {}
      BY <1>1, <2>1 DEF FrameInv
  <2>8. /\ wire'[socket'] # <<>> /\ Head(wire'[socket']) = Auth
        /\ \A c \in Channel : InTheEnd(wire'[socket'], rooms'[socket'], c) <=> c \in HeldChannels'
      BY <1>1, <2>2, <2>4, <2>6
  <2> QED
      BY <1>1, <2>6, <2>7, <2>8 DEF FrameInv
<1> QED
    BY <1>2, <1>3

\* The server reads a frame: what the frames lead to does not change.
LEMMA ReceiveKeeps ==
    ASSUME RouteInv, FrameInv, NEW s \in Socket, ServerReceives(s)
    PROVE  FrameInv'
<1> USE WsAssumption DEF RouteInv, LinkType
<1> DEFINE f == Head(wire[s])
           a == s \in authed
<1>1. /\ sock[s] = "open" /\ wire[s] # <<>>
      /\ authed' = IF f.type = "auth" THEN authed \cup {s} ELSE authed
      /\ rooms' = [rooms EXCEPT ![s] = RoomsAfter(f, a, rooms[s])]
      /\ wire' = [wire EXCEPT ![s] = Tail(wire[s])]
      /\ socket' = socket /\ sock' = sock /\ held' = held
    BY DEF ServerReceives, connVars, subVars, FrameInv
<1>2. HeldChannels' = HeldChannels
    BY <1>1 DEF HeldChannels
<1>3. /\ wire[s] \in Seq(Frame) /\ f \in Frame /\ Tail(wire[s]) \in Seq(Frame)
      /\ rooms[s] \in SUBSET Channel
    BY <1>1 DEF FrameInv
<1>4. RoomsAfter(f, a, rooms[s]) \in SUBSET Channel
  <2>1. CASE f = Auth
      BY <1>3, <2>1 DEF RoomsAfter, Auth
  <2>2. ASSUME NEW d \in Channel, f = Sub(d) \/ f = Unsub(d)
        PROVE  RoomsAfter(f, a, rooms[s]) \in SUBSET Channel
      BY <1>3, <2>2 DEF RoomsAfter, Sub, Unsub
  <2> QED
      BY <1>3, <2>1, <2>2, FramesDiffer
<1>5. /\ wire' \in [Socket -> Seq(Frame)] /\ rooms' \in [Socket -> SUBSET Channel]
      /\ authed' \in SUBSET Socket
    BY <1>1, <1>3, <1>4 DEF FrameInv
<1>6. \A u \in Socket : sock'[u] \in {"closed", "connecting"} => rooms'[u] = {}
    BY <1>1 DEF FrameInv
<1>7. CASE isConnected /\ s = socket
  <2>1. /\ a \/ f = Auth
        /\ \A c \in Channel : InTheEnd(wire[s], rooms[s], c) <=> c \in HeldChannels
      BY <1>7 DEF FrameInv
  <2>2. a \in BOOLEAN
      OBVIOUS
  <2>3. ASSUME NEW c \in Channel
        PROVE  InTheEnd(Tail(wire[s]), RoomsAfter(f, a, rooms[s]), c) <=> c \in HeldChannels
    <3> HIDE DEF a
    <3> QED
        BY <1>1, <1>3, <2>1, <2>2, FrameRead
  <2>4. wire'[s] = Tail(wire[s]) /\ rooms'[s] = RoomsAfter(f, a, rooms[s])
      BY <1>1 DEF FrameInv
  <2>5. s \in authed'
    <3>1. CASE a
        BY <1>1, <3>1
    <3>2. CASE f = Auth
      <4>1. f.type = "auth"
          BY <3>2 DEF Auth
      <4> QED
          BY <1>1, <4>1
    <3> QED
        BY <2>1, <3>1, <3>2
  <2>6. \A c \in Channel : InTheEnd(wire'[socket'], rooms'[socket'], c) <=> c \in HeldChannels'
      BY <1>1, <1>2, <1>7, <2>3, <2>4
  <2> QED
      BY <1>1, <1>5, <1>6, <1>7, <2>5, <2>6 DEF FrameInv
<1>8. CASE isConnected /\ s # socket
  <2>1. /\ wire'[socket] = wire[socket] /\ rooms'[socket] = rooms[socket]
        /\ socket \in authed => socket \in authed'
      BY <1>1, <1>8 DEF FrameInv, isConnected
  <2> QED
      BY <1>1, <1>2, <1>5, <1>6, <1>8, <2>1 DEF FrameInv
<1>9. CASE ~isConnected
  <2>1. ~isConnected'
      BY <1>1, <1>9 DEF isConnected
  <2> QED
      BY <1>5, <1>6, <2>1 DEF FrameInv
<1> QED
    BY <1>7, <1>8, <1>9

\* A frame is added to the open connection, and the owners change with it.
LEMMA SentKeeps ==
    ASSUME RouteInv, FrameInv, isConnected, NEW f \in Frame,
           wire' = [wire EXCEPT ![socket] = Append(wire[socket], f)],
           UNCHANGED <<socket, sock, rooms, authed>>,
           \A c \in Channel : InTheEnd(Append(wire[socket], f), rooms[socket], c)
                                 <=> c \in HeldChannels'
    PROVE  FrameInv'
<1> USE WsAssumption DEF RouteInv, LinkType
<1>1. socket \in Socket /\ wire[socket] \in Seq(Frame)
    BY DEF isConnected, FrameInv
<1>2. /\ Append(wire[socket], f) \in Seq(Frame) /\ Append(wire[socket], f) # <<>>
      /\ wire[socket] # <<>> => Head(Append(wire[socket], f)) = Head(wire[socket])
  <2>1. ASSUME NEW w \in Seq(Frame)
        PROVE  /\ Append(w, f) \in Seq(Frame) /\ Append(w, f) # <<>>
               /\ w # <<>> => Head(Append(w, f)) = Head(w)
    <3>1. Append(w, f) \in Seq(Frame) /\ Len(Append(w, f)) = Len(w) + 1 /\ Len(w) \in Nat
        OBVIOUS
    <3>2. Append(w, f) # <<>>
        BY <3>1
    <3>3. w # <<>> => Head(Append(w, f)) = Head(w)
      <4>1. w # <<>> => Append(w, f)[1] = w[1] /\ Head(w) = w[1]
          OBVIOUS
      <4>2. Head(Append(w, f)) = Append(w, f)[1]
          BY <3>1
      <4> QED
          BY <4>1, <4>2
    <3> QED
        BY <3>1, <3>2, <3>3
  <2> QED
      BY <1>1, <2>1
<1>3. wire' \in [Socket -> Seq(Frame)] /\ wire'[socket'] = Append(wire[socket], f)
    BY <1>1, <1>2 DEF FrameInv
<1>4. \A c \in Channel : InTheEnd(wire'[socket'], rooms'[socket'], c) <=> c \in HeldChannels'
    BY <1>3
<1>5. socket' \in authed' \/ (wire'[socket'] # <<>> /\ Head(wire'[socket']) = Auth)
    BY <1>2, <1>3 DEF FrameInv
<1> QED
    BY <1>3, <1>4, <1>5 DEF FrameInv

\* Nothing is sent, and the set of held channels stays, or nothing is open.
LEMMA UnsentKeeps ==
    ASSUME FrameInv, UNCHANGED <<wire, socket, sock, rooms, authed>>,
           ~isConnected \/ HeldChannels' = HeldChannels
    PROVE  FrameInv'
<1>1. isConnected' <=> isConnected
    BY DEF isConnected
<1>2. CASE isConnected
  <2>1. HeldChannels' = HeldChannels
      BY <1>2
  <2> QED
      BY <1>1, <2>1 DEF FrameInv
<1>3. CASE ~isConnected
    BY <1>1, <1>3 DEF FrameInv
<1> QED
    BY <1>2, <1>3

LEMMA SubscribeKeeps ==
    ASSUME RouteInv, SubsInv, FrameInv, NEW o \in Owner, NEW c \in Channel,
           subscribeChannel(o, c)
    PROVE  FrameInv'
<1> USE DEF RouteInv, LinkType
<1>1. HeldChannels' = HeldChannels \cup {c}
    BY SubscribeOK
<1>2. /\ UNCHANGED <<socket, sock, rooms, authed>>
      /\ IF channelSubscriptions[c] = 0 THEN Send(Sub(c)) ELSE UNCHANGED wire
    BY DEF subscribeChannel, connVars
<1>3. channelSubscriptions[c] \in Nat /\ (channelSubscriptions[c] > 0 <=> c \in HeldChannels)
    BY CountersTell
<1>4. CASE channelSubscriptions[c] # 0
  <2>1. HeldChannels' = HeldChannels /\ wire' = wire
      BY <1>1, <1>2, <1>3, <1>4
  <2> QED
      BY <1>2, <2>1, UnsentKeeps
<1>5. CASE channelSubscriptions[c] = 0 /\ ~isConnected
  <2>1. wire' = wire
      BY <1>2, <1>5 DEF Send
  <2> QED
      BY <1>2, <1>5, <2>1, UnsentKeeps
<1>6. CASE channelSubscriptions[c] = 0 /\ isConnected
  <2>1. socket \in Socket /\ wire[socket] \in Seq(Frame) /\ Sub(c) \in Frame
      BY <1>6, FramesDiffer DEF isConnected, FrameInv
  <2>2. wire' = [wire EXCEPT ![socket] = Append(wire[socket], Sub(c))]
      BY <1>2, <1>6, <2>1 DEF Send, FrameInv
  <2>3. ASSUME NEW d \in Channel
        PROVE  InTheEnd(Append(wire[socket], Sub(c)), rooms[socket], d) <=> d \in HeldChannels'
    <3>1. InTheEnd(wire[socket], rooms[socket], d) <=> d \in HeldChannels
        BY <1>6 DEF FrameInv
    <3>2. InTheEnd(Append(wire[socket], Sub(c)), rooms[socket], d)
             <=> (d = c \/ InTheEnd(wire[socket], rooms[socket], d))
        BY <2>1, SubAppended
    <3> QED
        BY <1>1, <3>1, <3>2
  <2> QED
      BY <1>2, <1>6, <2>1, <2>2, <2>3, SentKeeps
<1> QED
    BY <1>4, <1>5, <1>6

LEMMA UnsubscribeKeeps ==
    ASSUME RouteInv, SubsInv, FrameInv, NEW o \in Owner, NEW c \in Channel,
           unsubscribeChannel(o, c)
    PROVE  FrameInv'
<1> USE DEF RouteInv, LinkType
<1>1. HeldChannels' = IF channelSubscriptions[c] = 1 THEN HeldChannels \ {c} ELSE HeldChannels
    BY UnsubscribeOK
<1>2. /\ UNCHANGED <<socket, sock, rooms, authed>>
      /\ IF channelSubscriptions[c] = 1 THEN Send(Unsub(c)) ELSE UNCHANGED wire
    BY DEF unsubscribeChannel, connVars
<1>3. CASE channelSubscriptions[c] # 1
    BY <1>1, <1>2, <1>3, UnsentKeeps
<1>4. CASE channelSubscriptions[c] = 1 /\ ~isConnected
  <2>1. wire' = wire
      BY <1>2, <1>4 DEF Send
  <2> QED
      BY <1>2, <1>4, <2>1, UnsentKeeps
<1>5. CASE channelSubscriptions[c] = 1 /\ isConnected
  <2>1. socket \in Socket /\ wire[socket] \in Seq(Frame) /\ Unsub(c) \in Frame
      BY <1>5, FramesDiffer DEF isConnected, FrameInv
  <2>2. wire' = [wire EXCEPT ![socket] = Append(wire[socket], Unsub(c))]
      BY <1>2, <1>5, <2>1 DEF Send, FrameInv
  <2>3. ASSUME NEW d \in Channel
        PROVE  InTheEnd(Append(wire[socket], Unsub(c)), rooms[socket], d) <=> d \in HeldChannels'
    <3>1. InTheEnd(wire[socket], rooms[socket], d) <=> d \in HeldChannels
        BY <1>5 DEF FrameInv
    <3>2. InTheEnd(Append(wire[socket], Unsub(c)), rooms[socket], d)
             <=> (d # c /\ InTheEnd(wire[socket], rooms[socket], d))
        BY <2>1, UnsubAppended
    <3> QED
        BY <1>1, <1>5, <3>1, <3>2
  <2> QED
      BY <1>2, <1>5, <2>1, <2>2, <2>3, SentKeeps
<1> QED
    BY <1>3, <1>4, <1>5

\* The subscriptions change with the owners only.
LEMMA SubsKept == SubsInv /\ UNCHANGED subVars => SubsInv'
    BY DEF SubsInv, subVars, HeldChannels, Holders

\* A socket that turns to closing, or stays, keeps what the frames say.
LEMMA TurnsKeep ==
    ASSUME LinkType, FrameInv, UNCHANGED <<wire, rooms, authed, held, socket>>,
           sock' = sock \/ \E s \in Socket : sock' = [sock EXCEPT ![s] = "closing"]
    PROVE  FrameInv'
<1>1. \A s \in Socket : sock'[s] \in {"closed", "connecting", "open"} => sock'[s] = sock[s]
    BY DEF LinkType
<1>2. isConnected' => isConnected /\ socket' = socket
    BY <1>1 DEF isConnected, LinkType
<1> QED
    BY <1>1, <1>2, KeepsOK

\* The invariant of the frames is inductive, with those of the route and of the
\* subscriptions.
LEMMA FrameNext == RouteInv /\ SubsInv /\ FrameInv /\ [Next]_vars => SubsInv' /\ FrameInv'
<1> SUFFICES ASSUME RouteInv, SubsInv, FrameInv, [Next]_vars PROVE SubsInv' /\ FrameInv'
    OBVIOUS
<1> USE WsAssumption DEF connVars, netVars, subVars
<1>0. LinkType
    BY DEF RouteInv
<1>1. CASE Connect \/ TimerFires
  <2>1. connect /\ UNCHANGED <<wire, rooms, authed, held, channelSubscriptions>>
      BY <1>1 DEF Connect, TimerFires
  <2> QED
      BY <2>1, ConnectKeeps, SubsKept
<1>2. CASE disconnect
  <2>1. /\ UNCHANGED <<wire, rooms, authed, held, channelSubscriptions>>
        /\ socket' = NoSocket
        /\ sock' = IF isConnected THEN [sock EXCEPT ![socket] = "closing"] ELSE sock
      BY <1>2 DEF disconnect
  <2>2. \A s \in Socket : sock'[s] \in {"closed", "connecting"} => sock'[s] = sock[s]
      BY <1>0, <2>1 DEF LinkType
  <2>3. ~isConnected'
      BY <2>1 DEF isConnected
  <2> QED
      BY <2>1, <2>2, <2>3, KeepsOK, SubsKept
<1>3. CASE PingTick
  <2>1. UNCHANGED <<wire, rooms, authed, held, socket, channelSubscriptions>>
      BY <1>3 DEF PingTick
  <2>2. socket \in Socket
      BY <1>0, <1>3 DEF PingTick, isConnected, LinkType
  <2>3. sock' = sock \/ sock' = [sock EXCEPT ![socket] = "closing"]
      BY <1>3 DEF PingTick
  <2> QED
      BY <1>0, <2>1, <2>2, <2>3, TurnsKeep, SubsKept
<1>4. CASE NetworkEvent
  <2>1. UNCHANGED <<wire, rooms, authed, held, socket, channelSubscriptions>>
      BY <1>4 DEF NetworkEvent
  <2>2. sock' = sock \/ (socket # NoSocket /\ sock' = [sock EXCEPT ![socket] = "closing"])
      BY <1>4 DEF NetworkEvent
  <2> QED
      BY <1>0, <2>1, <2>2, TurnsKeep, SubsKept DEF LinkType
<1>5. ASSUME NEW s \in Socket, Opens(s) PROVE SubsInv' /\ FrameInv'
  <2>1. UNCHANGED subVars
      BY <1>5 DEF Opens
  <2> QED
      BY <1>5, <2>1, OpensKeeps, SubsKept
<1>6. ASSUME NEW s \in Socket, OpensDetached(s) PROVE SubsInv' /\ FrameInv'
    BY <1>0, <1>6, TurnsKeep, SubsKept DEF OpensDetached
<1>7. ASSUME NEW s \in Socket,
             CloseCompletes(s) \/ RefusedByServer(s) \/ ExpelledByServer(s) \/ Drops(s)
      PROVE  SubsInv' /\ FrameInv'
  <2>1. PICK dr \in BOOLEAN : onclose(s, dr)
      BY <1>7 DEF CloseCompletes, RefusedByServer, ExpelledByServer, Drops
  <2>2. UNCHANGED subVars
      BY <2>1 DEF onclose
  <2> QED
      BY <2>1, <2>2, CloseKeeps, SubsKept
<1>8. ASSUME NEW s \in Socket, ServerReceives(s) PROVE SubsInv' /\ FrameInv'
  <2>1. UNCHANGED subVars
      BY <1>8 DEF ServerReceives
  <2> QED
      BY <1>8, <2>1, ReceiveKeeps, SubsKept
<1>9. ASSUME NEW s \in Socket, Recovered(s) \/ GoesMute(s) PROVE SubsInv' /\ FrameInv'
  <2>1. UNCHANGED <<wire, rooms, authed, held, socket, sock, channelSubscriptions>>
      BY <1>9 DEF Recovered, GoesMute
  <2> QED
      BY <1>0, <2>1, TurnsKeep, SubsKept
<1>10. CASE Pong \/ TokenChanges \/ RevokeDevice \/ UNCHANGED vars
  <2>1. UNCHANGED <<wire, rooms, authed, held, socket, sock, channelSubscriptions>>
      BY <1>10 DEF Pong, TokenChanges, RevokeDevice, vars
  <2> QED
      BY <1>0, <2>1, TurnsKeep, SubsKept
<1>11. ASSUME NEW o \in Owner, NEW c \in Channel, subscribeChannel(o, c)
       PROVE  SubsInv' /\ FrameInv'
    BY <1>11, SubscribeOK, SubscribeKeeps
<1>12. ASSUME NEW o \in Owner, NEW c \in Channel, unsubscribeChannel(o, c)
       PROVE  SubsInv' /\ FrameInv'
    BY <1>12, UnsubscribeOK, UnsubscribeKeeps
<1> QED
    BY <1>1, <1>2, <1>3, <1>4, <1>5, <1>6, <1>7, <1>8, <1>9, <1>10, <1>11, <1>12
       DEF Next, Browser

\* At the start nobody holds anything and nothing is open.
LEMMA FrameInit == Init => SubsInv /\ FrameInv
<1> SUFFICES ASSUME Init PROVE SubsInv /\ FrameInv
    OBVIOUS
<1>1. /\ held = {} /\ channelSubscriptions = [c \in Channel |-> 0] /\ socket = NoSocket
      /\ wire = [s \in Socket |-> <<>>] /\ rooms = [s \in Socket |-> {}] /\ authed = {}
    BY DEF Init
<1>2. HeldChannels = {} /\ \A c \in Channel : Holders(c) = {}
    BY <1>1 DEF HeldChannels, Holders
<1>3. SubsInv
    BY <1>1, <1>2, FS_EmptySet DEF SubsInv
<1>4. FrameInv
    BY <1>1 DEF FrameInv, isConnected
<1> QED
    BY <1>3, <1>4

\* Whatever the owners took and dropped, online or not, and however often the
\* connection was made again, the server will have joined exactly the channels
\* that an owner holds once it has read the frames in flight: the reference
\* counts, the replay of onopen and the sends of the open client agree.
THEOREM ServerKnows == Spec => []ServerWillKnow
<1>1. RouteInv /\ FrameInv => ServerWillKnow
  <2> SUFFICES ASSUME RouteInv, FrameInv, isConnected
               PROVE  RoomsAtEnd(socket) = HeldChannels
      BY DEF ServerWillKnow
  <2>1. \A c \in Channel : c \in RoomsAtEnd(socket) <=> c \in HeldChannels
      BY RoomsInTheEnd DEF FrameInv
  <2>2. RoomsAtEnd(socket) \subseteq Channel /\ HeldChannels \subseteq Channel
      BY DEF RoomsAtEnd, HeldChannels
  <2> QED
      BY <2>1, <2>2
<1>2. RouteInv /\ SubsInv /\ FrameInv /\ [Next]_vars => RouteInv' /\ SubsInv' /\ FrameInv'
    BY RouteNext, FrameNext
<1> QED
    BY <1>1, <1>2, RouteInit, FrameInit, PTL DEF Spec
=============================================================================

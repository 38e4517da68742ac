------------------------------ MODULE WsClient ------------------------------
(***************************************************************************)
(* The WebSocket client of src/src/lib/ws.js with its owners (the chat and *)
(* MLS hooks that hold channel subscriptions), the indicator of            *)
(* useConnectionQuality.js, the network and the server's rooms.            *)
(*                                                                         *)
(* A Socket is one WebSocket object; an id is used again once its object   *)
(* is closed and nothing refers to it.  The client is driven as            *)
(* useInstances.js drives it: created, connected once, disconnected once.  *)
(* The browser runs one event (open, close, timer, ...) at a time, so each *)
(* handler is one step, except onopen, which may await onReconnected.      *)
(***************************************************************************)
EXTENDS Naturals, Sequences, FiniteSets, SequencesExt

CONSTANTS
    Socket, Channel, Owner, NoSocket,
    MaxFaults,      \* bound: network faults and forced reconnects
    MaxWire         \* bound: frames in flight on a connection

ASSUME WsAssumption ==
    /\ NoSocket \notin Socket
    /\ MaxFaults \in Nat

MISSED_PONG_LIMIT == 2

VARIABLES
    stage,              \* "new", "live" after connect(), "stopped" after disconnect()
    socket,             \* the client's current WebSocket object
    sock,               \* readyState of every object
    attached,           \* the objects that still have the client's handlers
    reconnection,       \* isReconnect, captured by the handlers of an object
    recovering,         \* the objects whose onopen awaits onReconnected
    timer,              \* whether reconnectTimer is set
    backingOff,         \* reconnectAttempt > 0
    reconnecting, intentionalClose, listenersRegistered,
    pinging, missedPongs,
    held,               \* the subscriptions that the owners hold
    channelSubscriptions,
    token,              \* whether getToken() returns one
    uiReconnecting,     \* isReconnecting of useConnectionQuality
    wire, rooms, authed,    \* per connection: frames in flight, the server's view
    mute,               \* the connections on which nothing arrives any more
    hasHook,            \* whether the option onReconnected was given
    revoked,            \* the server has revoked this device
    expelled,           \* history: a "device revoked" close was received
    faults              \* number of faults so far

connVars == <<stage, socket, sock, attached, reconnection, recovering>>
flagVars == <<timer, backingOff, reconnecting, intentionalClose, listenersRegistered>>
pingVars == <<pinging, missedPongs>>
subVars  == <<held, channelSubscriptions>>
netVars  == <<wire, rooms, authed, mute>>
envVars  == <<token, revoked, hasHook, faults>>
vars == <<connVars, flagVars, pingVars, subVars, netVars, envVars,
          uiReconnecting, expelled>>

Frame == [type : {"auth"}] \cup [type : {"subscribe", "unsubscribe"}, channel : Channel]
Auth == [type |-> "auth"]
Sub(c) == [type |-> "subscribe", channel |-> c]
Unsub(c) == [type |-> "unsubscribe", channel |-> c]

TypeOK ==
    /\ stage \in {"new", "live", "stopped"}
    /\ socket \in Socket \cup {NoSocket}
    /\ sock \in [Socket -> {"connecting", "open", "closing", "closed"}]
    /\ attached \in SUBSET Socket
    /\ reconnection \in SUBSET Socket
    /\ recovering \in SUBSET Socket
    /\ {timer, backingOff, reconnecting, intentionalClose, listenersRegistered,
        pinging, token, hasHook, uiReconnecting, revoked, expelled} \subseteq BOOLEAN
    /\ missedPongs \in 0..MISSED_PONG_LIMIT
    /\ held \in SUBSET (Owner \X Channel)
    /\ channelSubscriptions \in [Channel -> 0..Cardinality(Owner)]
    /\ wire \in [Socket -> Seq(Frame)]
    /\ rooms \in [Socket -> SUBSET Channel]
    /\ authed \in SUBSET Socket
    /\ mute \in SUBSET Socket
    /\ faults \in 0..MaxFaults

Init ==
    /\ stage = "new" /\ socket = NoSocket
    /\ sock = [s \in Socket |-> "closed"]
    /\ attached = {} /\ reconnection = {} /\ recovering = {}
    /\ timer = FALSE /\ backingOff = FALSE /\ reconnecting = FALSE
    /\ intentionalClose = FALSE /\ listenersRegistered = FALSE
    /\ pinging = FALSE /\ missedPongs = 0
    /\ held = {} /\ channelSubscriptions = [c \in Channel |-> 0]
    /\ hasHook \in BOOLEAN /\ token = TRUE /\ uiReconnecting = FALSE
    /\ wire = [s \in Socket |-> <<>>] /\ rooms = [s \in Socket |-> {}]
    /\ authed = {} /\ mute = {} /\ revoked = FALSE /\ expelled = FALSE /\ faults = 0

Live(s) == s # NoSocket /\ sock[s] \in {"connecting", "open"}
isConnected == socket # NoSocket /\ sock[socket] = "open"

-----------------------------------------------------------------------------
(* connect(), by the instance that created the client or by the timer.      *)

Unreferenced == {s \in Socket : sock[s] = "closed" /\ s \notin recovering}

connect ==
    /\ intentionalClose' = FALSE
    /\ IF socket # NoSocket /\ Live(socket)
         THEN UNCHANGED <<socket, sock, attached, reconnection, listenersRegistered>>
         ELSE /\ Unreferenced # {}
              /\ LET s == CHOOSE u \in Unreferenced : TRUE IN
                 /\ socket' = s
                 /\ sock' = [sock EXCEPT ![s] = "connecting"]
                 /\ attached' = attached \cup {s}
                 /\ reconnection' = IF backingOff \/ reconnecting
                                      THEN reconnection \cup {s} ELSE reconnection
                 /\ listenersRegistered' = TRUE

Connect ==
    /\ stage = "new"
    /\ stage' = "live"
    /\ connect
    /\ UNCHANGED <<recovering, timer, backingOff, reconnecting, pingVars, subVars,
                   netVars, envVars, uiReconnecting, expelled>>

TimerFires ==
    /\ timer
    /\ timer' = FALSE
    /\ connect
    /\ UNCHANGED <<stage, recovering, backingOff, reconnecting, pingVars, subVars,
                   netVars, envVars, uiReconnecting, expelled>>

\* Plausible bug: the flag is tested in the place of the timer.
scheduleReconnect_OnFlag ==
    IF reconnecting THEN UNCHANGED <<timer, backingOff, reconnecting, uiReconnecting>>
    ELSE /\ timer' = TRUE
         /\ backingOff' = TRUE
         /\ reconnecting' = TRUE
         /\ uiReconnecting' = TRUE

\* scheduleReconnect: one timer at a time.
scheduleReconnect ==
    IF timer THEN UNCHANGED <<timer, backingOff, reconnecting, uiReconnecting>>
    ELSE /\ timer' = TRUE
         /\ backingOff' = TRUE
         /\ reconnecting' = TRUE
         /\ uiReconnecting' = TRUE

-----------------------------------------------------------------------------
(* onopen: authenticate, start the pings, replay the subscriptions, tell    *)
(* the listeners, and recover after a reconnection.                         *)

SubscribedChannels == {c \in Channel : channelSubscriptions[c] > 0}
Replay == SetToSeq({Sub(c) : c \in SubscribedChannels})

Opens(s) ==
    /\ sock[s] = "connecting" /\ s \in attached /\ ~revoked
    /\ backingOff' = FALSE
    /\ IF ~token
         THEN /\ sock' = [sock EXCEPT ![s] = "closing"]
              /\ UNCHANGED <<wire, pingVars, recovering, reconnecting, uiReconnecting>>
         ELSE /\ sock' = [sock EXCEPT ![s] = "open"]
              /\ wire' = [wire EXCEPT ![s] = <<Auth>> \o Replay]
              /\ pinging' = TRUE /\ missedPongs' = 0
              /\ uiReconnecting' = FALSE
              /\ IF s \in reconnection /\ hasHook
                   THEN recovering' = recovering \cup {s} /\ UNCHANGED reconnecting
                   ELSE /\ reconnecting' = (reconnecting /\ s \notin reconnection)
                        /\ UNCHANGED recovering
    /\ UNCHANGED <<stage, socket, attached, reconnection, timer, intentionalClose,
                   listenersRegistered, subVars, rooms, authed, mute, envVars, expelled>>

\* The rest of onopen once onReconnected has settled, whatever has happened to
\* the connection in between.
Recovered(s) ==
    /\ s \in recovering
    /\ recovering' = recovering \ {s}
    /\ reconnecting' = FALSE
    /\ uiReconnecting' = FALSE
    /\ UNCHANGED <<stage, socket, sock, attached, reconnection, timer, backingOff,
                   intentionalClose, listenersRegistered, pingVars, subVars, netVars,
                   envVars, expelled>>

\* A socket that disconnect() left connecting: open, then close at once.
OpensDetached(s) ==
    /\ sock[s] = "connecting" /\ s \notin attached
    /\ sock' = [sock EXCEPT ![s] = "closing"]
    /\ UNCHANGED <<stage, socket, attached, reconnection, recovering, flagVars, pingVars,
                   subVars, netVars, envVars, uiReconnecting, expelled>>

-----------------------------------------------------------------------------
(* onclose.  The server's state of the connection, and the frames in flight, *)
(* are gone with it.                                                        *)

onclose(s, deviceRevoked) ==
    /\ sock' = [sock EXCEPT ![s] = "closed"]
    /\ attached' = attached \ {s}
    /\ reconnection' = reconnection \ {s}
    /\ wire' = [wire EXCEPT ![s] = <<>>]
    /\ rooms' = [rooms EXCEPT ![s] = {}]
    /\ authed' = authed \ {s}
    /\ mute' = mute \ {s}
    /\ IF s \notin attached
         THEN UNCHANGED <<socket, flagVars, pinging, uiReconnecting, expelled>>
         ELSE /\ socket' = NoSocket
              /\ pinging' = FALSE
              /\ IF deviceRevoked
                   THEN /\ intentionalClose' = TRUE
                        /\ expelled' = TRUE
                        /\ UNCHANGED <<timer, backingOff, reconnecting, uiReconnecting>>
                   ELSE /\ scheduleReconnect
                        /\ UNCHANGED <<intentionalClose, expelled>>
              /\ UNCHANGED listenersRegistered
    /\ UNCHANGED <<stage, recovering, missedPongs, subVars>>

\* The connection breaks, or is refused.
Drops(s) ==
    /\ Live(s) /\ s \notin mute
    /\ faults < MaxFaults
    /\ faults' = faults + 1
    /\ onclose(s, FALSE)
    /\ UNCHANGED <<token, revoked, hasHook>>

\* A close that the client asked for is done.
CloseCompletes(s) ==
    /\ sock[s] = "closing"
    /\ onclose(s, FALSE)
    /\ UNCHANGED envVars

\* The hub closes the connections of a revoked device with 1008, and a new
\* connection is refused at the upgrade with a plain close.
ExpelledByServer(s) ==
    /\ revoked /\ sock[s] = "open" /\ s \in authed /\ s \notin mute
    /\ onclose(s, TRUE)
    /\ UNCHANGED envVars

RefusedByServer(s) ==
    /\ revoked /\ sock[s] = "connecting"
    /\ onclose(s, FALSE)
    /\ UNCHANGED envVars

-----------------------------------------------------------------------------
(* Pings, network events, disconnect().                                     *)

\* Two ticks without a pong need a mute connection or a late pong, a fault.
LatePong == missedPongs > 0 /\ socket \notin mute

\* Plausible bug: the missed pongs are counted and nothing is done.
PingTick_NeverCloses ==
    /\ pinging /\ isConnected /\ missedPongs < MISSED_PONG_LIMIT
    /\ LatePong => faults < MaxFaults
    /\ faults' = IF LatePong THEN faults + 1 ELSE faults
    /\ missedPongs' = missedPongs + 1
    /\ UNCHANGED <<connVars, flagVars, pinging, subVars, netVars, token, revoked, hasHook,
                   uiReconnecting, expelled>>

PingTick ==
    /\ pinging /\ isConnected
    /\ LatePong => faults < MaxFaults
    /\ faults' = IF LatePong THEN faults + 1 ELSE faults
    /\ missedPongs' = missedPongs + 1
    /\ sock' = IF missedPongs' >= MISSED_PONG_LIMIT
                 THEN [sock EXCEPT ![socket] = "closing"] ELSE sock
    /\ UNCHANGED <<stage, socket, attached, reconnection, recovering, flagVars, pinging,
                   subVars, netVars, token, revoked, hasHook, uiReconnecting, expelled>>

Pong ==
    /\ isConnected /\ socket \notin mute /\ missedPongs > 0
    /\ missedPongs' = 0
    /\ UNCHANGED <<connVars, flagVars, pinging, subVars, netVars, envVars,
                   uiReconnecting, expelled>>

\* Plausible bug: schedules without waiting for the close.
NetworkEvent_NoReturn ==
    /\ listenersRegistered /\ ~intentionalClose
    /\ faults < MaxFaults
    /\ faults' = faults + 1
    /\ IF socket # NoSocket /\ Live(socket)
         THEN /\ sock' = [sock EXCEPT ![socket] = "closing"]
              /\ scheduleReconnect
         ELSE /\ IF socket = NoSocket /\ ~reconnecting
                   THEN scheduleReconnect
                   ELSE UNCHANGED <<timer, backingOff, reconnecting, uiReconnecting>>
              /\ UNCHANGED sock
    /\ UNCHANGED <<stage, socket, attached, reconnection, recovering, intentionalClose,
                   listenersRegistered, pingVars, subVars, netVars, token, revoked, hasHook, expelled>>

\* Plausible bug: a client that was closed on purpose reconnects.
NetworkEvent_Always ==
    /\ listenersRegistered
    /\ faults < MaxFaults
    /\ faults' = faults + 1
    /\ IF socket # NoSocket /\ Live(socket)
         THEN /\ sock' = [sock EXCEPT ![socket] = "closing"]
              /\ UNCHANGED <<timer, backingOff, reconnecting, uiReconnecting>>
         ELSE /\ IF socket = NoSocket /\ ~reconnecting
                   THEN scheduleReconnect
                   ELSE UNCHANGED <<timer, backingOff, reconnecting, uiReconnecting>>
              /\ UNCHANGED sock
    /\ UNCHANGED <<stage, socket, attached, reconnection, recovering, intentionalClose,
                   listenersRegistered, pingVars, subVars, netVars, token, revoked, hasHook, expelled>>

\* handleOnline, and handleVisibilityChange when the last pong is old.
NetworkEvent ==
    /\ listenersRegistered /\ ~intentionalClose
    /\ faults < MaxFaults
    /\ faults' = faults + 1
    /\ IF socket # NoSocket /\ Live(socket)
         THEN /\ sock' = [sock EXCEPT ![socket] = "closing"]
              /\ UNCHANGED <<timer, backingOff, reconnecting, uiReconnecting>>
         ELSE /\ IF socket = NoSocket /\ ~reconnecting
                   THEN scheduleReconnect
                   ELSE UNCHANGED <<timer, backingOff, reconnecting, uiReconnecting>>
              /\ UNCHANGED sock
    /\ UNCHANGED <<stage, socket, attached, reconnection, recovering, intentionalClose,
                   listenersRegistered, pingVars, subVars, netVars, token, revoked, hasHook, expelled>>

disconnect ==
    /\ stage = "live"
    /\ stage' = "stopped"
    /\ intentionalClose' = TRUE
    /\ listenersRegistered' = FALSE
    /\ pinging' = FALSE
    /\ timer' = FALSE /\ backingOff' = FALSE /\ reconnecting' = FALSE
    /\ socket' = NoSocket
    /\ attached' = attached \ {socket}
    /\ sock' = IF isConnected THEN [sock EXCEPT ![socket] = "closing"] ELSE sock
    /\ UNCHANGED <<reconnection, recovering, missedPongs, subVars, netVars, envVars,
                   uiReconnecting, expelled>>

-----------------------------------------------------------------------------
(* The owners' subscriptions.                                               *)

Send(f) ==
    IF isConnected
      THEN /\ Len(wire[socket]) < MaxWire
           /\ wire' = [wire EXCEPT ![socket] = Append(@, f)]
      ELSE UNCHANGED wire

subscribeChannel(o, c) ==
    /\ stage = "live" /\ <<o, c>> \notin held
    /\ held' = held \cup {<<o, c>>}
    /\ channelSubscriptions' = [channelSubscriptions EXCEPT ![c] = @ + 1]
    /\ IF channelSubscriptions[c] = 0 THEN Send(Sub(c)) ELSE UNCHANGED wire
    /\ UNCHANGED <<connVars, flagVars, pingVars, rooms, authed, mute, envVars,
                   uiReconnecting, expelled>>

\* Plausible bug: the first owner to leave tears the room down.
unsubscribeChannel_First(o, c) ==
    /\ stage = "live" /\ <<o, c>> \in held
    /\ held' = held \ {<<o, c>>}
    /\ channelSubscriptions' = [channelSubscriptions EXCEPT ![c] = 0]
    /\ IF channelSubscriptions[c] > 0 THEN Send(Unsub(c)) ELSE UNCHANGED wire
    /\ UNCHANGED <<connVars, flagVars, pingVars, rooms, authed, mute, envVars,
                   uiReconnecting, expelled>>

unsubscribeChannel(o, c) ==
    /\ stage = "live" /\ <<o, c>> \in held
    /\ held' = held \ {<<o, c>>}
    /\ channelSubscriptions[c] > 0
    /\ channelSubscriptions' = [channelSubscriptions EXCEPT ![c] = @ - 1]
    /\ IF channelSubscriptions[c] = 1 THEN Send(Unsub(c)) ELSE UNCHANGED wire
    /\ UNCHANGED <<connVars, flagVars, pingVars, rooms, authed, mute, envVars,
                   uiReconnecting, expelled>>

-----------------------------------------------------------------------------
(* The server and the surroundings.                                         *)

\* The server reads the first frame as authentication and drops the rest of a
\* connection that did not authenticate.
RoomsAfter(f, auth, R) ==
    CASE f.type = "subscribe" /\ auth -> R \cup {f.channel}
      [] f.type = "unsubscribe"       -> R \ {f.channel}
      [] OTHER                        -> R

ServerReceives(s) ==
    /\ sock[s] = "open" /\ s \notin mute /\ wire[s] # <<>>
    /\ LET f == Head(wire[s]) IN
       /\ authed' = IF f.type = "auth" THEN authed \cup {s} ELSE authed
       /\ rooms' = [rooms EXCEPT ![s] = RoomsAfter(f, s \in authed, @)]
    /\ wire' = [wire EXCEPT ![s] = Tail(@)]
    /\ UNCHANGED <<connVars, flagVars, pingVars, subVars, mute, envVars,
                   uiReconnecting, expelled>>

\* A half-open connection: neither data nor a close arrives.
GoesMute(s) ==
    /\ sock[s] = "open" /\ s \notin mute
    /\ faults < MaxFaults
    /\ faults' = faults + 1
    /\ mute' = mute \cup {s}
    /\ UNCHANGED <<connVars, flagVars, pingVars, subVars, wire, rooms, authed, token, hasHook,
                   revoked, uiReconnecting, expelled>>

\* The session token is missing for a while, and comes back.
TokenChanges ==
    /\ token => faults < MaxFaults
    /\ faults' = IF token THEN faults + 1 ELSE faults
    /\ token' = ~token
    /\ UNCHANGED <<connVars, flagVars, pingVars, subVars, netVars, revoked, hasHook,
                   uiReconnecting, expelled>>

RevokeDevice ==
    /\ ~revoked
    /\ revoked' = TRUE
    /\ UNCHANGED <<connVars, flagVars, pingVars, subVars, netVars, token, hasHook, faults,
                   uiReconnecting, expelled>>

Browser(s) == Opens(s) \/ OpensDetached(s) \/ Recovered(s) \/ CloseCompletes(s)
              \/ RefusedByServer(s) \/ ExpelledByServer(s)

Next ==
    \/ Connect \/ TimerFires \/ disconnect
    \/ PingTick \/ Pong \/ NetworkEvent \/ TokenChanges \/ RevokeDevice
    \/ \E s \in Socket : Browser(s) \/ Drops(s) \/ ServerReceives(s) \/ GoesMute(s)
    \/ \E o \in Owner, c \in Channel : subscribeChannel(o, c) \/ unsubscribeChannel(o, c)

\* Timers fire, the browser reports, the server reads; faults, users and
\* revocations are free.
Fairness ==
    /\ WF_vars(Connect) /\ WF_vars(TimerFires) /\ WF_vars(PingTick)
    /\ \A s \in Socket :
          /\ WF_vars(Opens(s)) /\ WF_vars(OpensDetached(s)) /\ WF_vars(Recovered(s))
          /\ WF_vars(CloseCompletes(s)) /\ WF_vars(RefusedByServer(s))
          /\ WF_vars(ExpelledByServer(s)) /\ WF_vars(ServerReceives(s))

Spec == Init /\ [][Next]_vars /\ Fairness

-----------------------------------------------------------------------------
(* Properties.                                                              *)

HeldChannels == {c \in Channel : \E o \in Owner : <<o, c>> \in held}

\* Only the client's current socket has its handlers: no second connection
\* delivers every event twice, and no late close of an old socket drops the
\* reference to the new one (onclose sets socket = null whichever it is).
OneLiveSocket == attached = (IF socket = NoSocket THEN {} ELSE {socket})

\* A channel whose last frame in flight subscribes to it, or that is in the rooms
\* with no frame in flight that leaves it.
Joins(s, i, c) == wire[s][i] = Sub(c) /\ \A j \in DOMAIN wire[s] : wire[s][j] = Unsub(c) => j < i
Stays(s, c) == c \in rooms[s] /\ \A j \in DOMAIN wire[s] : wire[s][j] # Unsub(c)
RoomsAtEnd(s) == {c \in Channel : Stays(s, c) \/ \E i \in DOMAIN wire[s] : Joins(s, i, c)}

\* What the server will have joined once it has read the frames in flight is
\* what some owner still holds, across reconnections and shared channels.
ServerWillKnow == isConnected => RoomsAtEnd(socket) = HeldChannels

\* A client expelled because its device was revoked never connects again.
RevokedStaysOut == expelled => socket = NoSocket /\ ~timer

\* A client in use always has a connection or a reconnection to come.
AlwaysARoute == (stage = "live" /\ ~expelled) => (socket # NoSocket \/ timer)

Wanted == stage = "live" /\ token /\ ~revoked

\* A client that stays in use ends up with a connection that works, whatever
\* broke before: refused, closed, half-open, or without a token.
ConnectsInTheEnd ==
    <>[]Wanted => <>[](isConnected /\ socket \in authed /\ socket \notin mute)
=============================================================================

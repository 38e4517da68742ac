----------------------------- MODULE Instances -----------------------------
(***************************************************************************)
(* The life of one connected instance in src/src/hooks/useInstances.js:    *)
(* the session effect that boots the stored instances, bootInstance and    *)
(* registerLocalInstance with their awaits, the back-off timer, the        *)
(* WebSocket clients (which also reconnect by themselves, see WsClient)    *)
(* and disconnectInstance.  Several boots of the instance may be in        *)
(* progress at once; entries of different instances do not interact.       *)
(***************************************************************************)
EXTENDS Naturals, FiniteSets

CONSTANTS
    Boot, Client, Timer,    \* ids of boots in progress, WS clients, timers
    NoClient, NoTimer, NoEntry, NoBoot,
    MaxFaults,              \* bound: failed requests and dropped connections
    MaxSessions,            \* bound: sign-ins, unlocks, locks and sign-outs
    MaxRequests             \* bound: boots and disconnects asked by the user

VARIABLES
    unlocked,       \* signed in with the vault unlocked
    generation,     \* runtimeGenerationRef
    entry,          \* instancesRef.get(instanceUrl), or NoEntry
    boot,           \* the calls of bootInstance / registerLocalInstance
    client,         \* state of every WS client
    pending,        \* the timers that are set
    loader,         \* progress of the session effect's async part
    removing,       \* disconnectInstance awaits removeInstance
    stored,         \* the instance is in the IDB registry
    removed,        \* history: disconnected, and nobody asked for it since
    dropped,        \* history: clients that nothing refers to any more
    isLocal,        \* whether it is the instance that has the local JWT
    faults, requests

envVars == <<isLocal, faults, requests>>
instanceVars == <<unlocked, generation, entry, boot, client, pending, loader, removing,
          stored, removed, dropped, envVars>>

IdleBoot == [pc |-> "idle", kind |-> "boot", gen |-> 0, client |-> NoClient]
IdleLoader == [pc |-> "idle", boot |-> NoBoot]

BootRecord == [pc : {"idle", "handshake", "auth", "save", "guilds"},
               kind : {"boot", "local"}, gen : 0..MaxSessions, client : Client \cup {NoClient}]
Entry == [state : {"connecting", "connected", "reconnecting", "offline"},
          client : Client \cup {NoClient}, timer : Timer \cup {NoTimer}]

ASSUME InstancesAssumption ==
    /\ NoClient \notin Client /\ NoTimer \notin Timer /\ NoBoot \notin Boot
    /\ NoEntry \notin Entry

TypeOK ==
    /\ {unlocked, removing, stored, removed, isLocal} \subseteq BOOLEAN
    /\ generation \in 0..MaxSessions
    /\ entry \in Entry \cup {NoEntry}
    /\ boot \in [Boot -> BootRecord]
    /\ client \in [Client -> {"none", "down", "up", "stopped"}]
    /\ pending \in SUBSET Timer /\ dropped \in SUBSET Client
    /\ loader \in [pc : {"idle", "reading", "booting", "checking"}, boot : Boot \cup {NoBoot}]
    /\ faults \in 0..MaxFaults /\ requests \in 0..MaxRequests

InstancesInit ==
    /\ unlocked = FALSE /\ generation = 0
    /\ entry = NoEntry
    /\ boot = [b \in Boot |-> IdleBoot]
    /\ client = [c \in Client |-> "none"]
    /\ pending = {} /\ loader = IdleLoader
    /\ removing = FALSE /\ stored \in BOOLEAN /\ removed = FALSE /\ dropped = {}
    /\ isLocal \in BOOLEAN /\ faults = 0 /\ requests = 0

\* One id stands for any other that is not in use.
FirstOf(S) == IF S = {} THEN {} ELSE {CHOOSE x \in S : TRUE}

Running(b) == boot[b].pc # "idle"
IdleBoots == {b \in Boot : ~Running(b)}
Stale(b) == boot[b].gen # generation
Live(c) == client[c] \in {"down", "up"}
Stop(c) == IF c = NoClient THEN client ELSE [client EXCEPT ![c] = "stopped"]
EntryClient == IF entry = NoEntry THEN NoClient ELSE entry.client
EntryTimer == IF entry = NoEntry THEN NoTimer ELSE entry.timer
Fault == faults < MaxFaults /\ faults' = faults + 1
\* What the histories record: c loses its last reference without being closed.
Drops(c) == dropped' = IF c \in Client /\ Live(c) THEN dropped \cup {c} ELSE dropped

-----------------------------------------------------------------------------
(* bootInstance and registerLocalInstance, one step per await.              *)

Begins(b, kind) ==
    /\ ~Running(b)
    /\ boot' = [boot EXCEPT ![b] = [pc |-> "handshake", kind |-> kind,
                                    gen |-> generation, client |-> NoClient]]
    /\ entry' = IF kind = "boot"
                  THEN [state |-> "connecting", client |-> EntryClient, timer |-> EntryTimer]
                  ELSE entry

Ends(b) == boot' = [boot EXCEPT ![b] = IdleBoot]

\* Plausible bug: the old client is closed before the new session is there.
Answered_ClosesFirst(b) ==
    /\ boot[b].pc \in {"handshake", "auth"}
    /\ IF Stale(b) THEN Ends(b)
       ELSE boot' = [boot EXCEPT ![b].pc =
                IF @ = "handshake" /\ boot[b].kind = "boot" THEN "auth" ELSE "save"]
    /\ client' = IF Stale(b) THEN client ELSE Stop(EntryClient)
    /\ UNCHANGED <<dropped, unlocked, generation, entry, pending, loader, removing, stored,
                   removed, envVars>>

\* A fulfilled handshake or challenge: go on, unless the session has changed.
Answered(b) ==
    /\ boot[b].pc \in {"handshake", "auth"}
    /\ IF Stale(b) THEN Ends(b)
       ELSE boot' = [boot EXCEPT ![b].pc =
                IF @ = "handshake" /\ boot[b].kind = "boot" THEN "auth" ELSE "save"]
    /\ UNCHANGED <<dropped, unlocked, generation, entry, client, pending, loader, removing, stored,
                   removed, envVars>>

Free(c) ==
    /\ ~Live(c) /\ c # EntryClient
    /\ \A b \in Boot : boot[b].client # c

\* Plausible bug: the session is not looked at after the registry was written.
Saved_NoCheck(b) ==
    /\ boot[b].pc = "save"
    /\ stored' = TRUE
    /\ \E c \in FirstOf({d \in Client : Free(d)}) :
        /\ client' = [Stop(EntryClient) EXCEPT ![c] = "down"]
        /\ boot' = [boot EXCEPT ![b].pc = "guilds", ![b].client = c]
    /\ UNCHANGED <<dropped, unlocked, generation, entry, pending, loader, removing, removed, envVars>>

\* The registry is written (registerLocalInstance goes on without it); then the
\* old client is closed and a new one made.
Saved(b) ==
    /\ boot[b].pc = "save"
    /\ stored' \in {TRUE} \cup (IF boot[b].kind = "local" THEN {stored} ELSE {})
    /\ IF Stale(b) THEN Ends(b) /\ UNCHANGED client
       ELSE \E c \in FirstOf({d \in Client : Free(d)}) :
            /\ client' = [Stop(EntryClient) EXCEPT ![c] = "down"]
            /\ boot' = [boot EXCEPT ![b].pc = "guilds", ![b].client = c]
    /\ UNCHANGED <<dropped, unlocked, generation, entry, pending, loader, removing, removed, envVars>>

\* Plausible bug: a boot of an old session leaves its client alone.
GotGuilds_KeepsStale(b) ==
    /\ boot[b].pc = "guilds"
    /\ Ends(b)
    /\ UNCHANGED client
    /\ IF Stale(b)
         THEN UNCHANGED <<entry, dropped>>
         ELSE /\ entry' = [state |-> "connected", client |-> boot[b].client, timer |-> NoTimer]
              /\ Drops(EntryClient)
    /\ UNCHANGED <<unlocked, generation, pending, loader, removing, stored, removed, envVars>>

\* The guild list arrives (registerLocalInstance does without it, too).
GotGuilds(b) ==
    /\ boot[b].pc = "guilds"
    /\ Ends(b)
    /\ IF Stale(b)
         THEN client' = Stop(boot[b].client) /\ UNCHANGED <<entry, dropped>>
         ELSE /\ entry' = [state |-> "connected", client |-> boot[b].client, timer |-> NoTimer]
              /\ Drops(EntryClient) /\ UNCHANGED client
    /\ UNCHANGED <<unlocked, generation, pending, loader, removing, stored, removed, envVars>>

\* A request fails: the catch block marks the entry of a current boot offline.
Fails(b) ==
    /\ Running(b) /\ (boot[b].kind = "local" => boot[b].pc = "handshake")
    /\ Fault
    /\ Ends(b)
    /\ entry' = IF ~Stale(b) /\ boot[b].kind = "boot" /\ entry # NoEntry
                  THEN [entry EXCEPT !.state = "offline"] ELSE entry
    /\ Drops(boot[b].client)
    /\ UNCHANGED <<unlocked, generation, client, pending, loader, removing, stored, removed,
                   isLocal, requests>>

-----------------------------------------------------------------------------
(* The WS clients and the back-off.                                         *)

WsOpens(c) ==
    /\ client[c] = "down"
    /\ client' = [client EXCEPT ![c] = "up"]
    /\ UNCHANGED <<dropped, unlocked, generation, entry, boot, pending, loader, removing, stored,
                   removed, envVars>>

\* A close, or a failed attempt to connect again: scheduleReconnect replaces the
\* timer of whatever entry there is.
WsCloses(c) ==
    /\ Live(c)
    /\ Fault
    /\ client' = [client EXCEPT ![c] = "down"]
    /\ IF entry = NoEntry THEN UNCHANGED <<entry, pending>>
       ELSE LET others == pending \ {entry.timer} IN
            \E t \in FirstOf(Timer \ others) :
            /\ pending' = others \cup {t}
            /\ entry' = [entry EXCEPT !.state = "reconnecting", !.timer = t]
    /\ UNCHANGED <<dropped, unlocked, generation, boot, loader, removing, stored, removed, isLocal, requests>>

\* Plausible bug: an interval in the place of a timeout.
RetryFires_Interval(t) ==
    /\ t \in pending
    /\ UNCHANGED pending
    /\ LET e == IF EntryTimer = t THEN [entry EXCEPT !.timer = NoTimer] ELSE entry IN
       IF ~unlocked
         THEN entry' = e /\ UNCHANGED boot
         ELSE \E b \in FirstOf(IdleBoots) :
              /\ boot' = [boot EXCEPT ![b] = [pc |-> "handshake", kind |-> "boot",
                                              gen |-> generation, client |-> NoClient]]
              /\ entry' = IF e = NoEntry
                            THEN [state |-> "connecting", client |-> NoClient, timer |-> NoTimer]
                            ELSE [e EXCEPT !.state = "connecting"]
    /\ UNCHANGED <<dropped, unlocked, generation, client, loader, removing, stored, removed, envVars>>

\* The timer boots the instance again, with the generation of the moment; the
\* boot throws at once when no identity key is there.
RetryFires(t) ==
    /\ t \in pending
    /\ pending' = pending \ {t}
    /\ LET e == IF EntryTimer = t THEN [entry EXCEPT !.timer = NoTimer] ELSE entry IN
       IF ~unlocked
         THEN entry' = e /\ UNCHANGED boot
         ELSE \E b \in FirstOf(IdleBoots) :
              /\ boot' = [boot EXCEPT ![b] = [pc |-> "handshake", kind |-> "boot",
                                              gen |-> generation, client |-> NoClient]]
              /\ entry' = IF e = NoEntry
                            THEN [state |-> "connecting", client |-> NoClient, timer |-> NoTimer]
                            ELSE [e EXCEPT !.state = "connecting"]
    /\ UNCHANGED <<dropped, unlocked, generation, client, loader, removing, stored, removed, envVars>>

-----------------------------------------------------------------------------
(* The session effect.                                                      *)

\* Cleanup and the next run of the effect are one commit: a new generation, the
\* client and the timer of the entry stopped, the map emptied.
SessionChanges ==
    /\ generation < MaxSessions
    /\ generation' = generation + 1
    /\ unlocked' = ~unlocked
    /\ client' = Stop(EntryClient)
    /\ pending' = pending \ {EntryTimer}
    /\ entry' = NoEntry
    /\ loader' = IF unlocked' THEN [pc |-> "reading", boot |-> NoBoot] ELSE IdleLoader
    /\ removed' = FALSE
    /\ UNCHANGED <<dropped, boot, removing, stored, envVars>>

\* The registry has been read: boot what it holds, or the local instance.
Loads ==
    /\ loader.pc = "reading"
    /\ IF ~stored /\ ~isLocal
         THEN loader' = IdleLoader /\ UNCHANGED <<boot, entry>>
         ELSE \E b \in FirstOf(IdleBoots) :
              /\ Begins(b, IF stored THEN "boot" ELSE "local")
              /\ loader' = [pc |-> "booting", boot |-> b]
    /\ UNCHANGED <<dropped, unlocked, generation, client, pending, removing, stored, removed, envVars>>

Unconnected == IF entry = NoEntry THEN TRUE ELSE entry.state = "offline"

\* The boot has settled; a local instance without a connection is tried once
\* more with the token at hand (fetchWithAuth, then registerLocalInstance).
Settles ==
    /\ loader.pc = "booting" /\ ~Running(loader.boot)
    /\ loader' = IF isLocal /\ Unconnected
                   THEN [pc |-> "checking", boot |-> NoBoot] ELSE IdleLoader
    /\ UNCHANGED <<dropped, unlocked, generation, entry, boot, client, pending, removing, stored,
                   removed, envVars>>

FallsBack ==
    /\ loader.pc = "checking"
    /\ loader' = IdleLoader
    /\ \/ (\E b \in FirstOf(IdleBoots) : Begins(b, "local")) /\ UNCHANGED faults
       \/ Fault /\ UNCHANGED <<boot, entry>>
    /\ UNCHANGED <<dropped, unlocked, generation, client, pending, removing, stored, removed, isLocal, requests>>

-----------------------------------------------------------------------------
(* The user.                                                                *)

UserBoots ==
    /\ unlocked /\ requests < MaxRequests
    /\ requests' = requests + 1
    /\ removed' = FALSE
    /\ \E b \in FirstOf(IdleBoots) : Begins(b, "boot")
    /\ UNCHANGED <<dropped, unlocked, generation, client, pending, loader, removing, stored, isLocal, faults>>

\* disconnectInstance up to its await, and after it.
Disconnects ==
    /\ entry # NoEntry /\ ~removing /\ requests < MaxRequests
    /\ requests' = requests + 1
    /\ client' = Stop(entry.client)
    /\ pending' = pending \ {entry.timer}
    /\ removing' = TRUE
    /\ entry' = [entry EXCEPT !.timer = NoTimer]
    /\ UNCHANGED <<dropped, unlocked, generation, boot, loader, stored, removed, isLocal, faults>>

Disconnected ==
    /\ removing
    /\ removing' = FALSE
    /\ Drops(EntryClient)
    /\ stored' = FALSE
    /\ entry' = NoEntry
    /\ removed' = TRUE
    /\ UNCHANGED <<unlocked, generation, boot, client, pending, loader, envVars>>

InstancesNext ==
    \/ \E b \in Boot : Answered(b) \/ Saved(b) \/ GotGuilds(b) \/ Fails(b)
    \/ \E c \in Client : WsOpens(c) \/ WsCloses(c)
    \/ \E t \in Timer : RetryFires(t)
    \/ SessionChanges \/ Loads \/ Settles \/ FallsBack
    \/ UserBoots \/ Disconnects \/ Disconnected

\* Requests are answered, timers fire, IndexedDB and the sockets make progress.
Fairness ==
    /\ \A b \in Boot : WF_instanceVars(Answered(b)) /\ WF_instanceVars(Saved(b)) /\ WF_instanceVars(GotGuilds(b))
    /\ \A c \in Client : WF_instanceVars(WsOpens(c))
    /\ \A t \in Timer : WF_instanceVars(RetryFires(t))
    /\ WF_instanceVars(Loads) /\ WF_instanceVars(Settles) /\ WF_instanceVars(FallsBack) /\ WF_instanceVars(Disconnected)

InstancesSpec == InstancesInit /\ [][InstancesNext]_instanceVars /\ Fairness

-----------------------------------------------------------------------------
(* Properties.                                                              *)

\* After a change of session the calls in flight end without an effect on the
\* new session's entry and without opening a connection.
StaleBootIsInert ==
    [][\A b \in Boot :
        (Running(b) /\ Stale(b) /\ boot'[b] # boot[b])
            => /\ entry' = entry
               /\ \A c \in Client : client'[c] = "down" => Live(c)]_instanceVars

Quiet == IdleBoots = Boot /\ pending = {} /\ loader = IdleLoader /\ ~removing

\* An instance that was connected keeps a client whose close handler will boot
\* it again, however the boots in between fail ("it will retry via close
\* handler").
ReconnectsThroughClose ==
    (EntryClient # NoClient /\ ~removing) => \E c \in Client : Live(c)

\* Boots, timers and the session effect come to rest when nothing fails any more:
\* the two reconnection loops do not feed each other.
ComesToRest == <>[]Quiet

\* Every client that still connects is the one of the entry or of a boot, so that a
\* lock, a sign-out or a disconnect finds it ("all runtime connections are torn
\* down"), but for the clients lost in one of three named ways: the guild fetch of
\* its boot failed, a second boot overwrote the entry, or the entry was deleted by
\* disconnectInstance after a boot had renewed it.
LiveIsKnown ==
    \A c \in Client :
        Live(c) => c = EntryClient \/ c \in dropped \/ \E b \in Boot : boot[b].client = c

\* The same comment without the exceptions.
LockedHasNoConnection == (~unlocked /\ Quiet) => \A c \in Client : ~Live(c)
=============================================================================

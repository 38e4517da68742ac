----------------------------- MODULE VoiceCall -----------------------------
(***************************************************************************)
(* One device's voice view in the room: what module Capture does when the  *)
(* connection of module VoiceMls is made, given up, lost or left.  Both    *)
(* are parts of one hook, hooks/useRoom.js.                                *)
(*                                                                         *)
(* With someone else in the room at the start, or nobody, nothing is       *)
(* captured; what is captured does not depend on the others.               *)
(***************************************************************************)
EXTENDS VoiceMls

CONSTANTS Me, MaxFlows, Inputs, Stories

ASSUME MeOK == Me \in Devices
ASSUME CallConstantsOK ==
  /\ MaxFlows \in Nat /\ Inputs # {}
  /\ \A s \in Stories :
       /\ {s.flows, s.clicks, s.faults, s.leaves} \subseteq Nat
       /\ s.does \subseteq {"toggle", "deafen", "pick", "save", "camera", "screen"}
       /\ s.input \in Inputs /\ s.audioEnabled \in BOOLEAN

VARIABLES story, conn, view, flow, source, releasing, orchestrator, ui, loose

C == INSTANCE Capture

capture == <<story, conn, view, flow, source, releasing, orchestrator, ui, loose>>
callVars == <<vars, capture>>
Alone == start = {Me}

CallInit ==
  /\ Init /\ C!Init
  /\ conn = IF Me \in start THEN "on" ELSE "off"
  /\ Alone = (story.flows > 0)

Silently == UNCHANGED capture

\* disconnectRoom ends, or the view is unmounted: useRoom leaves the room ...
CallLeaves ==
  /\ Leave(Me)
  /\ IF C!Captured THEN C!LeaveEnds \/ C!Close ELSE C!Afresh
\* ... or there is no room yet: a connection the view made when it was opened
\* is given up, one it made when asked to goes on, unseen.
CallCloses ==
  /\ C!Captured /\ Me \notin live /\ C!Close
  /\ UNCHANGED vars \/ Cancel(Me)
CallConnects(w) ==
  /\ Connected(Me, w)
  /\ IF w = "connect" /\ view THEN C!Joins ELSE Silently
CallDies ==
  /\ Crash(Me)
  /\ IF C!Captured THEN C!Dies ELSE C!Afresh
CallIsLost ==
  /\ Dropped(Me)
  /\ IF view THEN C!Loses ELSE Silently

\* In a story about what is captured the device is alone, and what is known of
\* the group does not matter: a connection works, or fails with the story's
\* faults.
Troubles == Alone => story.faults > 0
CallNext ==
  \/ C!ViewNext /\ UNCHANGED vars
  \/ CallLeaves \/ CallCloses
  \/ Troubles /\ (CallDies \/ CallIsLost)
  \/ \E w \in {"connect", "stale"} : CallConnects(w)
  \/ Alone /\ ((view /\ ConnectRoom(Me)) \/ Works(Me)) /\ used'.fails = used.fails /\ Silently
  \/ ~Alone /\ (Quietly(Me) \/ Cancel(Me)) /\ Silently
  \/ \E d \in Devices \ {Me} : ~Alone /\ (Quietly(d) \/ Visibly(d)) /\ Silently
  \/ RoomEmptied /\ Silently

CallSpec == CallInit /\ [][CallNext]_callVars

-----------------------------------------------------------------------------
(* Properties; those of Capture, in calls that are made, lost and left.     *)

\* Out of the room and with nothing under way, no device captures, so that the
\* capture indicator "drops as soon as the user leaves" (useRoom.js:225), save
\* for what Capture names.
CaptureStops == C!CaptureStops

\* While the view shows the microphone as off, no one hears it, whatever was
\* muted, deafened, switched or published again, save for what Capture names.
MutedIsSilent == C!MutedIsSilent
============================================================================

------------------------------ MODULE Capture ------------------------------
(***************************************************************************)
(* What one view of a voice channel captures and sends: the microphone,    *)
(* through a CaptureOrchestrator per publication, the camera and the       *)
(* screen (audio/capture/CaptureOrchestrator.ts, lib/trackManager.js, the  *)
(* callbacks of hooks/useRoom.js and the handlers of                       *)
(* components/voice-channel-view.tsx).                                     *)
(*                                                                         *)
(* A flow is one call that publishes something, from the click or effect   *)
(* that starts it to its end; a flow that publishes the microphone is also *)
(* the name of the orchestrator it creates.  Nothing orders the flows:     *)
(* they share two refs to the current orchestrator and its adapter.        *)
(*                                                                         *)
(* External: the browser, which asks the user before a device is captured  *)
(* and answers when it likes; LiveKit, which publishes while the room is   *)
(* connected and stops the published tracks when it disconnects.           *)
(***************************************************************************)
EXTENDS Naturals

CONSTANTS
  MaxFlows,      \* bound: publications
  Inputs,        \* microphones
  Stories        \* bounds (publications, clicks, faults, departures), what the
                 \* user may do, and what the user has set up

VARIABLES
  story,         \* the bounds that are left
  conn,          \* roomRef: "off", "on", "lost" by LiveKit, or "leaving"
  view,          \* the voice view is mounted
  flow,          \* the flows
  source,        \* what each flow captures and sends
  releasing,     \* the orchestrator that leaving the room takes down
  orchestrator,  \* orchestratorRef: a flow, or NoFlow (adapterRef follows it:
                 \* it is set whenever the current orchestrator is live)
  ui,            \* the view's state and refs
  loose          \* (history) <<flow, why>>: what is known to escape

captureVars == <<story, conn, view, flow, source, releasing, orchestrator, ui, loose>>

Flows == 1..MaxFlows
NoFlow == 0
Video == {"camera", "screen"}
Publishers == {"auto", "toggle", "pick", "apply"}    \* of a microphone

Idle == [at |-> "idle", by |-> "auto", input |-> CHOOSE i \in Inputs : TRUE,
         old |-> NoFlow, undeafen |-> FALSE]
Silent == [raw |-> FALSE, live |-> FALSE, handle |-> FALSE, sent |-> FALSE, muted |-> FALSE]

Under(f) == flow[f].at \notin {"idle", "done", "failed"}
Mic(f) == flow[f].by \in Publishers
Ended(f, at) == [Idle EXCEPT !.at = at, !.by = flow[f].by]
UnderWay == {f \in Flows : Under(f)}
Fresh(f) == story.flows > 0 /\ flow[f] = Idle /\ \A g \in Flows : g < f => flow[g] # Idle

Init ==
  /\ story \in Stories
  /\ conn \in {"off", "on"}
  /\ view = TRUE
  /\ flow = [f \in Flows |-> Idle]
  /\ source = [f \in Flows |-> Silent]
  /\ orchestrator = NoFlow /\ releasing = NoFlow
  /\ ui = [on |-> FALSE, deafened |-> FALSE, before |-> FALSE, published |-> FALSE,
           auto |-> FALSE, applied |-> story.input, input |-> story.input, stale |-> FALSE,
           shown |-> {}]
  /\ loose = {}

Does(what) == view /\ what \in story.does
Counts(what) == story[what] > 0 /\ story' = [story EXCEPT ![what] = @ - 1]

-----------------------------------------------------------------------------
(* The orchestrator.                                                        *)

\* shutdownMicCapture up to its first await: a live track is stopped, to be
\* unpublished; of another session everything is stopped.  In s, as others below.
TakenDown(s, o) ==
  IF o = NoFlow THEN s
  ELSE [s EXCEPT ![o] = [s[o] EXCEPT !.raw = s[o].raw /\ s[o].live, !.live = FALSE, !.sent = FALSE]]
\* ... and when it is done.
Emptied_UnpublishOnly(s, o) ==
  IF o = NoFlow THEN s ELSE [s EXCEPT ![o] = [Silent EXCEPT !.raw = s[o].raw]]
Emptied(s, o) == IF o = NoFlow THEN s ELSE [s EXCEPT ![o] = Silent]

\* What a shutdown was for: a new orchestrator ("clear"), the same after
\* unpublishMic ("unpublish"), or the error to be thrown on ("catch").
AfterShutdown(f, r, s) ==
  LET asks == r.at = "clear" \/ (r.at = "unpublish" /\ conn # "off")
  IN  /\ flow' = [flow EXCEPT ![f] = IF asks THEN [r EXCEPT !.at = "asking", !.old = NoFlow]
                                     ELSE [Idle EXCEPT !.at = "failed", !.by = r.by]]
      /\ orchestrator' = IF asks THEN f ELSE NoFlow
      /\ source' = s

ShutDown(f, r, s) ==
  IF orchestrator # NoFlow /\ (s[orchestrator].live \/ s[orchestrator].raw)
  THEN /\ flow' = [flow EXCEPT ![f] = [r EXCEPT !.old = orchestrator]]
       /\ source' = TakenDown(s, orchestrator)
       /\ UNCHANGED orchestrator
  ELSE AfterShutdown(f, r, Emptied(s, orchestrator))

ShutdownEnds(f) ==
  /\ flow[f].at \in {"clear", "unpublish", "catch"}
  /\ AfterShutdown(f, flow[f], Emptied(source, flow[f].old))
  /\ UNCHANGED <<story, conn, view, releasing, ui, loose>>

\* publishMic and unpublishMic for a new flow of the kind `by'.
Begun(f, by, input) ==
  [Idle EXCEPT !.at = IF by \in {"pick", "apply"} /\ ui.published THEN "unpublish" ELSE "clear",
               !.by = by, !.input = input, !.undeafen = (by = "toggle" /\ ui.deafened)]
PublishMic(f, by, input) ==
  LET r == Begun(f, by, input)
      others == {g \in UnderWay : Mic(g)}
  IN  /\ Fresh(f)
      /\ Counts("flows")
      /\ IF conn = "off" /\ r.at = "clear"
         THEN /\ flow' = [flow EXCEPT ![f] = [Idle EXCEPT !.at = "failed", !.by = by]]
              /\ UNCHANGED <<source, orchestrator>>
         ELSE ShutDown(f, r, source)
      /\ loose' = loose \cup (IF others = {} THEN {} ELSE (others \cup {f}) \X {"overlap"})
                         \cup (IF conn = "leaving" THEN {<<f, "late">>} ELSE {})

-----------------------------------------------------------------------------
(* The view.                                                                *)

\* The effect that publishes the microphone once the room is ready.
AutoPublish(f) ==
  /\ view /\ conn = "on" /\ ~ui.auto
  /\ ui' = [ui EXCEPT !.auto = TRUE, !.applied = ui.input]
  /\ IF story.audioEnabled THEN PublishMic(f, "auto", ui.input)
     ELSE UNCHANGED <<story, flow, source, orchestrator, loose>>
  /\ UNCHANGED <<conn, view, releasing>>

\* muteMic and unmuteMic: they throw while an orchestrator has not published.
CanMute == (conn # "off" /\ orchestrator # NoFlow) => source[orchestrator].handle
Muted(muted) ==
  IF conn = "off" \/ orchestrator = NoFlow THEN source
  ELSE [source EXCEPT ![orchestrator].muted = muted]

\* handleToggleMic.
Mute ==
  /\ Does("toggle") /\ ui.on /\ CanMute
  /\ Counts("clicks")
  /\ source' = Muted(TRUE)
  /\ ui' = [ui EXCEPT !.on = FALSE]
  /\ UNCHANGED <<conn, view, flow, releasing, orchestrator, loose>>
Undeafened(u) == IF u.deafened THEN [u EXCEPT !.deafened = FALSE, !.before = TRUE] ELSE u
Unmute ==
  /\ Does("toggle") /\ ~ui.on /\ ui.published /\ CanMute
  /\ Counts("clicks")
  /\ source' = Muted(FALSE)
  /\ ui' = Undeafened([ui EXCEPT !.on = TRUE])
  /\ UNCHANGED <<conn, view, flow, releasing, orchestrator, loose>>
FirstUnmute(f) ==
  /\ Does("toggle") /\ ~ui.on /\ ~ui.published
  /\ PublishMic(f, "toggle", ui.input)
  /\ UNCHANGED <<conn, view, releasing, ui>>

\* handleToggleDeafen.
Deafen ==
  /\ Does("deafen") /\ ~ui.deafened
  /\ Counts("clicks")
  /\ source' = IF ui.on /\ CanMute THEN Muted(TRUE) ELSE source
  /\ ui' = [ui EXCEPT !.deafened = TRUE, !.before = ui.on, !.on = @ /\ ~CanMute]
  /\ UNCHANGED <<conn, view, flow, releasing, orchestrator, loose>>
Undeafen ==
  /\ Does("deafen") /\ ui.deafened
  /\ Counts("clicks")
  /\ LET unmutes == ui.before /\ ui.published /\ CanMute
     IN  /\ source' = IF unmutes THEN Muted(FALSE) ELSE source
         /\ ui' = [ui EXCEPT !.deafened = FALSE, !.on = @ \/ unmutes]
  /\ UNCHANGED <<conn, view, flow, releasing, orchestrator, loose>>

\* handlePickMic, and a choice in the settings panel.
PickMic(f, i) ==
  /\ Does("pick")
  /\ ui' = [ui EXCEPT !.input = i, !.stale = TRUE]
  /\ PublishMic(f, "pick", i)
  /\ UNCHANGED <<conn, view, releasing>>
SaveInput(i) ==
  /\ Does("save") /\ i # ui.input
  /\ Counts("clicks")
  /\ ui' = [ui EXCEPT !.input = i, !.stale = TRUE]
  /\ UNCHANGED <<conn, view, flow, source, releasing, orchestrator, loose>>

\* The effect that follows a change of the preferences.
ApplyInput(f) ==
  /\ view /\ conn = "on" /\ ui.auto /\ ui.stale
  /\ IF ui.applied # ui.input /\ ui.published
     THEN /\ ui' = [ui EXCEPT !.stale = FALSE]
          /\ PublishMic(f, "apply", ui.input)
     ELSE /\ ui' = [ui EXCEPT !.stale = FALSE, !.applied = ui.input]
          /\ UNCHANGED <<story, flow, source, orchestrator, loose>>
  /\ UNCHANGED <<conn, view, releasing>>

\* handleToggleWebcam, handleToggleScreen.
StartVideo(f, k) ==
  /\ Does(k) /\ conn # "off" /\ k \notin ui.shown
  /\ Fresh(f)
  /\ Counts("flows")
  /\ flow' = [flow EXCEPT ![f] = [Idle EXCEPT !.at = "asking", !.by = k]]
  /\ UNCHANGED <<conn, view, source, releasing, orchestrator, ui, loose>>
Unlisted(s, k) ==
  [f \in Flows |-> IF flow[f].by = k /\ s[f].handle THEN Silent ELSE s[f]]
\* ... or the browser's own control ends the screen share.
StopVideo(k) ==
  /\ Does(k) /\ k \in ui.shown
  /\ Counts("clicks")
  /\ source' = IF conn = "off" THEN source ELSE Unlisted(source, k)
  /\ ui' = [ui EXCEPT !.shown = @ \ {k}]
  /\ UNCHANGED <<conn, view, flow, releasing, orchestrator, loose>>

-----------------------------------------------------------------------------
(* Answers.                                                                 *)

\* getUserMedia, getDisplayMedia: the device captures.  The microphone is
\* published in the room there is by now, a video in the one it was meant for.
Granted(f) ==
  /\ flow[f].at \in {"asking", "late"}
  /\ LET s == [source EXCEPT ![f].raw = TRUE]
         at == CASE flow[f].at = "late" \/ conn = "lost" -> "refused"
                 [] Mic(f) /\ conn = "off" -> "catch"
                 [] OTHER -> "publishing"
     IN  IF at = "catch" THEN ShutDown(f, [flow[f] EXCEPT !.at = at], s)
         ELSE /\ flow' = [flow EXCEPT ![f].at = at]
              /\ source' = s
              /\ UNCHANGED orchestrator
  /\ UNCHANGED <<story, conn, view, releasing, ui, loose>>

\* Only publishMic has a catch; it takes down whatever orchestrator is current.
Throws(f) ==
  IF Mic(f) THEN ShutDown(f, [flow[f] EXCEPT !.at = "catch"], source)
  ELSE /\ flow' = [flow EXCEPT ![f] = Ended(f, "failed")]
       /\ UNCHANGED <<source, orchestrator>>
Denied(f) ==
  /\ flow[f].at \in {"asking", "late"}
  /\ Counts("faults")
  /\ Throws(f)
  /\ UNCHANGED <<conn, view, releasing, ui, loose>>
Refused(f) ==
  /\ \/ flow[f].at = "refused" /\ UNCHANGED story
     \/ flow[f].at = "publishing" /\ Counts("faults")
  /\ loose' = loose \cup (IF Mic(f) THEN {} ELSE {<<f, "refused">>})
  /\ Throws(f)
  /\ UNCHANGED <<conn, view, releasing, ui>>

\* What the view shows of a flow that succeeded.
Shows_StaysMuted(f) ==
  LET r == flow[f]
      on == [ui EXCEPT !.on = TRUE, !.published = TRUE]
  IN  CASE r.by \in Video -> [ui EXCEPT !.shown = @ \cup {r.by}]
        [] r.by = "auto" -> on
        [] r.by = "toggle" -> IF r.undeafen THEN [on EXCEPT !.deafened = FALSE, !.before = TRUE] ELSE on
        [] r.by = "pick" -> [on EXCEPT !.applied = r.input]
        [] r.by = "apply" -> [ui EXCEPT !.applied = r.input]
Shows(f) ==
  LET r == flow[f]
      on == [ui EXCEPT !.on = TRUE, !.published = TRUE]
  IN  CASE r.by \in Video -> [ui EXCEPT !.shown = @ \cup {r.by}]
        [] r.by = "auto" -> on
        [] r.by = "toggle" -> IF r.undeafen THEN [on EXCEPT !.deafened = FALSE, !.before = TRUE] ELSE on
        [] r.by \in {"pick", "apply"} -> [on EXCEPT !.applied = r.input]
Published(f) ==
  /\ flow[f].at = "publishing"
  /\ source' = [source EXCEPT ![f] = [@ EXCEPT !.live = Mic(f), !.handle = TRUE, !.sent = source[f].raw]]
  /\ flow' = [flow EXCEPT ![f] = Ended(f, "done")]
  /\ ui' = IF view THEN Shows(f) ELSE ui
  /\ UNCHANGED <<story, conn, view, releasing, orchestrator, loose>>

-----------------------------------------------------------------------------
(* The room.                                                                *)

\* LiveKit disconnects: it stops what is published and refuses the rest.
Cut(s) ==
  [f \in Flows |-> IF s[f].handle
                   THEN [s[f] EXCEPT !.sent = FALSE, !.raw = s[f].raw /\ Mic(f)] ELSE s[f]]
Stranded ==
  [f \in Flows |-> CASE flow[f].at = "publishing" -> [flow[f] EXCEPT !.at = "refused"]
                     [] flow[f].at = "asking" /\ ~Mic(f) -> [flow[f] EXCEPT !.at = "late"]
                     [] OTHER -> flow[f]]
Late == UnderWay \X {"late"}

\* releaseLocalCapture: every listed track, then the current orchestrator.
Released(s) ==
  TakenDown([f \in Flows |-> IF ~s[f].handle THEN s[f]
                             ELSE IF Mic(f) THEN [s[f] EXCEPT !.sent = FALSE] ELSE Silent], orchestrator)

\* disconnectRoom, up to the first await and after the last.
LeaveStarts ==
  /\ view /\ conn \in {"on", "lost"} /\ Counts("leaves")
  /\ conn' = "leaving"
  /\ source' = Released(source)
  /\ releasing' = orchestrator
  /\ loose' = loose \cup Late
  /\ UNCHANGED <<view, flow, orchestrator, ui>>
LeaveEnds ==
  /\ conn = "leaving"
  /\ conn' = "off"
  /\ source' = Cut(Emptied(source, releasing))
  /\ flow' = Stranded
  /\ releasing' = NoFlow /\ orchestrator' = NoFlow
  /\ loose' = loose \cup Late
  /\ UNCHANGED <<story, view, ui>>

\* The view is unmounted; whatever it is in the middle of goes on.
Close ==
  /\ view
  /\ view' = FALSE
  /\ conn' = "off"
  /\ source' = Cut(Emptied(Emptied(Released(source), orchestrator), releasing))
  /\ flow' = Stranded
  /\ releasing' = NoFlow /\ orchestrator' = NoFlow
  /\ loose' = loose \cup Late
  /\ UNCHANGED <<story, ui>>

\* connectRoom ends; LiveKit gives up; the tab dies.
Joins ==
  /\ view /\ conn = "off"
  /\ conn' = "on"
  /\ UNCHANGED <<story, view, flow, source, releasing, orchestrator, ui, loose>>
Loses ==
  /\ conn = "on"
  /\ conn' = "lost"
  /\ source' = Cut(source)
  /\ flow' = Stranded
  /\ loose' = loose \cup Late
  /\ UNCHANGED <<story, view, releasing, orchestrator, ui>>
Dies ==
  /\ view' = FALSE /\ conn' = "off"
  /\ flow' = [f \in Flows |-> IF Under(f) THEN Ended(f, "failed") ELSE flow[f]]
  /\ source' = [f \in Flows |-> Silent]
  /\ releasing' = NoFlow /\ orchestrator' = NoFlow
  /\ UNCHANGED <<story, ui, loose>>

\* A view is left for good when it closes; until it has captured something it
\* is like the next one.
Captured == \E f \in Flows : flow[f] # Idle
Afresh ==
  /\ ~Captured
  /\ conn' = "off"
  /\ UNCHANGED <<story, view, flow, source, releasing, orchestrator, ui, loose>>

ViewNext ==
  \/ \E f \in Flows :
       \/ AutoPublish(f) \/ FirstUnmute(f) \/ ApplyInput(f)
       \/ \E i \in Inputs : PickMic(f, i)
       \/ \E k \in Video : StartVideo(f, k)
       \/ ShutdownEnds(f) \/ Granted(f) \/ Denied(f) \/ Refused(f) \/ Published(f)
  \/ \E i \in Inputs : SaveInput(i)
  \/ \E k \in Video : StopVideo(k)
  \/ Mute \/ Unmute \/ Deafen \/ Undeafen \/ LeaveStarts
Next == ViewNext \/ LeaveEnds \/ Close \/ Joins \/ Loses \/ Dies \/ Afresh

Spec == Init /\ [][Next]_captureVars

-----------------------------------------------------------------------------
(* Properties.                                                              *)

TypeOK ==
  /\ conn \in {"off", "on", "lost", "leaving"} /\ view \in BOOLEAN
  /\ {orchestrator, releasing} \subseteq Flows \cup {NoFlow}
  /\ ui.shown \subseteq Video /\ {ui.input, ui.applied} \subseteq Inputs
  /\ \A f \in Flows :
       /\ flow[f].at \in {"idle", "clear", "unpublish", "catch", "asking", "late", "publishing",
                          "refused", "done", "failed"}
       /\ flow[f].by \in Publishers \cup Video /\ flow[f].input \in Inputs
       /\ source[f].sent => source[f].raw

Escaped(f, whys) == \E why \in whys : <<f, why>> \in loose

\* Out of the room and with nothing under way, no device captures, "so the
\* OS-level capture indicator drops as soon as the user leaves": except for a
\* flow that the end of the room found waiting ("late"), two publications of
\* the microphone under way at once ("overlap"), and a video LiveKit refused
\* ("refused").
CaptureStops ==
  (conn = "off" /\ UnderWay = {}) =>
    \A f \in Flows : source[f].raw => Escaped(f, {"late", "overlap", "refused"})

\* While the view shows the microphone as off, none is heard, whatever was
\* muted, deafened, switched or published again before: except when two
\* publications were under way at once, or one that the end of the room found
\* waiting was answered in the next room.
MutedIsSilent ==
  ~ui.on => \A f \in Flows : (Mic(f) /\ source[f].sent /\ ~source[f].muted) => Escaped(f, {"overlap", "late"})
=============================================================================

-------------------------- MODULE VoiceCallProofs --------------------------
(***************************************************************************)
(* Two things are proved of a call, for any number of devices and          *)
(* publications and whatever users, browsers, LiveKit and the server do,   *)
(* in any order.                                                           *)
(*                                                                         *)
(* First, what a device's voice view captures and sends.  Neither property *)
(* is inductive: nothing in them says who will stop a device that captures *)
(* now.  The invariant does: a microphone belongs to the current           *)
(* orchestrator, to the one leaving takes down, or to the one some         *)
(* publication takes down (MicIsOwned); a video is on the list that is     *)
(* emptied on leaving (VideoIsListed); and the flows that could upset this *)
(* are known: two that overlap, and those the end of a room finds waiting. *)
(* It is an invariant of module Capture, which the call implements.        *)
(*                                                                         *)
(* Second, the keys of the devices in the room: the invariant of module    *)
(* VoiceMls, whose specification the call implements too.                  *)
(***************************************************************************)
EXTENDS VoiceCall, TLAPS

-----------------------------------------------------------------------------
(* What a view captures.                                                    *)

\* What the properties except of microphones.
Loose(f) == C!Escaped(f, {"overlap", "late"})

Shutting == {"clear", "unpublish", "catch"}
FlowStages == Shutting \cup {"idle", "asking", "late", "publishing", "refused", "done", "failed"}
Track == [raw : BOOLEAN, live : BOOLEAN, handle : BOOLEAN, sent : BOOLEAN, muted : BOOLEAN]
Sources == [C!Flows -> Track]
FlowLike(r) == [at : FlowStages, by : C!Publishers \cup C!Video, input : {r.input},
                old : C!Flows \cup {C!NoFlow}, undeafen : {r.undeafen}]

UiOK == ui \in [on : BOOLEAN, deafened : {ui.deafened}, before : {ui.before}, published : {ui.published},
                auto : {ui.auto}, applied : {ui.applied}, input : {ui.input}, stale : {ui.stale},
                shown : {ui.shown}]
ShapeOK ==
  /\ conn \in {"off", "on", "lost", "leaving"}
  /\ orchestrator \in C!Flows \cup {C!NoFlow} /\ releasing \in C!Flows \cup {C!NoFlow}
  /\ source \in Sources
  /\ flow = [f \in C!Flows |-> flow[f]] /\ \A f \in C!Flows : flow[f] \in FlowLike(flow[f])
  /\ UiOK

\* Two microphones under way at once are known to overlap ...
OverlapIsKnown ==
  \A f, g \in C!Flows : (f # g /\ C!Mic(f) /\ C!Mic(g) /\ C!Under(f) /\ C!Under(g)) => <<f, "overlap">> \in loose
\* ... and one that leaving the room finds under way is known to be late.
LeavingIsLate ==
  conn = "leaving" => \A f \in C!Flows : (C!Mic(f) /\ C!Under(f)) => <<f, "late">> \in loose
UnseenIsLate ==
  ~view => (conn = "off" /\ \A f \in C!Flows : C!Under(f) => <<f, "late">> \in loose)
LateIsKnown ==
  \A f \in C!Flows : flow[f].at = "late" => (~C!Mic(f) /\ ~source[f].raw /\ <<f, "late">> \in loose)

\* Who waits for an answer is current, and in a room.
AskerIsCurrent ==
  \A f \in C!Flows :
    (C!Mic(f) /\ flow[f].at \in {"asking", "publishing", "refused"}) => (orchestrator = f \/ Loose(f))
PublishingIsIn == \A f \in C!Flows : flow[f].at = "publishing" => conn \in {"on", "leaving"}
AskingIsIn == \A f \in C!Flows : (flow[f].at = "asking" /\ ~C!Mic(f)) => (conn # "off" /\ ~source[f].raw)

\* A shutdown is a microphone's, of the orchestrator that was current and is,
\* if it captures.
ShutdownIsMic == \A f \in C!Flows : flow[f].at \in Shutting => C!Mic(f)
ShutdownKnows ==
  \A f, o \in C!Flows :
    (flow[f].at \in Shutting /\ orchestrator = o /\ source[o].raw /\ ~Loose(o)) => flow[f].old = o
OldWhileShutting == \A f \in C!Flows : flow[f].at \notin Shutting => flow[f].old = C!NoFlow
OrchestratorIsMic ==
  orchestrator # C!NoFlow => (C!Mic(orchestrator) /\ flow[orchestrator].at # "idle")
LeavingReleases ==
  conn = "leaving" => (orchestrator \in {C!NoFlow, releasing} \/ Loose(orchestrator))

IdleIsSilent == \A f \in C!Flows : flow[f].at = "idle" => (~source[f].raw /\ ~source[f].sent)
MicIsOwned ==
  \A f \in C!Flows : (C!Mic(f) /\ source[f].raw /\ ~Loose(f)) =>
    \/ orchestrator = f /\ (conn # "off" \/ C!Under(f))
    \/ releasing = f /\ conn = "leaving"
    \/ \E g \in C!Flows : C!Under(g) /\ flow[g].old = f
VideoIsListed ==
  \A f \in C!Flows : (~C!Mic(f) /\ source[f].raw) =>
    C!Under(f) \/ (source[f].handle /\ conn \in {"on", "leaving"}) \/ C!Escaped(f, {"late", "refused"})
SentIsCurrent ==
  \A f \in C!Flows : (C!Mic(f) /\ source[f].sent /\ ~Loose(f)) =>
    /\ orchestrator = f /\ conn = "on" /\ source[f].handle
    /\ ui.on \/ source[f].muted
    /\ \A g \in C!Flows : ~(C!Mic(g) /\ C!Under(g))

CaptureInv ==
  /\ ShapeOK
  /\ OverlapIsKnown /\ LeavingIsLate /\ UnseenIsLate /\ LateIsKnown
  /\ AskerIsCurrent /\ PublishingIsIn /\ AskingIsIn
  /\ ShutdownIsMic /\ ShutdownKnows /\ OldWhileShutting
  /\ OrchestratorIsMic /\ LeavingReleases
  /\ IdleIsSilent /\ MicIsOwned /\ VideoIsListed /\ SentIsCurrent

-----------------------------------------------------------------------------
(* Lemmas.                                                                  *)

\* No flow is NoFlow.
LEMMA FlowsAreNot == C!NoFlow \notin C!Flows
BY DEF C!NoFlow, C!Flows

\* The initial state, and what the invariant says.
LEMMA InitHolds == C!Init => CaptureInv
<1> SUFFICES ASSUME C!Init PROVE CaptureInv
  OBVIOUS
<1>1. ShapeOK
  BY DEF C!Init, ShapeOK, UiOK, Sources, Track, C!Silent, C!Idle, FlowLike, FlowStages, Shutting,
     C!Publishers, C!Video
<1> QED
  BY <1>1, FlowsAreNot DEF C!Init, CaptureInv, OverlapIsKnown, LeavingIsLate, UnseenIsLate,
     LateIsKnown,
     AskerIsCurrent, PublishingIsIn, AskingIsIn, ShutdownIsMic, ShutdownKnows, OldWhileShutting,
     OrchestratorIsMic, LeavingReleases, IdleIsSilent, MicIsOwned, VideoIsListed, SentIsCurrent,
     C!Silent, C!Idle, C!Under,
     Shutting, C!Mic, C!Publishers

\* The invariant says whose every captured device is, hence the properties.
LEMMA InvImplies == CaptureInv => (C!CaptureStops /\ C!MutedIsSilent)
<1> SUFFICES ASSUME CaptureInv PROVE C!CaptureStops /\ C!MutedIsSilent
  OBVIOUS
<1>1. C!CaptureStops
  <2> SUFFICES ASSUME conn = "off", C!UnderWay = {}, NEW f \in C!Flows, source[f].raw
               PROVE  C!Escaped(f, {"late", "overlap", "refused"})
    BY DEF C!CaptureStops
  <2>1. \A g \in C!Flows : ~C!Under(g)
    BY DEF C!UnderWay
  <2>2. CASE C!Mic(f)
    BY <2>1, <2>2 DEF CaptureInv, MicIsOwned, Loose, C!Escaped
  <2>3. CASE ~C!Mic(f)
    BY <2>1, <2>3 DEF CaptureInv, VideoIsListed, C!Escaped
  <2> QED
    BY <2>2, <2>3
<1>2. C!MutedIsSilent
  BY DEF CaptureInv, SentIsCurrent, C!MutedIsSilent, Loose
<1> QED
  BY <1>1, <1>2

-----------------------------------------------------------------------------
(* Taking down an orchestrator.                                             *)

\* What a shutdown for the flow f does, up to its first await, or to its end:
\* s is what the flows captured when it began.
ShutEffect(f, s) ==
  /\ \A g \in C!Flows : g # f => flow'[g] = flow[g]
  /\ flow'[f].by \in C!Publishers
  /\ \A g \in C!Flows : /\ source'[g].raw => (s[g].raw /\ source'[g].handle = s[g].handle)
                        /\ source'[g].sent => (s[g].sent /\ orchestrator # g)
  /\ \/ /\ flow'[f].at \in Shutting /\ flow'[f].old = orchestrator
        /\ orchestrator # C!NoFlow /\ orchestrator' = orchestrator
     \/ /\ flow'[f].at \in {"asking", "failed"} /\ flow'[f].old = C!NoFlow
        /\ orchestrator # C!NoFlow => ~source'[orchestrator].raw
        /\ orchestrator' = IF flow'[f].at = "asking" THEN f ELSE C!NoFlow

LEMMA ShutDownEffect ==
  ASSUME ShapeOK, NEW f \in C!Flows, NEW r, r \in FlowLike(r), r.by \in C!Publishers,
  r.at \in Shutting,
         NEW s \in Sources, C!ShutDown(f, r, s)
  PROVE  /\ ShutEffect(f, s)
         /\ source' \in Sources /\ orchestrator' \in C!Flows \cup {C!NoFlow}
         /\ flow' = [g \in C!Flows |-> flow'[g]] /\ \A g \in C!Flows : flow'[g] \in FlowLike(flow'[g])
<1>1. CASE orchestrator # C!NoFlow /\ (s[orchestrator].live \/ s[orchestrator].raw)
  <2>1. flow' = [flow EXCEPT ![f] = [r EXCEPT !.old = orchestrator]] /\ orchestrator' = orchestrator
    BY <1>1 DEF C!ShutDown
  <2> DEFINE t == [s[orchestrator] EXCEPT !.raw = s[orchestrator].raw /\ s[orchestrator].live,
                                          !.live = FALSE, !.sent = FALSE]
  <2>2. source' = [s EXCEPT ![orchestrator] = t]
    BY <1>1 DEF C!ShutDown, C!TakenDown
  <2>3. \A g \in C!Flows : g # f => flow'[g] = flow[g]
    BY <2>1 DEF ShapeOK
  <2>4. /\ flow'[f].at = r.at /\ flow'[f].by = r.by /\ flow'[f].old = orchestrator
        /\ flow'[f] \in FlowLike(flow'[f])
    BY <2>1 DEF ShapeOK, FlowLike
  <2>0. orchestrator \in C!Flows /\ s[orchestrator] \in Track
    BY <1>1 DEF ShapeOK, Sources
  <2>10. t \in Track
    BY <2>0 DEF Track
  <2>5. source' \in Sources
    <3> HIDE DEF t
    <3> QED
      BY <2>0, <2>2, <2>10 DEF Sources
  <2>6. \A g \in C!Flows : /\ source'[g].raw => (s[g].raw /\ source'[g].handle = s[g].handle)
                           /\ source'[g].sent => (s[g].sent /\ orchestrator # g)
    <3> TAKE g \in C!Flows
    <3>2. t.raw => s[orchestrator].raw
      BY <2>0 DEF Track
    <3>3. t.handle = s[orchestrator].handle /\ ~t.sent
      BY <2>0 DEF Track
    <3> HIDE DEF t
    <3>1. source'[g] = IF g = orchestrator THEN t ELSE s[g]
      BY <2>0, <2>2 DEF Sources
    <3> QED
      BY <3>1, <3>2, <3>3
  <2> QED
    BY <1>1, <2>1, <2>3, <2>4, <2>5, <2>6 DEF ShapeOK, ShutEffect
<1>2. CASE ~(orchestrator # C!NoFlow /\ (s[orchestrator].live \/ s[orchestrator].raw))
  <2>1. C!AfterShutdown(f, r, C!Emptied(s, orchestrator))
    BY <1>2 DEF C!ShutDown
  <2>2. source' = IF orchestrator = C!NoFlow THEN s ELSE [s EXCEPT ![orchestrator] = C!Silent]
    BY <2>1 DEF C!AfterShutdown, C!Emptied
  <2>3. \/ flow' = [flow EXCEPT ![f] = [r EXCEPT !.at = "asking", !.old = C!NoFlow]] /\ orchestrator' = f
        \/ flow' = [flow EXCEPT ![f] = [C!Idle EXCEPT !.at = "failed", !.by = r.by]] /\ orchestrator' = C!NoFlow
    BY <2>1 DEF C!AfterShutdown
  <2>4. \A g \in C!Flows : g # f => flow'[g] = flow[g]
    BY <2>3 DEF ShapeOK
  <2>5. /\ flow'[f].at = IF orchestrator' = f THEN "asking" ELSE "failed"
        /\ flow'[f].by = r.by /\ flow'[f].old = C!NoFlow
        /\ flow'[f] \in FlowLike(flow'[f])
        /\ orchestrator' = f \/ orchestrator' = C!NoFlow
    <3> DEFINE p == [r EXCEPT !.at = "asking", !.old = C!NoFlow]
               q == [C!Idle EXCEPT !.at = "failed", !.by = r.by]
    <3>1. /\ p.at = "asking" /\ p.by = r.by /\ p.old = C!NoFlow /\ p \in FlowLike(p)
          /\ q.at = "failed" /\ q.by = r.by /\ q.old = C!NoFlow /\ q \in FlowLike(q)
      BY DEF FlowLike, FlowStages, C!Idle
    <3>2. \/ flow' = [flow EXCEPT ![f] = p] /\ orchestrator' = f
          \/ flow' = [flow EXCEPT ![f] = q] /\ orchestrator' = C!NoFlow
      BY <2>3
    <3> HIDE DEF p, q
    <3>3. (flow'[f] = p /\ orchestrator' = f) \/ (flow'[f] = q /\ orchestrator' = C!NoFlow)
      BY <3>2 DEF ShapeOK
    <3> QED
      BY <3>1, <3>3, FlowsAreNot
  <2>6. source' \in Sources
    BY <2>2 DEF Sources, Track, ShapeOK, C!Silent
  <2>7. \A g \in C!Flows : /\ source'[g].raw => (s[g].raw /\ source'[g].handle = s[g].handle)
                           /\ source'[g].sent => (s[g].sent /\ orchestrator # g)
    BY <2>2, FlowsAreNot DEF Sources, ShapeOK, C!Silent
  <2>8. orchestrator # C!NoFlow => ~source'[orchestrator].raw
    BY <2>2 DEF Sources, ShapeOK, C!Silent
  <2>9. flow' = [g \in C!Flows |-> flow'[g]]
    BY <2>3 DEF ShapeOK
  <2> QED
    BY <2>4, <2>5, <2>6, <2>7, <2>8, <2>9, FlowsAreNot DEF ShapeOK, ShutEffect
<1> QED
  BY <1>1, <1>2
-----------------------------------------------------------------------------
(* One lemma per step.                                                      *)

\* A publication that asks for a shutdown: a new one, or one that fails.
LEMMA ShutPreserves ==
  ASSUME CaptureInv, NEW f \in C!Flows, NEW r, r \in FlowLike(r), r.by \in C!Publishers,
  r.at \in Shutting,
         NEW s,
         C!ShutDown(f, r, s), C!Mic(f), flow[f].at \notin Shutting,
         \/ s = source
         \/ flow[f].at = "asking" /\ s = [source EXCEPT ![f].raw = TRUE],
         UNCHANGED <<conn, view, releasing>>, loose \subseteq loose', UiOK',
         \A g \in C!Flows : (g # f /\ C!Mic(g) /\ C!Under(g)) => {<<f, "overlap">>, <<g, "overlap">>} \subseteq loose',
         conn = "leaving" => <<f, "late">> \in loose',
         ~view => <<f, "late">> \in loose'
  PROVE  CaptureInv'
<1> USE FlowsAreNot
<1>0. ShapeOK
  BY DEF CaptureInv
<1>1. /\ s \in Sources
      /\ \A g \in C!Flows : /\ s[g].sent = source[g].sent /\ s[g].handle = source[g].handle
                            /\ s[g].raw = (source[g].raw \/ (g = f /\ s # source))
      /\ s # source => flow[f].at = "asking"
  <2>1. CASE s = source
    BY <1>0, <2>1 DEF ShapeOK, Sources, Track
  <2>2. CASE flow[f].at = "asking" /\ s = [source EXCEPT ![f].raw = TRUE]
    BY <1>0, <2>2 DEF ShapeOK, Sources, Track
  <2> QED
    BY <2>1, <2>2
<1>2. /\ ShutEffect(f, s)
      /\ source' \in Sources /\ orchestrator' \in C!Flows \cup {C!NoFlow}
      /\ flow' = [g \in C!Flows |-> flow'[g]] /\ \A g \in C!Flows : flow'[g] \in FlowLike(flow'[g])
  BY <1>0, <1>1, ShutDownEffect
<1>3. ShapeOK'
  BY <1>0, <1>2 DEF ShapeOK
<1>4. /\ C!Mic(f)' /\ \A g \in C!Flows : C!Mic(g)' <=> C!Mic(g)
      /\ \A g \in C!Flows : Loose(g) => Loose(g)'
      /\ \A g \in C!Flows : (g # f /\ C!Mic(g) /\ C!Under(g)) => (Loose(f)' /\ Loose(g)')
      /\ \A g \in C!Flows : g # f => (C!Under(g)' <=> C!Under(g))
      /\ flow[f].old = C!NoFlow
  BY <1>2 DEF ShutEffect, C!Mic, Loose, C!Escaped, C!Under, CaptureInv, OldWhileShutting
<1>5. OverlapIsKnown' /\ LeavingIsLate' /\ UnseenIsLate'
  BY <1>4 DEF CaptureInv, OverlapIsKnown, LeavingIsLate, UnseenIsLate
<1>6. LateIsKnown' /\ PublishingIsIn' /\ AskingIsIn'
  <2>1. \A g \in C!Flows : flow'[g].at \in {"late", "publishing"} \/ ~C!Mic(g)' => g # f
    BY <1>2, <1>4 DEF ShutEffect, Shutting
  <2>2. \A g \in C!Flows : g # f => (flow'[g] = flow[g] /\ (source'[g].raw => source[g].raw))
    BY <1>1, <1>2 DEF ShutEffect
  <2>3. LateIsKnown'
    BY <1>4, <2>1, <2>2 DEF CaptureInv, LateIsKnown
  <2>4. PublishingIsIn' /\ AskingIsIn'
    BY <1>4, <2>1, <2>2 DEF CaptureInv, PublishingIsIn, AskingIsIn
  <2> QED
    BY <2>3, <2>4
<1>7. AskerIsCurrent'
  BY <1>2, <1>4 DEF CaptureInv, AskerIsCurrent, ShutEffect, Shutting, C!Under
<1>8. ShutdownIsMic' /\ OldWhileShutting' /\ OrchestratorIsMic'
  BY <1>2, <1>4 DEF CaptureInv, ShutdownIsMic, OldWhileShutting, OrchestratorIsMic, ShutEffect,
     Shutting
<1>9. ShutdownKnows'
  <2> SUFFICES ASSUME NEW g \in C!Flows, NEW o \in C!Flows, flow'[g].at \in Shutting, orchestrator' = o,
                      source'[o].raw, ~Loose(o)'
               PROVE  flow'[g].old = o
    BY DEF ShutdownKnows
  <2>1. CASE g = f
    BY <1>2, <2>1 DEF ShutEffect, Shutting
  <2>2. CASE g # f
    <3>1. flow'[g] = flow[g] /\ C!Mic(g) /\ C!Under(g) /\ flow[g].at \in Shutting
      BY <1>2, <2>2 DEF ShutEffect, CaptureInv, ShutdownIsMic, C!Under, Shutting
    <3>2. o # f
      BY <1>4, <2>2, <3>1
    <3>3. orchestrator = o /\ source[o].raw /\ ~Loose(o)
      BY <1>1, <1>2, <1>4, <3>2 DEF ShutEffect
    <3> QED
      BY <3>1, <3>3 DEF CaptureInv, ShutdownKnows
  <2> QED
    BY <2>1, <2>2
<1>10. LeavingReleases'
  BY <1>2, <1>4 DEF CaptureInv, LeavingReleases, ShutEffect, Loose, C!Escaped
<1>11. IdleIsSilent'
  BY <1>1, <1>2 DEF CaptureInv, IdleIsSilent, ShutEffect, Shutting
<1>12. MicIsOwned'
  <2> SUFFICES ASSUME NEW g \in C!Flows, C!Mic(g)', source'[g].raw, ~Loose(g)'
               PROVE  \/ orchestrator' = g /\ (conn' # "off" \/ C!Under(g)')
                      \/ releasing' = g /\ conn' = "leaving"
                      \/ \E h \in C!Flows : C!Under(h)' /\ flow'[h].old = g
    BY DEF MicIsOwned
  <2>1. C!Mic(g) /\ ~Loose(g) /\ s[g].raw
    BY <1>2, <1>4 DEF ShutEffect
  <2>2. CASE orchestrator = g
    BY <1>2, <2>2 DEF ShutEffect, Shutting, C!Under
  <2>3. CASE orchestrator # g
    <3>1. source[g].raw
      BY <1>1, <2>1, <2>3 DEF CaptureInv, AskerIsCurrent
    <3>2. CASE releasing = g /\ conn = "leaving"
      BY <3>2
    <3>3. CASE \E h \in C!Flows : C!Under(h) /\ flow[h].old = g
      BY <1>2, <1>4, <3>3 DEF ShutEffect
    <3> QED
      BY <2>1, <2>3, <3>1, <3>2, <3>3 DEF CaptureInv, MicIsOwned
  <2> QED
    BY <2>2, <2>3
<1>13. VideoIsListed'
  BY <1>1, <1>2, <1>4 DEF CaptureInv, VideoIsListed, ShutEffect, C!Escaped
<1>14. SentIsCurrent'
  BY <1>1, <1>2, <1>4 DEF CaptureInv, SentIsCurrent, ShutEffect
<1> QED
  BY <1>3, <1>5, <1>6, <1>7, <1>8, <1>9, <1>10, <1>11, <1>12, <1>13, <1>14 DEF CaptureInv

\* A flow that publishes nothing: it fails at once, or is refused.
LEMMA FailurePreserves ==
  ASSUME CaptureInv, NEW f \in C!Flows, flow[f].at \notin Shutting,
         flow' = [flow EXCEPT ![f] = [C!Idle EXCEPT !.at = "failed", !.by = flow'[f].by]],
         flow'[f].by \in C!Publishers \cup C!Video, C!Mic(f)' <=> C!Mic(f),
         UNCHANGED <<conn, view, source, releasing, orchestrator>>, loose \subseteq loose', UiOK',
         ~C!Mic(f) => (ui' = ui /\ (source[f].raw => <<f, "refused">> \in loose')),
         C!Mic(f) => (conn = "off" /\ flow[f].at = "idle")
  PROVE  CaptureInv'
<1> USE FlowsAreNot
<1>1. /\ \A g \in C!Flows : g # f => flow'[g] = flow[g]
      /\ flow'[f].at = "failed" /\ flow'[f].old = C!NoFlow
      /\ flow'[f] \in FlowLike(flow'[f])
  BY DEF CaptureInv, ShapeOK, C!Idle, FlowLike, FlowStages
<1>2. ShapeOK'
  BY <1>1 DEF CaptureInv, ShapeOK
<1>3. /\ \A g \in C!Flows : C!Mic(g)' <=> C!Mic(g)
      /\ \A g \in C!Flows : Loose(g) => Loose(g)'
      /\ \A g \in C!Flows : C!Under(g)' => (g # f /\ C!Under(g))
      /\ \A g \in C!Flows : g # f => (C!Under(g)' <=> C!Under(g))
      /\ flow[f].old = C!NoFlow
  BY <1>1 DEF C!Mic, Loose, C!Escaped, C!Under, CaptureInv, OldWhileShutting
<1>4. OverlapIsKnown' /\ LeavingIsLate' /\ UnseenIsLate'
  BY <1>3 DEF CaptureInv, OverlapIsKnown, LeavingIsLate, UnseenIsLate
<1>5. LateIsKnown' /\ PublishingIsIn' /\ AskingIsIn' /\ AskerIsCurrent'
  BY <1>1, <1>3 DEF CaptureInv, LateIsKnown, PublishingIsIn, AskingIsIn, AskerIsCurrent
<1>6. ShutdownIsMic' /\ ShutdownKnows' /\ OldWhileShutting' /\ OrchestratorIsMic'
  <2>1. ShutdownIsMic' /\ OldWhileShutting'
    BY <1>1, <1>3 DEF CaptureInv, ShutdownIsMic, OldWhileShutting, Shutting
  <2>2. OrchestratorIsMic'
    BY <1>1, <1>3 DEF CaptureInv, ShapeOK, OrchestratorIsMic
  <2>3. ShutdownKnows'
    BY <1>1, <1>3 DEF CaptureInv, ShutdownKnows, Shutting
  <2> QED
    BY <2>1, <2>2, <2>3
<1>7. LeavingReleases' /\ IdleIsSilent'
  BY <1>1, <1>3 DEF CaptureInv, LeavingReleases, IdleIsSilent, Loose, C!Escaped
<1>8. MicIsOwned'
  BY <1>1, <1>3 DEF CaptureInv, MicIsOwned, IdleIsSilent
<1>9. VideoIsListed'
  BY <1>1, <1>3 DEF CaptureInv, VideoIsListed, C!Escaped
<1>10. SentIsCurrent'
  <2>1. CASE C!Mic(f)
    BY <1>1, <1>3, <2>1 DEF CaptureInv, SentIsCurrent
  <2>2. CASE ~C!Mic(f)
    BY <1>1, <1>3, <2>2 DEF CaptureInv, SentIsCurrent
  <2> QED
    BY <2>1, <2>2
<1> QED
  BY <1>2, <1>4, <1>5, <1>6, <1>7, <1>8, <1>9, <1>10 DEF CaptureInv

\* A shutdown that is done.
LEMMA ShutdownEndsPreserves ==
  ASSUME CaptureInv, NEW f \in C!Flows, C!ShutdownEnds(f)
  PROVE  CaptureInv'
<1> USE FlowsAreNot
<1> DEFINE o == flow[f].old
<1>0. /\ ShapeOK /\ flow[f].at \in Shutting /\ C!Mic(f) /\ C!Under(f)
      /\ UNCHANGED <<conn, view, releasing, ui, loose>>
      /\ flow[f] \in FlowLike(flow[f]) /\ o \in C!Flows \cup {C!NoFlow}
  BY DEF CaptureInv, ShapeOK, C!ShutdownEnds, ShutdownIsMic, Shutting, C!Under, FlowLike
<1>1. source' = C!Emptied(source, o)
  BY DEF C!ShutdownEnds, C!AfterShutdown
<1>2. /\ source' \in Sources
      /\ \A g \in C!Flows : (source'[g].raw \/ source'[g].sent) => (g # o /\ source'[g] = source[g])
  BY <1>0, <1>1 DEF C!Emptied, ShapeOK, Sources, Track, C!Silent
<1>3. /\ \A g \in C!Flows : g # f => flow'[g] = flow[g]
      /\ flow'[f].at \in {"asking", "failed"} /\ flow'[f].by = flow[f].by /\ flow'[f].old = C!NoFlow
      /\ flow'[f] \in FlowLike(flow'[f])
      /\ orchestrator' = IF flow'[f].at = "asking" THEN f ELSE C!NoFlow
      /\ flow' = [g \in C!Flows |-> flow'[g]]
  <2> DEFINE p == [flow[f] EXCEPT !.at = "asking", !.old = C!NoFlow]
             q == [C!Idle EXCEPT !.at = "failed", !.by = flow[f].by]
  <2>1. /\ p.at = "asking" /\ p.by = flow[f].by /\ p.old = C!NoFlow /\ p \in FlowLike(p)
        /\ q.at = "failed" /\ q.by = flow[f].by /\ q.old = C!NoFlow /\ q \in FlowLike(q)
    BY <1>0 DEF FlowLike, FlowStages, C!Idle
  <2>2. \/ flow' = [flow EXCEPT ![f] = p] /\ orchestrator' = f
        \/ flow' = [flow EXCEPT ![f] = q] /\ orchestrator' = C!NoFlow
    BY DEF C!ShutdownEnds, C!AfterShutdown
  <2> HIDE DEF p, q
  <2> QED
    BY <1>0, <2>1, <2>2 DEF ShapeOK
<1>4. ShapeOK'
  BY <1>0, <1>2, <1>3 DEF ShapeOK, UiOK
<1>5. /\ \A g \in C!Flows : C!Mic(g)' <=> C!Mic(g)
      /\ \A g \in C!Flows : Loose(g)' <=> Loose(g)
      /\ \A g \in C!Flows : C!Under(g)' => C!Under(g)
      /\ \A g \in C!Flows : g # f => (C!Under(g)' <=> C!Under(g))
      /\ \A g \in C!Flows : (g # f /\ C!Mic(g) /\ C!Under(g)) => (Loose(f) /\ Loose(g))
  BY <1>0, <1>3 DEF C!Mic, Loose, C!Escaped, C!Under, CaptureInv, OverlapIsKnown
<1>6. OverlapIsKnown' /\ LeavingIsLate' /\ UnseenIsLate'
  BY <1>0, <1>5 DEF CaptureInv, OverlapIsKnown, LeavingIsLate, UnseenIsLate
<1>7. LateIsKnown' /\ PublishingIsIn' /\ AskingIsIn'
  <2>1. \A g \in C!Flows : (flow'[g].at \in {"late", "publishing"} \/ ~C!Mic(g)') => flow'[g] = flow[g]
    BY <1>0, <1>3, <1>5
  <2> QED
    BY <1>0, <1>2, <1>5, <2>1 DEF CaptureInv, LateIsKnown, PublishingIsIn, AskingIsIn
<1>8. AskerIsCurrent'
  BY <1>0, <1>3, <1>5 DEF CaptureInv, AskerIsCurrent, C!Under
<1>9. ShutdownIsMic' /\ OldWhileShutting' /\ OrchestratorIsMic'
  BY <1>0, <1>3, <1>5 DEF CaptureInv, ShutdownIsMic, OldWhileShutting, OrchestratorIsMic, Shutting
<1>10. ShutdownKnows'
  <2> SUFFICES ASSUME NEW g \in C!Flows, NEW h \in C!Flows, flow'[g].at \in Shutting, orchestrator' = h,
                      source'[h].raw, ~Loose(h)'
               PROVE  FALSE
    BY DEF ShutdownKnows
  <2>1. g # f /\ h = f /\ C!Mic(g) /\ C!Under(g)
    BY <1>0, <1>3 DEF CaptureInv, ShutdownIsMic, Shutting, C!Under
  <2> QED
    BY <1>5, <2>1
<1>11. LeavingReleases'
  BY <1>0, <1>3, <1>5 DEF CaptureInv, LeavingReleases, LeavingIsLate, Loose, C!Escaped
<1>12. IdleIsSilent'
  BY <1>2, <1>3 DEF CaptureInv, IdleIsSilent
<1>13. MicIsOwned'
  <2> SUFFICES ASSUME NEW g \in C!Flows, C!Mic(g)', source'[g].raw, ~Loose(g)'
               PROVE  \/ releasing' = g /\ conn' = "leaving"
                      \/ \E h \in C!Flows : C!Under(h)' /\ flow'[h].old = g
    BY DEF MicIsOwned
  <2>1. C!Mic(g) /\ ~Loose(g) /\ source[g].raw /\ g # o
    BY <1>2, <1>5
  <2>2. orchestrator # g
    BY <1>0, <2>1 DEF CaptureInv, ShutdownKnows
  <2>3. CASE releasing = g /\ conn = "leaving"
    BY <1>0, <2>3
  <2>4. CASE \E h \in C!Flows : C!Under(h) /\ flow[h].old = g
    BY <1>3, <1>5, <2>1, <2>4
  <2> QED
    BY <2>1, <2>2, <2>3, <2>4 DEF CaptureInv, MicIsOwned
<1>14. VideoIsListed'
  BY <1>0, <1>2, <1>5 DEF CaptureInv, VideoIsListed, C!Escaped
<1>15. SentIsCurrent'
  BY <1>0, <1>2, <1>5 DEF CaptureInv, SentIsCurrent
<1> QED
  BY <1>4, <1>6, <1>7, <1>8, <1>9, <1>10, <1>11, <1>12, <1>13, <1>14, <1>15 DEF CaptureInv

\* The browser gives the device, and what follows is a publication.
LEMMA GrantedPreserves ==
  ASSUME CaptureInv, NEW f \in C!Flows, flow[f].at \in {"asking", "late"},
         NEW at \in {"refused", "publishing"}, flow' = [flow EXCEPT ![f].at = at],
         at = "publishing" => (flow[f].at = "asking" /\ conn # "lost" /\ ~(C!Mic(f) /\ conn = "off")),
         source' = [source EXCEPT ![f].raw = TRUE],
         UNCHANGED <<conn, view, releasing, orchestrator, ui, loose>>
  PROVE  CaptureInv'
<1> USE FlowsAreNot
<1>1. /\ \A g \in C!Flows : g # f => flow'[g] = flow[g]
      /\ flow'[f].at = at /\ flow'[f].by = flow[f].by /\ flow'[f].old = flow[f].old
      /\ flow'[f] \in FlowLike(flow'[f]) /\ flow' = [g \in C!Flows |-> flow'[g]]
  BY DEF CaptureInv, ShapeOK, FlowLike, FlowStages
<1>2. /\ source' \in Sources
      /\ \A g \in C!Flows : /\ source'[g].raw = (source[g].raw \/ g = f)
                            /\ source'[g].sent = source[g].sent /\ source'[g].handle = source[g].handle
                            /\ source'[g].muted = source[g].muted
  BY DEF CaptureInv, ShapeOK, Sources, Track
<1>3. ShapeOK'
  BY <1>1, <1>2 DEF CaptureInv, ShapeOK, UiOK
<1>4. /\ \A g \in C!Flows : C!Mic(g)' <=> C!Mic(g)
      /\ \A g \in C!Flows : Loose(g)' <=> Loose(g)
      /\ \A g \in C!Flows : C!Under(g)' <=> C!Under(g)
      /\ C!Under(f)
      /\ C!Mic(f) => (flow[f].at = "asking" /\ (orchestrator = f \/ Loose(f)))
  BY <1>1 DEF C!Mic, Loose, C!Escaped, C!Under, CaptureInv, LateIsKnown, AskerIsCurrent
<1>5. OverlapIsKnown' /\ LeavingIsLate' /\ UnseenIsLate'
  BY <1>4 DEF CaptureInv, OverlapIsKnown, LeavingIsLate, UnseenIsLate
<1>6. LateIsKnown' /\ AskingIsIn' /\ AskerIsCurrent'
  BY <1>1, <1>2, <1>4 DEF CaptureInv, LateIsKnown, AskingIsIn, AskerIsCurrent
<1>7. PublishingIsIn'
  BY <1>1, <1>4 DEF CaptureInv, ShapeOK, PublishingIsIn, AskingIsIn
<1>8. ShutdownIsMic' /\ OldWhileShutting' /\ OrchestratorIsMic'
  BY <1>1, <1>4 DEF CaptureInv, ShapeOK, ShutdownIsMic, OldWhileShutting, OrchestratorIsMic,
     Shutting
<1>9. ShutdownKnows'
  <2> SUFFICES ASSUME NEW g \in C!Flows, NEW o \in C!Flows, flow'[g].at \in Shutting, orchestrator = o,
                      source'[o].raw, ~Loose(o)
               PROVE  flow'[g].old = o
    BY <1>4 DEF ShutdownKnows
  <2>1. g # f /\ flow'[g] = flow[g] /\ C!Mic(g) /\ C!Under(g)
    BY <1>1 DEF CaptureInv, ShutdownIsMic, Shutting, C!Under
  <2>2. o # f
    BY <1>4, <2>1 DEF CaptureInv, OrchestratorIsMic, OverlapIsKnown, Loose, C!Escaped
  <2> QED
    BY <1>2, <2>1, <2>2 DEF CaptureInv, ShutdownKnows
<1>10. LeavingReleases' /\ IdleIsSilent'
  BY <1>1, <1>2, <1>4 DEF CaptureInv, LeavingReleases, IdleIsSilent, Loose, C!Escaped
<1>11. MicIsOwned'
  <2> SUFFICES ASSUME NEW g \in C!Flows, C!Mic(g), source'[g].raw, ~Loose(g)
               PROVE  \/ orchestrator = g /\ (conn # "off" \/ C!Under(g))
                      \/ releasing = g /\ conn = "leaving"
                      \/ \E h \in C!Flows : C!Under(h) /\ flow[h].old = g
    BY <1>1, <1>4 DEF MicIsOwned
  <2>1. CASE g = f
    BY <1>4, <2>1
  <2>2. CASE g # f
    BY <1>2, <2>2 DEF CaptureInv, MicIsOwned
  <2> QED
    BY <2>1, <2>2
<1>12. VideoIsListed'
  BY <1>2, <1>4 DEF CaptureInv, VideoIsListed, C!Escaped
<1>13. SentIsCurrent'
  BY <1>2, <1>4 DEF CaptureInv, SentIsCurrent
<1> QED
  BY <1>3, <1>5, <1>6, <1>7, <1>8, <1>9, <1>10, <1>11, <1>12, <1>13 DEF CaptureInv

\* LiveKit publishes: the flow succeeds.
LEMMA PublishedPreserves ==
  ASSUME CaptureInv, NEW f \in C!Flows, C!Published(f)
  PROVE  CaptureInv'
<1> USE FlowsAreNot
<1>0. /\ ShapeOK /\ flow[f].at = "publishing" /\ C!Under(f) /\ flow[f].old = C!NoFlow
      /\ flow[f] \in FlowLike(flow[f])
      /\ UNCHANGED <<conn, view, releasing, orchestrator, loose>>
      /\ conn \in {"on", "leaving"}
      /\ C!Mic(f) => (orchestrator = f \/ Loose(f))
  BY DEF CaptureInv, ShapeOK, C!Published, C!Under, OldWhileShutting, Shutting, PublishingIsIn,
     AskerIsCurrent
<1>1. /\ \A g \in C!Flows : g # f => flow'[g] = flow[g]
      /\ flow'[f].at = "done" /\ flow'[f].by = flow[f].by /\ flow'[f].old = C!NoFlow
      /\ flow'[f] \in FlowLike(flow'[f]) /\ flow' = [g \in C!Flows |-> flow'[g]]
  <2> DEFINE q == [C!Idle EXCEPT !.at = "done", !.by = flow[f].by]
  <2>1. /\ q.at = "done" /\ q.by = flow[f].by /\ q.old = C!NoFlow /\ q \in FlowLike(q)
    BY <1>0 DEF FlowLike, FlowStages, C!Idle
  <2>2. flow' = [flow EXCEPT ![f] = q]
    BY DEF C!Published, C!Ended
  <2> HIDE DEF q
  <2> QED
    BY <1>0, <2>1, <2>2 DEF ShapeOK
<1>2. /\ source' \in Sources
      /\ \A g \in C!Flows : g # f => source'[g] = source[g]
      /\ source'[f].raw = source[f].raw /\ source'[f].handle
  <2> DEFINE t == [source[f] EXCEPT !.live = C!Mic(f), !.handle = TRUE, !.sent = source[f].raw]
  <2>1. source' = [source EXCEPT ![f] = t]
    BY DEF C!Published
  <2>2. t \in Track /\ t.raw = source[f].raw /\ t.handle
    <3>1. source[f] \in Track /\ C!Mic(f) \in BOOLEAN
      BY <1>0 DEF ShapeOK, Sources, C!Mic
    <3> QED
      BY <3>1 DEF Track
  <2> HIDE DEF t
  <2> QED
    BY <1>0, <2>1, <2>2 DEF ShapeOK, Sources
<1>3. UiOK' /\ (C!Mic(f) => ui'.on \/ ~view) /\ (~C!Mic(f) => ui'.on = ui.on)
  <2>1. CASE ~view
    BY <1>0, <2>1 DEF C!Published, ShapeOK, UiOK
  <2>2. CASE view
    <3>1. ui' = C!Shows(f)
      BY <2>2 DEF C!Published
    <3> DEFINE on == [ui EXCEPT !.on = TRUE, !.published = TRUE]
    <3>2. on \in [on : BOOLEAN, deafened : {on.deafened}, before : {on.before}, published : {on.published},
                  auto : {on.auto}, applied : {on.applied}, input : {on.input}, stale : {on.stale},
                  shown : {on.shown}] /\ on.on
      BY <1>0 DEF ShapeOK, UiOK
    <3>3. CASE flow[f].by \in C!Video
      <4>1. ui' = [ui EXCEPT !.shown = @ \cup {flow[f].by}]
        BY <3>1, <3>3 DEF C!Shows, C!Video
      <4> QED
        BY <1>0, <3>3, <4>1 DEF ShapeOK, UiOK, C!Mic, C!Video, C!Publishers
    <3>4. CASE flow[f].by = "auto"
      <4>1. ui' = on
        BY <3>1, <3>4 DEF C!Shows, C!Video
      <4> QED
        BY <3>2, <3>4, <4>1 DEF UiOK, C!Mic, C!Publishers
    <3>5. CASE flow[f].by = "toggle"
      <4>1. ui' = IF flow[f].undeafen THEN [on EXCEPT !.deafened = FALSE, !.before = TRUE] ELSE on
        BY <3>1, <3>5 DEF C!Shows, C!Video
      <4> QED
        BY <1>0, <3>5, <4>1 DEF ShapeOK, UiOK, C!Mic, C!Publishers
    <3>6. CASE flow[f].by \in {"pick", "apply"}
      <4>1. ui' = [on EXCEPT !.applied = flow[f].input]
        BY <3>1, <3>6 DEF C!Shows, C!Video
      <4> QED
        BY <1>0, <3>6, <4>1 DEF ShapeOK, UiOK, C!Mic, C!Publishers
    <3> QED
      BY <1>0, <3>3, <3>4, <3>5, <3>6 DEF FlowLike, C!Publishers
  <2> QED
    BY <2>1, <2>2
<1>4. ShapeOK'
  BY <1>0, <1>1, <1>2, <1>3 DEF ShapeOK
<1>5. /\ \A g \in C!Flows : C!Mic(g)' <=> C!Mic(g)
      /\ \A g \in C!Flows : Loose(g)' <=> Loose(g)
      /\ \A g \in C!Flows : C!Under(g)' => (g # f /\ C!Under(g))
      /\ \A g \in C!Flows : g # f => (C!Under(g)' <=> C!Under(g))
  BY <1>0, <1>1 DEF C!Mic, Loose, C!Escaped, C!Under
<1>6. OverlapIsKnown' /\ LeavingIsLate' /\ UnseenIsLate'
  BY <1>0, <1>5 DEF CaptureInv, OverlapIsKnown, LeavingIsLate, UnseenIsLate
<1>7. LateIsKnown' /\ PublishingIsIn' /\ AskingIsIn' /\ AskerIsCurrent'
  BY <1>0, <1>1, <1>2, <1>5 DEF CaptureInv, LateIsKnown, PublishingIsIn, AskingIsIn, AskerIsCurrent
<1>8. ShutdownIsMic' /\ OldWhileShutting' /\ OrchestratorIsMic'
  BY <1>0, <1>1, <1>5 DEF CaptureInv, ShapeOK, ShutdownIsMic, OldWhileShutting, OrchestratorIsMic,
     Shutting
<1>9. ShutdownKnows'
  <2>1. \A g \in C!Flows : flow'[g].at \in Shutting => flow'[g] = flow[g]
    BY <1>1 DEF Shutting
  <2>2. \A g \in C!Flows : source'[g].raw = source[g].raw
    BY <1>2
  <2> QED
    BY <1>0, <1>5, <2>1, <2>2 DEF CaptureInv, ShutdownKnows
<1>10. LeavingReleases' /\ IdleIsSilent'
  BY <1>0, <1>1, <1>2, <1>5 DEF CaptureInv, LeavingReleases, IdleIsSilent, Loose, C!Escaped
<1>11. MicIsOwned'
  <2> SUFFICES ASSUME NEW g \in C!Flows, C!Mic(g), source[g].raw, ~Loose(g)
               PROVE  \/ orchestrator = g /\ (conn # "off" \/ C!Under(g)')
                      \/ releasing = g /\ conn = "leaving"
                      \/ \E h \in C!Flows : C!Under(h)' /\ flow'[h].old = g
    BY <1>0, <1>2, <1>5 DEF MicIsOwned
  <2>1. CASE \E h \in C!Flows : C!Under(h) /\ flow[h].old = g
    BY <1>0, <1>1, <1>5, <2>1
  <2>2. CASE orchestrator = g /\ (conn # "off" \/ C!Under(g))
    BY <1>0, <2>2
  <2> QED
    BY <2>1, <2>2 DEF CaptureInv, MicIsOwned
<1>12. VideoIsListed'
  BY <1>0, <1>2, <1>5 DEF CaptureInv, VideoIsListed, C!Escaped
<1>13. SentIsCurrent'
  <2> SUFFICES ASSUME NEW g \in C!Flows, C!Mic(g), source'[g].sent, ~Loose(g)
               PROVE  /\ orchestrator = g /\ conn = "on" /\ source'[g].handle
                      /\ ui'.on \/ source'[g].muted
                      /\ \A h \in C!Flows : ~(C!Mic(h) /\ C!Under(h)')
    BY <1>0, <1>5 DEF SentIsCurrent
  <2>1. CASE g = f
    <3>1. conn = "on" /\ view
      BY <1>0, <2>1 DEF CaptureInv, LeavingIsLate, UnseenIsLate, Loose, C!Escaped
    <3>2. \A h \in C!Flows : ~(C!Mic(h) /\ C!Under(h)')
      BY <1>0, <1>5, <2>1 DEF CaptureInv, OverlapIsKnown, Loose, C!Escaped
    <3> QED
      BY <1>0, <1>2, <1>3, <2>1, <3>1, <3>2
  <2>2. CASE g # f
    <3>1. source'[g] = source[g]
      BY <1>2, <2>2
    <3>2. /\ orchestrator = g /\ conn = "on" /\ source[g].handle
          /\ ui.on \/ source[g].muted
          /\ \A h \in C!Flows : ~(C!Mic(h) /\ C!Under(h))
      BY <3>1 DEF CaptureInv, SentIsCurrent
    <3> QED
      BY <1>0, <1>3, <1>5, <3>1, <3>2
  <2> QED
    BY <2>1, <2>2
<1> QED
  BY <1>4, <1>6, <1>7, <1>8, <1>9, <1>10, <1>11, <1>12, <1>13 DEF CaptureInv

\* A video is asked for.
LEMMA StartVideoPreserves ==
  ASSUME CaptureInv, NEW f \in C!Flows, NEW k \in C!Video, C!StartVideo(f, k)
  PROVE  CaptureInv'
<1> USE FlowsAreNot
<1>0. /\ ShapeOK /\ view /\ conn # "off" /\ flow[f] = C!Idle
      /\ flow[f].at = "idle" /\ flow[f].old = C!NoFlow /\ ~source[f].raw /\ ~source[f].sent
      /\ orchestrator # f
      /\ UNCHANGED <<conn, view, source, releasing, orchestrator, ui, loose>>
  BY DEF CaptureInv, C!StartVideo, C!Does, C!Fresh, C!Idle, IdleIsSilent, OrchestratorIsMic
<1>1. /\ \A g \in C!Flows : g # f => flow'[g] = flow[g]
      /\ flow'[f].at = "asking" /\ flow'[f].by = k /\ flow'[f].old = C!NoFlow
      /\ flow'[f] \in FlowLike(flow'[f]) /\ flow' = [g \in C!Flows |-> flow'[g]]
  <2> DEFINE q == [C!Idle EXCEPT !.at = "asking", !.by = k]
  <2>1. /\ q.at = "asking" /\ q.by = k /\ q.old = C!NoFlow /\ q \in FlowLike(q)
    BY DEF FlowLike, FlowStages, C!Idle
  <2>2. flow' = [flow EXCEPT ![f] = q]
    BY DEF C!StartVideo
  <2> HIDE DEF q
  <2> QED
    BY <1>0, <2>1, <2>2 DEF ShapeOK
<1>2. ShapeOK'
  BY <1>0, <1>1 DEF ShapeOK, UiOK
<1>3. /\ \A g \in C!Flows : C!Mic(g)' => (g # f /\ C!Mic(g))
      /\ \A g \in C!Flows : g # f => (C!Mic(g)' <=> C!Mic(g))
      /\ \A g \in C!Flows : Loose(g)' <=> Loose(g)
      /\ \A g \in C!Flows : g # f => (C!Under(g)' <=> C!Under(g))
      /\ C!Under(f)'
  BY <1>0, <1>1 DEF C!Mic, Loose, C!Escaped, C!Under, C!Publishers, C!Video
<1>4. OverlapIsKnown' /\ LeavingIsLate' /\ UnseenIsLate'
  BY <1>0, <1>3 DEF CaptureInv, OverlapIsKnown, LeavingIsLate, UnseenIsLate
<1>5. LateIsKnown' /\ PublishingIsIn' /\ AskingIsIn' /\ AskerIsCurrent'
  BY <1>0, <1>1, <1>3 DEF CaptureInv, LateIsKnown, PublishingIsIn, AskingIsIn, AskerIsCurrent
<1>6. ShutdownIsMic' /\ OldWhileShutting' /\ OrchestratorIsMic'
  BY <1>0, <1>1, <1>3 DEF CaptureInv, ShapeOK, ShutdownIsMic, OldWhileShutting, OrchestratorIsMic,
     Shutting
<1>7. ShutdownKnows'
  <2>1. \A g \in C!Flows : flow'[g].at \in Shutting => flow'[g] = flow[g]
    BY <1>1 DEF Shutting
  <2> QED
    BY <1>0, <1>3, <2>1 DEF CaptureInv, ShutdownKnows
<1>8. LeavingReleases' /\ IdleIsSilent'
  BY <1>0, <1>1, <1>3 DEF CaptureInv, LeavingReleases, IdleIsSilent, Loose, C!Escaped
<1>9. MicIsOwned'
  <2> SUFFICES ASSUME NEW g \in C!Flows, g # f, C!Mic(g), source[g].raw, ~Loose(g)
               PROVE  \/ orchestrator = g /\ (conn # "off" \/ C!Under(g)')
                      \/ releasing = g /\ conn = "leaving"
                      \/ \E h \in C!Flows : C!Under(h)' /\ flow'[h].old = g
    BY <1>0, <1>3 DEF MicIsOwned
  <2>1. CASE \E h \in C!Flows : C!Under(h) /\ flow[h].old = g
    BY <1>0, <1>1, <1>3, <2>1
  <2>2. CASE orchestrator = g /\ (conn # "off" \/ C!Under(g))
    BY <1>0, <2>2
  <2> QED
    BY <2>1, <2>2 DEF CaptureInv, MicIsOwned
<1>10. VideoIsListed'
  BY <1>0, <1>3 DEF CaptureInv, VideoIsListed, C!Escaped
<1>11. SentIsCurrent'
  BY <1>0, <1>3 DEF CaptureInv, SentIsCurrent
<1> QED
  BY <1>2, <1>4, <1>5, <1>6, <1>7, <1>8, <1>9, <1>10, <1>11 DEF CaptureInv

\* What only the view does: buttons, preferences, a video that is stopped.
LEMMA ViewPreserves ==
  ASSUME CaptureInv, UNCHANGED <<conn, view, flow, releasing, orchestrator, loose>>,
         source' \in Sources, UiOK',
         \A g \in C!Flows : /\ source'[g].raw => (source[g].raw /\ source'[g].handle = source[g].handle)
                            /\ source'[g].sent => (source[g].sent /\ source'[g].handle = source[g].handle),
         \A g \in C!Flows :
           (conn = "on" /\ orchestrator = g /\ source'[g].sent /\ (ui.on \/ source[g].muted))
             => (ui'.on \/ source'[g].muted)
  PROVE  CaptureInv'
<1>1. ShapeOK'
  BY DEF CaptureInv, ShapeOK
<1>2. /\ \A g \in C!Flows : C!Mic(g)' <=> C!Mic(g)
      /\ \A g \in C!Flows : Loose(g)' <=> Loose(g)
      /\ \A g \in C!Flows : C!Under(g)' <=> C!Under(g)
  BY DEF C!Mic, Loose, C!Escaped, C!Under
<1>3. OverlapIsKnown' /\ LeavingIsLate' /\ UnseenIsLate'
  BY <1>2 DEF CaptureInv, OverlapIsKnown, LeavingIsLate, UnseenIsLate
<1>4. LateIsKnown' /\ PublishingIsIn' /\ AskingIsIn' /\ AskerIsCurrent'
  BY <1>2 DEF CaptureInv, LateIsKnown, PublishingIsIn, AskingIsIn, AskerIsCurrent
<1>5. ShutdownIsMic' /\ ShutdownKnows' /\ OldWhileShutting' /\ OrchestratorIsMic' /\ LeavingReleases'
  <2>1. ShutdownIsMic' /\ OldWhileShutting' /\ LeavingReleases'
    BY <1>2 DEF CaptureInv, ShutdownIsMic, OldWhileShutting, LeavingReleases, Loose, C!Escaped
  <2>2. ShutdownKnows'
    BY <1>2 DEF CaptureInv, ShutdownKnows
  <2>3. OrchestratorIsMic'
    BY <1>2 DEF CaptureInv, ShapeOK, OrchestratorIsMic
  <2> QED
    BY <2>1, <2>2, <2>3
<1>6. IdleIsSilent' /\ MicIsOwned' /\ VideoIsListed'
  BY <1>2 DEF CaptureInv, IdleIsSilent, MicIsOwned, VideoIsListed, C!Escaped
<1>7. SentIsCurrent'
  BY <1>2 DEF CaptureInv, SentIsCurrent
<1> QED
  BY <1>1, <1>3, <1>4, <1>5, <1>6, <1>7 DEF CaptureInv

-----------------------------------------------------------------------------
(* The room.                                                                *)

\* A shutdown that is done leaves nothing of the orchestrator.
LEMMA EmptiedFacts ==
  ASSUME NEW s \in Sources, NEW o \in C!Flows \cup {C!NoFlow}
  PROVE  /\ C!Emptied(s, o) \in Sources
         /\ \A g \in C!Flows : C!Emptied(s, o)[g] = IF g = o THEN C!Silent ELSE s[g]
BY FlowsAreNot DEF C!Emptied, Sources, Track, C!Silent

\* LiveKit stops what it sends, and a video that it listed.
LEMMA CutFacts ==
  ASSUME NEW s \in Sources
  PROVE  /\ C!Cut(s) \in Sources
         /\ \A g \in C!Flows : /\ C!Cut(s)[g].handle = s[g].handle
                               /\ C!Cut(s)[g].raw => (s[g].raw /\ (s[g].handle => C!Mic(g)))
                               /\ C!Cut(s)[g].sent => (s[g].sent /\ ~s[g].handle)
<1> DEFINE t(g) == [s[g] EXCEPT !.sent = FALSE, !.raw = s[g].raw /\ C!Mic(g)]
<1>1. ASSUME NEW g \in C!Flows
      PROVE  t(g) \in Track /\ t(g).handle = s[g].handle /\ (t(g).raw => (s[g].raw /\ C!Mic(g))) /\ t(g).sent = FALSE
  <2>1. s[g] \in Track /\ C!Mic(g) \in BOOLEAN
    BY DEF Sources, C!Mic
  <2> QED
    BY <2>1 DEF Track
<1>2. C!Cut(s) = [g \in C!Flows |-> IF s[g].handle THEN t(g) ELSE s[g]]
  BY DEF C!Cut
<1> HIDE DEF t
<1>3. \A g \in C!Flows : C!Cut(s)[g] = IF s[g].handle THEN t(g) ELSE s[g]
  BY <1>2
<1>4. C!Cut(s) \in Sources
  BY <1>1, <1>2 DEF Sources
<1>5. ASSUME NEW g \in C!Flows
      PROVE  /\ C!Cut(s)[g].handle = s[g].handle
             /\ C!Cut(s)[g].raw => (s[g].raw /\ (s[g].handle => C!Mic(g)))
             /\ C!Cut(s)[g].sent => (s[g].sent /\ ~s[g].handle)
  <2>1. CASE s[g].handle
    BY <1>1, <1>3, <2>1
  <2>2. CASE ~s[g].handle
    BY <1>3, <2>2
  <2> QED
    BY <2>1, <2>2
<1> QED
  BY <1>4, <1>5

\* Leaving stops what is listed, and takes down the current orchestrator.
LEMMA ReleasedFacts ==
  ASSUME ShapeOK
  PROVE  /\ C!Released(source) \in Sources
         /\ \A g \in C!Flows :
              /\ C!Released(source)[g].raw => /\ source[g].raw /\ (source[g].handle => C!Mic(g) \/ orchestrator = g)
                                              /\ C!Released(source)[g].handle = source[g].handle
              /\ C!Released(source)[g].sent => (source[g].sent /\ ~source[g].handle)
<1> DEFINE s == [f \in C!Flows |-> IF ~source[f].handle THEN source[f]
                                   ELSE IF C!Mic(f) THEN [source[f] EXCEPT !.sent = FALSE] ELSE C!Silent]
           t(o) == [s[o] EXCEPT !.raw = s[o].raw /\ s[o].live, !.live = FALSE, !.sent = FALSE]
<1>1. /\ s \in Sources
      /\ \A g \in C!Flows : /\ s[g].raw => (source[g].raw /\ (source[g].handle => C!Mic(g)) /\ s[g].handle = source[g].handle)
                            /\ s[g].sent => (source[g].sent /\ ~source[g].handle)
  BY DEF ShapeOK, Sources, Track, C!Silent
<1>2. C!Released(source) = C!TakenDown(s, orchestrator)
  BY DEF C!Released
<1> HIDE DEF s
<1>3. CASE orchestrator = C!NoFlow
  BY <1>1, <1>2, <1>3 DEF C!TakenDown
<1>4. CASE orchestrator # C!NoFlow
  <2> DEFINE o == orchestrator
  <2>1. o \in C!Flows /\ s[o] \in Track
    BY <1>1, <1>4 DEF ShapeOK, Sources
  <2>2. t(o) \in Track /\ (t(o).raw => s[o].raw) /\ t(o).handle = s[o].handle /\ ~t(o).sent
    BY <2>1 DEF Track
  <2>3. C!Released(source) = [s EXCEPT ![o] = t(o)]
    BY <1>2, <1>4 DEF C!TakenDown
  <2> HIDE DEF t
  <2> QED
    BY <1>1, <2>1, <2>2, <2>3 DEF Sources
<1> QED
  BY <1>3, <1>4

\* The user leaves.
LEMMA LeaveStartsPreserves ==
  ASSUME CaptureInv, C!LeaveStarts
  PROVE  CaptureInv'
<1> USE FlowsAreNot
<1>0. /\ ShapeOK /\ view /\ conn # "leaving" /\ conn # "off" /\ conn' = "leaving" /\ releasing' = orchestrator
      /\ loose' = loose \cup C!Late /\ source' = C!Released(source)
      /\ UNCHANGED <<view, flow, orchestrator, ui>>
  BY DEF CaptureInv, C!LeaveStarts
<1>1. /\ source' \in Sources
      /\ \A g \in C!Flows : /\ source'[g].raw => /\ source[g].raw /\ (source[g].handle => C!Mic(g) \/ orchestrator = g)
                                                 /\ source'[g].handle = source[g].handle
                            /\ source'[g].sent => (source[g].sent /\ ~source[g].handle)
  BY <1>0, ReleasedFacts
<1>2. ShapeOK'
  BY <1>0, <1>1 DEF ShapeOK, UiOK
<1>3. /\ \A g \in C!Flows : C!Mic(g)' <=> C!Mic(g)
      /\ \A g \in C!Flows : Loose(g) => Loose(g)'
      /\ \A g \in C!Flows : C!Under(g)' <=> C!Under(g)
      /\ \A g \in C!Flows : C!Under(g) => <<g, "late">> \in loose'
      /\ loose \subseteq loose'
  BY <1>0 DEF C!Mic, Loose, C!Escaped, C!Under, C!Late, C!UnderWay
<1>4. OverlapIsKnown' /\ LeavingIsLate' /\ UnseenIsLate'
  BY <1>0, <1>3 DEF CaptureInv, OverlapIsKnown, LeavingIsLate, UnseenIsLate
<1>5. LateIsKnown' /\ PublishingIsIn' /\ AskingIsIn' /\ AskerIsCurrent'
  BY <1>0, <1>1, <1>3 DEF CaptureInv, LateIsKnown, PublishingIsIn, AskingIsIn, AskerIsCurrent
<1>6. ShutdownIsMic' /\ ShutdownKnows' /\ OldWhileShutting' /\ OrchestratorIsMic' /\ LeavingReleases'
  <2>1. ShutdownIsMic' /\ OldWhileShutting' /\ LeavingReleases'
    BY <1>0, <1>3 DEF CaptureInv, ShutdownIsMic, OldWhileShutting, LeavingReleases
  <2>2. ShutdownKnows'
    BY <1>0, <1>1, <1>3 DEF CaptureInv, ShutdownKnows
  <2>3. OrchestratorIsMic'
    BY <1>0, <1>3 DEF CaptureInv, ShapeOK, OrchestratorIsMic
  <2> QED
    BY <2>1, <2>2, <2>3
<1>7. IdleIsSilent' /\ MicIsOwned'
  BY <1>0, <1>1, <1>3 DEF CaptureInv, IdleIsSilent, MicIsOwned
<1>8. VideoIsListed'
  BY <1>0, <1>1, <1>3 DEF CaptureInv, OrchestratorIsMic, VideoIsListed, C!Escaped
<1>9. SentIsCurrent'
  BY <1>0, <1>1, <1>3 DEF CaptureInv, SentIsCurrent
<1> QED
  BY <1>2, <1>4, <1>5, <1>6, <1>7, <1>8, <1>9 DEF CaptureInv

\* The room ends, by the user or by LiveKit.
LEMMA RoomEndPreserves ==
  ASSUME CaptureInv, flow' = C!Stranded, loose' = loose \cup C!Late, ui' = ui, source' \in Sources,
         \A g \in C!Flows : /\ source'[g].raw => (source[g].raw /\ (source[g].handle => (C!Mic(g) \/ orchestrator = g)))
                            /\ source'[g].sent => (source[g].sent /\ ~source[g].handle),
         \/ conn = "on" /\ conn' = "lost" /\ UNCHANGED <<view, orchestrator, releasing>>
         \/ /\ conn' = "off" /\ orchestrator' = C!NoFlow /\ releasing' = C!NoFlow
            /\ \A g \in C!Flows : source'[g].raw =>
                 (orchestrator # g \/ Loose(g)) /\ (conn = "leaving" => releasing # g)
  PROVE  CaptureInv'
<1> USE FlowsAreNot
<1>0. ShapeOK
  BY DEF CaptureInv
<1>1. /\ \A g \in C!Flows : flow'[g].by = flow[g].by /\ flow'[g].old = flow[g].old
      /\ \A g \in C!Flows : \/ flow'[g] = flow[g] /\ flow[g].at # "publishing" /\ ~(flow[g].at = "asking" /\ ~C!Mic(g))
                            \/ flow[g].at = "publishing" /\ flow'[g].at = "refused"
                            \/ flow[g].at = "asking" /\ ~C!Mic(g) /\ flow'[g].at = "late"
      /\ flow' = [g \in C!Flows |-> flow'[g]] /\ \A g \in C!Flows : flow'[g] \in FlowLike(flow'[g])
  BY <1>0 DEF ShapeOK, C!Stranded, FlowLike, FlowStages
<1>2. ShapeOK'
  BY <1>0, <1>1 DEF ShapeOK, UiOK
<1>3. /\ \A g \in C!Flows : C!Mic(g)' <=> C!Mic(g)
      /\ \A g \in C!Flows : Loose(g) => Loose(g)'
      /\ \A g \in C!Flows : C!Under(g)' <=> C!Under(g)
      /\ \A g \in C!Flows : C!Under(g) => (<<g, "late">> \in loose' /\ Loose(g)')
      /\ \A g \in C!Flows : flow'[g].at \in Shutting <=> flow[g].at \in Shutting
      /\ loose \subseteq loose'
  BY <1>1 DEF C!Mic, Loose, C!Escaped, C!Under, C!Late, C!UnderWay, Shutting
<1>4. OverlapIsKnown' /\ LeavingIsLate' /\ UnseenIsLate'
  BY <1>3 DEF CaptureInv, OverlapIsKnown, LeavingIsLate, UnseenIsLate
<1>5. LateIsKnown' /\ PublishingIsIn' /\ AskingIsIn'
  <2>1. \A g \in C!Flows : flow'[g].at = "late" => (flow[g].at = "late" \/ (flow[g].at = "asking" /\ ~C!Mic(g)))
    BY <1>1
  <2>2. \A g \in C!Flows : flow'[g].at = "late" => C!Under(g)
    BY <2>1 DEF C!Under
  <2>3. LateIsKnown'
    BY <1>3, <2>1, <2>2 DEF CaptureInv, LateIsKnown, AskingIsIn
  <2> QED
    BY <1>1, <1>3, <2>3 DEF PublishingIsIn, AskingIsIn
<1>6. AskerIsCurrent'
  <2>1. \A g \in C!Flows : flow'[g].at \in {"asking", "publishing", "refused"} => C!Under(g)
    BY <1>1 DEF C!Under
  <2> QED
    BY <1>3, <2>1 DEF AskerIsCurrent
<1>7. ShutdownIsMic' /\ ShutdownKnows' /\ OldWhileShutting' /\ OrchestratorIsMic' /\ LeavingReleases'
  <2>1. ShutdownIsMic' /\ OldWhileShutting' /\ LeavingReleases'
    BY <1>1, <1>3 DEF CaptureInv, ShutdownIsMic, OldWhileShutting, LeavingReleases
  <2>2. ShutdownKnows'
    BY <1>1, <1>3 DEF CaptureInv, ShutdownKnows
  <2>3. OrchestratorIsMic'
    BY <1>0, <1>1, <1>3 DEF CaptureInv, ShapeOK, OrchestratorIsMic
  <2> QED
    BY <2>1, <2>2, <2>3
<1>8. IdleIsSilent'
  BY <1>1 DEF CaptureInv, IdleIsSilent
<1>9. MicIsOwned'
  BY <1>1, <1>3 DEF CaptureInv, MicIsOwned
<1>10. VideoIsListed'
  BY <1>3 DEF CaptureInv, VideoIsListed, OrchestratorIsMic, C!Escaped
<1>11. SentIsCurrent'
  BY <1>3 DEF CaptureInv, SentIsCurrent
<1> QED
  BY <1>2, <1>4, <1>5, <1>6, <1>7, <1>8, <1>9, <1>10, <1>11 DEF CaptureInv

\* The user has left, or the view is closed.
LEMMA LeaveEndsPreserves ==
  ASSUME CaptureInv, C!LeaveEnds \/ C!Close
  PROVE  CaptureInv'
<1> USE FlowsAreNot
<1>0. /\ ShapeOK /\ source \in Sources
      /\ orchestrator \in C!Flows \cup {C!NoFlow} /\ releasing \in C!Flows \cup {C!NoFlow}
  BY DEF CaptureInv, ShapeOK
<1>1. CASE C!LeaveEnds
  <2> DEFINE s == C!Emptied(source, releasing)
  <2>1. s \in Sources /\ \A g \in C!Flows : s[g] = IF g = releasing THEN C!Silent ELSE source[g]
    BY <1>0, EmptiedFacts
  <2>2. source' = C!Cut(s) /\ conn = "leaving"
    BY <1>1 DEF C!LeaveEnds
  <2> HIDE DEF s
  <2>3. /\ source' \in Sources
        /\ \A g \in C!Flows : source'[g].raw => (s[g].raw /\ (s[g].handle => C!Mic(g)))
        /\ \A g \in C!Flows : source'[g].sent => (s[g].sent /\ ~s[g].handle)
    BY <2>1, <2>2, CutFacts
  <2>4. \A g \in C!Flows : (s[g].raw \/ s[g].sent) => (releasing # g /\ s[g] = source[g])
    BY <2>1 DEF C!Silent
  <2>5. \A g \in C!Flows : source'[g].raw => (orchestrator # g \/ Loose(g))
    BY <2>2, <2>3, <2>4 DEF CaptureInv, LeavingReleases
  <2> QED
    BY <1>1, <2>3, <2>4, <2>5, RoomEndPreserves DEF C!LeaveEnds
<1>2. CASE C!Close
  <2> DEFINE s == C!Released(source)
             t == C!Emptied(s, orchestrator)
             u == C!Emptied(t, releasing)
  <2>1. /\ s \in Sources
        /\ \A g \in C!Flows : s[g].raw => (source[g].raw /\ (source[g].handle => (C!Mic(g) \/ orchestrator = g)))
        /\ \A g \in C!Flows : s[g].sent => (source[g].sent /\ ~source[g].handle)
    BY <1>0, ReleasedFacts
  <2> HIDE DEF s
  <2>2. t \in Sources /\ \A g \in C!Flows : t[g] = IF g = orchestrator THEN C!Silent ELSE s[g]
    BY <1>0, <2>1, EmptiedFacts
  <2> HIDE DEF t
  <2>3. u \in Sources /\ \A g \in C!Flows : u[g] = IF g = releasing THEN C!Silent ELSE t[g]
    BY <1>0, <2>2, EmptiedFacts
  <2>4. source' = C!Cut(u)
    BY <1>2 DEF C!Close, s, t
  <2> HIDE DEF u
  <2>5. /\ source' \in Sources
        /\ \A g \in C!Flows : source'[g].raw => u[g].raw
        /\ \A g \in C!Flows : source'[g].sent => u[g].sent
    BY <2>3, <2>4, CutFacts
  <2>6. \A g \in C!Flows : (u[g].raw \/ u[g].sent) => (releasing # g /\ orchestrator # g /\ u[g] = s[g])
    BY <2>2, <2>3 DEF C!Silent
  <2> QED
    BY <1>2, <2>1, <2>5, <2>6, RoomEndPreserves DEF C!Close
<1> QED
  BY <1>1, <1>2

\* LiveKit gives the room up.
LEMMA LosesPreserves ==
  ASSUME CaptureInv, C!Loses
  PROVE  CaptureInv'
<1>1. source \in Sources /\ source' = C!Cut(source)
  BY DEF CaptureInv, ShapeOK, C!Loses
<1>2. /\ source' \in Sources
      /\ \A g \in C!Flows : source'[g].raw => (source[g].raw /\ (source[g].handle => C!Mic(g)))
      /\ \A g \in C!Flows : source'[g].sent => (source[g].sent /\ ~source[g].handle)
  BY <1>1, CutFacts
<1> QED
  BY <1>2, RoomEndPreserves DEF C!Loses

\* A connection is made; or the view was the next one all along.
LEMMA EntersPreserves ==
  ASSUME CaptureInv, UNCHANGED <<view, flow, source, releasing, orchestrator, ui, loose>>,
         \/ view /\ conn = "off" /\ conn' = "on"
         \/ conn' = "off" /\ \A f \in C!Flows : flow[f] = C!Idle
  PROVE  CaptureInv'
<1>1. ShapeOK'
  BY DEF CaptureInv, ShapeOK, UiOK
<1>2. /\ \A g \in C!Flows : C!Mic(g)' <=> C!Mic(g)
      /\ \A g \in C!Flows : Loose(g)' <=> Loose(g)
      /\ \A g \in C!Flows : C!Under(g)' <=> C!Under(g)
      /\ conn' # "leaving"
  BY DEF C!Mic, Loose, C!Escaped, C!Under
<1>3. CASE view /\ conn = "off" /\ conn' = "on"
  <2>1. OverlapIsKnown' /\ LeavingIsLate' /\ UnseenIsLate' /\ LateIsKnown' /\ AskerIsCurrent'
    BY <1>2, <1>3 DEF CaptureInv, OverlapIsKnown, LeavingIsLate, UnseenIsLate, LateIsKnown,
       AskerIsCurrent
  <2>2. PublishingIsIn' /\ AskingIsIn'
    BY <1>2, <1>3 DEF CaptureInv, PublishingIsIn, AskingIsIn
  <2>3. ShutdownIsMic' /\ OldWhileShutting' /\ LeavingReleases' /\ IdleIsSilent'
    BY <1>2, <1>3 DEF CaptureInv, ShutdownIsMic, OldWhileShutting, LeavingReleases, IdleIsSilent
  <2>4. ShutdownKnows'
    BY <1>2, <1>3 DEF CaptureInv, ShutdownKnows
  <2>5. OrchestratorIsMic'
    BY <1>2, <1>3 DEF CaptureInv, ShapeOK, OrchestratorIsMic
  <2>6. MicIsOwned' /\ VideoIsListed' /\ SentIsCurrent'
    BY <1>2, <1>3 DEF CaptureInv, MicIsOwned, VideoIsListed, SentIsCurrent, C!Escaped
  <2> QED
    BY <1>1, <2>1, <2>2, <2>3, <2>4, <2>5, <2>6 DEF CaptureInv
<1>4. CASE conn' = "off" /\ \A f \in C!Flows : flow[f] = C!Idle
  <2>0. C!Idle.at = "idle" /\ C!Idle.old = C!NoFlow
    BY DEF C!Idle
  <2>1. \A f \in C!Flows : flow[f].at = "idle" /\ ~C!Under(f) /\ ~source[f].raw /\ ~source[f].sent /\ flow[f].old = C!NoFlow
    BY <1>4, <2>0 DEF CaptureInv, IdleIsSilent, C!Under
  <2>2. OverlapIsKnown' /\ LeavingIsLate' /\ UnseenIsLate' /\ LateIsKnown' /\ AskerIsCurrent'
    BY <1>2, <1>4, <2>1 DEF OverlapIsKnown, LeavingIsLate, UnseenIsLate, LateIsKnown, AskerIsCurrent
  <2>3. PublishingIsIn' /\ AskingIsIn' /\ ShutdownIsMic' /\ ShutdownKnows' /\ OldWhileShutting'
    BY <1>2, <2>1 DEF PublishingIsIn, AskingIsIn, ShutdownIsMic, ShutdownKnows, OldWhileShutting,
       Shutting
  <2>4. OrchestratorIsMic' /\ LeavingReleases' /\ IdleIsSilent'
    BY <1>2, <2>1 DEF CaptureInv, ShapeOK, OrchestratorIsMic, LeavingReleases, IdleIsSilent
  <2>5. MicIsOwned' /\ VideoIsListed' /\ SentIsCurrent'
    BY <1>2, <2>1 DEF MicIsOwned, VideoIsListed, SentIsCurrent
  <2> QED
    BY <1>1, <2>2, <2>3, <2>4, <2>5 DEF CaptureInv
<1> QED
  BY <1>3, <1>4

\* The tab dies.
LEMMA DiesPreserves ==
  ASSUME CaptureInv, C!Dies
  PROVE  CaptureInv'
<1> USE FlowsAreNot
<1>0. /\ ShapeOK /\ conn' = "off" /\ orchestrator' = C!NoFlow /\ releasing' = C!NoFlow
      /\ UNCHANGED <<ui, loose>>
  BY DEF CaptureInv, C!Dies
<1>1. /\ \A f \in C!Flows : /\ flow'[f].at \in {"idle", "done", "failed"} /\ flow'[f].by = flow[f].by
                         /\ flow'[f].old = C!NoFlow /\ flow'[f] \in FlowLike(flow'[f])
      /\ flow' = [f \in C!Flows |-> flow'[f]]
  <2> SUFFICES ASSUME NEW f \in C!Flows
               PROVE  /\ flow'[f].at \in {"idle", "done", "failed"} /\ flow'[f].by = flow[f].by
                      /\ flow'[f].old = C!NoFlow /\ flow'[f] \in FlowLike(flow'[f])
    BY DEF C!Dies
  <2> DEFINE q == [C!Idle EXCEPT !.at = "failed", !.by = flow[f].by]
  <2>1. q.at = "failed" /\ q.by = flow[f].by /\ q.old = C!NoFlow /\ q \in FlowLike(q)
    BY <1>0 DEF ShapeOK, FlowLike, FlowStages, C!Idle
  <2>2. flow'[f] = IF C!Under(f) THEN q ELSE flow[f]
    BY DEF C!Dies, C!Ended
  <2> HIDE DEF q
  <2>3. CASE C!Under(f)
    BY <2>1, <2>2, <2>3
  <2>4. CASE ~C!Under(f)
    BY <1>0, <2>2, <2>4 DEF ShapeOK, C!Under, CaptureInv, OldWhileShutting, Shutting
  <2> QED
    BY <2>3, <2>4
<1>2. source' \in Sources /\ \A f \in C!Flows : ~source'[f].raw /\ ~source'[f].sent
  BY DEF C!Dies, Sources, Track, C!Silent
<1>3. ShapeOK'
  BY <1>0, <1>1, <1>2 DEF ShapeOK, UiOK
<1>4. \A f \in C!Flows : ~C!Under(f)'
  BY <1>1 DEF C!Under
<1>5. OverlapIsKnown' /\ LeavingIsLate' /\ UnseenIsLate' /\ LateIsKnown' /\ AskerIsCurrent'
  BY <1>0, <1>1, <1>4 DEF OverlapIsKnown, LeavingIsLate, UnseenIsLate, LateIsKnown, AskerIsCurrent
<1>6. PublishingIsIn' /\ AskingIsIn' /\ ShutdownIsMic' /\ ShutdownKnows' /\ OldWhileShutting'
  BY <1>0, <1>1 DEF PublishingIsIn, AskingIsIn, ShutdownIsMic, ShutdownKnows, OldWhileShutting,
     Shutting
<1>7. OrchestratorIsMic' /\ LeavingReleases' /\ IdleIsSilent'
  BY <1>0, <1>2 DEF OrchestratorIsMic, LeavingReleases, IdleIsSilent
<1>8. MicIsOwned' /\ VideoIsListed' /\ SentIsCurrent'
  BY <1>2 DEF MicIsOwned, VideoIsListed, SentIsCurrent
<1> QED
  BY <1>3, <1>5, <1>6, <1>7, <1>8 DEF CaptureInv

-----------------------------------------------------------------------------
(* Every step.                                                              *)

\* A publication of the microphone begins.
LEMMA PublishMicPreserves ==
  ASSUME CaptureInv, NEW f \in C!Flows, NEW by \in C!Publishers, NEW input, C!PublishMic(f, by,
  input),
         view, UNCHANGED <<conn, view, releasing>>, UiOK'
  PROVE  CaptureInv'
<1> USE FlowsAreNot
<1> DEFINE r == C!Begun(f, by, input)
           others == {g \in C!UnderWay : C!Mic(g)}
<1>1. /\ r \in FlowLike(r) /\ r.by = by /\ r.at \in Shutting
  BY DEF C!Begun, C!Idle, FlowLike, FlowStages, Shutting
<1>2. flow[f] = C!Idle /\ flow[f].at = "idle" /\ C!Mic(f)
  BY DEF C!PublishMic, C!Fresh, C!Idle, C!Mic, C!Publishers
<1>3. /\ loose \subseteq loose'
      /\ \A g \in C!Flows : (g # f /\ C!Mic(g) /\ C!Under(g)) => {<<f, "overlap">>, <<g, "overlap">>} \subseteq loose'
      /\ conn = "leaving" => <<f, "late">> \in loose'
  <2>1. loose' = loose \cup (IF others = {} THEN {} ELSE (others \cup {f}) \X {"overlap"})
                       \cup (IF conn = "leaving" THEN {<<f, "late">>} ELSE {})
    BY DEF C!PublishMic
  <2>2. \A g \in C!Flows : (g # f /\ C!Mic(g) /\ C!Under(g)) => g \in others
    BY DEF C!UnderWay
  <2> HIDE DEF others
  <2> QED
    BY <2>1, <2>2
<1>4. CASE conn = "off" /\ r.at = "clear"
  <2>1. flow' = [flow EXCEPT ![f] = [C!Idle EXCEPT !.at = "failed", !.by = by]] /\ UNCHANGED <<source, orchestrator>>
    BY <1>4 DEF C!PublishMic
  <2>2. flow'[f].by = by
    BY <2>1 DEF CaptureInv, ShapeOK, C!Idle
  <2> QED
    BY <1>2, <1>3, <1>4, <2>1, <2>2, FailurePreserves DEF C!Mic, Shutting
<1>5. CASE ~(conn = "off" /\ r.at = "clear")
  <2>1. C!ShutDown(f, r, source)
    BY <1>5 DEF C!PublishMic
  <2> HIDE DEF r
  <2> QED
    BY <1>1, <1>2, <1>3, <2>1, ShutPreserves DEF Shutting
<1> QED
  BY <1>4, <1>5

\* The error of a publication that was under way.
LEMMA ThrowsPreserves ==
  ASSUME CaptureInv, NEW f \in C!Flows, flow[f].at \in {"asking", "late", "publishing", "refused"}, NEW s,
         \/ s = source
         \/ flow[f].at = "asking" /\ s = [source EXCEPT ![f].raw = TRUE],
         IF C!Mic(f) THEN C!ShutDown(f, [flow[f] EXCEPT !.at = "catch"], s)
         ELSE /\ flow' = [flow EXCEPT ![f] = C!Ended(f, "failed")]
              /\ UNCHANGED <<source, orchestrator>>,
         UNCHANGED <<conn, view, releasing, ui>>, loose \subseteq loose',
         (~C!Mic(f) /\ source[f].raw) => <<f, "refused">> \in loose'
  PROVE  CaptureInv'
<1> USE FlowsAreNot
<1>0. ShapeOK /\ UiOK' /\ flow[f] \in FlowLike(flow[f]) /\ C!Under(f)
  BY DEF CaptureInv, ShapeOK, UiOK, C!Under
<1>1. CASE C!Mic(f)
  <2> DEFINE r == [flow[f] EXCEPT !.at = "catch"]
  <2>1. r \in FlowLike(r) /\ r.by \in C!Publishers /\ r.at \in Shutting
    BY <1>0, <1>1 DEF FlowLike, FlowStages, Shutting, C!Mic
  <2>2. C!ShutDown(f, r, s)
    BY <1>1
  <2> HIDE DEF r
  <2>3. /\ \A g \in C!Flows : (g # f /\ C!Mic(g) /\ C!Under(g)) => {<<f, "overlap">>, <<g, "overlap">>} \subseteq loose'
        /\ conn = "leaving" => <<f, "late">> \in loose'
        /\ ~view => <<f, "late">> \in loose'
    BY <1>0, <1>1 DEF CaptureInv, OverlapIsKnown, LeavingIsLate, UnseenIsLate
  <2> QED
    BY <1>0, <1>1, <2>1, <2>2, <2>3, ShutPreserves DEF Shutting
<1>2. CASE ~C!Mic(f)
  <2>1. flow' = [flow EXCEPT ![f] = [C!Idle EXCEPT !.at = "failed", !.by = flow[f].by]]
    BY <1>2 DEF C!Ended
  <2>2. flow'[f].by = flow[f].by /\ flow[f].by \in C!Publishers \cup C!Video
    BY <1>0, <2>1 DEF ShapeOK, C!Idle, FlowLike
  <2> QED
    BY <1>0, <1>2, <2>1, <2>2, FailurePreserves DEF C!Mic, Shutting
<1> QED
  BY <1>1, <1>2

\* A publication goes on: whatever the browser or LiveKit answers.
LEMMA FlowStepPreserves ==
  ASSUME CaptureInv, NEW f \in C!Flows,
         \/ C!ShutdownEnds(f) \/ C!Granted(f) \/ C!Denied(f) \/ C!Refused(f) \/ C!Published(f)
  PROVE  CaptureInv'
<1>1. CASE C!ShutdownEnds(f)
  BY <1>1, ShutdownEndsPreserves
<1>2. CASE C!Granted(f)
  <2> DEFINE s == [source EXCEPT ![f].raw = TRUE]
             at == CASE flow[f].at = "late" \/ conn = "lost" -> "refused"
                     [] C!Mic(f) /\ conn = "off" -> "catch"
                     [] OTHER -> "publishing"
  <2>1. /\ flow[f].at \in {"asking", "late"} /\ UNCHANGED <<conn, view, releasing, ui, loose>>
        /\ C!Mic(f) => flow[f].at = "asking"
    BY <1>2 DEF C!Granted, CaptureInv, LateIsKnown
  <2>2. CASE at = "catch"
    <3>1. C!Mic(f) /\ C!ShutDown(f, [flow[f] EXCEPT !.at = "catch"], s)
      BY <1>2, <2>2 DEF C!Granted
    <3> HIDE DEF s
    <3>2. s = [source EXCEPT ![f].raw = TRUE]
      BY DEF s
    <3> QED
      BY <2>1, <3>1, <3>2, ThrowsPreserves
  <2>3. CASE at # "catch"
    <3>1. flow' = [flow EXCEPT ![f].at = at] /\ source' = s /\ UNCHANGED orchestrator
      BY <1>2, <2>3 DEF C!Granted
    <3>2. /\ at \in {"refused", "publishing"}
          /\ at = "publishing" => (flow[f].at = "asking" /\ conn # "lost" /\ ~(C!Mic(f) /\ conn = "off"))
      BY <2>1, <2>3
    <3> HIDE DEF at
    <3> QED
      BY <2>1, <3>1, <3>2, GrantedPreserves
  <2> QED
    BY <2>2, <2>3
<1>3. CASE C!Denied(f)
  <2>1. ~C!Mic(f) => ~source[f].raw
    BY <1>3 DEF C!Denied, CaptureInv, AskingIsIn, LateIsKnown
  <2> QED
    BY <1>3, <2>1, ThrowsPreserves DEF C!Denied, C!Throws
<1>4. CASE C!Refused(f)
  BY <1>4, ThrowsPreserves DEF C!Refused, C!Throws
<1>5. CASE C!Published(f)
  BY <1>5, PublishedPreserves
<1> QED
  BY <1>1, <1>2, <1>3, <1>4, <1>5

\* The buttons.
LEMMA MutedFacts ==
  ASSUME ShapeOK, NEW b \in BOOLEAN
  PROVE  /\ C!Muted(b) \in Sources
         /\ \A g \in C!Flows : /\ C!Muted(b)[g].raw = source[g].raw /\ C!Muted(b)[g].handle = source[g].handle
                               /\ C!Muted(b)[g].sent = source[g].sent
         /\ \A g \in C!Flows : (conn = "on" /\ orchestrator = g) => C!Muted(b)[g].muted = b
BY FlowsAreNot DEF ShapeOK, C!Muted, Sources, Track

\* They mute or unmute the current orchestrator, or nothing.
LEMMA ButtonPreserves ==
  ASSUME CaptureInv, C!Mute \/ C!Unmute \/ C!Deafen \/ C!Undeafen
  PROVE  CaptureInv'
<1>0. /\ ShapeOK /\ source \in Sources /\ UiOK
      /\ UNCHANGED <<conn, view, flow, releasing, orchestrator, loose>>
  BY DEF CaptureInv, ShapeOK, C!Mute, C!Unmute, C!Deafen, C!Undeafen
<1>1. /\ C!Muted(TRUE) \in Sources /\ C!Muted(FALSE) \in Sources
      /\ \A g \in C!Flows : /\ C!Muted(TRUE)[g].raw = source[g].raw /\ C!Muted(TRUE)[g].handle = source[g].handle
                            /\ C!Muted(TRUE)[g].sent = source[g].sent
      /\ \A g \in C!Flows : /\ C!Muted(FALSE)[g].raw = source[g].raw /\ C!Muted(FALSE)[g].handle = source[g].handle
                            /\ C!Muted(FALSE)[g].sent = source[g].sent
      /\ \A g \in C!Flows : (conn = "on" /\ orchestrator = g) => C!Muted(TRUE)[g].muted
  BY <1>0, MutedFacts
<1>2. CASE C!Mute
  <2>1. source' = C!Muted(TRUE) /\ UiOK'
    BY <1>0, <1>2 DEF C!Mute, UiOK
  <2> QED
    BY <1>0, <1>1, <2>1, ViewPreserves
<1>3. CASE C!Unmute
  <2>1. source' = C!Muted(FALSE) /\ UiOK' /\ ui'.on
    BY <1>0, <1>3 DEF C!Unmute, C!Undeafened, UiOK
  <2> QED
    BY <1>0, <1>1, <2>1, ViewPreserves
<1>4. CASE C!Deafen
  <2>1. /\ UiOK' /\ \/ source' = C!Muted(TRUE)
                    \/ source' = source /\ (ui.on => ui'.on)
    BY <1>0, <1>4 DEF C!Deafen, C!CanMute, UiOK
  <2> QED
    BY <1>0, <1>1, <2>1, ViewPreserves
<1>5. CASE C!Undeafen
  <2>1. /\ UiOK' /\ \/ source' = C!Muted(FALSE) /\ ui'.on
                    \/ source' = source /\ ui'.on = ui.on
    BY <1>0, <1>5 DEF C!Undeafen, C!CanMute, UiOK
  <2> QED
    BY <1>0, <1>1, <2>1, ViewPreserves
<1> QED
  BY <1>2, <1>3, <1>4, <1>5

\* A video is stopped.
LEMMA VideoStopPreserves ==
  ASSUME CaptureInv, NEW k \in C!Video, C!StopVideo(k)
  PROVE  CaptureInv'
<1>0. /\ ShapeOK /\ source \in Sources /\ UiOK
      /\ UNCHANGED <<conn, view, flow, releasing, orchestrator, loose>>
      /\ source' \in {source, C!Unlisted(source, k)}
  BY DEF CaptureInv, ShapeOK, C!StopVideo
<1>1. UiOK' /\ ui'.on = ui.on
  BY <1>0 DEF UiOK, C!StopVideo
<1>2. /\ C!Unlisted(source, k) \in Sources
      /\ \A g \in C!Flows : C!Unlisted(source, k)[g] \in {source[g], C!Silent}
  BY <1>0 DEF C!Unlisted, Sources, Track, C!Silent
<1>3. ~C!Silent.raw /\ ~C!Silent.sent
  BY DEF C!Silent
<1>4. /\ source' \in Sources
      /\ \A g \in C!Flows : (source'[g].raw \/ source'[g].sent) => source'[g] = source[g]
  BY <1>0, <1>2, <1>3
<1> QED
  BY <1>0, <1>1, <1>4, ViewPreserves

\* What the effects of the view do, and the user's choices.
LEMMA EffectPreserves ==
  ASSUME CaptureInv,
         \/ \E f \in C!Flows : C!AutoPublish(f) \/ C!FirstUnmute(f) \/ C!ApplyInput(f)
         \/ \E f \in C!Flows, i \in Inputs : C!PickMic(f, i)
         \/ \E i \in Inputs : C!SaveInput(i)
  PROVE  CaptureInv'
<1>0. ShapeOK /\ UiOK /\ source \in Sources
  BY DEF CaptureInv, ShapeOK
<1>1. ASSUME NEW f \in C!Flows, C!AutoPublish(f)  PROVE CaptureInv'
  <2>1. view /\ UNCHANGED <<conn, view, releasing>> /\ UiOK' /\ ui'.on = ui.on
    BY <1>0, <1>1 DEF C!AutoPublish, UiOK
  <2>2. CASE story.audioEnabled
    BY <1>1, <2>1, <2>2, PublishMicPreserves DEF C!AutoPublish, C!Publishers
  <2>3. CASE ~story.audioEnabled
    BY <1>0, <1>1, <2>1, <2>3, ViewPreserves DEF C!AutoPublish
  <2> QED
    BY <2>2, <2>3
<1>2. ASSUME NEW f \in C!Flows, C!FirstUnmute(f)  PROVE CaptureInv'
  BY <1>0, <1>2, PublishMicPreserves DEF C!FirstUnmute, C!Does, C!Publishers, UiOK
<1>3. ASSUME NEW f \in C!Flows, C!ApplyInput(f)  PROVE CaptureInv'
  <2>1. view /\ UNCHANGED <<conn, view, releasing>> /\ UiOK' /\ ui'.on = ui.on
    BY <1>0, <1>3 DEF C!ApplyInput, UiOK
  <2>2. CASE ui.applied # ui.input /\ ui.published
    BY <1>3, <2>1, <2>2, PublishMicPreserves DEF C!ApplyInput, C!Publishers
  <2>3. CASE ~(ui.applied # ui.input /\ ui.published)
    BY <1>0, <1>3, <2>1, <2>3, ViewPreserves DEF C!ApplyInput
  <2> QED
    BY <2>2, <2>3
<1>4. ASSUME NEW f \in C!Flows, NEW i \in Inputs, C!PickMic(f, i)  PROVE CaptureInv'
  <2>1. view /\ UNCHANGED <<conn, view, releasing>> /\ UiOK' /\ C!PublishMic(f, "pick", i)
    BY <1>0, <1>4 DEF C!PickMic, C!Does, UiOK
  <2> QED
    BY <2>1, PublishMicPreserves DEF C!Publishers
<1>5. ASSUME NEW i \in Inputs, C!SaveInput(i)  PROVE CaptureInv'
  <2>1. UiOK' /\ ui'.on = ui.on /\ UNCHANGED <<conn, view, flow, source, releasing, orchestrator, loose>>
    BY <1>0, <1>5 DEF C!SaveInput, UiOK
  <2> QED
    BY <1>0, <2>1, ViewPreserves
<1> QED
  BY <1>1, <1>2, <1>3, <1>4, <1>5

\* The invariant is inductive.
LEMMA NextHolds == CaptureInv /\ [C!Next]_C!captureVars => CaptureInv'
<1> SUFFICES ASSUME CaptureInv, [C!Next]_C!captureVars PROVE CaptureInv'
  OBVIOUS
<1>1. ASSUME NEW f \in C!Flows,
C!AutoPublish(f) \/ C!FirstUnmute(f) \/ C!ApplyInput(f)  PROVE CaptureInv'
  BY <1>1, EffectPreserves
<1>2. ASSUME NEW f \in C!Flows, NEW i \in Inputs, C!PickMic(f, i)  PROVE CaptureInv'
  BY <1>2, EffectPreserves
<1>3. ASSUME NEW f \in C!Flows, NEW k \in C!Video, C!StartVideo(f, k)  PROVE CaptureInv'
  BY <1>3, StartVideoPreserves
<1>4. ASSUME NEW f \in C!Flows,
C!ShutdownEnds(f) \/ C!Granted(f) \/ C!Denied(f) \/ C!Refused(f) \/ C!Published(f)
      PROVE  CaptureInv'
  BY <1>4, FlowStepPreserves
<1>5. ASSUME NEW i \in Inputs, C!SaveInput(i)  PROVE CaptureInv'
  BY <1>5, EffectPreserves
<1>6. ASSUME NEW k \in C!Video, C!StopVideo(k)  PROVE CaptureInv'
  BY <1>6, VideoStopPreserves
<1>7. CASE C!Mute \/ C!Unmute \/ C!Deafen \/ C!Undeafen
  BY <1>7, ButtonPreserves
<1>8. CASE C!LeaveStarts
  BY <1>8, LeaveStartsPreserves
<1>9. CASE C!LeaveEnds \/ C!Close
  BY <1>9, LeaveEndsPreserves
<1>10. CASE C!Joins
  BY <1>10, EntersPreserves DEF C!Joins
<1>11. CASE C!Loses
  BY <1>11, LosesPreserves
<1>12. CASE C!Dies
  BY <1>12, DiesPreserves
<1>13. CASE C!Afresh
  BY <1>13, EntersPreserves DEF C!Afresh, C!Captured
<1>14. CASE UNCHANGED C!captureVars
  <2>1. \A g \in C!Flows : C!Mic(g)' = C!Mic(g) /\ C!Under(g)' = C!Under(g)
    BY <1>14 DEF C!captureVars, C!Mic, C!Under
  <2> QED
    BY <1>14, ViewPreserves DEF C!captureVars, CaptureInv, ShapeOK, UiOK
<1> QED
  BY <1>1, <1>2, <1>3, <1>4, <1>5, <1>6, <1>7, <1>8, <1>9, <1>10, <1>11, <1>12, <1>13, <1>14
  DEF C!Next, C!ViewNext

-----------------------------------------------------------------------------
(* Capture, and the call that implements it.                                *)

\* Every device that captures has an owner that will stop it, or a named cause.
LEMMA CaptureInvariant == C!Spec => []CaptureInv
<1> QED
  BY InitHolds, NextHolds, PTL DEF C!Spec

\* Out of the room and with nothing under way, no device captures, save for the
\* escapes Capture names, however many publications there were.
THEOREM CaptureHolds == C!Spec => []CaptureStops
<1>1. CaptureInv => CaptureStops
  BY InvImplies DEF CaptureStops
<1> QED
  BY <1>1, CaptureInvariant, PTL

\* While the view shows the microphone as off, none is heard, save for the
\* escapes Capture names.
THEOREM SilenceHolds == C!Spec => []MutedIsSilent
<1>1. CaptureInv => MutedIsSilent
  BY InvImplies DEF MutedIsSilent
<1> QED
  BY <1>1, CaptureInvariant, PTL

\* Every step of the call is a step of Capture, or changes nothing it captures.
LEMMA CallStep == [CallNext]_callVars => [C!Next]_capture
<1> SUFFICES ASSUME [CallNext]_callVars PROVE C!Next \/ UNCHANGED capture
  OBVIOUS
<1>1. CASE C!ViewNext /\ UNCHANGED vars
  BY <1>1 DEF C!Next
<1>2. CASE CallLeaves
  BY <1>2 DEF CallLeaves, C!Next
<1>3. CASE CallCloses
  BY <1>3 DEF CallCloses, C!Next
<1>4. CASE CallDies \/ CallIsLost
  BY <1>4 DEF CallDies, CallIsLost, Silently, C!Next
<1>5. ASSUME NEW w, CallConnects(w)  PROVE C!Next \/ UNCHANGED capture
  BY <1>5 DEF CallConnects, Silently, C!Next
<1>6. CASE Silently
  BY <1>6 DEF Silently
<1>7. CASE UNCHANGED callVars
  BY <1>7 DEF callVars
<1> QED
  BY <1>1, <1>2, <1>3, <1>4, <1>5, <1>6, <1>7 DEF CallNext

\* The composition implements Capture.
THEOREM CallImplementsCapture == CallSpec => C!Spec
<1>1. CallInit => C!Init
  BY DEF CallInit
<1>2. [CallNext]_callVars => [C!Next]_C!captureVars
  BY CallStep DEF capture, C!captureVars
<1> QED
  BY <1>1, <1>2, PTL DEF CallSpec, C!Spec

\* Out of the room and with nothing under way, no device captures, save for the
\* escapes Capture names: in every call, whoever else is in the room.
THEOREM CallCaptureHolds == CallSpec => []CaptureStops
<1> QED
  BY CallImplementsCapture, CaptureHolds, PTL

\* While the view shows the microphone as off, none is heard in the room, save
\* for the escapes Capture names.
THEOREM CallSilenceHolds == CallSpec => []MutedIsSilent
<1> QED
  BY CallImplementsCapture, SilenceHolds, PTL

-----------------------------------------------------------------------------
(* Types of the voice channel.                                              *)

Joiners == {"connect", "stale"}
Kinds == {"join", "update", "remove"} \X Devices
Commits == [place : Places, by : Devices, did : Kinds]
Infos == [place : Places, leaves : SUBSET Devices]
Voices == [status : {"none", "joining", "joined", "evicted"}, base : Nat, epoch : Nat,
           leaves : SUBSET Devices, pend : Kinds \cup {<<>>}]
Changes == {"idle", "build", "post", "merge", "put", "export"}
Stages == {"idle", "token", "look", "create", "join", "build", "post", "merge", "export", "enter", "entered"}
Operations == [at : Stages] \cup [at : {"put"}, info : Infos]
Events == [kind : {"in", "out"}, of : Devices]

DataTypes ==
  /\ groups \in Nat \ {0} /\ log \in Seq(Commits) /\ tip \in Places /\ info \in Infos /\ raced \in BOOLEAN
  /\ events \in Seq(Events) /\ room \subseteq Devices /\ live \subseteq Devices
  /\ mls \in [Devices -> Voices] /\ key \in [Devices -> Places]
  /\ heard \in [Devices -> Nat] /\ seen \in [Devices -> Nat]
  /\ used \in [done : Nat, cancels : Nat, fails : Nat]
OpTypes ==
  /\ op \in [Devices -> [Workers -> Operations]]
  /\ \A d \in Devices, w \in Workers :
       IF w \in Joiners THEN op[d][w].at # "build" ELSE op[d][w].at \in Changes
Types == DataTypes /\ OpTypes

LEMMA WorkersAre ==
  /\ Devices \subseteq Workers /\ Joiners \subseteq Workers /\ "rotate" \in Workers
  /\ \A w \in Workers : w \in Joiners \/ w = "rotate" \/ w \in Devices
  /\ \A w \in Devices : w \notin Joiners /\ w # "rotate"
  /\ "rotate" \notin Joiners /\ "connect" \in Joiners /\ "stale" \in Joiners
BY ConstantsOK DEF Workers, Joiners

\* What a worker's commit does is a kind of commit.
LEMMA KindsAre ==
  ASSUME NEW d \in Devices, NEW w \in Workers
  PROVE  /\ Kind(d, w) \in Kinds
         /\ w \in Joiners => Kind(d, w) = <<"join", d>>
         /\ w = "rotate" => Kind(d, w) = <<"update", d>>
         /\ w \in Devices => Kind(d, w) = <<"remove", w>>
         /\ Kind(d, w) # <<>>
         /\ Kind(d, w)[1] = "remove" => w \in Devices /\ Kind(d, w)[2] = w
         /\ \A v \in Workers : v \notin Joiners /\ w \notin Joiners /\ Kind(d, v) = Kind(d, w) => v = w
<1>1. /\ w \in Joiners => Kind(d, w) = <<"join", d>>
      /\ w = "rotate" => Kind(d, w) = <<"update", d>>
      /\ w \in Devices => Kind(d, w) = <<"remove", w>>
  BY WorkersAre DEF Kind, Joiners
<1>2. ASSUME NEW v \in Workers, v \notin Joiners, w \notin Joiners, Kind(d, v) = Kind(d, w)  PROVE v = w
  BY <1>2, WorkersAre DEF Kind, Joiners
<1> QED
  BY <1>1, <1>2, WorkersAre DEF Kinds

LEMMA ChangedIs ==
  ASSUME NEW leaves \in SUBSET Devices, NEW pend \in Kinds
  PROVE  Changed(leaves, pend) \in SUBSET Devices
BY DEF Changed, Kinds

\* An operation that moves on leaves the others where they are.
LEMMA Moves ==
  ASSUME op \in [Devices -> [Workers -> Operations]], NEW d \in Devices, NEW w \in Workers, NEW x \in Operations,
         op' = [op EXCEPT ![d][w] = x]
  PROVE  /\ op' \in [Devices -> [Workers -> Operations]]
         /\ op'[d][w] = x
         /\ \A v \in Workers : v # w => op'[d][v] = op[d][v]
         /\ \A e \in Devices : e # d => op'[e] = op[e]
OBVIOUS

LEMMA MovesTo ==
  ASSUME op \in [Devices -> [Workers -> Operations]], NEW d \in Devices, NEW w \in Workers, NEW at \in Stages,
         Goto(d, w, at)
  PROVE  /\ op' \in [Devices -> [Workers -> Operations]]
         /\ op'[d][w] = Busy(at) /\ op'[d][w].at = at
         /\ \A v \in Workers : v # w => op'[d][v] = op[d][v]
         /\ \A e \in Devices : e # d => op'[e] = op[e]
<1>1. Busy(at) \in Operations /\ Busy(at).at = at
  BY DEF Busy, Operations
<1> QED
  BY <1>1, Moves DEF Goto

LEMMA MovesToPut ==
  ASSUME op \in [Devices -> [Workers -> Operations]], NEW d \in Devices, NEW w \in Workers, NEW g \in Voices,
         GotoPut(d, w, g)
  PROVE  /\ op' \in [Devices -> [Workers -> Operations]]
         /\ op'[d][w].at = "put" /\ op'[d][w].info = GroupInfo(g)
         /\ \A v \in Workers : v # w => op'[d][v] = op[d][v]
         /\ \A e \in Devices : e # d => op'[e] = op[e]
<1> DEFINE x == [at |-> "put", info |-> GroupInfo(g)]
<1>1. x \in Operations /\ x.at = "put" /\ x.info = GroupInfo(g)
  BY DEF Operations, GroupInfo, Infos, Place, Places, Voices
<1>2. op' = [op EXCEPT ![d][w] = x]
  BY DEF GotoPut
<1> HIDE DEF x
<1> QED
  BY <1>1, <1>2, Moves

\* ... and the types of the operations are kept.
LEMMA MovesInType ==
  ASSUME OpTypes, NEW d \in Devices, NEW w \in Workers, NEW at \in Stages, Goto(d, w, at),
         IF w \in Joiners THEN at # "build" ELSE at \in Changes
  PROVE  OpTypes'
BY MovesTo DEF OpTypes

LEMMA MovesToPutInType ==
  ASSUME OpTypes, NEW d \in Devices, NEW w \in Workers, NEW g \in Voices, GotoPut(d, w, g)
  PROVE  OpTypes'
BY MovesToPut DEF OpTypes, Changes

LEMMA NonesAre == None \in Places /\ NoProvider \in Places /\ NoGroup \in Voices /\ None # NoProvider
BY DEF None, NoProvider, Places, NoGroup, Voices

LEMMA PlacesAre ==
  ASSUME NEW g \in Voices
  PROVE  /\ Place(g) \in Places /\ Place(g).base = g.base /\ Place(g).epoch = g.epoch
         /\ Next1(Place(g)) = [base |-> g.base, epoch |-> g.epoch + 1] /\ Next1(Place(g)) \in Places
BY DEF Place, Next1, Places, Voices

LEMMA NextPlace ==
  ASSUME NEW p \in Places
  PROVE  Next1(p) \in Places /\ Next1(p).base = p.base /\ Next1(p).epoch = p.epoch + 1
BY DEF Next1, Places

LEMMA GroupIs ==
  ASSUME NEW b \in Nat, NEW n \in Nat, NEW l \in SUBSET Devices
  PROVE  /\ Group(b, n, l) \in Voices
         /\ Group(b, n, l).status = "joined" /\ Group(b, n, l).base = b /\ Group(b, n, l).epoch = n
         /\ Group(b, n, l).leaves = l /\ Group(b, n, l).pend = <<>>
BY DEF Group, Voices

Renamed(g, n) == [g EXCEPT !.base = n, !.epoch = 1]

LEMMA RenamedIs ==
  ASSUME NEW g \in Voices, NEW n \in Nat
  PROVE  /\ Renamed(g, n) \in Voices
         /\ Renamed(g, n).status = g.status /\ Renamed(g, n).base = n /\ Renamed(g, n).epoch = 1
<1> DEFINE h == [g EXCEPT !.base = n]
<1>1. h \in Voices /\ h.status = g.status /\ h.base = n
  BY DEF Voices
<1>2. Renamed(g, n) = [h EXCEPT !.epoch = 1]
  BY DEF Renamed
<1> HIDE DEF h
<1>3. [h EXCEPT !.epoch = 1] \in Voices /\ [h EXCEPT !.epoch = 1].status = h.status
      /\ [h EXCEPT !.epoch = 1].base = h.base /\ [h EXCEPT !.epoch = 1].epoch = 1
  BY <1>1 DEF Voices
<1> QED
  BY <1>1, <1>2, <1>3

\* Creating a group adopts the one there is, names it anew, or makes one.
LEMMA CreateDoes ==
  ASSUME DataTypes, NEW d \in Devices, NEW w \in Workers, Create(d, w), mls[d].status \in {"none", "joined"}
  PROVE  /\ mls' \in [Devices -> Voices] /\ mls'[d] \in Voices /\ GotoPut(d, w, mls'[d])
         /\ \A e \in Devices : e # d => mls'[e] = mls[e]
         /\ \/ /\ tip.base # 0 /\ tip.base = mls[d].base
               /\ UNCHANGED <<groups, mls, key>>
            \/ /\ groups' = groups + 1
               /\ mls'[d].status = "joined" /\ mls'[d].base = groups + 1 /\ mls'[d].epoch = 1
               /\ key' = IF key[d] = Place(mls[d]) THEN [key EXCEPT ![d] = Place(mls'[d])] ELSE key
<1>1. mls[d] \in Voices /\ mls \in [Devices -> Voices] /\ groups \in Nat
  BY DEF DataTypes
<1>2. groups + 1 \in Nat /\ {d} \in SUBSET Devices
  BY <1>1
<1>3. Group(groups + 1, 1, {d}) \in Voices /\ Group(groups + 1, 1, {d}).status = "joined"
      /\ Group(groups + 1, 1, {d}).base = groups + 1 /\ Group(groups + 1, 1, {d}).epoch = 1
  BY <1>2, GroupIs
<1>4. Renamed(mls[d], groups + 1) \in Voices /\ Renamed(mls[d], groups + 1).status = mls[d].status
      /\ Renamed(mls[d], groups + 1).base = groups + 1 /\ Renamed(mls[d], groups + 1).epoch = 1
  BY <1>1, <1>2, RenamedIs
<1>5. GotoPut(d, w, mls'[d])
  BY DEF Create
<1>6. CASE tip.base # 0 /\ tip.base = mls[d].base
  BY <1>1, <1>5, <1>6 DEF Create
<1>7. CASE ~(tip.base # 0 /\ tip.base = mls[d].base)
  <2>1. /\ groups' = groups + 1
        /\ key' = IF key[d] = Place(mls[d]) THEN [key EXCEPT ![d] = Place(mls'[d])] ELSE key
    BY <1>7 DEF Create
  <2>2. mls' = [mls EXCEPT ![d] = IF mls[d].status = "none" THEN Group(groups + 1, 1, {d})
                                  ELSE Renamed(mls[d], groups + 1)]
    BY <1>7 DEF Create, Renamed
  <2> QED
    BY <1>1, <1>3, <1>4, <1>5, <2>1, <2>2
<1> QED
  BY <1>6, <1>7

LEMMA UsedIs ==
  ASSUME DataTypes
  PROVE  /\ Does => used' \in [done : Nat, cancels : Nat, fails : Nat]
         /\ Fail => used' \in [done : Nat, cancels : Nat, fails : Nat]
<1>1. used \in [done : Nat, cancels : Nat, fails : Nat]
  BY DEF DataTypes
<1>2. ASSUME Does  PROVE used' \in [done : Nat, cancels : Nat, fails : Nat]
  BY <1>1, <1>2 DEF Does
<1>3. ASSUME Fail  PROVE used' \in [done : Nat, cancels : Nat, fails : Nat]
  BY <1>1, <1>3 DEF Fail
<1> QED
  BY <1>2, <1>3

LEMMA TypesInit == Init => Types
<1> SUFFICES ASSUME NEW old \in Keepers,
                    start \in Starts, room = start, groups = Len(Order) + 1,
                    tip = IF start = {} THEN None ELSE [base |-> 1, epoch |-> 1],
                    info = [place |-> tip, leaves |-> start],
                    key = [d \in Devices |-> IF d \in start THEN tip ELSE NoProvider],
                    mls = [d \in Devices |->
                      CASE d \in start -> Group(1, 1, start)
                        [] d \in old \ start -> Group(1 + CHOOSE i \in DOMAIN Order : Order[i] = d, 1, {d})
                        [] OTHER -> NoGroup],
                    log = <<>>, events = <<>>, raced = FALSE,
                    op = [d \in Devices |-> [w \in Workers |-> Idle]],
                    live = start,
                    heard = [d \in Devices |-> 0], seen = [d \in Devices |-> 0],
                    used = [done |-> 0, cancels |-> 0, fails |-> 0]
             PROVE  Types
  BY DEF Init
<1>1. OpTypes
  BY DEF OpTypes, Operations, Stages, Idle, Changes
<1>2. start \subseteq Devices /\ Len(Order) \in Nat
  BY ConstantsOK
<1>3. tip \in Places /\ info \in Infos
  BY <1>2, NonesAre DEF Places, Infos
<1>4. ASSUME NEW d \in Devices  PROVE mls[d] \in Voices
  <2>1. CASE d \in start
    BY <2>1, <1>2, GroupIs
  <2>2. CASE d \notin start /\ d \in old
    <3> DEFINE j == CHOOSE i \in DOMAIN Order : Order[i] = d
    <3>1. \E i \in DOMAIN Order : Order[i] = d
      BY ConstantsOK DEF Devices, Range
    <3>2. j \in Nat
      BY <3>1, ConstantsOK
    <3>3. mls[d] = Group(1 + j, 1, {d})
      BY <2>2
    <3>4. 1 + j \in Nat /\ {d} \in SUBSET Devices
      BY <3>2
    <3> HIDE DEF j
    <3>5. Group(1 + j, 1, {d}) \in Voices
      BY <3>4, GroupIs
    <3> QED
      BY <3>3, <3>5
  <2>3. CASE d \notin start /\ d \notin old
    BY <2>3, NonesAre
  <2> QED
    BY <2>1, <2>2, <2>3
<1>5. mls \in [Devices -> Voices] /\ key \in [Devices -> Places]
  BY <1>3, <1>4, NonesAre
<1>6. room \subseteq Devices /\ live \subseteq Devices /\ log \in Seq(Commits) /\ events \in Seq(Events)
  BY <1>2
<1>7. used \in [done : Nat, cancels : Nat, fails : Nat]
  OBVIOUS
<1>9. groups \in Nat \ {0}
  BY <1>2
<1>10. raced \in BOOLEAN
  OBVIOUS
<1>8. heard \in [Devices -> Nat] /\ seen \in [Devices -> Nat]
  OBVIOUS
<1> QED
  BY <1>1, <1>3, <1>5, <1>6, <1>7, <1>8, <1>9, <1>10 DEF Types, DataTypes

\* Only a connection asks, creates, joins and enters; only the others build.
LEMMA WhoIsAt ==
  ASSUME OpTypes, NEW d \in Devices, NEW w \in Workers
  PROVE  /\ op[d][w].at \in {"token", "look", "create", "join", "enter", "entered"} => w \in Joiners
         /\ At(d, w, "build") => w \notin Joiners
         /\ op[d][w] \in Operations
         /\ At(d, w, "put") => op[d][w].info \in Infos
BY DEF OpTypes, Changes, At, Operations, Stages

\* Types are kept by a connection's steps up to the group ...
LEMMA TypesConnecting ==
  ASSUME Types, NEW d \in Devices, NEW w \in Workers, Token(d, w) \/ Look(d, w) \/ Create(d, w) \/ Join(d, w)
  PROVE  Types'
<1> USE DEF Types
<1>1. CASE Token(d, w)
  <2>1. w \in Joiners
    BY <1>1, WhoIsAt DEF Token, At
  <2>2. OpTypes'
    BY <1>1, <2>1, MovesInType DEF Token, Breaks, Stages
  <2>3. key' \in [Devices -> Places] /\ used' \in [done : Nat, cancels : Nat, fails : Nat]
    BY <1>1, NonesAre, UsedIs DEF Token, Breaks, DataTypes
  <2> QED
    BY <1>1, <2>2, <2>3 DEF Token, DataTypes, server, media
<1>2. CASE Look(d, w)
  <2>1. w \in Joiners
    BY <1>2, WhoIsAt DEF Look, At
  <2>2. OpTypes'
    BY <1>2, <2>1, MovesInType DEF Look, Breaks, Stages
  <2>3. used' \in [done : Nat, cancels : Nat, fails : Nat]
    BY <1>2, UsedIs DEF Look, Breaks, DataTypes
  <2> QED
    BY <1>2, <2>2, <2>3 DEF Look, DataTypes, server, media
<1>3. CASE Create(d, w)
  <2>1. w \in Joiners
    BY <1>3, WhoIsAt DEF Create, At
  <2>2. CASE mls[d].status \notin {"none", "joined"}
    <3>1. OpTypes'
      BY <1>3, <2>1, <2>2, MovesInType DEF Create, Stages
    <3> QED
      BY <1>3, <2>2, <3>1 DEF Create, DataTypes, media
  <2>3. CASE mls[d].status \in {"none", "joined"}
    <3>0. /\ groups' = groups \/ groups' = groups + 1
          /\ key' = key \/ key' = [key EXCEPT ![d] = Place(mls'[d])]
          /\ Place(mls'[d]) \in Places
      BY <2>3, <1>3, CreateDoes, PlacesAre
    <3>1. groups' \in Nat \ {0}
      BY <3>0 DEF DataTypes
    <3>2. key' \in [Devices -> Places]
      BY <3>0 DEF DataTypes
    <3>3. OpTypes'
      BY <2>3, <1>3, CreateDoes, MovesToPutInType
    <3>4. mls' \in [Devices -> Voices]
      BY <2>3, <1>3, CreateDoes
    <3> QED
      BY <1>3, <3>1, <3>2, <3>3, <3>4 DEF Create, DataTypes, media
  <2> QED
    BY <2>2, <2>3
<1>4. CASE Join(d, w)
  <2>1. w \in Joiners
    BY <1>4, WhoIsAt DEF Join, At
  <2>2. OpTypes'
    BY <1>4, <2>1, MovesInType DEF Join, Breaks, Stages
  <2>3. used' \in [done : Nat, cancels : Nat, fails : Nat]
    BY <1>4, UsedIs DEF Join, Breaks, DataTypes
  <2>4. [status |-> "joining", base |-> info.place.base, epoch |-> info.place.epoch,
         leaves |-> info.leaves, pend |-> <<"join", d>>] \in Voices
    BY DEF DataTypes, Infos, Places, Voices, Kinds
  <2>5. mls' \in [Devices -> Voices]
    BY <1>4, <2>4 DEF Join, Breaks, DataTypes
  <2> QED
    BY <1>4, <2>2, <2>3, <2>5 DEF Join, DataTypes, server, media
<1> QED
  BY <1>1, <1>2, <1>3, <1>4

\* ... by the steps of a commit ...
LEMMA TypesCommitting ==
  ASSUME Types, NEW d \in Devices, NEW w \in Workers,
         Build(d, w) \/ Post(d, w) \/ Merge(d, w) \/ Put(d, w) \/ Export(d, w)
  PROVE  Types'
<1> USE DEF Types
<1>0. mls[d] \in Voices /\ mls \in [Devices -> Voices] /\ key \in [Devices -> Places]
  BY DEF DataTypes
<1>1. CASE Build(d, w)
  <2>1. w \notin Joiners
    BY <1>1, WhoIsAt DEF Build, At
  <2>2. OpTypes'
    BY <1>1, <2>1, MovesInType DEF Build, Stages, Changes, Goto
  <2>3. [mls[d] EXCEPT !.pend = Kind(d, w)] \in Voices
    BY <1>0, KindsAre DEF Voices
  <2>4. mls' \in [Devices -> Voices]
    BY <1>0, <1>1, <2>3 DEF Build
  <2> QED
    BY <1>1, <2>2, <2>4 DEF Build, DataTypes, server, media
<1>2. CASE Post(d, w)
  <2>1. OpTypes'
    BY <1>2, MovesInType DEF Post, Breaks, Stages, Changes
  <2>2. used' \in [done : Nat, cancels : Nat, fails : Nat]
    BY <1>2, UsedIs DEF Post, Breaks, DataTypes
  <2> DEFINE commit == [place |-> Next1(Place(mls[d])), by |-> d, did |-> Kind(d, w)]
  <2>3. commit \in Commits /\ commit.place \in Places /\ commit.did \in Kinds
    BY <1>0, PlacesAre, KindsAre DEF Commits
  <2>4. Changed(mls[d].leaves, commit.did) \in SUBSET Devices
    BY <1>0, <2>3, ChangedIs DEF Voices
  <2>5. \/ /\ log' = Append(log, commit) /\ tip' = commit.place
           /\ info' = info \/ info' = [place |-> commit.place, leaves |-> Changed(mls[d].leaves, commit.did)]
        \/ UNCHANGED <<log, tip, info>>
    BY <1>2 DEF Post
  <2> HIDE DEF commit
  <2>6. log \in Seq(Commits) /\ tip \in Places /\ info \in Infos
    BY DEF DataTypes
  <2>7. log' \in Seq(Commits) /\ tip' \in Places
    BY <2>3, <2>5, <2>6
  <2>8. [place |-> commit.place, leaves |-> Changed(mls[d].leaves, commit.did)] \in Infos
    BY <2>3, <2>4 DEF Infos
  <2>9. info' \in Infos
    BY <2>5, <2>6, <2>8
  <2> QED
    BY <1>2, <2>1, <2>2, <2>7, <2>9 DEF Post, DataTypes, media
<1>3. CASE Merge(d, w)
  <2>1. CASE mls[d].pend = <<>>
    <3>1. OpTypes'
      BY <1>3, <2>1, MovesInType DEF Merge, Stages, Changes
    <3> QED
      BY <1>3, <2>1, <3>1 DEF Merge, DataTypes, server, media
  <2>2. CASE mls[d].pend # <<>>
    <3>1. mls[d].pend \in Kinds /\ mls[d].leaves \in SUBSET Devices /\ mls[d].base \in Nat /\ mls[d].epoch \in Nat
      BY <1>0, <2>2 DEF Voices
    <3> DEFINE g == Group(mls[d].base, mls[d].epoch + 1, Changed(mls[d].leaves, mls[d].pend))
    <3>2. g \in Voices
      BY <3>1, ChangedIs, GroupIs
    <3>3. mls' = [mls EXCEPT ![d] = g] /\ IF w \in Devices THEN Goto(d, w, "export") ELSE GotoPut(d, w, mls'[d])
      BY <1>3, <2>2 DEF Merge
    <3> HIDE DEF g
    <3>4. mls' \in [Devices -> Voices]
      BY <1>0, <3>2, <3>3
    <3>5. OpTypes'
      BY <3>3, <3>4, MovesInType, MovesToPutInType DEF Stages, Changes
    <3> QED
      BY <1>3, <3>4, <3>5 DEF Merge, DataTypes, server, media
  <2> QED
    BY <2>1, <2>2
<1>4. CASE Put(d, w)
  <2>1. OpTypes'
    BY <1>4, MovesInType DEF Put, Breaks, Stages, Changes
  <2>2. used' \in [done : Nat, cancels : Nat, fails : Nat]
    BY <1>4, UsedIs DEF Put, Breaks, DataTypes
  <2>3. op[d][w].info \in Infos /\ op[d][w].info.place \in Places
    BY <1>4, WhoIsAt DEF Put, Infos
  <2>4. info' \in Infos /\ tip' \in Places
    BY <1>4, <2>3 DEF Put, DataTypes
  <2>5. raced' \in BOOLEAN
    BY <1>4 DEF Put, DataTypes
  <2> QED
    BY <1>4, <2>1, <2>2, <2>4, <2>5 DEF Put, DataTypes, media
<1>5. CASE Export(d, w)
  <2>1. OpTypes'
    BY <1>5, MovesInType DEF Export, Stages, Changes, Joiners
  <2>2. key' \in [Devices -> Places]
    BY <1>0, <1>5, PlacesAre DEF Export
  <2> QED
    BY <1>5, <2>1, <2>2 DEF Export, DataTypes, server, media
<1> QED
  BY <1>1, <1>2, <1>3, <1>4, <1>5

\* ... and by every step.
LEMMA EventsAre ==
  ASSUME DataTypes, NEW d \in Devices
  PROVE  /\ Exits(d) => events' \in Seq(Events) /\ room' \subseteq Devices
         /\ Enters(d) => events' \in Seq(Events) /\ room' \subseteq Devices /\ Len(events') \in Nat
<1>1. events \in Seq(Events) /\ room \subseteq Devices
  BY DEF DataTypes
<1>2. Gone(d) \in Seq(Events) /\ <<[kind |-> "in", of |-> d]>> \in Seq(Events)
  <2>1. [kind |-> "out", of |-> d] \in Events /\ [kind |-> "in", of |-> d] \in Events
    BY DEF Events
  <2> QED
    BY <2>1 DEF Gone
<1>3. ASSUME Exits(d)  PROVE events' \in Seq(Events) /\ room' \subseteq Devices
  BY <1>1, <1>2, <1>3 DEF Exits
<1>4. ASSUME Enters(d)  PROVE events' \in Seq(Events) /\ room' \subseteq Devices /\ Len(events') \in Nat
  <2>1. events \o Gone(d) \in Seq(Events)
    BY <1>1, <1>2
  <2>2. events' \in Seq(Events)
    BY <1>2, <1>4, <2>1 DEF Enters
  <2> QED
    BY <1>1, <1>4, <2>2 DEF Enters
<1> QED
  BY <1>3, <1>4

LEMMA TypesNext == Types /\ [Next]_vars => Types'
<1> SUFFICES ASSUME Types, [Next]_vars  PROVE Types'
  OBVIOUS
<1>0. DataTypes /\ OpTypes
  BY DEF Types
<1> USE DEF Types
<1>1. ASSUME NEW d \in Devices, NEW w \in Workers,
             Token(d, w) \/ Look(d, w) \/ Create(d, w) \/ Join(d, w) \/ Build(d, w) \/ Post(d, w)
             \/ Merge(d, w) \/ Put(d, w) \/ Export(d, w)
      PROVE  Types'
  BY <1>1, TypesConnecting, TypesCommitting
<1>2. ASSUME NEW d \in Devices, NEW w \in Workers, Enter(d, w)  PROVE Types'
  <2>1. w \in Joiners
    BY <1>0, <1>2, WhoIsAt DEF Enter, At
  <2>2. OpTypes'
    BY <1>0, <1>2, <2>1, MovesInType DEF Enter, Breaks, Stages
  <2>3. used' \in [done : Nat, cancels : Nat, fails : Nat]
    BY <1>0, <1>2, UsedIs DEF Enter, Breaks, DataTypes
  <2>4. \/ Enters(d) /\ seen' = [seen EXCEPT ![d] = Len(events')]
        \/ UNCHANGED <<room, events, seen>>
    BY <1>2 DEF Enter
  <2>5. events' \in Seq(Events) /\ room' \subseteq Devices
    BY <1>0, <2>4, EventsAre DEF DataTypes
  <2>6. seen' \in [Devices -> Nat]
    <3>1. Len(events') \in Nat /\ seen \in [Devices -> Nat]
      BY <2>5 DEF DataTypes
    <3> QED
      BY <2>4, <3>1
  <2> QED
    BY <1>2, <2>2, <2>3, <2>5, <2>6 DEF Enter, DataTypes, server
<1>3. ASSUME NEW d \in Devices, ConnectRoom(d)  PROVE Types'
  <2>1. OpTypes'
    BY <1>0, <1>3, WorkersAre, MovesInType DEF ConnectRoom, Stages
  <2>2. used' \in [done : Nat, cancels : Nat, fails : Nat]
    BY <1>0, <1>3, UsedIs DEF ConnectRoom
  <2>3. raced' \in BOOLEAN
    BY <1>3 DEF ConnectRoom
  <2> QED
    BY <1>3, <2>1, <2>2, <2>3 DEF ConnectRoom, DataTypes, media
<1>4. ASSUME NEW d \in Devices, Cancel(d)  PROVE Types'
  <2> DEFINE o == [op EXCEPT ![d]["stale"] = op[d]["connect"]]
  <2>1. o \in [Devices -> [Workers -> Operations]]
        /\ o[d]["stale"] = op[d]["connect"]
        /\ (\A v \in Workers : v # "stale" => o[d][v] = op[d][v])
        /\ (\A e \in Devices : e # d => o[e] = op[e])
    BY <1>0, WorkersAre DEF OpTypes
  <2>2. op' = [o EXCEPT ![d]["connect"] = Idle] /\ Idle \in Operations /\ Idle.at = "idle"
    BY <1>4 DEF Cancel, Idle, Operations, Stages
  <2> HIDE DEF o
  <2>3. op' \in [Devices -> [Workers -> Operations]]
        /\ op'[d]["connect"] = Idle
        /\ (\A v \in Workers : v # "connect" => op'[d][v] = o[d][v])
        /\ (\A e \in Devices : e # d => op'[e] = o[e])
    BY <2>1, <2>2, WorkersAre
  <2>4. OpTypes'
    BY <1>0, <2>1, <2>2, <2>3, WorkersAre DEF OpTypes
  <2>5. used' \in [done : Nat, cancels : Nat, fails : Nat]
    BY <1>0, <1>4 DEF Cancel, DataTypes
  <2> QED
    BY <1>4, <2>4, <2>5 DEF Cancel, DataTypes, server, media
<1>5. ASSUME NEW d \in Devices, NEW w \in Joiners, Connected(d, w)  PROVE Types'
  <2>1. OpTypes'
    BY <1>0, <1>5, WorkersAre, MovesInType DEF Connected, Stages
  <2>2. \/ live' = live \cup {d} /\ heard' = [heard EXCEPT ![d] = Len(log)] /\ UNCHANGED <<room, events>>
        \/ Exits(d) /\ UNCHANGED <<live, heard>>
    BY <1>5 DEF Connected
  <2>3. events' \in Seq(Events) /\ room' \subseteq Devices /\ live' \subseteq Devices
    BY <1>0, <2>2, EventsAre DEF DataTypes
  <2>4. heard' \in [Devices -> Nat]
    <3>1. Len(log) \in Nat /\ heard \in [Devices -> Nat]
      BY DEF DataTypes
    <3> QED
      BY <2>2, <3>1
  <2> QED
    BY <1>5, <2>1, <2>3, <2>4 DEF Connected, DataTypes, server
<1>6. ASSUME NEW d \in Devices, Leave(d)  PROVE Types'
  <2>1. used' \in [done : Nat, cancels : Nat, fails : Nat] /\ events' \in Seq(Events) /\ room' \subseteq Devices
    BY <1>0, <1>6, UsedIs, EventsAre DEF Leave
  <2>2. key' \in [Devices -> Places] /\ live' \subseteq Devices
    BY <1>6, NonesAre DEF Leave, DataTypes
  <2>3. OpTypes'
    BY <1>6 DEF Leave, OpTypes
  <2> QED
    BY <1>6, <2>1, <2>2, <2>3 DEF Leave, DataTypes, server
<1>7. ASSUME NEW d \in Devices, Sees(d)  PROVE Types'
  <2>1. events \in Seq(Events) /\ seen \in [Devices -> Nat]
    BY DEF DataTypes
  <2>2. seen[d] + 1 \in 1..Len(events) /\ seen' = [seen EXCEPT ![d] = seen[d] + 1]
    BY <1>7, <2>1 DEF Sees
  <2>3. seen' \in [Devices -> Nat]
    BY <2>1, <2>2
  <2>4. events[seen[d] + 1].of \in Devices
    <3>1. events[seen[d] + 1] \in Events
      BY <2>1, <2>2
    <3> QED
      BY <3>1 DEF Events
  <2>5. Goto(d, events[seen[d] + 1].of, "build") \/ op' = op
    BY <1>7 DEF Sees
  <2>6. OpTypes'
    <3>1. CASE op' = op
      BY <3>1 DEF OpTypes
    <3>2. CASE Goto(d, events[seen[d] + 1].of, "build")
      BY <1>0, <2>4, <3>2, WorkersAre, MovesInType DEF Stages, Changes
    <3> QED
      BY <2>5, <3>1, <3>2
  <2> QED
    BY <1>7, <2>3, <2>6 DEF Sees, DataTypes, server
<1>8. ASSUME NEW d \in Devices, Reconnected(d)  PROVE Types'
  <2>1. used' \in [done : Nat, cancels : Nat, fails : Nat] /\ Place(mls[d]) \in Places
    BY <1>0, <1>8, UsedIs, PlacesAre DEF Reconnected, DataTypes
  <2> QED
    BY <1>8, <2>1 DEF Reconnected, DataTypes, OpTypes, server, media
<1>9. ASSUME NEW d \in Devices, Rotate(d)  PROVE Types'
  <2>1. OpTypes'
    BY <1>0, <1>9, WorkersAre, MovesInType DEF Rotate, Stages, Changes
  <2>2. used' \in [done : Nat, cancels : Nat, fails : Nat]
    BY <1>0, <1>9, UsedIs DEF Rotate
  <2> QED
    BY <1>9, <2>1, <2>2 DEF Rotate, DataTypes, server, media
<1>10. ASSUME NEW d \in Devices, HandleVoiceCommit(d)  PROVE Types'
  <2>1. log \in Seq(Commits) /\ heard \in [Devices -> Nat] /\ mls[d] \in Voices /\ mls \in [Devices -> Voices]
    BY DEF DataTypes
  <2>2. heard' = [heard EXCEPT ![d] = heard[d] + 1] /\ heard[d] + 1 \in 1..Len(log)
    BY <1>10, <2>1 DEF HandleVoiceCommit
  <2>3. heard' \in [Devices -> Nat]
    BY <2>1, <2>2
  <2>4. log[heard[d] + 1] \in Commits /\ log[heard[d] + 1].did \in Kinds
    <3>1. log[heard[d] + 1] \in Commits
      BY <2>1, <2>2
    <3> QED
      BY <3>1 DEF Commits
  <2> DEFINE commit == log[heard[d] + 1]
             g == Group(mls[d].base, mls[d].epoch + 1, Changed(mls[d].leaves, commit.did))
             s == IF commit.did = <<"remove", d>> THEN "evicted" ELSE "joined"
  <2>5. g \in Voices
    BY <2>1, <2>4, ChangedIs, GroupIs DEF Voices
  <2>6. mls' = mls \/ mls' = [mls EXCEPT ![d] = [g EXCEPT !.status = s]]
    BY <1>10 DEF HandleVoiceCommit
  <2>7. [g EXCEPT !.status = s] \in Voices
    <3>1. s \in {"evicted", "joined"}
      OBVIOUS
    <3> HIDE DEF s, g
    <3> QED
      BY <2>5, <3>1 DEF Voices
  <2> HIDE DEF s, g
  <2>8. mls' \in [Devices -> Voices]
    BY <2>1, <2>6, <2>7
  <2>9. OpTypes'
    BY <1>10 DEF HandleVoiceCommit, OpTypes
  <2> QED
    BY <1>10, <2>3, <2>8, <2>9 DEF HandleVoiceCommit, DataTypes, server
<1>11. ASSUME NEW d \in Devices, OnFrameKey(d)  PROVE Types'
  <2>1. key' \in [Devices -> Places]
    BY <1>11, PlacesAre DEF OnFrameKey, DataTypes
  <2> QED
    BY <1>11, <2>1 DEF OnFrameKey, DataTypes, OpTypes, server, media
<1>12. CASE RoomEmptied
  <2>1. info' \in Infos /\ tip' \in Places
    BY <1>12, NonesAre DEF RoomEmptied, Infos
  <2>2. raced' \in BOOLEAN
    BY <1>12 DEF RoomEmptied
  <2> QED
    BY <1>12, <2>1, <2>2 DEF RoomEmptied, DataTypes, OpTypes, media
<1>13. ASSUME NEW d \in Devices, Crash(d)  PROVE Types'
  <2>1. used' \in [done : Nat, cancels : Nat, fails : Nat] /\ key' \in [Devices -> Places] /\ live' \subseteq Devices
    BY <1>0, <1>13, UsedIs, NonesAre DEF Crash, DataTypes
  <2>2. OpTypes'
    <3>1. Idle \in Operations /\ Idle.at = "idle" /\ Idle.at \in Changes
      BY DEF Idle, Operations, Stages, Changes
    <3>2. op' = [op EXCEPT ![d] = [w \in Workers |-> Idle]]
      BY <1>13 DEF Crash
    <3> QED
      BY <1>0, <3>1, <3>2 DEF OpTypes
  <2> QED
    BY <1>13, <2>1, <2>2 DEF Crash, DataTypes, server
<1>14. ASSUME NEW d \in Devices, Dropped(d) \/ Detected(d)  PROVE Types'
  <2>1. events' \in Seq(Events) /\ room' \subseteq Devices /\ used' \in [done : Nat, cancels : Nat, fails : Nat]
    BY <1>0, <1>14, UsedIs, EventsAre DEF Dropped, Detected, DataTypes
  <2> QED
    BY <1>14, <2>1 DEF Dropped, Detected, DataTypes, OpTypes, server
<1>15. CASE UNCHANGED vars
  BY <1>15 DEF vars, server, media, DataTypes, OpTypes
<1>16. ASSUME NEW d \in Devices, Quietly(d) \/ Visibly(d)  PROVE Types'
  <2>1. \A w \in Running(d) : w \in Workers
    BY DEF Running
  <2>2. CASE Works(d)
    BY <1>1, <1>2, <2>1, <2>2 DEF Works
  <2> QED
    BY <1>3, <1>4, <1>5, <1>6, <1>7, <1>8, <1>9, <1>10, <1>11, <1>13, <1>14, <1>16, <2>2
    DEF Quietly, Visibly, Joiners
<1> QED
  BY <1>12, <1>15, <1>16 DEF Next

-----------------------------------------------------------------------------
(* The inductive invariant: while nothing has raced, the accepted commits   *)
(* of a group are a line, and each device is where its operation says.      *)

Accepted(p) == p.base # 0 /\ (p.epoch = 1 \/ \E i \in DOMAIN log : log[i].place = p)
NewName(b) == \A i \in DOMAIN log : log[i].place.base # b

\* No place is taken twice, and none of the current group is past the tip.
Server ==
  /\ tip.base <= groups /\ info.place.base = tip.base
  /\ info.place.base = 0 => info.place = None
  /\ info.place.base # 0 => Accepted(info.place)
  /\ \A i \in DOMAIN log : log[i].place.base \in 1..groups
  /\ \A i \in DOMAIN log : log[i].place.base = tip.base => log[i].place.epoch <= tip.epoch
  /\ \A i, j \in DOMAIN log : log[i].place = log[j].place => i = j

\* A connection under way is the only operation of its device.
Solitary(d) ==
  \A w \in Joiners : ~At(d, w, "idle") => d \notin live /\ \A v \in Workers : v # w => At(d, v, "idle")

\* A group a device can use is one the server knows.
Owned(d) ==
  /\ mls[d].base <= groups
  /\ mls[d].status = "none" <=> mls[d].base = 0
  /\ mls[d].status \in {"joined", "joining"} => Accepted(Place(mls[d]))

\* What was built is there until it is merged, and only its own worker merges it.
Posting(d, w) ==
  At(d, w, "post") =>
    IF w \in Joiners THEN mls[d].status = "joining"
    ELSE mls[d].pend = Kind(d, w) => mls[d].status = "joined"
Merging(d, w) ==
  At(d, w, "merge") =>
    /\ mls[d].pend = Kind(d, w) /\ mls[d].base = tip.base
    /\ mls[d].status = (IF w \in Joiners THEN "joining" ELSE "joined")
    /\ \E i \in DOMAIN log : log[i].by = d /\ log[i].place = Next1(Place(mls[d]))
    /\ \A i \in DOMAIN log :
         log[i].by = d /\ log[i].place.base = mls[d].base => log[i].place.epoch <= mls[d].epoch + 1
Putting(d, w) ==
  At(d, w, "put") =>
    /\ Accepted(op[d][w].info.place) /\ op[d][w].info.place.base = mls[d].base
    /\ w \in Joiners => mls[d].status = "joined"
    /\ mls[d].base = tip.base \/ NewName(mls[d].base)
Entering(d, w) ==
  w \in Joiners /\ op[d][w].at \in {"export", "enter", "entered"} =>
    /\ mls[d].base = tip.base /\ mls[d].status = "joined"
    /\ At(d, w, "entered") => d \in room
    /\ w = "connect" /\ ~At(d, w, "export") => key[d] = Place(mls[d])
AtWork(d, w) == Posting(d, w) /\ Merging(d, w) /\ Putting(d, w) /\ Entering(d, w)

\* A device that is in has joined its group and has the key of an accepted
\* epoch of it, and in the room that group is the current one.
Sits(d) ==
  d \in live =>
    /\ Accepted(key[d]) /\ key[d].base = mls[d].base
    /\ mls[d].status \in {"joined", "evicted"}
    /\ d \in room => key[d].base = tip.base

\* A removal is merged, or about to be, and then its epoch is exported, or
\* about to be.
Removes(d) ==
  used.fails = 0 /\ mls[d].status = "joined" =>
    \A i \in DOMAIN log :
      log[i].by = d /\ log[i].did[1] = "remove" /\ log[i].place.base = mls[d].base =>
        /\ \/ mls[d].epoch >= log[i].place.epoch
           \/ At(d, log[i].did[2], "merge") /\ log[i].place.epoch = mls[d].epoch + 1
        /\ d \in live /\ mls[d].epoch >= log[i].place.epoch /\ ~At(d, log[i].did[2], "export")
             => key[d].epoch >= log[i].place.epoch

Device(d) == Solitary(d) /\ Owned(d) /\ (\A w \in Workers : AtWork(d, w)) /\ Sits(d) /\ Removes(d)
Sound == Server /\ \A d \in Devices : Device(d)
VoiceInv == Types /\ (~raced => Sound)

-----------------------------------------------------------------------------
(* A device acts: the others keep what they have.                           *)

Others(d) ==
  \A e \in Devices : e # d =>
    /\ mls'[e] = mls[e] /\ key'[e] = key[e] /\ op'[e] = op[e]
    /\ (e \in live' <=> e \in live) /\ (e \in room' <=> e \in room)
Evolves(d) ==
  /\ \A i \in DOMAIN log : i \in DOMAIN log' /\ log'[i] = log[i]
  /\ \A i \in DOMAIN log' : i \in DOMAIN log \/ (log'[i].by = d /\ log'[i].place.base = tip.base)
  /\ tip'.base = tip.base \/ tip.base = 0
  /\ groups <= groups' /\ used.fails <= used'.fails

LEMMA AcceptedStays ==
  ASSUME NEW d, Evolves(d), NEW p, Accepted(p)
  PROVE  Accepted(p)'
BY DEF Evolves, Accepted

LEMMA NewNameStays ==
  ASSUME NEW d, Evolves(d), NEW b, NewName(b), b # tip.base
  PROVE  NewName(b)'
BY DEF Evolves, NewName

LEMMA OthersKeep ==
  ASSUME Types, Types', NEW d \in Devices, NEW e \in Devices, e # d, Device(e), Evolves(d), Others(d)
  PROVE  Device(e)'
<1>1. /\ mls'[e] = mls[e] /\ key'[e] = key[e] /\ op'[e] = op[e]
      /\ (e \in live' <=> e \in live) /\ (e \in room' <=> e \in room)
  BY DEF Others
<1>2. mls[e] \in Voices /\ key[e] \in Places /\ groups \in Nat /\ groups' \in Nat /\ used.fails \in Nat
      /\ used'.fails \in Nat /\ tip.base \in Nat
  BY DEF Types, DataTypes, Places
<1>3. Solitary(e)'
  BY <1>1 DEF Device, Solitary, At
<1>4. Owned(e)'
  <2>1. mls[e].base <= groups'
    BY <1>2 DEF Device, Owned, Evolves, Voices
  <2> QED
    BY <1>1, <2>1, AcceptedStays DEF Device, Owned, Place
<1>5. ASSUME NEW w \in Workers  PROVE AtWork(e, w)'
  <2>0. AtWork(e, w)
    BY DEF Device
  <2>1. Posting(e, w)'
    BY <1>1, <2>0 DEF AtWork, Posting, At, Kind
  <2>2. mls[e].status # "none" => mls[e].base # 0
    BY DEF Device, Owned
  <2>3. Merging(e, w)'
    <3>1. SUFFICES ASSUME At(e, w, "merge")  PROVE Merging(e, w)'
      BY <1>1 DEF Merging, At
    <3>2. tip'.base = tip.base
      BY <2>0, <2>2, <3>1 DEF Merging, Evolves, AtWork
    <3>3. \E i \in DOMAIN log' : log'[i].by = e /\ log'[i].place = Next1(Place(mls[e]))
      BY <2>0, <3>1 DEF Merging, Evolves, AtWork
    <3>4. \A i \in DOMAIN log' :
            log'[i].by = e /\ log'[i].place.base = mls[e].base => log'[i].place.epoch <= mls[e].epoch + 1
      BY <2>0, <3>1 DEF Merging, Evolves, AtWork
    <3> QED
      BY <1>1, <2>0, <3>1, <3>2, <3>3, <3>4 DEF Merging, AtWork, Kind, Place, Next1
  <2>4. Putting(e, w)'
    <3>1. SUFFICES ASSUME At(e, w, "put")  PROVE Putting(e, w)'
      BY <1>1 DEF Putting, At
    <3>2. Accepted(op[e][w].info.place)'
      BY <1>1, <2>0, <3>1, AcceptedStays DEF Putting, AtWork
    <3>3. mls[e].base = tip'.base \/ NewName(mls[e].base)'
      <4>1. mls[e].base # 0
        BY <2>0, <3>1 DEF Putting, AtWork, Accepted
      <4>2. CASE mls[e].base = tip.base
        BY <4>1, <4>2 DEF Evolves
      <4>3. CASE mls[e].base # tip.base /\ NewName(mls[e].base)
        <5>1. PICK b : b = mls[e].base
          OBVIOUS
        <5>2. NewName(b)'
          BY <4>3, <5>1, NewNameStays
        <5> QED
          BY <1>1, <5>1, <5>2 DEF NewName
      <4> QED
        BY <2>0, <3>1, <4>2, <4>3 DEF Putting, AtWork
    <3> QED
      BY <1>1, <2>0, <3>1, <3>2, <3>3 DEF Putting, AtWork, NewName
  <2>5. Entering(e, w)'
    BY <1>1, <2>0, <2>2 DEF AtWork, Entering, At, Place, Evolves
  <2> QED
    BY <2>1, <2>3, <2>4, <2>5 DEF AtWork
<1>6. Sits(e)'
  <2>1. SUFFICES ASSUME e \in live  PROVE Sits(e)'
    BY <1>1 DEF Sits
  <2>2. /\ Accepted(key[e]) /\ key[e].base = mls[e].base /\ mls[e].status \in {"joined", "evicted"}
        /\ e \in room => key[e].base = tip.base
    BY <2>1 DEF Device, Sits
  <2>3. Accepted(key[e])' /\ key[e].base # 0
    BY <1>1, <2>2, AcceptedStays DEF Accepted
  <2> QED
    BY <1>1, <2>2, <2>3 DEF Sits, Evolves
<1>7. Removes(e)'
  <2>1. SUFFICES ASSUME used'.fails = 0, mls[e].status = "joined",
                        NEW i \in DOMAIN log', log'[i].by = e, log'[i].did[1] = "remove",
                        log'[i].place.base = mls[e].base
                 PROVE  /\ \/ mls[e].epoch >= log'[i].place.epoch
                           \/ At(e, log'[i].did[2], "merge") /\ log'[i].place.epoch = mls[e].epoch + 1
                        /\ e \in live /\ mls[e].epoch >= log'[i].place.epoch /\ ~At(e, log'[i].did[2], "export")
                             => key[e].epoch >= log'[i].place.epoch
    BY <1>1 DEF Removes, At
  <2>2. i \in DOMAIN log /\ log'[i] = log[i] /\ used.fails = 0
    BY <1>2, <2>1 DEF Evolves
  <2> QED
    BY <2>1, <2>2 DEF Device, Removes
<1> QED
  BY <1>3, <1>4, <1>5, <1>6, <1>7 DEF Device

\* What a step owes: the server, and the device that acts.
LEMMA Owes ==
  ASSUME Types, Types', Sound, NEW d \in Devices, Evolves(d), Others(d), Server', Device(d)'
  PROVE  Sound'
<1> SUFFICES ASSUME NEW e \in Devices  PROVE Device(e)'
  BY DEF Sound
<1>1. Device(e)
  BY DEF Sound
<1> QED
  BY <1>1, OthersKeep

\* The server does nothing ...
LEMMA ServerRests ==
  ASSUME Types, Types', NEW d, UNCHANGED <<log, tip, info, groups>>, used'.fails >= used.fails
  PROVE  Evolves(d) /\ (Server => Server')
<1>1. groups \in Nat /\ used.fails \in Nat /\ used'.fails \in Nat
  BY DEF Types, DataTypes
<1>2. Evolves(d)
  BY <1>1 DEF Evolves
<1>3. ASSUME Server  PROVE Server'
  BY <1>3 DEF Server, Accepted
<1> QED
  BY <1>2, <1>3

\* ... names a group ...
LEMMA ServerNames ==
  ASSUME Types, Types', NEW d, UNCHANGED <<log, tip, info, used>>, groups' = groups + 1
  PROVE  Evolves(d) /\ (Server => Server')
<1>1. groups \in Nat /\ used.fails \in Nat /\ used'.fails \in Nat /\ tip.base \in Nat /\ log \in Seq(Commits)
  BY DEF Types, DataTypes, Places
<1>2. Evolves(d)
  BY <1>1 DEF Evolves
<1>3. ASSUME Server  PROVE Server'
  <2>1. \A i \in DOMAIN log : log[i].place.base \in 1..groups'
    BY <1>1, <1>3 DEF Server
  <2>2. tip.base <= groups'
    BY <1>1, <1>3 DEF Server
  <2> QED
    BY <1>3, <2>1, <2>2 DEF Server, Accepted
<1> QED
  BY <1>2, <1>3

\* ... or takes a commit of the current group.
LEMMA ServerTakes ==
  ASSUME Types, Types', NEW d \in Devices, NEW commit \in Commits, Server,
         commit.by = d, commit.place = Next1(tip), tip.base # 0,
         log' = Append(log, commit), tip' = commit.place, info' = info \/ info'.place = commit.place,
         groups' = groups, used'.fails >= used.fails
  PROVE  Evolves(d) /\ Server' /\ Accepted(commit.place)'
<1>1. /\ groups \in Nat /\ used.fails \in Nat /\ used'.fails \in Nat /\ tip \in Places /\ log \in Seq(Commits)
      /\ tip.base \in Nat /\ tip.epoch \in Nat
  BY DEF Types, DataTypes, Places
<1>2. commit.place.base = tip.base /\ commit.place.epoch = tip.epoch + 1
  BY <1>1, NextPlace
<1>3. /\ \A i \in DOMAIN log : i \in DOMAIN log' /\ log'[i] = log[i]
      /\ \A i \in DOMAIN log' : i \in DOMAIN log \/ (i = Len(log) + 1 /\ log'[i] = commit)
      /\ Len(log) + 1 \in DOMAIN log' /\ log'[Len(log) + 1] = commit
  BY <1>1
<1>4. Evolves(d)
  BY <1>1, <1>2, <1>3 DEF Evolves
<1>5. Accepted(commit.place)'
  BY <1>2, <1>3 DEF Accepted
<1>6. \A i \in DOMAIN log : log[i].place \in Places /\ log[i].place.epoch \in Nat
  <2> SUFFICES ASSUME NEW i \in DOMAIN log  PROVE log[i].place \in Places /\ log[i].place.epoch \in Nat
    OBVIOUS
  <2>1. log[i] \in Commits
    BY <1>1
  <2> QED
    BY <2>1 DEF Commits, Places
<1>7. tip'.base <= groups' /\ info'.place.base = tip'.base
  BY <1>2 DEF Server
<1>8. info'.place.base = 0 => info'.place = None
  BY <1>2 DEF Server
<1>12. info'.place.base # 0 => Accepted(info.place)'
  <2>1. PICK p : p = info.place
    OBVIOUS
  <2>2. Accepted(p)'
    BY <1>2, <1>4, <2>1, AcceptedStays DEF Server
  <2> QED
    BY <1>5, <2>1, <2>2 DEF Accepted
<1>9. \A i \in DOMAIN log' : log'[i].place.base \in 1..groups'
  <2>1. tip.base \in 1..groups
    BY <1>1 DEF Server
  <2> QED
    BY <1>2, <1>3, <2>1 DEF Server
<1>10. ASSUME NEW i \in DOMAIN log', log'[i].place.base = tip'.base
       PROVE  log'[i].place.epoch <= tip'.epoch
  <2>1. CASE i \in DOMAIN log
    <3>1. log[i].place.epoch <= tip.epoch /\ log[i].place.epoch \in Nat
      BY <1>2, <1>3, <1>6, <1>10, <2>1 DEF Server
    <3>2. log[i].place.epoch <= tip.epoch + 1
      BY <1>1, <3>1
    <3> QED
      BY <1>2, <1>3, <2>1, <3>2
  <2>2. CASE i = Len(log) + 1
    BY <1>1, <1>2, <1>3, <2>2
  <2> QED
    BY <1>3, <2>1, <2>2
<1>11. ASSUME NEW i \in DOMAIN log', NEW j \in DOMAIN log', log'[i].place = log'[j].place
       PROVE  i = j
  <2>1. ASSUME NEW k \in DOMAIN log  PROVE log[k].place # commit.place
    <3>1. SUFFICES ASSUME log[k].place.base = tip.base  PROVE log[k].place.epoch # tip.epoch + 1
      BY <1>2
    <3>2. log[k].place.epoch <= tip.epoch /\ log[k].place.epoch \in Nat
      BY <1>6, <3>1 DEF Server
    <3> QED
      BY <1>1, <3>2
  <2>2. CASE i \in DOMAIN log /\ j \in DOMAIN log
    BY <1>3, <1>11, <2>2 DEF Server
  <2> QED
    BY <1>3, <1>11, <2>1, <2>2
<1> QED
  BY <1>4, <1>5, <1>7, <1>8, <1>9, <1>10, <1>11, <1>12 DEF Server

-----------------------------------------------------------------------------
(* A connection's steps.                                                    *)

\* Where a connection is under way, nothing else of the device is.
LEMMA JoinerAlone ==
  ASSUME NEW d \in Devices, NEW w \in Joiners, Device(d), ~At(d, w, "idle")
  PROVE  d \notin live /\ \A v \in Workers : v # w => At(d, v, "idle")
BY DEF Device, Solitary

LEMMA JoinerSettles ==
  ASSUME NEW d \in Devices, NEW w \in Joiners, d \notin live',
         \A v \in Workers : v # w => op'[d][v].at = "idle",
         Owned(d)', AtWork(d, w)', Removes(d)'
  PROVE  Device(d)'
<1>1. Solitary(d)' /\ Sits(d)'
  BY WorkersAre DEF Solitary, Sits, At
<1>2. ASSUME NEW v \in Workers, v # w  PROVE AtWork(d, v)'
  BY <1>2 DEF AtWork, Posting, Merging, Putting, Entering, At
<1> QED
  BY <1>1, <1>2 DEF Device

\* ... so that its removals, if any, are merged.
LEMMA JoinerRemoves ==
  ASSUME Types, Types', NEW d \in Devices, NEW w \in Joiners, Device(d), ~At(d, w, "idle"),
         mls'[d] = mls[d], d \notin live', log' = log, used'.fails >= used.fails
  PROVE  Removes(d)'
<1>1. used.fails \in Nat /\ used'.fails \in Nat /\ log \in Seq(Commits)
  BY DEF Types, DataTypes
<1>2. SUFFICES ASSUME used'.fails = 0, mls[d].status = "joined",
                      NEW i \in DOMAIN log, log[i].by = d, log[i].did[1] = "remove",
                      log[i].place.base = mls[d].base
               PROVE  mls[d].epoch >= log[i].place.epoch
  BY DEF Removes
<1>3. log[i].did[2] \in Devices
  <2>1. log[i] \in Commits
    BY <1>1
  <2> QED
    BY <2>1 DEF Commits, Kinds
<1>4. ~At(d, log[i].did[2], "merge")
  <2>1. log[i].did[2] \in Workers /\ log[i].did[2] # w
    BY <1>3, WorkersAre
  <2> QED
    BY <2>1, JoinerAlone DEF At
<1> QED
  BY <1>1, <1>2, <1>4 DEF Device, Removes

LEMMA OwnedStays ==
  ASSUME NEW d \in Devices, NEW e, Owned(d), Evolves(e), mls'[d] = mls[d], groups' = groups
  PROVE  Owned(d)'
BY AcceptedStays DEF Owned, Place

\* A connection that does not touch the group.
LEMMA JoinerMoves ==
  ASSUME Types, Types', Sound, NEW d \in Devices, NEW w \in Joiners, ~At(d, w, "idle"),
         \A v \in Workers : v # w => op'[d][v] = op[d][v],
         Others(d), mls' = mls, UNCHANGED <<log, tip, info, groups>>, live' = live,
         used'.fails >= used.fails, AtWork(d, w)'
  PROVE  Sound'
<1>1. Device(d) /\ Server
  BY DEF Sound
<1>2. d \notin live' /\ \A v \in Workers : v # w => op'[d][v].at = "idle"
  BY <1>1, JoinerAlone DEF At
<1>3. Evolves(d) /\ Server'
  BY <1>1, ServerRests
<1>4. Owned(d)'
  BY <1>1, <1>3, OwnedStays DEF Device
<1>5. Removes(d)'
  BY <1>1, <1>2, JoinerRemoves
<1>6. Device(d)'
  BY <1>2, <1>4, <1>5, JoinerSettles
<1> QED
  BY <1>3, <1>6, Owes

LEMMA FailsGrow ==
  ASSUME Types
  PROVE  /\ UNCHANGED used => used'.fails >= used.fails
         /\ Fail => used'.fails = used.fails + 1 /\ used'.fails >= used.fails /\ used'.fails # 0
         /\ Does => used'.fails = used.fails /\ used'.fails >= used.fails
<1>1. used \in [done : Nat, cancels : Nat, fails : Nat]
  BY DEF Types, DataTypes
<1>2. ASSUME Fail  PROVE used'.fails = used.fails + 1
  BY <1>1, <1>2 DEF Fail
<1>3. ASSUME Does  PROVE used'.fails = used.fails
  BY <1>1, <1>3 DEF Does
<1> QED
  BY <1>1, <1>2, <1>3

LEMMA SoundToken ==
  ASSUME Types, Types', Sound, NEW d \in Devices, NEW w \in Workers, Token(d, w)
  PROVE  Sound'
<1>0. op \in [Devices -> [Workers -> Operations]] /\ OpTypes
  BY DEF Types, OpTypes
<1>1. w \in Joiners /\ ~At(d, w, "idle")
  BY <1>0, WhoIsAt DEF Token, At
<1>2. PICK at \in {"look", "idle"} : Goto(d, w, at)
  BY DEF Token, Breaks
<1>3. /\ \A v \in Workers : v # w => op'[d][v] = op[d][v]
      /\ \A e \in Devices : e # d => op'[e] = op[e]
      /\ op'[d][w].at = at
  BY <1>0, <1>2, MovesTo DEF Stages
<1>4. Others(d)
  <2>1. \A e \in Devices : e # d => key'[e] = key[e]
    BY DEF Token, Types, DataTypes
  <2> QED
    BY <1>3, <2>1 DEF Others, Token, media
<1>5. used'.fails >= used.fails
  BY FailsGrow DEF Token, Breaks
<1>6. AtWork(d, w)'
  BY <1>2, <1>3 DEF AtWork, Posting, Merging, Putting, Entering, At
<1> QED
  BY <1>1, <1>3, <1>4, <1>5, <1>6, JoinerMoves DEF Token, server, media

LEMMA SoundLook ==
  ASSUME Types, Types', Sound, NEW d \in Devices, NEW w \in Workers, Look(d, w)
  PROVE  Sound'
<1>0. op \in [Devices -> [Workers -> Operations]] /\ OpTypes
  BY DEF Types, OpTypes
<1>1. w \in Joiners /\ ~At(d, w, "idle")
  BY <1>0, WhoIsAt DEF Look, At
<1>2. PICK at \in {"create", "join", "idle"} : Goto(d, w, at)
  BY DEF Look, Breaks
<1>3. /\ \A v \in Workers : v # w => op'[d][v] = op[d][v]
      /\ \A e \in Devices : e # d => op'[e] = op[e]
      /\ op'[d][w].at = at
  BY <1>0, <1>2, MovesTo DEF Stages
<1>4. Others(d)
  BY <1>3 DEF Others, Look, media
<1>5. used'.fails >= used.fails
  BY FailsGrow DEF Look, Breaks
<1>6. AtWork(d, w)'
  BY <1>2, <1>3 DEF AtWork, Posting, Merging, Putting, Entering, At
<1> QED
  BY <1>1, <1>3, <1>4, <1>5, <1>6, JoinerMoves DEF Look, server, media

LEMMA SoundCreate ==
  ASSUME Types, Types', Sound, NEW d \in Devices, NEW w \in Workers, Create(d, w)
  PROVE  Sound'
<1>0. op \in [Devices -> [Workers -> Operations]] /\ OpTypes /\ DataTypes
  BY DEF Types, OpTypes
<1>1. w \in Joiners /\ ~At(d, w, "idle")
  BY <1>0, WhoIsAt DEF Create, At
<1>2. Device(d) /\ Server
  BY DEF Sound
<1>u. used'.fails >= used.fails
  BY FailsGrow DEF Create
<1>3. CASE mls[d].status \notin {"none", "joined"}
  <2>1. /\ \A v \in Workers : v # w => op'[d][v] = op[d][v]
        /\ \A e \in Devices : e # d => op'[e] = op[e]
        /\ op'[d][w].at = "idle"
    BY <1>0, <1>3, MovesTo DEF Stages, Create
  <2>2. AtWork(d, w)'
    BY <2>1 DEF AtWork, Posting, Merging, Putting, Entering, At
  <2>3. Others(d)
    BY <1>3, <2>1 DEF Others, Create, media
  <2> QED
    BY <1>1, <1>3, <1>u, <2>1, <2>2, <2>3, JoinerMoves DEF Create, media
<1>4. CASE mls[d].status \in {"none", "joined"}
  <2> DEFINE Adopts == tip.base # 0 /\ tip.base = mls[d].base /\ UNCHANGED <<groups, mls, key>>
             Makes == /\ groups' = groups + 1
                      /\ mls'[d].status = "joined" /\ mls'[d].base = groups + 1 /\ mls'[d].epoch = 1
                      /\ key' = IF key[d] = Place(mls[d]) THEN [key EXCEPT ![d] = Place(mls'[d])] ELSE key
  <2>1. /\ mls'[d] \in Voices /\ GotoPut(d, w, mls'[d])
        /\ \A e \in Devices : e # d => mls'[e] = mls[e]
        /\ Adopts \/ Makes
    BY <1>0, <1>4, CreateDoes
  <2>2. /\ \A v \in Workers : v # w => op'[d][v] = op[d][v]
        /\ \A e \in Devices : e # d => op'[e] = op[e]
        /\ op'[d][w].at = "put" /\ op'[d][w].info = GroupInfo(mls'[d])
    BY <1>0, <2>1, MovesToPut
  <2>3. d \notin live /\ \A v \in Workers : v # w => op'[d][v].at = "idle"
    BY <1>1, <1>2, <2>2, JoinerAlone DEF At
  <2>4. Others(d)
    <3>1. \A e \in Devices : e # d => key'[e] = key[e]
      BY <1>0, <2>1 DEF DataTypes
    <3> QED
      BY <2>1, <2>2, <3>1 DEF Others, Create, media
  <2>5. op'[d][w].info.place = Place(mls'[d])
    BY <2>2 DEF GroupInfo
  <2>6. UNCHANGED <<log, tip, info, raced, live, room, used>>
    BY DEF Create, media
  <2>7. CASE Adopts
    <3>1. Evolves(d) /\ Server'
      BY <1>2, <1>u, <2>6, <2>7, ServerRests
    <3>2. mls[d].status = "joined" /\ Accepted(Place(mls[d]))
      BY <1>2, <1>4, <2>7 DEF Device, Owned
    <3>3. Owned(d)'
      BY <1>2, <2>7, <3>1, OwnedStays DEF Device
    <3>4. AtWork(d, w)'
      <4>1. Accepted(op[d][w].info.place)'
        BY <2>5, <2>6, <2>7, <3>2 DEF Accepted, Place
      <4>2. op'[d][w].info.place.base = mls'[d].base /\ mls'[d].base = tip'.base
        BY <2>5, <2>6, <2>7 DEF Place
      <4> QED
        BY <2>2, <2>7, <3>2, <4>1, <4>2 DEF AtWork, Posting, Merging, Putting, Entering, At
    <3>5. Removes(d)'
      BY <1>1, <1>2, <1>u, <2>3, <2>6, <2>7, JoinerRemoves
    <3> QED
      BY <1>1, <2>3, <2>4, <2>6, <3>1, <3>3, <3>4, <3>5, JoinerSettles, Owes
  <2>8. CASE Makes
    <3>1. Evolves(d) /\ Server'
      BY <1>2, <2>6, <2>8, ServerNames
    <3>2. groups \in Nat /\ \A i \in DOMAIN log : log[i].place.base \in 1..groups
      BY <1>0, <1>2 DEF DataTypes, Server
    <3>3. \A i \in DOMAIN log : log[i].place.base # groups + 1
      BY <3>2
    <3>4. Owned(d)'
      BY <2>8, <3>2 DEF Owned, Accepted, Place
    <3>5. AtWork(d, w)'
      <4>1. Accepted(op[d][w].info.place)'
        BY <2>5, <2>8, <3>2 DEF Accepted, Place
      <4>2. op'[d][w].info.place.base = mls'[d].base /\ NewName(mls[d].base)'
        BY <2>5, <2>6, <2>8, <3>3 DEF Place, NewName
      <4> QED
        BY <2>2, <2>8, <4>1, <4>2 DEF AtWork, Posting, Merging, Putting, Entering, At
    <3>6. Removes(d)'
      BY <2>6, <2>8, <3>3 DEF Removes
    <3> QED
      BY <1>1, <2>3, <2>4, <2>6, <3>1, <3>4, <3>5, <3>6, JoinerSettles, Owes
  <2> QED
    BY <2>1, <2>7, <2>8
<1> QED
  BY <1>3, <1>4

LEMMA SoundJoin ==
  ASSUME Types, Types', Sound, NEW d \in Devices, NEW w \in Workers, Join(d, w)
  PROVE  Sound'
<1>0. op \in [Devices -> [Workers -> Operations]] /\ OpTypes /\ DataTypes
  BY DEF Types, OpTypes
<1>1. w \in Joiners /\ ~At(d, w, "idle")
  BY <1>0, WhoIsAt DEF Join, At
<1>2. Device(d) /\ Server
  BY DEF Sound
<1>3. PICK at \in {"create", "post", "idle"} : Goto(d, w, at) /\ (at = "post" \/ mls' = mls)
  BY DEF Join, Breaks
<1>4. /\ \A v \in Workers : v # w => op'[d][v] = op[d][v]
      /\ \A e \in Devices : e # d => op'[e] = op[e]
      /\ op'[d][w].at = at
  BY <1>0, <1>3, MovesTo DEF Stages
<1>5. used'.fails >= used.fails
  BY FailsGrow DEF Join, Breaks
<1>6. UNCHANGED <<groups, log, tip, info, raced, live, room, key>>
  BY DEF Join, server, media
<1>7. CASE at # "post"
  <2>1. AtWork(d, w)'
    BY <1>3, <1>4, <1>7 DEF AtWork, Posting, Merging, Putting, Entering, At
  <2>2. Others(d)
    BY <1>3, <1>4, <1>6, <1>7 DEF Others
  <2> QED
    BY <1>1, <1>3, <1>4, <1>5, <1>6, <1>7, <2>1, <2>2, JoinerMoves
<1>8. CASE at = "post"
  <2>1. /\ info.place # None
        /\ mls' = [mls EXCEPT ![d] = [status |-> "joining", base |-> info.place.base, epoch |-> info.place.epoch,
                                      leaves |-> info.leaves, pend |-> <<"join", d>>]]
    <3>1. op'[d][w].at = "post"
      BY <1>4, <1>8
    <3>2. ~Goto(d, w, "create") /\ ~Goto(d, w, "idle")
      BY <1>0, <3>1, MovesTo DEF Stages
    <3> QED
      BY <3>2 DEF Join, Breaks
  <2>2. /\ mls'[d].status = "joining" /\ mls'[d].base = info.place.base /\ mls'[d].epoch = info.place.epoch
        /\ \A e \in Devices : e # d => mls'[e] = mls[e]
    BY <1>0, <2>1 DEF DataTypes
  <2>3. info.place \in Places /\ info.place.base # 0 /\ Accepted(info.place) /\ info.place.base <= groups
    BY <1>0, <1>2, <2>1 DEF DataTypes, Infos, Server
  <2>4. Others(d)
    BY <1>4, <1>6, <2>2 DEF Others
  <2>5. Evolves(d) /\ Server'
    BY <1>2, <1>5, <1>6, ServerRests
  <2>6. Owned(d)'
    <3>1. Accepted(info.place)'
      BY <1>6, <2>3 DEF Accepted
    <3>2. Place(mls'[d]) = info.place
      BY <2>2, <2>3 DEF Place, Places
    <3> QED
      BY <1>6, <2>2, <2>3, <3>1, <3>2 DEF Owned, Accepted
  <2>7. AtWork(d, w)'
    BY <1>1, <1>4, <1>8, <2>2 DEF AtWork, Posting, Merging, Putting, Entering, At
  <2>8. Removes(d)'
    BY <2>2 DEF Removes
  <2>9. d \notin live' /\ \A v \in Workers : v # w => op'[d][v].at = "idle"
    BY <1>1, <1>2, <1>4, <1>6, JoinerAlone DEF At
  <2> QED
    BY <1>1, <2>4, <2>5, <2>6, <2>7, <2>8, <2>9, JoinerSettles, Owes
<1> QED
  BY <1>7, <1>8

-----------------------------------------------------------------------------
(* A commit's steps.                                                        *)

\* A rotation or an eviction leaves the device's connections idle.
LEMMA WorkerSettles ==
  ASSUME NEW d \in Devices, NEW w \in Workers, w \notin Joiners, Device(d), ~At(d, w, "idle") \/ d \in live,
         \A v \in Workers : v # w => op'[d][v] = op[d][v]
  PROVE  /\ \A v \in Joiners : At(d, v, "idle") /\ At(d, v, "idle")' /\ AtWork(d, v)'
         /\ Solitary(d)'
<1>1. \A v \in Joiners : v \in Workers /\ v # w
  BY WorkersAre
<1>2. \A v \in Joiners : At(d, v, "idle")
  BY <1>1 DEF Device, Solitary
<1>3. \A v \in Joiners : At(d, v, "idle")'
  BY <1>1, <1>2 DEF At
<1>4. \A v \in Joiners : AtWork(d, v)'
  BY <1>3 DEF AtWork, Posting, Merging, Putting, Entering, At
<1> QED
  BY <1>2, <1>3, <1>4 DEF Solitary

\* One that does not touch the group, and is not about to merge or export.
LEMMA WorkerMoves ==
  ASSUME Types, Types', Sound, NEW d \in Devices, NEW w \in Workers, w \notin Joiners,
         ~At(d, w, "idle") \/ d \in live, op[d][w].at \notin {"merge", "export"},
         \A v \in Workers : v # w => op'[d][v] = op[d][v],
         Others(d), UNCHANGED <<mls, key, log, tip, info, groups, live, room>>,
         used'.fails >= used.fails, AtWork(d, w)'
  PROVE  Sound'
<1>1. Device(d) /\ Server
  BY DEF Sound
<1>2. Evolves(d) /\ Server'
  BY <1>1, ServerRests
<1>3. Solitary(d)' /\ \A v \in Joiners : AtWork(d, v)'
  BY <1>1, WorkerSettles
<1>4. ASSUME NEW v \in Workers, v # w, v \notin Joiners  PROVE AtWork(d, v)'
  <2>1. AtWork(d, v) /\ op'[d][v] = op[d][v]
    BY <1>1, <1>4 DEF Device
  <2> QED
    BY <1>4, <2>1 DEF AtWork, Posting, Merging, Putting, Entering, At, Kind, Accepted, NewName, Place, Next1
<1>5. Owned(d)'
  BY <1>1, <1>2, OwnedStays DEF Device
<1>6. Sits(d)'
  BY <1>1 DEF Device, Sits, Accepted
<1>7. Removes(d)'
  <2>1. used.fails \in Nat /\ used'.fails \in Nat /\ log \in Seq(Commits)
    BY DEF Types, DataTypes
  <2>2. SUFFICES ASSUME used'.fails = 0, mls[d].status = "joined",
                        NEW i \in DOMAIN log, log[i].by = d, log[i].did[1] = "remove",
                        log[i].place.base = mls[d].base
                 PROVE  /\ \/ mls[d].epoch >= log[i].place.epoch
                           \/ At(d, log[i].did[2], "merge")' /\ log[i].place.epoch = mls[d].epoch + 1
                        /\ d \in live /\ mls[d].epoch >= log[i].place.epoch /\ ~At(d, log[i].did[2], "export")'
                             => key[d].epoch >= log[i].place.epoch
    BY DEF Removes, At
  <2>3. log[i].did[2] \in Workers
    <3>1. log[i] \in Commits
      BY <2>1
    <3> QED
      BY <3>1, WorkersAre DEF Commits, Kinds
  <2> QED
    BY <1>1, <2>1, <2>2, <2>3 DEF Device, Removes, At
<1>8. Device(d)'
  BY <1>3, <1>4, <1>5, <1>6, <1>7 DEF Device
<1> QED
  BY <1>2, <1>8, Owes

LEMMA SoundBuild ==
  ASSUME Types, Types', Sound, NEW d \in Devices, NEW w \in Workers, Build(d, w)
  PROVE  Sound'
<1>0. op \in [Devices -> [Workers -> Operations]] /\ OpTypes /\ DataTypes
  BY DEF Types, OpTypes
<1>1. w \notin Joiners /\ At(d, w, "build") /\ ~At(d, w, "idle")
  BY <1>0, WhoIsAt DEF Build, At
<1>2. Device(d) /\ Server
  BY DEF Sound
<1>u. used'.fails >= used.fails
  BY FailsGrow DEF Build
<1>3. UNCHANGED <<log, tip, info, groups, live, room, key, used>>
  BY DEF Build, server, media
<1>4. CASE ~(mls[d].status = "joined" /\ mls[d].pend = <<>> /\ Kind(d, w)[2] \in mls[d].leaves)
  <2>1. /\ \A v \in Workers : v # w => op'[d][v] = op[d][v]
        /\ \A e \in Devices : e # d => op'[e] = op[e]
        /\ op'[d][w].at = "idle"
    BY <1>0, <1>4, MovesTo DEF Build, Stages
  <2>2. mls' = mls
    BY <1>4 DEF Build
  <2>3. Others(d) /\ AtWork(d, w)'
    BY <1>3, <2>1, <2>2 DEF Others, AtWork, Posting, Merging, Putting, Entering, At
  <2> QED
    BY <1>1, <1>3, <1>u, <2>1, <2>2, <2>3, WorkerMoves DEF At
<1>5. CASE mls[d].status = "joined" /\ mls[d].pend = <<>> /\ Kind(d, w)[2] \in mls[d].leaves
  <2>1. Goto(d, w, "post") /\ mls' = [mls EXCEPT ![d].pend = Kind(d, w)]
    BY <1>5 DEF Build, Goto
  <2>2. /\ \A v \in Workers : v # w => op'[d][v] = op[d][v]
        /\ \A e \in Devices : e # d => op'[e] = op[e]
        /\ op'[d][w].at = "post"
    BY <1>0, <2>1, MovesTo DEF Stages
  <2>3. /\ mls'[d].status = "joined" /\ mls'[d].base = mls[d].base /\ mls'[d].epoch = mls[d].epoch
        /\ mls'[d].pend = Kind(d, w)
        /\ \A e \in Devices : e # d => mls'[e] = mls[e]
    BY <1>0, <1>5, <2>1 DEF DataTypes, Voices
  <2>4. Others(d)
    BY <1>3, <2>2, <2>3 DEF Others
  <2>5. Evolves(d) /\ Server'
    BY <1>2, <1>3, <1>u, ServerRests
  <2>6. Solitary(d)' /\ \A v \in Joiners : AtWork(d, v)'
    BY <1>1, <1>2, <2>2, WorkerSettles
  <2>7. Owned(d)'
    BY <1>2, <1>3, <1>5, <2>3 DEF Device, Owned, Accepted, Place
  <2>8. AtWork(d, w)'
    BY <1>1, <2>2, <2>3 DEF AtWork, Posting, Merging, Putting, Entering, At
  <2>9. ASSUME NEW v \in Workers, v # w, v \notin Joiners  PROVE AtWork(d, v)'
    <3>1. AtWork(d, v) /\ op'[d][v] = op[d][v]
      BY <1>2, <2>2, <2>9 DEF Device
    <3>2. Kind(d, v) # Kind(d, w) /\ Kind(d, v) # <<>>
      BY <1>1, <2>9, KindsAre
    <3>3. Posting(d, v)' /\ Entering(d, v)'
      BY <2>3, <2>9, <3>2 DEF Posting, Entering, Kind
    <3>4. ~At(d, v, "merge")
      BY <1>5, <3>1, <3>2 DEF AtWork, Merging
    <3>5. Merging(d, v)'
      BY <3>1, <3>4 DEF Merging, At
    <3>6. Putting(d, v)'
      BY <1>3, <2>3, <3>1 DEF AtWork, Putting, At, Accepted, NewName
    <3> QED
      BY <3>3, <3>5, <3>6 DEF AtWork
  <2>10. Sits(d)'
    BY <1>2, <1>3, <2>3 DEF Device, Sits, Accepted
  <2>11. Removes(d)'
    <3>1. SUFFICES ASSUME used.fails = 0,
                          NEW i \in DOMAIN log, log[i].by = d, log[i].did[1] = "remove",
                          log[i].place.base = mls[d].base
                   PROVE  /\ \/ mls[d].epoch >= log[i].place.epoch
                             \/ At(d, log[i].did[2], "merge")' /\ log[i].place.epoch = mls[d].epoch + 1
                          /\ d \in live /\ mls[d].epoch >= log[i].place.epoch /\ ~At(d, log[i].did[2], "export")'
                               => key[d].epoch >= log[i].place.epoch
      BY <1>3, <2>3 DEF Removes, At
    <3>2. log[i].did[2] \in Workers
      <4>1. log[i] \in Commits
        BY <1>0 DEF DataTypes
      <4> QED
        BY <4>1, WorkersAre DEF Commits, Kinds
    <3> QED
      BY <1>1, <1>2, <1>3, <1>5, <2>2, <3>1, <3>2 DEF Device, Removes, At
  <2> QED
    BY <2>4, <2>5, <2>6, <2>7, <2>8, <2>9, <2>10, <2>11, Owes DEF Device
<1> QED
  BY <1>4, <1>5

\* What a removal names is a worker.
LEMMA RemovedIs ==
  ASSUME DataTypes, NEW i \in DOMAIN log
  PROVE  /\ log[i] \in Commits /\ log[i].place \in Places /\ log[i].did \in Kinds
         /\ log[i].place.base \in Nat /\ log[i].place.epoch \in Nat
         /\ log[i].did[2] \in Devices /\ log[i].did[2] \in Workers
<1>1. log[i] \in Commits
  BY DEF DataTypes
<1> QED
  BY <1>1, WorkersAre DEF Commits, Kinds, Places

LEMMA SoundPost ==
  ASSUME Types, Types', Sound, NEW d \in Devices, NEW w \in Workers, Post(d, w)
  PROVE  Sound'
<1>0. op \in [Devices -> [Workers -> Operations]] /\ OpTypes /\ DataTypes
  BY DEF Types, OpTypes
<1>1. At(d, w, "post") /\ ~At(d, w, "idle") /\ op[d][w].at = "post"
  BY DEF Post, At
<1>2. Device(d) /\ Server
  BY DEF Sound
<1>u. used'.fails >= used.fails
  BY FailsGrow DEF Post, Breaks
<1>3. UNCHANGED <<groups, live, room, key, mls>>
  BY DEF Post, media
<1>4. PICK at \in {"merge", "idle"} : Goto(d, w, at) /\ (at = "merge" => log' # log) /\ (at = "idle" => used' = used \/ Fail)
  <2>1. log \in Seq(Commits)
    BY <1>0 DEF DataTypes
  <2> QED
    BY <2>1 DEF Post, Breaks
<1>5. /\ \A v \in Workers : v # w => op'[d][v] = op[d][v]
      /\ \A e \in Devices : e # d => op'[e] = op[e]
      /\ op'[d][w].at = at
  BY <1>0, <1>4, MovesTo DEF Stages
<1>6. Others(d)
  BY <1>3, <1>5 DEF Others
<1>7. CASE UNCHANGED <<log, tip, info>>
  <2>1. at = "idle"
    BY <1>4, <1>7
  <2>2. AtWork(d, w)'
    BY <1>5, <2>1 DEF AtWork, Posting, Merging, Putting, Entering, At
  <2>3. CASE w \in Joiners
    BY <1>1, <1>3, <1>5, <1>6, <1>7, <1>u, <2>2, <2>3, JoinerMoves
  <2>4. CASE w \notin Joiners
    BY <1>1, <1>3, <1>5, <1>6, <1>7, <1>u, <2>2, <2>4, WorkerMoves
  <2> QED
    BY <2>3, <2>4
<1>8. CASE ~UNCHANGED <<log, tip, info>>
  <2>0. PICK commit : commit = [place |-> Next1(Place(mls[d])), by |-> d, did |-> Kind(d, w)]
    OBVIOUS
  <2>1. /\ mls[d].pend = Kind(d, w) /\ commit.place = Next1(tip)
        /\ log' = Append(log, commit) /\ tip' = commit.place
        /\ info' = info \/ info'.place = commit.place
        /\ at = "merge" \/ Fail
    <3>1. /\ mls[d].pend = Kind(d, w) /\ commit.place = Next1(tip)
          /\ log' = Append(log, commit) /\ tip' = commit.place
          /\ info' = info \/ info' = [place |-> commit.place, leaves |-> Changed(mls[d].leaves, commit.did)]
          /\ (Goto(d, w, "merge") /\ UNCHANGED used) \/ Breaks(d, w)
      BY <1>8, <2>0 DEF Post
    <3>2. Goto(d, w, "merge") => at = "merge"
      BY <1>0, <1>5, MovesTo DEF Stages
    <3> QED
      BY <3>1, <3>2 DEF Breaks
  <2>2. mls[d] \in Voices /\ tip \in Places /\ commit.by = d /\ commit.did = Kind(d, w) /\ commit.place = Next1(Place(mls[d]))
    BY <1>0, <2>0 DEF DataTypes
  <2>3. commit \in Commits
    BY <2>0, <2>2, PlacesAre, KindsAre DEF Commits
  <2>4. tip.base = mls[d].base /\ tip.epoch = mls[d].epoch /\ mls[d].epoch \in Nat /\ mls[d].base \in Nat
        /\ commit.place.base = mls[d].base /\ commit.place.epoch = mls[d].epoch + 1
    <3>1. mls[d].epoch \in Nat /\ tip.epoch \in Nat /\ mls[d].base \in Nat
      BY <2>2 DEF Voices, Places
    <3>2. Place(mls[d]) \in Places /\ Place(mls[d]).base = mls[d].base /\ Place(mls[d]).epoch = mls[d].epoch
      BY <2>2, PlacesAre
    <3>3. Next1(Place(mls[d])).base = mls[d].base /\ Next1(Place(mls[d])).epoch = mls[d].epoch + 1
      BY <3>2, NextPlace
    <3>4. Next1(tip).base = tip.base /\ Next1(tip).epoch = tip.epoch + 1
      BY <2>2, NextPlace
    <3> QED
      BY <2>1, <2>2, <3>1, <3>3, <3>4
  <2>5. mls[d].status = (IF w \in Joiners THEN "joining" ELSE "joined")
    BY <1>1, <1>2, <2>1 DEF Device, AtWork, Posting
  <2>6. tip.base # 0
    BY <1>2, <2>4, <2>5 DEF Device, Owned
  <2>7. Evolves(d) /\ Server' /\ Accepted(commit.place)'
    BY <1>2, <1>3, <1>u, <2>1, <2>2, <2>3, <2>6, ServerTakes
  <2>8. log \in Seq(Commits)
    BY <1>0 DEF DataTypes
  <2>9. Len(log) + 1 \in DOMAIN log' /\ log'[Len(log) + 1] = commit
        /\ (\A i \in DOMAIN log' : i \in DOMAIN log \/ i = Len(log) + 1)
        /\ (\A i \in DOMAIN log : log'[i] = log[i])
    BY <2>1, <2>3, <2>8
  <2>10. Owned(d)'
    BY <1>2, <1>3, <2>7, OwnedStays DEF Device
  <2>11. AtWork(d, w)'
    <3>1. CASE at = "idle"
      BY <1>5, <3>1 DEF AtWork, Posting, Merging, Putting, Entering, At
    <3>2. CASE at = "merge"
      <4>1. mls'[d].pend = Kind(d, w) /\ mls'[d].base = tip'.base
            /\ mls'[d].status = (IF w \in Joiners THEN "joining" ELSE "joined")
        BY <1>3, <2>1, <2>4, <2>5
      <4>2. \E i \in DOMAIN log' : log'[i].by = d /\ log'[i].place = Next1(Place(mls[d]))
        BY <2>2, <2>9
      <4>3. \A i \in DOMAIN log' : log'[i].place.base = tip'.base => log'[i].place.epoch <= mls[d].epoch + 1
        BY <2>1, <2>4, <2>7 DEF Server
      <4>4. Merging(d, w)'
        BY <1>3, <2>1, <2>4, <4>1, <4>2, <4>3 DEF Merging, Kind, Place, Next1
      <4> QED
        BY <1>5, <3>2, <4>4 DEF AtWork, Posting, Putting, Entering, At
    <3> QED
      BY <1>4, <3>1, <3>2
  <2>12. CASE w \in Joiners
    <3>1. d \notin live' /\ \A v \in Workers : v # w => op'[d][v].at = "idle"
      BY <1>1, <1>2, <1>3, <1>5, <2>12, JoinerAlone DEF At
    <3>2. Removes(d)'
      BY <1>3, <2>5, <2>12 DEF Removes
    <3>3. Device(d)'
      BY <2>10, <2>11, <2>12, <3>1, <3>2, JoinerSettles
    <3> QED
      BY <1>6, <2>7, <3>3, Owes
  <2>13. CASE w \notin Joiners
    <3>1. Solitary(d)' /\ \A v \in Joiners : AtWork(d, v)'
      BY <1>1, <1>2, <1>5, <2>13, WorkerSettles
    <3>2. ASSUME NEW v \in Workers, v # w, v \notin Joiners  PROVE AtWork(d, v)'
      <4>1. AtWork(d, v) /\ op'[d][v] = op[d][v]
        BY <1>2, <1>5, <3>2 DEF Device
      <4>2. Kind(d, v) # Kind(d, w)
        BY <2>13, <3>2, KindsAre
      <4>3. Posting(d, v)' /\ Entering(d, v)'
        BY <1>3, <3>2, <4>1 DEF AtWork, Posting, Entering, Kind, At
      <4>4. Merging(d, v)'
        BY <2>1, <4>1, <4>2 DEF AtWork, Merging, At
      <4>5. Putting(d, v)'
        <5>1. SUFFICES ASSUME At(d, v, "put")  PROVE Putting(d, v)'
          BY <4>1 DEF Putting, At
        <5>2. PICK p : p = op[d][v].info.place
          OBVIOUS
        <5>3. Accepted(p)'
          BY <2>7, <4>1, <5>1, <5>2, AcceptedStays DEF AtWork, Putting
        <5>4. mls'[d].base = tip'.base
          BY <1>3, <2>1, <2>4
        <5> QED
          BY <1>3, <3>2, <4>1, <5>1, <5>2, <5>3, <5>4 DEF AtWork, Putting, Accepted
      <4> QED
        BY <4>3, <4>4, <4>5 DEF AtWork
    <3>3. Sits(d)'
      <4>1. SUFFICES ASSUME d \in live  PROVE Sits(d)'
        BY <1>3 DEF Sits
      <4>2. Accepted(key[d]) /\ key[d].base = mls[d].base /\ mls[d].status \in {"joined", "evicted"}
        BY <1>2, <4>1 DEF Device, Sits
      <4>3. PICK p : p = key[d]
        OBVIOUS
      <4>4. Accepted(p)'
        BY <2>7, <4>2, <4>3, AcceptedStays
      <4> QED
        BY <1>3, <2>1, <2>4, <4>2, <4>3, <4>4 DEF Sits, Accepted
    <3>4. Removes(d)'
      <4>1. SUFFICES ASSUME used'.fails = 0,
                            NEW i \in DOMAIN log', log'[i].by = d, log'[i].did[1] = "remove",
                            log'[i].place.base = mls[d].base, NEW x, x = log'[i].did[2]
                     PROVE  /\ \/ mls[d].epoch >= log'[i].place.epoch
                               \/ op'[d][x].at = "merge" /\ log'[i].place.epoch = mls[d].epoch + 1
                            /\ d \in live /\ mls[d].epoch >= log'[i].place.epoch /\ op'[d][x].at # "export"
                                 => key[d].epoch >= log'[i].place.epoch
        BY <1>3 DEF Removes, At
      <4>2. used.fails = 0 /\ at = "merge"
        <5>1. used.fails \in Nat
          BY <1>0 DEF DataTypes
        <5>2. Fail => used'.fails # 0
          BY FailsGrow
        <5> QED
          BY <1>u, <2>1, <4>1, <5>1, <5>2
      <4>3. CASE i \in DOMAIN log
        <5>1. log'[i] = log[i] /\ x \in Workers
          BY <1>0, <2>9, <4>1, <4>3, RemovedIs
        <5>2. /\ \/ mls[d].epoch >= log[i].place.epoch
                 \/ op[d][x].at = "merge" /\ log[i].place.epoch = mls[d].epoch + 1
              /\ d \in live /\ mls[d].epoch >= log[i].place.epoch /\ op[d][x].at # "export"
                   => key[d].epoch >= log[i].place.epoch
          BY <1>2, <2>5, <2>13, <4>1, <4>2, <4>3, <5>1 DEF Device, Removes, At
        <5> QED
          BY <1>1, <1>5, <5>1, <5>2
      <4>4. CASE i = Len(log) + 1
        <5>1. log'[i] = commit /\ x = w
          BY <2>2, <2>9, <4>1, <4>4, KindsAre
        <5> QED
          BY <1>5, <2>4, <4>2, <5>1
      <4> QED
        BY <2>9, <4>3, <4>4
    <3>5. Device(d)'
      BY <2>10, <2>11, <3>1, <3>2, <3>3, <3>4 DEF Device
    <3> QED
      BY <1>6, <2>7, <3>5, Owes
  <2> QED
    BY <2>12, <2>13
<1> QED
  BY <1>7, <1>8

LEMMA SoundMerge ==
  ASSUME Types, Types', Sound, NEW d \in Devices, NEW w \in Workers, Merge(d, w)
  PROVE  Sound'
<1>0. op \in [Devices -> [Workers -> Operations]] /\ OpTypes /\ DataTypes
  BY DEF Types, OpTypes
<1>1. At(d, w, "merge") /\ ~At(d, w, "idle") /\ op[d][w].at = "merge"
  BY DEF Merge, At
<1>2. Device(d) /\ Server /\ mls[d] \in Voices /\ mls[d].epoch \in Nat /\ mls[d].base \in Nat
  BY <1>0 DEF Sound, DataTypes, Voices
<1>u. used'.fails >= used.fails
  BY FailsGrow DEF Merge
<1>3. UNCHANGED <<log, tip, info, groups, live, room, key, used>>
  BY DEF Merge, server, media
<1>4. /\ mls[d].pend = Kind(d, w) /\ mls[d].base = tip.base
      /\ mls[d].status = (IF w \in Joiners THEN "joining" ELSE "joined")
  BY <1>1, <1>2 DEF Device, AtWork, Merging
<1>5. PICK own \in DOMAIN log : log[own].by = d /\ log[own].place = Next1(Place(mls[d]))
  BY <1>1, <1>2 DEF Device, AtWork, Merging
<1>6. mls[d].pend # <<>> /\ mls[d].pend \in Kinds /\ mls[d].leaves \in SUBSET Devices
  BY <1>2, <1>4, KindsAre DEF Voices
<1>7. /\ mls' = [mls EXCEPT ![d] = Group(mls[d].base, mls[d].epoch + 1, Changed(mls[d].leaves, mls[d].pend))]
      /\ IF w \in Devices THEN Goto(d, w, "export") ELSE GotoPut(d, w, mls'[d])
  BY <1>6 DEF Merge
<1>8. /\ mls'[d] \in Voices /\ mls'[d].status = "joined" /\ mls'[d].base = mls[d].base
      /\ mls'[d].epoch = mls[d].epoch + 1 /\ mls'[d].pend = <<>>
      /\ \A e \in Devices : e # d => mls'[e] = mls[e]
  <2>1. Changed(mls[d].leaves, mls[d].pend) \in SUBSET Devices
    BY <1>6, ChangedIs
  <2> DEFINE g == Group(mls[d].base, mls[d].epoch + 1, Changed(mls[d].leaves, mls[d].pend))
  <2>2. g \in Voices /\ g.status = "joined" /\ g.base = mls[d].base /\ g.epoch = mls[d].epoch + 1 /\ g.pend = <<>>
    BY <1>2, <2>1, GroupIs
  <2>3. mls' = [mls EXCEPT ![d] = g]
    BY <1>7
  <2> HIDE DEF g
  <2> QED
    BY <1>0, <2>2, <2>3 DEF DataTypes
<1>9. /\ \A v \in Workers : v # w => op'[d][v] = op[d][v]
      /\ \A e \in Devices : e # d => op'[e] = op[e]
      /\ IF w \in Devices THEN op'[d][w].at = "export"
         ELSE op'[d][w].at = "put" /\ op'[d][w].info.place = Place(mls'[d])
  <2>1. CASE w \in Devices
    BY <1>0, <1>7, <2>1, MovesTo DEF Stages
  <2>2. CASE w \notin Devices
    <3>1. /\ \A v \in Workers : v # w => op'[d][v] = op[d][v]
          /\ \A e \in Devices : e # d => op'[e] = op[e]
          /\ op'[d][w].at = "put" /\ op'[d][w].info = GroupInfo(mls'[d])
      BY <1>0, <1>7, <1>8, <2>2, MovesToPut
    <3> QED
      BY <2>2, <3>1 DEF GroupInfo
  <2> QED
    BY <2>1, <2>2
<1>10. Others(d)
  BY <1>3, <1>8, <1>9 DEF Others
<1>11. Evolves(d) /\ Server'
  BY <1>2, <1>3, <1>u, ServerRests
<1>12. PICK p : p = Place(mls'[d])
  OBVIOUS
<1>13. Accepted(p)' /\ p.base = mls[d].base /\ p.base # 0 /\ p = Next1(Place(mls[d]))
  <2>1. p = Next1(Place(mls[d])) /\ p.base = mls[d].base
    BY <1>2, <1>8, <1>12, PlacesAre DEF Place
  <2>2. mls[d].base # 0
    BY <1>2, <1>4 DEF Device, Owned
  <2> QED
    BY <1>3, <1>5, <2>1, <2>2 DEF Accepted
<1>14. Owned(d)'
  BY <1>2, <1>3, <1>8, <1>12, <1>13 DEF Device, Owned, Accepted
<1>15. AtWork(d, w)'
  <2>1. CASE w \in Devices
    BY <1>9, <2>1, WorkersAre DEF AtWork, Posting, Merging, Putting, Entering, At
  <2>2. CASE w \notin Devices
    BY <1>3, <1>4, <1>8, <1>9, <1>12, <1>13, <2>2 DEF AtWork, Posting, Merging, Putting, Entering, At, Accepted
  <2> QED
    BY <2>1, <2>2
<1>16. CASE w \in Joiners
  <2>1. d \notin live' /\ \A v \in Workers : v # w => op'[d][v].at = "idle"
    BY <1>1, <1>2, <1>3, <1>9, <1>16, JoinerAlone DEF At
  <2>2. Removes(d)'
    BY <1>1, <1>2, <1>3, <1>8, <2>1 DEF Device, AtWork, Merging, Removes
  <2>3. Device(d)'
    BY <1>14, <1>15, <1>16, <2>1, <2>2, JoinerSettles
  <2> QED
    BY <1>10, <1>11, <2>3, Owes
<1>17. CASE w \notin Joiners
  <2>1. Solitary(d)' /\ \A v \in Joiners : AtWork(d, v)'
    BY <1>1, <1>2, <1>9, <1>17, WorkerSettles
  <2>2. ASSUME NEW v \in Workers, v # w, v \notin Joiners  PROVE AtWork(d, v)' /\ ~At(d, v, "merge")
    <3>1. AtWork(d, v) /\ op'[d][v] = op[d][v]
      BY <1>2, <1>9, <2>2 DEF Device
    <3>2. Kind(d, v) # Kind(d, w) /\ Kind(d, v) # <<>>
      BY <1>17, <2>2, KindsAre
    <3>3. Posting(d, v)' /\ Entering(d, v)'
      BY <1>8, <2>2, <3>2 DEF Posting, Entering, Kind
    <3>4. ~At(d, v, "merge")
      BY <1>4, <3>1, <3>2 DEF AtWork, Merging
    <3>5. Merging(d, v)'
      BY <3>1, <3>4 DEF Merging, At
    <3>6. Putting(d, v)'
      BY <1>3, <1>8, <2>2, <3>1 DEF AtWork, Putting, At, Accepted, NewName
    <3> QED
      BY <3>3, <3>4, <3>5, <3>6 DEF AtWork
  <2>3. Sits(d)'
    BY <1>2, <1>3, <1>8 DEF Device, Sits, Accepted
  <2>4. Removes(d)'
    <3>1. SUFFICES ASSUME used.fails = 0,
                          NEW i \in DOMAIN log, log[i].by = d, log[i].did[1] = "remove",
                          log[i].place.base = mls[d].base, NEW x, x = log[i].did[2]
                   PROVE  /\ \/ mls[d].epoch + 1 >= log[i].place.epoch
                             \/ op'[d][x].at = "merge" /\ log[i].place.epoch = mls[d].epoch + 1 + 1
                          /\ d \in live /\ mls[d].epoch + 1 >= log[i].place.epoch /\ op'[d][x].at # "export"
                               => key[d].epoch >= log[i].place.epoch
      BY <1>3, <1>8 DEF Removes, At
    <3>2. x \in Devices /\ x \in Workers /\ x \notin Joiners /\ log[i].place.epoch \in Nat
      BY <1>0, <3>1, RemovedIs, WorkersAre
    <3>3. /\ \/ mls[d].epoch >= log[i].place.epoch
             \/ op[d][x].at = "merge" /\ log[i].place.epoch = mls[d].epoch + 1
          /\ d \in live /\ mls[d].epoch >= log[i].place.epoch /\ op[d][x].at # "export"
               => key[d].epoch >= log[i].place.epoch
      BY <1>2, <1>4, <1>17, <3>1 DEF Device, Removes, At
    <3>4. CASE x = w
      BY <1>1, <1>2, <1>9, <3>2, <3>3, <3>4
    <3>5. CASE x # w
      BY <1>2, <1>9, <2>2, <3>2, <3>3, <3>5 DEF At
    <3> QED
      BY <3>4, <3>5
  <2>5. Device(d)'
    BY <1>14, <1>15, <2>1, <2>2, <2>3, <2>4 DEF Device
  <2> QED
    BY <1>10, <1>11, <2>5, Owes
<1> QED
  BY <1>16, <1>17

\* Publishing is by a connection or a rotation, and, unless something races,
\* of the group there is, or of the first there is.
LEMMA SoundPut ==
  ASSUME Types, Types', Sound, ~raced', NEW d \in Devices, NEW w \in Workers, Put(d, w)
  PROVE  Sound'
<1>0. op \in [Devices -> [Workers -> Operations]] /\ OpTypes /\ DataTypes
  BY DEF Types, OpTypes
<1>1. At(d, w, "put") /\ ~At(d, w, "idle") /\ op[d][w].at = "put"
  BY DEF Put, At
<1>2. Device(d) /\ Server
  BY DEF Sound
<1>u. used'.fails >= used.fails /\ used.fails \in Nat /\ used'.fails \in Nat /\ groups \in Nat /\ log \in Seq(Commits)
  BY <1>0, FailsGrow DEF Put, Breaks, Types, DataTypes
<1>3. UNCHANGED <<log, groups, live, room, key, mls>>
  BY DEF Put, media
<1>4. PICK at \in {"export", "idle"} : Goto(d, w, at)
  BY DEF Put, Breaks
<1>5. /\ \A v \in Workers : v # w => op'[d][v] = op[d][v]
      /\ \A e \in Devices : e # d => op'[e] = op[e]
      /\ op'[d][w].at = at
  BY <1>0, <1>4, MovesTo DEF Stages
<1>6. Others(d)
  BY <1>3, <1>5 DEF Others
<1>7. PICK mine : mine = op[d][w].info
  OBVIOUS
<1>8. /\ mine \in Infos /\ mine.place \in Places /\ Accepted(mine.place) /\ mine.place.base = mls[d].base
      /\ w \in Joiners => mls[d].status = "joined"
      /\ mls[d].base = tip.base \/ NewName(mls[d].base)
  BY <1>0, <1>1, <1>2, <1>7, WhoIsAt DEF Device, AtWork, Putting, Infos
<1>9. \/ /\ info' = mine
         /\ tip' = IF tip.base = mine.place.base THEN tip ELSE mine.place
         /\ info.place = None \/ info.place.base = mine.place.base
      \/ UNCHANGED <<info, tip>> /\ at = "idle"
  <2>1. \/ /\ info' = mine
           /\ tip' = IF tip.base = mine.place.base THEN tip ELSE mine.place
           /\ raced' = (raced \/ (info.place # None /\ info.place.base # mine.place.base))
        \/ UNCHANGED <<info, tip>> /\ Breaks(d, w)
    BY <1>7 DEF Put
  <2>2. Breaks(d, w) => at = "idle"
    BY <1>0, <1>5, MovesTo DEF Breaks, Stages
  <2> QED
    BY <2>1, <2>2
<1>10. CASE UNCHANGED <<info, tip>> /\ at = "idle"
  <2>1. AtWork(d, w)'
    BY <1>5, <1>10 DEF AtWork, Posting, Merging, Putting, Entering, At
  <2>2. CASE w \in Joiners
    BY <1>1, <1>3, <1>5, <1>6, <1>10, <1>u, <2>1, <2>2, JoinerMoves
  <2>3. CASE w \notin Joiners
    BY <1>1, <1>3, <1>5, <1>6, <1>10, <1>u, <2>1, <2>3, WorkerMoves
  <2> QED
    BY <2>2, <2>3
<1>11. CASE /\ info' = mine
            /\ tip' = IF tip.base = mine.place.base THEN tip ELSE mine.place
            /\ info.place = None \/ info.place.base = mine.place.base
  <2>1. tip'.base = mls[d].base /\ mls[d].base # 0
    BY <1>8, <1>11 DEF Accepted
  <2>2. tip'.base = tip.base \/ tip.base = 0
    BY <1>2, <1>11 DEF Server, None
  <2>3. Evolves(d)
    BY <1>3, <1>u, <2>2 DEF Evolves
  <2>4. Accepted(mine.place)'
    BY <1>8, <2>3, AcceptedStays
  <2>5. Server'
    <3>1. tip'.base <= groups' /\ info'.place.base = tip'.base /\ info'.place.base # 0
      BY <1>2, <1>3, <1>8, <1>11, <2>1 DEF Device, Owned
    <3>2. \A i \in DOMAIN log : log[i].place.base = tip'.base => log[i].place.epoch <= tip'.epoch
      BY <1>2, <1>8, <1>11, <2>1 DEF Server, NewName
    <3> QED
      BY <1>2, <1>3, <1>11, <2>4, <3>1, <3>2 DEF Server, Accepted
  <2>6. Owned(d)'
    BY <1>2, <1>3, <2>3, OwnedStays DEF Device
  <2>7. AtWork(d, w)'
    BY <1>3, <1>4, <1>5, <1>8, <2>1 DEF AtWork, Posting, Merging, Putting, Entering, At
  <2>8. CASE w \in Joiners
    <3>1. d \notin live' /\ \A v \in Workers : v # w => op'[d][v].at = "idle"
      BY <1>1, <1>2, <1>3, <1>5, <2>8, JoinerAlone DEF At
    <3>2. Removes(d)'
      BY <1>1, <1>2, <1>3, <1>u, <2>8, <3>1, JoinerRemoves
    <3>3. Device(d)'
      BY <2>6, <2>7, <2>8, <3>1, <3>2, JoinerSettles
    <3> QED
      BY <1>6, <2>3, <2>5, <3>3, Owes
  <2>9. CASE w \notin Joiners
    <3>1. Solitary(d)' /\ \A v \in Joiners : AtWork(d, v)'
      BY <1>1, <1>2, <1>5, <2>9, WorkerSettles
    <3>2. ASSUME NEW v \in Workers, v # w, v \notin Joiners  PROVE AtWork(d, v)'
      <4>1. AtWork(d, v) /\ op'[d][v] = op[d][v]
        BY <1>2, <1>5, <3>2 DEF Device
      <4>2. Posting(d, v)' /\ Entering(d, v)'
        BY <1>3, <3>2, <4>1 DEF AtWork, Posting, Entering, Kind, At
      <4>3. Merging(d, v)' /\ Putting(d, v)'
        BY <1>3, <3>2, <2>1, <4>1 DEF AtWork, Merging, Putting, At, Accepted, Kind, Place, Next1
      <4> QED
        BY <4>2, <4>3 DEF AtWork
    <3>3. Sits(d)'
      BY <1>2, <1>3, <2>1 DEF Device, Sits, Accepted
    <3>4. Removes(d)'
      <4>1. SUFFICES ASSUME used.fails = 0, mls[d].status = "joined",
                            NEW i \in DOMAIN log, log[i].by = d, log[i].did[1] = "remove",
                            log[i].place.base = mls[d].base, NEW x, x = log[i].did[2]
                     PROVE  /\ \/ mls[d].epoch >= log[i].place.epoch
                               \/ op'[d][x].at = "merge" /\ log[i].place.epoch = mls[d].epoch + 1
                            /\ d \in live /\ mls[d].epoch >= log[i].place.epoch /\ op'[d][x].at # "export"
                                 => key[d].epoch >= log[i].place.epoch
        BY <1>3, <1>u DEF Removes, At
      <4>2. x \in Workers
        BY <1>0, <4>1, RemovedIs
      <4> QED
        BY <1>1, <1>2, <1>5, <4>1, <4>2 DEF Device, Removes, At
    <3>5. Device(d)'
      BY <2>6, <2>7, <3>1, <3>2, <3>3, <3>4 DEF Device
    <3> QED
      BY <1>6, <2>3, <2>5, <3>5, Owes
  <2> QED
    BY <2>8, <2>9
<1> QED
  BY <1>9, <1>10, <1>11

LEMMA SoundExport ==
  ASSUME Types, Types', Sound, NEW d \in Devices, NEW w \in Workers, Export(d, w)
  PROVE  Sound'
<1>0. op \in [Devices -> [Workers -> Operations]] /\ OpTypes /\ DataTypes
  BY DEF Types, OpTypes
<1>1. At(d, w, "export") /\ ~At(d, w, "idle") /\ op[d][w].at = "export"
  BY DEF Export, At
<1>2. Device(d) /\ Server /\ mls[d] \in Voices
  BY <1>0 DEF Sound, DataTypes
<1>u. used'.fails >= used.fails
  BY FailsGrow DEF Export
<1>3. UNCHANGED <<log, tip, info, groups, live, room, mls, used>>
  BY DEF Export, server, media
<1>4. /\ Goto(d, w, IF w = "connect" /\ mls[d].status \in {"joined", "joining"} THEN "enter" ELSE "idle")
      /\ key' = IF /\ mls[d].status \in {"joined", "joining"}
                   /\ w # "stale" /\ (w # "connect" => key[d] # NoProvider)
                THEN [key EXCEPT ![d] = Place(mls[d])] ELSE key
  BY DEF Export
<1>5. /\ \A v \in Workers : v # w => op'[d][v] = op[d][v]
      /\ \A e \in Devices : e # d => op'[e] = op[e]
      /\ op'[d][w].at = IF w = "connect" /\ mls[d].status \in {"joined", "joining"} THEN "enter" ELSE "idle"
  <2>1. PICK at \in {"enter", "idle"} :
          at = IF w = "connect" /\ mls[d].status \in {"joined", "joining"} THEN "enter" ELSE "idle"
    OBVIOUS
  <2> QED
    BY <1>0, <1>4, <2>1, MovesTo DEF Stages
<1>6. Others(d)
  <2>1. \A e \in Devices : e # d => key'[e] = key[e]
    BY <1>0, <1>4 DEF DataTypes
  <2> QED
    BY <1>3, <1>5, <2>1 DEF Others
<1>7. CASE w \in Joiners
  <2>1. mls[d].status = "joined" /\ mls[d].base = tip.base
    BY <1>1, <1>2, <1>7 DEF Device, AtWork, Entering
  <2>2. w = "connect" => key'[d] = Place(mls[d])
    BY <1>0, <1>4, <2>1 DEF DataTypes
  <2>3. AtWork(d, w)'
    BY <1>3, <1>5, <1>7, <2>1, <2>2 DEF AtWork, Posting, Merging, Putting, Entering, At, Place, Joiners
  <2> QED
    BY <1>1, <1>3, <1>5, <1>6, <1>7, <1>u, <2>3, JoinerMoves
<1>8. CASE w \notin Joiners
  <2>0. w # "connect" /\ w # "stale" /\ op'[d][w].at = "idle"
    BY <1>5, <1>8 DEF Joiners
  <2>1. Evolves(d) /\ Server'
    BY <1>2, <1>3, <1>u, ServerRests
  <2>2. Solitary(d)' /\ \A v \in Joiners : AtWork(d, v)'
    BY <1>1, <1>2, <1>5, <1>8, WorkerSettles
  <2>3. ASSUME NEW v \in Workers, v \notin Joiners  PROVE AtWork(d, v)'
    <3>1. CASE v = w
      BY <2>0, <2>3, <3>1 DEF AtWork, Posting, Merging, Putting, Entering, At
    <3>2. CASE v # w
      <4>1. AtWork(d, v) /\ op'[d][v] = op[d][v]
        BY <1>2, <1>5, <2>3, <3>2 DEF Device
      <4> QED
        BY <1>3, <2>3, <4>1 DEF AtWork, Posting, Merging, Putting, Entering, At, Kind, Accepted, NewName, Place, Next1
    <3> QED
      BY <3>1, <3>2
  <2>4. Owned(d)'
    BY <1>2, <1>3, <2>1, OwnedStays DEF Device
  <2>5. CASE d \notin live
    <3>1. Sits(d)'
      BY <1>3, <2>5 DEF Sits
    <3>2. Removes(d)'
      <4>1. SUFFICES ASSUME used.fails = 0, mls[d].status = "joined",
                            NEW i \in DOMAIN log, log[i].by = d, log[i].did[1] = "remove",
                            log[i].place.base = mls[d].base, NEW x, x = log[i].did[2]
                     PROVE  \/ mls[d].epoch >= log[i].place.epoch
                            \/ op'[d][x].at = "merge" /\ log[i].place.epoch = mls[d].epoch + 1
        BY <1>3, <2>5 DEF Removes, At
      <4>2. x \in Workers
        BY <1>0, <4>1, RemovedIs
      <4> QED
        BY <1>1, <1>2, <1>5, <4>1, <4>2 DEF Device, Removes, At
    <3> QED
      BY <1>6, <2>1, <2>2, <2>3, <2>4, <3>1, <3>2, Owes DEF Device
  <2>6. CASE d \in live
    <3>1. /\ Accepted(key[d]) /\ key[d].base = mls[d].base /\ mls[d].status \in {"joined", "evicted"}
          /\ d \in room => key[d].base = tip.base
      BY <1>2, <2>6 DEF Device, Sits
    <3>2. key[d] # NoProvider
      BY <3>1 DEF Accepted, NoProvider
    <3>3. mls[d].status \in {"joined", "joining"} => key'[d] = Place(mls[d])
      BY <1>0, <1>4, <2>0, <3>2 DEF DataTypes
    <3>4. mls[d].status \notin {"joined", "joining"} => key'[d] = key[d]
      BY <1>4
    <3>5. PICK p : p = Place(mls[d])
      OBVIOUS
    <3>6. mls[d].status \in {"joined", "joining"} => Accepted(p)'
      BY <1>2, <2>1, <3>5, AcceptedStays DEF Device, Owned
    <3>7. Sits(d)'
      BY <1>2, <1>3, <3>1, <3>3, <3>4, <3>5, <3>6 DEF Sits, Accepted, Place
    <3>8. Removes(d)'
      <4>1. SUFFICES ASSUME used.fails = 0, mls[d].status = "joined",
                            NEW i \in DOMAIN log, log[i].by = d, log[i].did[1] = "remove",
                            log[i].place.base = mls[d].base, NEW x, x = log[i].did[2]
                     PROVE  /\ \/ mls[d].epoch >= log[i].place.epoch
                               \/ op'[d][x].at = "merge" /\ log[i].place.epoch = mls[d].epoch + 1
                            /\ mls[d].epoch >= log[i].place.epoch => key'[d].epoch >= log[i].place.epoch
        BY <1>3 DEF Removes, At
      <4>2. x \in Workers
        BY <1>0, <4>1, RemovedIs
      <4> QED
        BY <1>1, <1>2, <1>5, <3>3, <4>1, <4>2, PlacesAre DEF Device, Removes, At
    <3> QED
      BY <1>6, <2>1, <2>2, <2>3, <2>4, <3>7, <3>8, Owes DEF Device
  <2> QED
    BY <2>5, <2>6
<1> QED
  BY <1>7, <1>8

-----------------------------------------------------------------------------
(* The room.                                                                *)

\* A device that starts to connect has nothing under way, unless something races.
LEMMA SoundConnectRoom ==
  ASSUME Types, Types', Sound, ~raced', NEW d \in Devices, ConnectRoom(d)
  PROVE  Sound'
<1>0. op \in [Devices -> [Workers -> Operations]] /\ OpTypes /\ DataTypes
  BY DEF Types, OpTypes
<1>1. d \notin live /\ Goto(d, "connect", "token") /\ raced' = (raced \/ Running(d) # {})
      /\ UNCHANGED <<log, tip, info, groups, live, room, mls, key>>
  BY DEF ConnectRoom, media
<1>2. \A w \in Workers : op[d][w].at = "idle"
  <2>1. Running(d) = {}
    BY <1>1
  <2> QED
    BY <2>1 DEF Running, At
<1>3. Device(d) /\ Server
  BY DEF Sound
<1>u. used'.fails >= used.fails
  BY FailsGrow DEF ConnectRoom
<1>4. /\ \A v \in Workers : v # "connect" => op'[d][v] = op[d][v]
      /\ \A e \in Devices : e # d => op'[e] = op[e]
      /\ op'[d]["connect"].at = "token"
  BY <1>0, <1>1, MovesTo, WorkersAre DEF Stages
<1>5. Others(d)
  BY <1>1, <1>4 DEF Others
<1>6. Evolves(d) /\ Server'
  BY <1>1, <1>3, <1>u, ServerRests
<1>7. Owned(d)'
  BY <1>1, <1>3, <1>6, OwnedStays DEF Device
<1>8. AtWork(d, "connect")'
  BY <1>4 DEF AtWork, Posting, Merging, Putting, Entering, At
<1>9. Removes(d)'
  <2>1. SUFFICES ASSUME used'.fails = 0, mls[d].status = "joined",
                        NEW i \in DOMAIN log, log[i].by = d, log[i].did[1] = "remove",
                        log[i].place.base = mls[d].base
                 PROVE  mls[d].epoch >= log[i].place.epoch
    BY <1>1 DEF Removes
  <2>2. used.fails = 0 /\ log[i].did[2] \in Workers
    BY <1>0, <1>u, <2>1, RemovedIs DEF DataTypes
  <2> QED
    BY <1>2, <1>3, <2>1, <2>2 DEF Device, Removes, At
<1>10. Device(d)'
  BY <1>1, <1>2, <1>4, <1>7, <1>8, <1>9, JoinerSettles, WorkersAre
<1> QED
  BY <1>5, <1>6, <1>10, Owes

LEMMA SoundCancel ==
  ASSUME Types, Types', Sound, NEW d \in Devices, Cancel(d)
  PROVE  Sound'
<1>0. op \in [Devices -> [Workers -> Operations]] /\ OpTypes /\ DataTypes
  BY DEF Types, OpTypes
<1>1. ~At(d, "connect", "idle") /\ UNCHANGED <<log, tip, info, groups, live, room, mls, key>>
      /\ op' = [op EXCEPT ![d]["stale"] = op[d]["connect"], ![d]["connect"] = Idle]
  BY DEF Cancel, server, media
<1>3. Device(d) /\ Server
  BY DEF Sound
<1>u. used'.fails >= used.fails
  <2>1. used' = [used EXCEPT !.cancels = @ + 1] /\ used \in [done : Nat, cancels : Nat, fails : Nat]
    BY <1>0 DEF Cancel, DataTypes
  <2> QED
    BY <2>1
<1>4. /\ \A v \in Workers : v # "stale" /\ v # "connect" => op'[d][v] = op[d][v]
      /\ \A e \in Devices : e # d => op'[e] = op[e]
      /\ op'[d]["connect"].at = "idle" /\ op'[d]["stale"] = op[d]["connect"]
  <2> DEFINE o == [op EXCEPT ![d]["stale"] = op[d]["connect"]]
  <2>1. o \in [Devices -> [Workers -> Operations]]
        /\ o[d]["stale"] = op[d]["connect"]
        /\ (\A v \in Workers : v # "stale" => o[d][v] = op[d][v])
        /\ (\A e \in Devices : e # d => o[e] = op[e])
    BY <1>0, WorkersAre
  <2>2. op' = [o EXCEPT ![d]["connect"] = Idle] /\ Idle \in Operations /\ Idle.at = "idle"
    BY <1>1 DEF Idle, Operations, Stages
  <2> HIDE DEF o
  <2> QED
    BY <2>1, <2>2, WorkersAre
<1>5. d \notin live' /\ \A v \in Workers : v # "stale" => op'[d][v].at = "idle"
  <2>1. d \notin live /\ \A v \in Workers : v # "connect" => At(d, v, "idle")
    BY <1>1, <1>3, JoinerAlone, WorkersAre
  <2> QED
    BY <1>1, <1>4, <2>1 DEF At
<1>6. Others(d)
  BY <1>1, <1>4 DEF Others
<1>7. Evolves(d) /\ Server'
  BY <1>1, <1>3, <1>u, ServerRests
<1>8. Owned(d)'
  BY <1>1, <1>3, <1>7, OwnedStays DEF Device
<1>9. AtWork(d, "stale")'
  <2>1. AtWork(d, "connect") /\ "connect" \in Joiners /\ "stale" \in Joiners
    BY <1>3, WorkersAre DEF Device
  <2>2. Kind(d, "stale") = Kind(d, "connect")
    BY DEF Kind
  <2>3. Posting(d, "stale")' /\ Putting(d, "stale")' /\ Entering(d, "stale")'
    BY <1>1, <1>4, <2>1 DEF AtWork, Posting, Putting, Entering, At, Accepted, NewName
  <2>4. Merging(d, "stale")'
    BY <1>1, <1>4, <2>1, <2>2 DEF AtWork, Merging, At, Kind, Place, Next1
  <2> QED
    BY <2>3, <2>4 DEF AtWork
<1>10. Removes(d)'
  BY <1>1, <1>3, <1>5, <1>u, JoinerRemoves, WorkersAre
<1>11. Device(d)'
  BY <1>5, <1>8, <1>9, <1>10, JoinerSettles, WorkersAre
<1> QED
  BY <1>6, <1>7, <1>11, Owes

LEMMA SoundEnter ==
  ASSUME Types, Types', Sound, NEW d \in Devices, NEW w \in Workers, Enter(d, w)
  PROVE  Sound'
<1>0. op \in [Devices -> [Workers -> Operations]] /\ OpTypes
  BY DEF Types, OpTypes
<1>1. w \in Joiners /\ At(d, w, "enter") /\ ~At(d, w, "idle") /\ op[d][w].at = "enter"
  BY <1>0, WhoIsAt DEF Enter, At
<1>2. PICK at \in {"entered", "idle"} : Goto(d, w, at) /\ (at = "entered" => d \in room')
  <2>1. \/ Enters(d) /\ Goto(d, w, "entered")
        \/ Goto(d, w, "idle")
    BY DEF Enter, Breaks
  <2> QED
    BY <2>1 DEF Enters
<1>3. /\ \A v \in Workers : v # w => op'[d][v] = op[d][v]
      /\ \A e \in Devices : e # d => op'[e] = op[e]
      /\ op'[d][w].at = at
  BY <1>0, <1>2, MovesTo DEF Stages
<1>4. Others(d)
  BY <1>3 DEF Others, Enter, Enters, server
<1>5. used'.fails >= used.fails
  BY FailsGrow DEF Enter, Breaks
<1>6. UNCHANGED <<log, tip, info, groups, live, mls, key>>
  BY DEF Enter, server
<1>7. AtWork(d, w)'
  <2>1. Device(d)
    BY DEF Sound
  <2>2. AtWork(d, w)
    BY <2>1 DEF Device
  <2> QED
    BY <1>1, <1>2, <1>3, <1>6, <2>2 DEF AtWork, Posting, Merging, Putting, Entering, At, Place
<1> QED
  BY <1>1, <1>3, <1>4, <1>5, <1>6, <1>7, JoinerMoves

LEMMA SoundConnected ==
  ASSUME Types, Types', Sound, NEW d \in Devices, NEW w \in Joiners, Connected(d, w)
  PROVE  Sound'
<1>0. op \in [Devices -> [Workers -> Operations]] /\ OpTypes /\ DataTypes /\ w \in Workers
  BY WorkersAre DEF Types, OpTypes
<1>1. At(d, w, "entered") /\ ~At(d, w, "idle") /\ op[d][w].at = "entered" /\ Goto(d, w, "idle")
  BY DEF Connected, At
<1>2. Device(d) /\ Server
  BY DEF Sound
<1>3. /\ \A v \in Workers : v # w => op'[d][v] = op[d][v]
      /\ \A e \in Devices : e # d => op'[e] = op[e]
      /\ op'[d][w].at = "idle"
  BY <1>0, <1>1, MovesTo DEF Stages
<1>u. used'.fails >= used.fails
  BY FailsGrow DEF Connected
<1>4. UNCHANGED <<log, tip, info, groups, mls, key, used>>
  BY DEF Connected, server
<1>5. Others(d)
  BY <1>3, <1>4 DEF Others, Connected, Exits
<1>6. d \notin live /\ \A v \in Workers : op'[d][v].at = "idle"
  BY <1>0, <1>1, <1>2, <1>3, JoinerAlone DEF At
<1>7. CASE w # "connect"
  <2>1. live' = live
    BY <1>7 DEF Connected
  <2>2. AtWork(d, w)'
    BY <1>3 DEF AtWork, Posting, Merging, Putting, Entering, At
  <2> QED
    BY <1>1, <1>3, <1>4, <1>5, <1>u, <2>1, <2>2, JoinerMoves
<1>8. CASE w = "connect"
  <2>1. live' = live \cup {d} /\ room' = room
    BY <1>8 DEF Connected
  <2>2. mls[d].base = tip.base /\ mls[d].status = "joined" /\ key[d] = Place(mls[d])
    BY <1>0, <1>1, <1>2, <1>8 DEF Device, AtWork, Entering, At
  <2>3. Accepted(key[d]) /\ key[d].base = mls[d].base /\ key[d].epoch = mls[d].epoch
    BY <1>2, <2>2 DEF Device, Owned, Place
  <2>4. Evolves(d) /\ Server'
    BY <1>2, <1>4, <1>u, ServerRests
  <2>5. Solitary(d)' /\ \A v \in Workers : AtWork(d, v)'
    BY <1>6, WorkersAre DEF Solitary, AtWork, Posting, Merging, Putting, Entering, At
  <2>6. Owned(d)'
    BY <1>2, <1>4, <2>4, OwnedStays DEF Device
  <2>7. Sits(d)'
    BY <1>4, <2>1, <2>2, <2>3 DEF Sits, Accepted
  <2>8. Removes(d)'
    <3>1. SUFFICES ASSUME used.fails = 0,
                          NEW i \in DOMAIN log, log[i].by = d, log[i].did[1] = "remove",
                          log[i].place.base = mls[d].base
                   PROVE  mls[d].epoch >= log[i].place.epoch
      BY <1>4, <2>3 DEF Removes
    <3>2. ~At(d, log[i].did[2], "merge")
      <4>1. log[i].did[2] \in Workers /\ log[i].did[2] # w
        BY <1>0, RemovedIs, WorkersAre
      <4> QED
        BY <1>3, <1>6, <4>1 DEF At
    <3> QED
      BY <1>2, <2>2, <3>1, <3>2 DEF Device, Removes
  <2>9. Device(d)'
    BY <2>5, <2>6, <2>7, <2>8 DEF Device
  <2> QED
    BY <1>5, <2>4, <2>9, Owes
<1> QED
  BY <1>7, <1>8

\* A device that is in changes its key, or leaves: to its group's key or to none.
LEMMA LiveMoves ==
  ASSUME Types, Types', Sound, NEW d \in Devices,
         UNCHANGED <<log, tip, info, groups, mls, op>>, Others(d), used'.fails >= used.fails,
         d \in live' => d \in live,
         d \in live => (d \in room' => d \in room),
         \A w \in Joiners : At(d, w, "entered") => (d \in room => d \in room'),
         d \notin live => key'[d] = key[d],
         d \in live' => key'[d] = key[d] \/ (mls[d].status \in {"joined", "joining"} /\ key'[d] = Place(mls[d]))
  PROVE  Sound'
<1>0. DataTypes
  BY DEF Types
<1>1. Device(d) /\ Server /\ mls[d] \in Voices
  BY <1>0 DEF Sound, DataTypes
<1>2. Evolves(d) /\ Server'
  BY <1>1, ServerRests
<1>3. Owned(d)'
  BY <1>1, <1>2, OwnedStays DEF Device
<1>4. Solitary(d)'
  BY <1>1 DEF Device, Solitary, At
<1>5. ASSUME NEW w \in Workers  PROVE AtWork(d, w)'
  <2>1. AtWork(d, w)
    BY <1>1 DEF Device
  <2>2. Posting(d, w)' /\ Merging(d, w)' /\ Putting(d, w)'
    BY <2>1 DEF AtWork, Posting, Merging, Putting, At, Kind, Accepted, NewName, Place, Next1
  <2>3. Entering(d, w)'
    <3>1. SUFFICES ASSUME w \in Joiners, op[d][w].at \in {"export", "enter", "entered"}  PROVE Entering(d, w)'
      BY DEF Entering
    <3>2. d \notin live
      BY <1>1, <3>1, JoinerAlone DEF At
    <3> QED
      BY <2>1, <3>1, <3>2 DEF AtWork, Entering, At, Place
  <2> QED
    BY <2>2, <2>3 DEF AtWork
<1>6. Sits(d)'
  <2>0. mls[d].status \in {"joined", "evicted"} \/ d \notin live
    BY <1>1 DEF Device, Sits
  <2>1. SUFFICES ASSUME d \in live'
                 PROVE  /\ Accepted(key[d])' /\ key'[d].base = mls[d].base
                        /\ d \in room' => key'[d].base = tip.base
    BY <2>0 DEF Sits
  <2>2. Accepted(key[d]) /\ key[d].base = mls[d].base /\ (d \in room => key[d].base = tip.base)
    BY <1>1, <2>1 DEF Device, Sits
  <2>3. CASE key'[d] = key[d]
    BY <2>1, <2>2, <2>3 DEF Accepted
  <2>4. CASE mls[d].status \in {"joined", "joining"} /\ key'[d] = Place(mls[d])
    <3>1. Accepted(Place(mls[d]))
      BY <1>1, <2>4 DEF Device, Owned
    <3> QED
      BY <2>1, <2>2, <2>4, <3>1 DEF Accepted, Place
  <2> QED
    BY <2>1, <2>3, <2>4
<1>7. Removes(d)'
  <2>1. SUFFICES ASSUME used'.fails = 0, mls[d].status = "joined",
                        NEW i \in DOMAIN log, log[i].by = d, log[i].did[1] = "remove",
                        log[i].place.base = mls[d].base, NEW x, x = log[i].did[2]
                 PROVE  /\ \/ mls[d].epoch >= log[i].place.epoch
                           \/ op[d][x].at = "merge" /\ log[i].place.epoch = mls[d].epoch + 1
                        /\ d \in live' /\ mls[d].epoch >= log[i].place.epoch /\ op[d][x].at # "export"
                             => key'[d].epoch >= log[i].place.epoch
    BY DEF Removes, At
  <2>2. used.fails = 0
    BY <1>0, <2>1 DEF Types, DataTypes
  <2> QED
    BY <1>1, <2>1, <2>2, PlacesAre DEF Device, Removes, At
<1> QED
  BY <1>2, <1>3, <1>4, <1>5, <1>6, <1>7, Owes DEF Device

LEMMA SoundLeave ==
  ASSUME Types, Types', Sound, NEW d \in Devices, Leave(d)
  PROVE  Sound'
<1>1. Others(d)
  BY DEF Others, Leave, Exits, Types, DataTypes
<1> QED
  BY <1>1, FailsGrow, LiveMoves, JoinerAlone DEF Leave, Exits, server, Sound, At

LEMMA SoundKeys ==
  ASSUME Types, Types', Sound, NEW d \in Devices, Reconnected(d) \/ OnFrameKey(d)
  PROVE  Sound'
<1>1. Others(d)
  BY DEF Others, Reconnected, OnFrameKey, Types, DataTypes, media
<1>2. used'.fails >= used.fails
  BY FailsGrow DEF Reconnected, OnFrameKey
<1>3. /\ d \in live => key'[d] = key[d] \/ (mls[d].status \in {"joined", "joining"} /\ key'[d] = Place(mls[d]))
      /\ d \notin live => key'[d] = key[d]
  BY DEF Reconnected, OnFrameKey, Types, DataTypes
<1> QED
  BY <1>1, <1>2, <1>3, LiveMoves DEF Reconnected, OnFrameKey, server, media

LEMMA SoundGone ==
  ASSUME Types, Types', Sound, NEW d \in Devices, Dropped(d) \/ Detected(d)
  PROVE  Sound'
<1>1. Others(d)
  BY DEF Others, Dropped, Detected, Exits
<1>2. used'.fails >= used.fails
  BY FailsGrow DEF Dropped, Detected
<1>3. UNCHANGED <<log, tip, info, groups, mls, op, key, live>> /\ (d \in room' => d \in room)
  BY DEF Dropped, Detected, Exits, server
<1>4. \A w \in Joiners : ~At(d, w, "entered")
  <2>1. CASE Dropped(d)
    <3>1. d \in live /\ Device(d)
      BY <2>1 DEF Dropped, Sound
    <3> QED
      BY <3>1, JoinerAlone DEF At
  <2>2. CASE Detected(d)
    BY <2>2 DEF Detected, Joiners
  <2> QED
    BY <2>1, <2>2
<1> QED
  BY <1>1, <1>2, <1>3, <1>4, LiveMoves

\* A rotation or an eviction starts in a device that is in.
LEMMA SoundStarts ==
  ASSUME Types, Types', Sound, NEW d \in Devices, Sees(d) \/ Rotate(d)
  PROVE  Sound'
<1>0. op \in [Devices -> [Workers -> Operations]] /\ OpTypes /\ DataTypes
  BY DEF Types, OpTypes
<1>u. used'.fails >= used.fails
  BY FailsGrow DEF Sees, Rotate
<1>1. UNCHANGED <<log, tip, info, groups, live, room, mls, key>>
  BY DEF Sees, Rotate, server, media
<1>2. CASE op' = op
  <2>1. Others(d)
    BY <1>1, <1>2 DEF Others
  <2> QED
    BY <1>1, <1>2, <1>u, <2>1, LiveMoves
<1>3. ASSUME NEW w \in Workers, w \notin Joiners, d \in live, At(d, w, "idle"), Goto(d, w, "build")  PROVE Sound'
  <2>1. /\ \A v \in Workers : v # w => op'[d][v] = op[d][v]
        /\ \A e \in Devices : e # d => op'[e] = op[e]
        /\ op'[d][w].at = "build"
    BY <1>0, <1>3, MovesTo DEF Stages
  <2>2. Others(d) /\ AtWork(d, w)'
    BY <1>1, <2>1 DEF Others, AtWork, Posting, Merging, Putting, Entering, At
  <2> QED
    BY <1>1, <1>3, <1>u, <2>1, <2>2, WorkerMoves DEF At
<1>4. CASE Rotate(d)
  BY <1>3, <1>4, WorkersAre DEF Rotate
<1>5. CASE Sees(d)
  <2>1. events \in Seq(Events) /\ seen \in [Devices -> Nat]
    BY <1>0 DEF DataTypes
  <2>2. seen[d] + 1 \in 1..Len(events)
    BY <1>5, <2>1 DEF Sees
  <2>3. events[seen[d] + 1].of \in Devices
    <3>1. events[seen[d] + 1] \in Events
      BY <2>1, <2>2
    <3> QED
      BY <3>1 DEF Events
  <2>4. PICK x \in Devices : x = events[seen[d] + 1].of
    BY <2>3
  <2>5. op' = op \/ (d \in live /\ At(d, x, "idle") /\ Goto(d, x, "build"))
    BY <1>5, <2>4 DEF Sees
  <2> QED
    BY <1>2, <1>3, <2>5, WorkersAre
<1> QED
  BY <1>4, <1>5

LEMMA SoundCrash ==
  ASSUME Types, Types', Sound, NEW d \in Devices, Crash(d)
  PROVE  Sound'
<1>0. DataTypes /\ op \in [Devices -> [Workers -> Operations]]
  BY DEF Types, OpTypes
<1>1. Device(d) /\ Server
  BY DEF Sound
<1>2. /\ UNCHANGED <<log, tip, info, groups, mls, room>> /\ d \notin live' /\ used'.fails # 0 /\ used'.fails >= used.fails
      /\ \A w \in Workers : op'[d][w].at = "idle"
  BY <1>0, FailsGrow DEF Crash, server, Idle
<1>3. Others(d)
  BY <1>0 DEF Others, Crash, server, DataTypes
<1>4. Evolves(d) /\ Server'
  BY <1>1, <1>2, ServerRests
<1>5. Owned(d)'
  BY <1>1, <1>2, <1>4, OwnedStays DEF Device
<1>6. Device(d)'
  BY <1>2, <1>5, WorkersAre
  DEF Device, Solitary, AtWork, Posting, Merging, Putting, Entering, Sits, Removes, At
<1> QED
  BY <1>3, <1>4, <1>6, Owes

\* An accepted commit is never that of the operation under way: that one is
\* the device's own, and no place is taken twice.
LEMMA SoundHears ==
  ASSUME Types, Types', Sound, NEW d \in Devices, HandleVoiceCommit(d)
  PROVE  Sound'
<1>0. DataTypes /\ OpTypes /\ log \in Seq(Commits) /\ heard \in [Devices -> Nat] /\ mls[d] \in Voices
      /\ mls \in [Devices -> Voices]
  BY DEF Types, DataTypes
<1>1. Device(d) /\ Server /\ mls[d].epoch \in Nat /\ mls[d].base \in Nat
  BY <1>0 DEF Sound, Voices
<1>u. used'.fails >= used.fails
  BY FailsGrow DEF HandleVoiceCommit
<1>2. UNCHANGED <<log, tip, info, groups, live, room, key, op, used>> /\ d \in live
  BY DEF HandleVoiceCommit, server
<1>3. CASE mls' = mls
  <2>1. Others(d)
    BY <1>2, <1>3 DEF Others
  <2> QED
    BY <1>2, <1>3, <1>u, <2>1, LiveMoves
<1>4. CASE mls' # mls
  <2>1. PICK n \in DOMAIN log : n = heard[d] + 1
    BY <1>0 DEF HandleVoiceCommit
  <2>2. /\ log[n].by # d /\ mls[d].status = "joined" /\ log[n].place = Next1(Place(mls[d]))
        /\ mls' = [mls EXCEPT ![d] = [Group(mls[d].base, mls[d].epoch + 1, Changed(mls[d].leaves, log[n].did))
                     EXCEPT !.status = IF log[n].did = <<"remove", d>> THEN "evicted" ELSE "joined"]]
    BY <1>4, <2>1 DEF HandleVoiceCommit, Fits
  <2>3. log[n].did \in Kinds
    BY <1>0, RemovedIs
  <2>4. /\ mls'[d].status \in {"joined", "evicted"} /\ mls'[d].base = mls[d].base
        /\ mls'[d].epoch = mls[d].epoch + 1 /\ mls'[d].pend = <<>>
        /\ \A e \in Devices : e # d => mls'[e] = mls[e]
    <3> DEFINE g == Group(mls[d].base, mls[d].epoch + 1, Changed(mls[d].leaves, log[n].did))
               s == IF log[n].did = <<"remove", d>> THEN "evicted" ELSE "joined"
    <3>1. g \in Voices /\ g.base = mls[d].base /\ g.epoch = mls[d].epoch + 1 /\ g.pend = <<>>
      BY <1>0, <1>1, <2>3, ChangedIs, GroupIs DEF Voices
    <3>2. mls' = [mls EXCEPT ![d] = [g EXCEPT !.status = s]] /\ s \in {"joined", "evicted"}
      BY <2>2
    <3> HIDE DEF g, s
    <3>3. [g EXCEPT !.status = s].status = s /\ [g EXCEPT !.status = s].base = g.base
          /\ [g EXCEPT !.status = s].epoch = g.epoch /\ [g EXCEPT !.status = s].pend = g.pend
      BY <3>1 DEF Voices
    <3> QED
      BY <1>0, <3>1, <3>2, <3>3
  <2>5. Others(d)
    BY <1>2, <2>4 DEF Others
  <2>6. Evolves(d) /\ Server'
    BY <1>1, <1>2, <1>u, ServerRests
  <2>7. mls[d].base # 0
    BY <1>1, <2>2 DEF Device, Owned
  <2>8. Place(mls'[d]) = log[n].place
    <3>1. Place(mls'[d]) = [base |-> mls[d].base, epoch |-> mls[d].epoch + 1]
      BY <2>4 DEF Place
    <3> QED
      BY <1>0, <2>2, <3>1, PlacesAre
  <2>9. Owned(d)'
    BY <1>1, <1>2, <2>4, <2>7, <2>8 DEF Device, Owned, Accepted, Place
  <2>10. \A w \in Workers : ~At(d, w, "merge")
    BY <1>1, <2>2 DEF Device, AtWork, Merging, Server
  <2>11. \A w \in Joiners : At(d, w, "idle")
    BY <1>1, <1>2, JoinerAlone
  <2>12. Solitary(d)'
    BY <1>1, <1>2 DEF Device, Solitary, At
  <2>13. ASSUME NEW w \in Workers  PROVE AtWork(d, w)'
    <3>1. CASE w \in Joiners
      BY <1>2, <2>11, <3>1 DEF AtWork, Posting, Merging, Putting, Entering, At
    <3>2. CASE w \notin Joiners
      <4>1. AtWork(d, w) /\ Kind(d, w) # <<>>
        BY <1>1, KindsAre DEF Device
      <4>2. Posting(d, w)' /\ Entering(d, w)'
        BY <2>4, <3>2, <4>1 DEF Posting, Entering, Kind
      <4>3. Merging(d, w)'
        BY <1>2, <2>10 DEF Merging, At
      <4>4. Putting(d, w)'
        BY <1>2, <2>4, <3>2, <4>1 DEF AtWork, Putting, At, Accepted, NewName
      <4> QED
        BY <4>2, <4>3, <4>4 DEF AtWork
    <3> QED
      BY <3>1, <3>2
  <2>14. Sits(d)'
    BY <1>1, <1>2, <2>4 DEF Device, Sits, Accepted
  <2>15. Removes(d)'
    <3>1. SUFFICES ASSUME used.fails = 0,
                          NEW i \in DOMAIN log, log[i].by = d, log[i].did[1] = "remove",
                          log[i].place.base = mls[d].base, NEW x, x = log[i].did[2]
                   PROVE  /\ mls[d].epoch + 1 >= log[i].place.epoch
                          /\ op[d][x].at # "export" => key[d].epoch >= log[i].place.epoch
      BY <1>2, <2>4 DEF Removes, At
    <3>2. x \in Workers /\ log[i].place.epoch \in Nat
      BY <1>0, <3>1, RemovedIs
    <3>3. mls[d].epoch >= log[i].place.epoch
      BY <1>1, <2>2, <2>10, <3>1, <3>2 DEF Device, Removes, At
    <3> QED
      BY <1>1, <1>2, <2>2, <3>1, <3>2, <3>3 DEF Device, Removes, At
  <2>16. Device(d)'
    BY <2>9, <2>12, <2>13, <2>14, <2>15 DEF Device
  <2> QED
    BY <2>5, <2>6, <2>16, Owes
<1> QED
  BY <1>3, <1>4

\* The room empties with nothing between a commit and the room, unless it races.
LEMMA SoundEmptied ==
  ASSUME Types, Types', Sound, ~raced', RoomEmptied
  PROVE  Sound'
<1>0. DataTypes
  BY DEF Types
<1>1. /\ room = {} /\ info' = [place |-> None, leaves |-> {}] /\ tip' = None
      /\ UNCHANGED <<log, groups, live, room, mls, key, op, used>>
      /\ raced' = (raced \/ \E d \in Devices, w \in Workers : op[d][w].at \in {"merge", "put", "export", "enter"})
  BY DEF RoomEmptied, media
<1>2. Server'
  <2>1. groups \in Nat /\ None.base = 0
    BY <1>0 DEF DataTypes, None
  <2>2. Server
    BY DEF Sound
  <2> QED
    BY <1>1, <2>1, <2>2 DEF Server
<1>3. ASSUME NEW d \in Devices  PROVE Device(d)'
  <2>1. Device(d)
    BY DEF Sound
  <2>2. \A w \in Workers : op[d][w].at \notin {"merge", "put", "export", "enter"}
    BY <1>1
  <2>3. Solitary(d)' /\ Owned(d)' /\ Sits(d)'
    BY <1>1, <2>1 DEF Device, Solitary, Owned, Sits, At, Accepted, Place
  <2>4. ASSUME NEW w \in Workers  PROVE AtWork(d, w)'
    BY <1>1, <2>1, <2>2 DEF Device, AtWork, Posting, Merging, Putting, Entering, At, Kind
  <2>5. Removes(d)'
    BY <1>1, <2>1 DEF Device, Removes, At
  <2> QED
    BY <2>3, <2>4, <2>5 DEF Device
<1> QED
  BY <1>2, <1>3 DEF Sound

-----------------------------------------------------------------------------
(* The invariant holds.                                                     *)

\* At the start those in the room share group 1, of which no commit is known.
LEMMA SoundInit == Init => Sound
<1> SUFFICES ASSUME Init  PROVE Sound
  OBVIOUS
<1>0. PICK old \in Keepers :
        /\ start \in Starts /\ room = start /\ live = start /\ log = <<>>
        /\ groups = Len(Order) + 1
        /\ tip = IF start = {} THEN None ELSE [base |-> 1, epoch |-> 1]
        /\ info = [place |-> tip, leaves |-> start]
        /\ key = [d \in Devices |-> IF d \in start THEN tip ELSE NoProvider]
        /\ mls = [d \in Devices |->
             CASE d \in start -> Group(1, 1, start)
               [] d \in old \ start -> Group(1 + CHOOSE i \in DOMAIN Order : Order[i] = d, 1, {d})
               [] OTHER -> NoGroup]
        /\ op = [d \in Devices |-> [w \in Workers |-> Idle]]
  BY DEF Init
<1>1. start \subseteq Devices /\ Len(Order) \in Nat /\ DOMAIN Order = 1..Len(Order)
  BY <1>0, ConstantsOK
<1>2. DOMAIN log = {}
  BY <1>0
<1>3. tip.base \in {0, 1} /\ (tip.base = 1 => tip.epoch = 1) /\ (start # {} => tip = [base |-> 1, epoch |-> 1])
      /\ (tip.base = 0 => tip = None)
  BY <1>0 DEF None
<1>4. Server
  BY <1>0, <1>1, <1>2, <1>3 DEF Server, Accepted
<1>5. ASSUME NEW d \in Devices  PROVE Device(d)
  <2>1. \A w \in Workers : op[d][w].at = "idle"
    BY <1>0 DEF Idle
  <2>2. Solitary(d) /\ \A w \in Workers : AtWork(d, w)
    BY <2>1, WorkersAre DEF Solitary, AtWork, Posting, Merging, Putting, Entering, At, Joiners
  <2>3. Removes(d)
    BY <1>2 DEF Removes
  <2>4. mls[d].base <= groups /\ (mls[d].status = "none" <=> mls[d].base = 0)
        /\ (mls[d].status # "none" => mls[d].status = "joined" /\ mls[d].epoch = 1)
        /\ (d \in start => mls[d].base = 1)
    <3>1. CASE d \in start
      BY <1>0, <1>1, <3>1 DEF Group
    <3>2. CASE d \notin start /\ d \in old
      <4>1. PICK j : j = CHOOSE i \in DOMAIN Order : Order[i] = d
        OBVIOUS
      <4>2. j \in 1..Len(Order)
        <5>1. \E i \in DOMAIN Order : Order[i] = d
          BY ConstantsOK DEF Devices, Range
        <5> QED
          BY <1>1, <4>1, <5>1
      <4>3. mls[d] = Group(1 + j, 1, {d})
        BY <1>0, <3>2, <4>1
      <4> QED
        BY <1>0, <1>1, <3>2, <4>2, <4>3 DEF Group
    <3>3. CASE d \notin start /\ d \notin old
      BY <1>0, <1>1, <3>3 DEF NoGroup
    <3> QED
      BY <3>1, <3>2, <3>3
  <2>5. Owned(d)
    BY <2>4 DEF Owned, Accepted, Place
  <2>6. Sits(d)
    <3>1. SUFFICES ASSUME d \in start  PROVE Sits(d)
      BY <1>0 DEF Sits
    <3>2. key[d] = [base |-> 1, epoch |-> 1] /\ tip = [base |-> 1, epoch |-> 1]
      BY <1>0, <1>3, <3>1
    <3> QED
      BY <2>4, <3>1, <3>2 DEF Sits, Accepted
  <2> QED
    BY <2>2, <2>3, <2>5, <2>6 DEF Device
<1> QED
  BY <1>4, <1>5 DEF Sound

\* What has raced stays so.
LEMMA RacedStays ==
  ASSUME Types, [Next]_vars, ~raced'
  PROVE  ~raced
<1>1. raced \in BOOLEAN
  BY DEF Types, DataTypes
<1>2. CASE UNCHANGED vars
  BY <1>2 DEF vars, server
<1>3. CASE RoomEmptied
  BY <1>1, <1>3 DEF RoomEmptied
<1>4. ASSUME NEW d \in Devices, NEW w \in Running(d),
             \/ Token(d, w) \/ Look(d, w) \/ Create(d, w) \/ Join(d, w)
             \/ Build(d, w) \/ Post(d, w) \/ Merge(d, w) \/ Put(d, w) \/ Export(d, w)
             \/ Enter(d, w)
      PROVE  ~raced
  BY <1>1, <1>4
  DEF Token, Look, Create, Join, Build, Post, Merge, Put, Export, Enter, server
<1>5. ASSUME NEW d \in Devices, Quietly(d)  PROVE ~raced
  <2>1. CASE Works(d)
    BY <1>4, <2>1 DEF Works
  <2>2. CASE ConnectRoom(d)
    BY <1>1, <2>2 DEF ConnectRoom
  <2> QED
    BY <1>5, <2>1, <2>2
    DEF Quietly, Sees, Rotate, HandleVoiceCommit, OnFrameKey, Reconnected, Detected, server
<1>6. ASSUME NEW d \in Devices, Visibly(d)  PROVE ~raced
  BY <1>6 DEF Visibly, Cancel, Leave, Crash, Dropped, Connected, server
<1> QED
  BY <1>2, <1>3, <1>5, <1>6 DEF Next

LEMMA SoundNext ==
  ASSUME Types, Types', Sound, [Next]_vars, ~raced'
  PROVE  Sound'
<1>1. ASSUME NEW d \in Devices, NEW w \in Running(d),
             \/ Token(d, w) \/ Look(d, w) \/ Create(d, w) \/ Join(d, w)
             \/ Build(d, w) \/ Post(d, w) \/ Merge(d, w) \/ Put(d, w) \/ Export(d, w)
             \/ Enter(d, w)
      PROVE  Sound'
  <2> w \in Workers
    BY DEF Running
  <2> QED
    BY <1>1, SoundToken, SoundLook, SoundCreate, SoundJoin, SoundBuild, SoundPost, SoundMerge,
       SoundPut, SoundExport, SoundEnter
<1>2. ASSUME NEW d \in Devices, Quietly(d)  PROVE Sound'
  <2>1. CASE Works(d)
    BY <1>1, <2>1 DEF Works
  <2> QED
    BY <1>2, <2>1, SoundConnectRoom, SoundStarts, SoundHears, SoundKeys, SoundGone DEF Quietly
<1>3. ASSUME NEW d \in Devices, Visibly(d)  PROVE Sound'
  BY <1>3, SoundCancel, SoundLeave, SoundCrash, SoundGone, SoundConnected DEF Visibly, Joiners
<1>4. CASE UNCHANGED vars
  <2>1. UNCHANGED <<groups, log, tip, info, room, live, mls, key, op, used>>
    BY <1>4 DEF vars, server, media
  <2>2. Server'
    BY <2>1 DEF Sound, Server, Accepted
  <2>3. ASSUME NEW d \in Devices  PROVE Device(d)'
    <3>1. Device(d)
      BY DEF Sound
    <3>2. Solitary(d)' /\ Owned(d)' /\ Sits(d)' /\ Removes(d)'
      BY <2>1, <3>1 DEF Device, Solitary, Owned, Sits, Removes, Accepted, At, Place
    <3>3. ASSUME NEW w \in Workers  PROVE AtWork(d, w)'
      BY <2>1, <3>1 DEF Device, AtWork, Posting, Merging, Putting, Entering, At, Kind, Accepted, NewName,
                        Place, Next1
    <3> QED
      BY <3>2, <3>3 DEF Device
  <2> QED
    BY <2>2, <2>3 DEF Sound
<1> QED
  BY <1>2, <1>3, <1>4, SoundEmptied DEF Next

THEOREM VoiceHolds == Spec => []VoiceInv
<1>1. Init => VoiceInv
  BY TypesInit, SoundInit DEF VoiceInv
<1>2. VoiceInv /\ [Next]_vars => VoiceInv'
  <2> SUFFICES ASSUME VoiceInv, [Next]_vars  PROVE VoiceInv'
    OBVIOUS
  <2>1. Types /\ Types'
    BY TypesNext DEF VoiceInv
  <2>2. ASSUME ~raced'  PROVE Sound'
    <3>1. ~raced
      BY <2>1, <2>2, RacedStays
    <3>2. Sound
      BY <3>1 DEF VoiceInv
    <3> QED
      BY <2>1, <2>2, <3>2, SoundNext
  <2> QED
    BY <2>1, <2>2 DEF VoiceInv
<1> QED
  BY <1>1, <1>2, PTL DEF Spec

\* What the invariant says of the keys in the room.
LEMMA VoiceKeys == VoiceInv => OneVoiceGroup /\ KeyIsAccepted /\ RemoverRotates
<1> SUFFICES ASSUME VoiceInv, ~raced  PROVE OneVoiceGroup /\ KeyIsAccepted /\ RemoverRotates
  BY DEF OneVoiceGroup, KeyIsAccepted, RemoverRotates
<1>1. \A d \in live : d \in Devices /\ Sits(d) /\ Removes(d) /\ mls[d] \in Voices /\ key[d] \in Places
  BY DEF VoiceInv, Sound, Device, Types, DataTypes
<1>2. OneVoiceGroup
  BY <1>1 DEF OneVoiceGroup, Sits
<1>3. KeyIsAccepted
  BY <1>1 DEF KeyIsAccepted, Sits, Accepted
<1>4. RemoverRotates
  <2> SUFFICES ASSUME NEW i \in DOMAIN log, NEW c, c = log[i].by, used.fails = 0,
                      log[i].did[1] = "remove", c \in live, mls[c].status # "evicted",
                      At(c, log[i].did[2], "idle"), key[c].base = log[i].place.base
               PROVE  key[c].epoch >= log[i].place.epoch
    BY DEF RemoverRotates
  <2>1. mls[c].status = "joined" /\ mls[c].base = log[i].place.base
    BY <1>1 DEF Sits
  <2>2. ~At(c, log[i].did[2], "merge") /\ ~At(c, log[i].did[2], "export")
    BY DEF At
  <2> QED
    BY <1>1, <2>1, <2>2 DEF Removes
<1> QED
  BY <1>2, <1>3, <1>4

\* While no publication raced and nobody connected over their own last session,
\* the devices in the room use keys of one group.
THEOREM OneVoiceGroupHolds == Spec => []OneVoiceGroup
BY VoiceHolds, VoiceKeys, PTL

\* ... of epochs the server has accepted ...
THEOREM AcceptedKeysHold == Spec => []KeyIsAccepted
BY VoiceHolds, VoiceKeys, PTL

\* ... and the one that removed a device has left the key it knew.
THEOREM RemoversRotate == Spec => []RemoverRotates
BY VoiceHolds, VoiceKeys, PTL

-----------------------------------------------------------------------------
(* The composition implements the voice channel, whose theorems hold of it. *)

LEMMA CallStepsInChannel == [CallNext]_callVars => [Next]_vars
<1> SUFFICES ASSUME [CallNext]_callVars PROVE [Next]_vars
  OBVIOUS
<1>1. \A d \in Devices : Quietly(d) \/ Visibly(d) => Next
  BY DEF Next
<1>2. Me \in Devices
  BY MeOK
<1>3. CASE CallLeaves \/ CallCloses \/ CallDies \/ CallIsLost
  BY <1>1, <1>2, <1>3 DEF CallLeaves, CallCloses, CallDies, CallIsLost, Visibly
<1>4. ASSUME NEW w \in {"connect", "stale"}, CallConnects(w)  PROVE Next
  BY <1>1, <1>2, <1>4 DEF CallConnects, Visibly
<1>5. CASE ConnectRoom(Me) \/ Works(Me) \/ Quietly(Me) \/ Cancel(Me)
  BY <1>1, <1>2, <1>5 DEF Quietly, Visibly
<1>6. CASE RoomEmptied
  BY <1>6 DEF Next
<1>7. CASE UNCHANGED callVars
  BY <1>7 DEF callVars
<1> QED
  BY <1>1, <1>3, <1>4, <1>5, <1>6, <1>7 DEF CallNext

THEOREM CallIsAVoiceChannel == CallSpec => Spec
<1>1. CallInit => Init
  BY DEF CallInit
<1> QED
  BY <1>1, CallStepsInChannel, PTL DEF CallSpec, Spec

\* In a call, with a view that captures: what the run checks.
THEOREM CallKeysHold == CallSpec => [](OneVoiceGroup /\ KeyIsAccepted /\ RemoverRotates)
<1>1. Spec => [](OneVoiceGroup /\ KeyIsAccepted /\ RemoverRotates)
  BY VoiceHolds, VoiceKeys, PTL
<1> QED
  BY <1>1, CallIsAVoiceChannel, PTL
=============================================================================

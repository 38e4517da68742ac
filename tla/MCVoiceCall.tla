---------------------------- MODULE MCVoiceCall ----------------------------
(* Three devices of module VoiceCall, by identity, and what "a" may do in its *)
(* view: nothing, beside the others; or, alone in the room, one of the rest.  *)
EXTENDS VoiceCall
ABC == <<"a", "b", "c">>

Story(flows, clicks, faults, leaves, does, audioEnabled) ==
  [flows |-> flows, clicks |-> clicks, faults |-> faults, leaves |-> leaves,
   does |-> does, input |-> "m", audioEnabled |-> audioEnabled]
Tales ==
  {Story(0, 0, 0, 0, {}, TRUE),
   Story(3, 0, 0, 0, {"pick"}, TRUE),
   Story(3, 1, 0, 0, {"toggle", "save"}, TRUE),
   Story(2, 2, 0, 0, {"toggle", "save", "deafen"}, TRUE),
   Story(2, 1, 0, 1, {"toggle"}, FALSE),
   Story(1, 1, 1, 1, {"toggle"}, TRUE),
   Story(2, 1, 1, 0, {"camera", "pick"}, TRUE),
   Story(2, 1, 0, 1, {"screen"}, FALSE)}

\* Keepers = {{}}, MaxMishaps = 0, Starts = {{"a", "b"}}: TLC refutes this statement
\* of lib/voiceMlsSession.js:5, "so every participant converges on the same epoch
\* and frame key".  The frame of a commit that overtakes the response to the
\* device's own commit is lost, and a voice group has no catch-up.
Quiet ==
  /\ due = {}
  /\ \A d \in Devices : Running(d) = {}
  /\ \A d \in live : heard[d] = Len(log) /\ seen[d] = Len(events)
Converges == (Quiet /\ ~raced) => \A c, d \in live : key[c] = key[d]

\* Starts = {{"a"}}: TLC refutes all three.  The user leaves while the browser asks for
\* the microphone, comes back, and answers: it is sent in the new call, which
\* has no orchestrator to mute it with (hooks/useRoom.js:1106).  A microphone
\* picked in the call is published by the handler and by the effect at once, and
\* one of the two is lost to the view (components/voice-channel-view.tsx:650).  A view
\* that is closed while it connects enters the room all the same
\* (hooks/useRoom.js:1251).
NothingIsCaptured == (conn = "off" /\ C!UnderWay = {}) => \A f \in C!Flows : ~source[f].raw
OneMicrophone == Cardinality({f \in C!Flows : C!Mic(f) /\ source[f].sent}) <= 1
EnteredIsSeen == Me \in live => view
============================================================================

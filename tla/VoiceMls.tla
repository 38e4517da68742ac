------------------------------ MODULE VoiceMls ------------------------------
(***************************************************************************)
(* Encrypted voice in one channel: the MLS group behind the frame key      *)
(* (lib/mlsGroup.js, lib/voiceMlsSession.js), the connection, rotation and *)
(* eviction of hooks/useRoom.js, and the election of the device that       *)
(* removes a departed one (lib/voiceParticipantMetadata.js).               *)
(*                                                                         *)
(* Nothing here runs under a mutex.  A device may be running at once: the  *)
(* connection the user asked for ("connect"), one the user has cancelled   *)
(* ("stale"), the periodic rotation ("rotate") and an eviction of each     *)
(* other device (the device itself names the worker).                      *)
(*                                                                         *)
(* External: the server accepts a commit of its current group at the next  *)
(* epoch only, sends it to subscribers in order, stores the GroupInfo that *)
(* was PUT last and drops it when the LiveKit room is empty; LiveKit tells *)
(* those in the room who enters and leaves, in one order; the WASM refuses *)
(* a commit of another epoch and refuses to build one over a pending one.  *)
(***************************************************************************)
EXTENDS Naturals, Sequences, FiniteSets, SequencesExt

CONSTANTS
  Order,         \* the devices (`userId:deviceId'), smallest identity first
  Starts,        \* sets of devices that may be in the room at the start
  Keepers,       \* sets of devices that may have a group of an earlier session
  MaxDone,       \* bound: connections, departures and rotations
  MaxMishaps,    \* bound: failed requests, crashes, connections lost or given up
  MaxLog         \* bound: commits

Devices == Range(Order)

ASSUME ConstantsOK ==
  /\ Order \in Seq(Devices) /\ IsInjective(Order)
  /\ Starts \subseteq SUBSET Devices /\ Keepers \subseteq SUBSET Devices
  /\ {MaxDone, MaxMishaps, MaxLog} \subseteq Nat
  /\ Devices \cap {"connect", "stale", "rotate"} = {}

VARIABLES
  start,     \* the devices in the room at the start
  groups,    \* how many groups have been created; they are named 1, 2, ...
  log,       \* server: the accepted commits
  tip,       \* server: the group and epoch of the last one
  info,      \* server: the GroupInfo
  room,      \* LiveKit: the devices in the room
  events,    \* LiveKit: who entered and who left
  raced,     \* (history) a GroupInfo replaced one of another group, or was dropped
             \* under an operation on it; or a device connected while an operation
             \* of its last session was under way
  mls,       \* device: the voice group in the WASM store
  key,       \* device: what the key provider holds
  op,        \* device: the operation of each worker
  live,      \* device: roomRef is set, the voice session is subscribed
  heard,     \* device: commits received
  seen,      \* device: LiveKit events handled
  due,       \* device: a received commit was processed, its key not yet derived
  used       \* what the bounds above count, so far

server == <<groups, log, tip, info, raced>>
media == <<room, events, seen, live, heard>>
vars == <<start, server, media, mls, key, op, due, used>>

Workers == {"connect", "stale", "rotate"} \cup Devices
None == [base |-> 0, epoch |-> 0]    \* no GroupInfo; a key provider without a key
NoProvider == [base |-> 0, epoch |-> 1]

NoGroup == [status |-> "none", base |-> 0, epoch |-> 0, leaves |-> {}, pend |-> <<>>]
Group(base, epoch, leaves) ==
  [status |-> "joined", base |-> base, epoch |-> epoch, leaves |-> leaves, pend |-> <<>>]
Place(g) == [base |-> g.base, epoch |-> g.epoch]
GroupInfo(g) == [place |-> Place(g), leaves |-> g.leaves]

Idle == [at |-> "idle"]
Busy(at) == [at |-> at]
At(d, w, at) == op[d][w].at = at
Running(d) == {w \in Workers : ~At(d, w, "idle")}
Goto(d, w, at) == op' = [op EXCEPT ![d][w] = Busy(at)]
GotoPut(d, w, g) == op' = [op EXCEPT ![d][w] = [at |-> "put", info |-> GroupInfo(g)]]
Does == used.done < MaxDone /\ used' = [used EXCEPT !.done = @ + 1]
Mishap == used.cancels + used.fails < MaxMishaps
Fail == Mishap /\ used' = [used EXCEPT !.fails = @ + 1]
Breaks(d, w) == Fail /\ Goto(d, w, "idle")

\* Who is in the LiveKit room after the first n events.
MembersAfter(n) ==
  {d \in Devices :
     LET past == {i \in 1..n : events[i].of = d}
     IN  IF past = {} THEN d \in start
         ELSE \E i \in past : events[i].kind = "in" /\ \A j \in past : j <= i}
Gone(d) == IF d \in room THEN <<[kind |-> "out", of |-> d]>> ELSE <<>>
Enters(d) ==
  /\ room' = room \cup {d}
  /\ events' = events \o Gone(d) \o <<[kind |-> "in", of |-> d]>>
Exits(d) ==
  /\ room' = room \ {d}
  /\ events' = events \o Gone(d)

\* Those in the room at the start share group 1; the group device i keeps
\* from an earlier session is i + 1.
Init ==
  \E old \in Keepers :
    /\ start \in Starts /\ room = start
    /\ groups = Len(Order) + 1
    /\ tip = IF start = {} THEN None ELSE [base |-> 1, epoch |-> 1]
    /\ info = [place |-> tip, leaves |-> start]
    /\ key = [d \in Devices |-> IF d \in start THEN tip ELSE NoProvider]
    /\ mls = [d \in Devices |->
         CASE d \in start -> Group(1, 1, start)
           [] d \in old \ start -> Group(1 + CHOOSE i \in DOMAIN Order : Order[i] = d, 1, {d})
           [] OTHER -> NoGroup]
    /\ log = <<>> /\ events = <<>> /\ raced = FALSE
    /\ op = [d \in Devices |-> [w \in Workers |-> Idle]]
    /\ live = start
    /\ heard = [d \in Devices |-> 0] /\ seen = [d \in Devices |-> 0]
    /\ due = {}
    /\ used = [done |-> 0, cancels |-> 0, fails |-> 0]

-----------------------------------------------------------------------------
(* Connecting.                                                              *)

ConnectRoom(d) ==
  /\ d \notin live /\ At(d, "connect", "idle")
  /\ Does
  /\ raced' = (raced \/ Running(d) # {})
  /\ Goto(d, "connect", "token")
  /\ UNCHANGED <<start, groups, log, tip, info, media, mls, key, due>>

\* disconnectRoom before there is a room: connectRoom goes on, as stale.
Cancel(d) ==
  /\ ~At(d, "connect", "idle") /\ At(d, "stale", "idle")
  /\ Mishap /\ used' = [used EXCEPT !.cancels = @ + 1]
  /\ op' = [op EXCEPT ![d]["stale"] = op[d]["connect"], ![d]["connect"] = Idle]
  /\ UNCHANGED <<start, server, media, mls, key, due>>

\* The LiveKit token arrives; the new key provider has no key.
Token(d, w) ==
  /\ At(d, w, "token")
  /\ \/ /\ w = "connect"
        /\ key' = [key EXCEPT ![d] = None]
        /\ Goto(d, w, "look")
        /\ UNCHANGED used
     \/ /\ w = "stale"
        /\ Goto(d, w, "idle")
        /\ UNCHANGED <<key, used>>
     \/ Breaks(d, w) /\ UNCHANGED key
  /\ UNCHANGED <<start, server, media, mls, due>>

Look_FailsOpen(d, w) ==
  /\ At(d, w, "look")
  /\ \/ Goto(d, w, IF info.place = None THEN "create" ELSE "join") /\ UNCHANGED used
     \/ Fail /\ Goto(d, w, "enter")
  /\ UNCHANGED <<start, server, media, mls, key, due>>
\* Is there a voice group?
Look(d, w) ==
  /\ At(d, w, "look")
  /\ \/ Goto(d, w, IF info.place = None THEN "create" ELSE "join") /\ UNCHANGED used
     \/ Breaks(d, w)
  /\ UNCHANGED <<start, server, media, mls, key, due>>

\* createVoiceGroup: a group of an earlier session is adopted and published,
\* under a new name here (as its key is) when the server has forgotten its
\* commits.
Create_KeepsItsOwn(d, w) ==
  /\ At(d, w, "create")
  /\ IF mls[d].status = "none"
     THEN /\ groups' = groups + 1
          /\ mls' = [mls EXCEPT ![d] = Group(groups + 1, 1, {d})]
          /\ GotoPut(d, w, mls'[d])
     ELSE /\ Goto(d, w, "export")
          /\ UNCHANGED <<groups, mls>>
  /\ UNCHANGED <<start, log, tip, info, raced, media, key, due, used>>
Create(d, w) ==
  /\ At(d, w, "create")
  /\ IF mls[d].status \in {"none", "joined"}
     THEN /\ IF tip.base # 0 /\ tip.base = mls[d].base
             THEN UNCHANGED <<groups, mls, key>>
             ELSE /\ groups' = groups + 1
                  /\ mls' = [mls EXCEPT ![d] = IF mls[d].status = "none" THEN Group(groups + 1, 1, {d})
                                               ELSE [@ EXCEPT !.base = groups + 1, !.epoch = 1]]
                  /\ key' = IF key[d] = Place(mls[d]) THEN [key EXCEPT ![d] = Place(mls'[d])] ELSE key
          /\ GotoPut(d, w, mls'[d])
     ELSE /\ Goto(d, w, "idle")
          /\ UNCHANGED <<groups, mls, key>>
  /\ UNCHANGED <<start, log, tip, info, raced, media, due, used>>

\* joinVoiceGroup: the GroupInfo is fetched again.
Join(d, w) ==
  /\ At(d, w, "join")
  /\ \/ /\ info.place = None
        /\ Goto(d, w, "create")
        /\ UNCHANGED <<mls, used>>
     \/ /\ info.place # None
        /\ mls' = [mls EXCEPT ![d] = [status |-> "joining", base |-> info.place.base, epoch |-> info.place.epoch,
                                      leaves |-> info.leaves, pend |-> <<"join", d>>]]
        /\ Goto(d, w, "post")
        /\ UNCHANGED used
     \/ Breaks(d, w) /\ UNCHANGED mls
  /\ UNCHANGED <<start, server, media, key, due>>

-----------------------------------------------------------------------------
(* Commits: a join, a rotation or an eviction.                              *)

Changed(leaves, pend) ==
  CASE pend[1] = "join" -> leaves \cup {pend[2]}
    [] pend[1] = "remove" -> leaves \ {pend[2]}
    [] OTHER -> leaves
Next1(place) == [place EXCEPT !.epoch = @ + 1]

\* What the worker's commit does; a worker named by a device removes it.
Kind(d, w) == CASE w \in {"connect", "stale"} -> <<"join", d>>
                [] w = "rotate" -> <<"update", d>>
                [] OTHER -> <<"remove", w>>

\* selfUpdate or removeMembers.
Build(d, w) ==
  /\ At(d, w, "build")
  /\ IF mls[d].status = "joined" /\ mls[d].pend = <<>> /\ Kind(d, w)[2] \in mls[d].leaves
     THEN /\ mls' = [mls EXCEPT ![d].pend = Kind(d, w)]
          /\ op' = [op EXCEPT ![d][w] = Busy("post")]
     ELSE /\ Goto(d, w, "idle")
          /\ UNCHANGED mls
  /\ UNCHANGED <<start, server, media, key, due, used>>

\* postMLSVoiceCommit of the commit that was built, which `pend' still is
\* unless another commit or a new join came in between: then it is of the
\* wrong epoch and refused.  Only a join carries no GroupInfo.
Post(d, w) ==
  /\ At(d, w, "post")
  /\ LET commit == [place |-> Next1(Place(mls[d])), by |-> d, did |-> Kind(d, w)]
         built == mls[d].pend = Kind(d, w)
     IN  \/ /\ built /\ commit.place = Next1(tip) /\ Len(log) < MaxLog
            /\ log' = Append(log, commit)
            /\ tip' = commit.place
            /\ info' = IF commit.did[1] = "join" THEN info
                       ELSE [place |-> commit.place, leaves |-> Changed(mls[d].leaves, commit.did)]
            /\ \/ Goto(d, w, "merge") /\ UNCHANGED used
               \/ Breaks(d, w)
         \/ /\ ~(built /\ commit.place = Next1(tip) /\ Len(log) < MaxLog)
            /\ Goto(d, w, "idle")
            /\ UNCHANGED <<log, tip, info, used>>
         \/ Breaks(d, w) /\ UNCHANGED <<log, tip, info>>
  /\ UNCHANGED <<start, groups, raced, media, mls, key, due>>

\* mergePendingCommit.  An eviction publishes nothing more.
Merge_Evicting(d, w) ==
  /\ At(d, w, "merge")
  /\ IF w \in Devices THEN Goto(d, w, "export") /\ UNCHANGED mls
     ELSE /\ mls' = [mls EXCEPT ![d] = Group(@.base, @.epoch + 1, Changed(@.leaves, @.pend))]
          /\ GotoPut(d, w, mls'[d])
  /\ UNCHANGED <<start, server, media, key, due, used>>
Merge(d, w) ==
  /\ At(d, w, "merge")
  /\ IF mls[d].pend # <<>>
     THEN /\ mls' = [mls EXCEPT ![d] = Group(@.base, @.epoch + 1, Changed(@.leaves, @.pend))]
          /\ IF w \in Devices THEN Goto(d, w, "export") ELSE GotoPut(d, w, mls'[d])
     ELSE /\ Goto(d, w, "idle")
          /\ UNCHANGED mls
  /\ UNCHANGED <<start, server, media, key, due, used>>

\* putMLSVoiceGroupInfo after a creation, a join or a rotation.
Put(d, w) ==
  /\ At(d, w, "put")
  /\ LET mine == op[d][w].info
     IN  \/ /\ info' = mine
            /\ tip' = IF tip.base = mine.place.base THEN tip ELSE mine.place
            /\ raced' = (raced \/ (info.place # None /\ info.place.base # mine.place.base))
            /\ \/ Goto(d, w, "export") /\ UNCHANGED used
               \/ Breaks(d, w)
         \/ Breaks(d, w) /\ UNCHANGED <<info, tip, raced>>
  /\ UNCHANGED <<start, groups, log, media, mls, key, due>>

\* exportVoiceFrameKey and setKey.  A connection goes on to LiveKit; the
\* provider of a stale one is thrown away with it.
Export(d, w) ==
  /\ At(d, w, "export")
  /\ LET usable == mls[d].status \in {"joined", "joining"}
         kept == w # "stale" /\ (w # "connect" => key[d] # NoProvider)
     IN  /\ Goto(d, w, IF w = "connect" /\ usable THEN "enter" ELSE "idle")
         /\ key' = IF usable /\ kept THEN [key EXCEPT ![d] = Place(mls[d])] ELSE key
  /\ UNCHANGED <<start, server, media, mls, due, used>>

-----------------------------------------------------------------------------
(* The room.                                                                *)

\* room.connect: LiveKit knows the device before connectRoom does.
Enter(d, w) ==
  /\ At(d, w, "enter")
  /\ \/ /\ Enters(d)
        /\ seen' = [seen EXCEPT ![d] = Len(events')]
        /\ Goto(d, w, "entered")
        /\ UNCHANGED used
     \/ Breaks(d, w) /\ UNCHANGED <<room, events, seen>>
  /\ UNCHANGED <<start, server, live, heard, mls, key, due>>

\* roomRef is set and the voice session subscribes; a stale connection leaves.
Connected(d, w) ==
  /\ At(d, w, "entered")
  /\ Goto(d, w, "idle")
  /\ IF w = "connect"
     THEN /\ live' = live \cup {d}
          /\ heard' = [heard EXCEPT ![d] = Len(log)]
          /\ UNCHANGED <<room, events>>
     ELSE /\ Exits(d)
          /\ UNCHANGED <<live, heard>>
  /\ UNCHANGED <<start, server, seen, mls, key, due, used>>

\* disconnectRoom: the provider is dropped, operations under way go on.
Leave(d) ==
  /\ d \in live
  /\ Does
  /\ live' = live \ {d}
  /\ Exits(d)
  /\ key' = [key EXCEPT ![d] = NoProvider]
  /\ due' = due \ {d}
  /\ UNCHANGED <<start, server, heard, seen, mls, op>>

\* isElectedVoiceMlsRemover, over the participants d sees after n events.
Elected(d, x, n) ==
  LET candidates == (MembersAfter(n) \cup {d}) \ {x}
      first == CHOOSE i \in DOMAIN Order :
                 Order[i] \in candidates /\ \A j \in DOMAIN Order : Order[j] \in candidates => i <= j
  IN  d # x /\ d = Order[first]

\* A LiveKit event.  On a departure the elected device starts an eviction,
\* unless its roomRef is not set yet.
Sees(d) ==
  /\ d \in room /\ (d \in live \/ At(d, "connect", "entered"))
  /\ seen[d] < Len(events)
  /\ LET n == seen[d] + 1
         x == events[n].of
     IN  /\ seen' = [seen EXCEPT ![d] = n]
         /\ IF events[n].kind = "out" /\ d \in live /\ Elected(d, x, n)
            THEN /\ At(d, x, "idle")
                 /\ Goto(d, x, "build")
            ELSE UNCHANGED op
  /\ UNCHANGED <<start, server, room, events, live, heard, mls, key, due, used>>

\* LiveKit lost its connection and has it again: the key is derived again.
Reconnected(d) ==
  /\ Fail
  /\ d \in live \cap room /\ mls[d].status \in {"joined", "joining"}
  /\ key' = [key EXCEPT ![d] = Place(mls[d])]
  /\ UNCHANGED <<start, server, media, mls, op, due>>

\* The rotation timer of a session.
Rotate(d) ==
  /\ d \in live /\ At(d, "rotate", "idle")
  /\ Does
  /\ Goto(d, "rotate", "build")
  /\ UNCHANGED <<start, server, media, mls, key, due>>

\* handleVoiceCommit: own commits are skipped, others processed if they fit.
Fits(d, commit) ==
  /\ mls[d].status = "joined"
  /\ commit.place = Next1(Place(mls[d]))
HandleVoiceCommit(d) ==
  /\ d \in live /\ heard[d] < Len(log)
  /\ heard' = [heard EXCEPT ![d] = @ + 1]
  /\ LET commit == log[heard[d] + 1]
     IN  IF commit.by # d /\ Fits(d, commit)
         THEN /\ mls' = [mls EXCEPT ![d] = [Group(@.base, @.epoch + 1, Changed(@.leaves, commit.did))
                           EXCEPT !.status = IF commit.did = <<"remove", d>> THEN "evicted" ELSE "joined"]]
              /\ due' = due \cup {d}
         ELSE UNCHANGED <<mls, due>>
  /\ UNCHANGED <<start, server, room, events, seen, live, key, op, used>>

\* ... and the key of the epoch that was reached is set, while the session lasts.
OnFrameKey(d) ==
  /\ d \in due
  /\ due' = due \ {d}
  /\ key' = IF d \in live /\ mls[d].status = "joined" THEN [key EXCEPT ![d] = Place(mls[d])] ELSE key
  /\ UNCHANGED <<start, server, media, mls, op, used>>

-----------------------------------------------------------------------------
(* The environment.                                                         *)

\* The last participant has left: the server drops the GroupInfo.
RoomEmptied ==
  /\ room = {} /\ info.place # None
  /\ info' = [place |-> None, leaves |-> {}]
  /\ tip' = None
  /\ raced' = (raced \/ \E d \in Devices, w \in Workers : op[d][w].at \in {"merge", "put", "export", "enter"})
  /\ UNCHANGED <<start, groups, log, media, mls, key, op, due, used>>

\* The tab dies; LiveKit finds out later, or when the device enters again.
Crash(d) ==
  /\ Fail
  /\ d \in live \/ Running(d) # {}
  /\ live' = live \ {d}
  /\ due' = due \ {d}
  /\ key' = [key EXCEPT ![d] = NoProvider]
  /\ op' = [op EXCEPT ![d] = [w \in Workers |-> Idle]]
  /\ UNCHANGED <<start, server, room, events, heard, seen, mls>>
\* LiveKit gives up on a device: its session goes on until the user leaves.
Dropped(d) ==
  /\ Fail
  /\ d \in live \cap room
  /\ Exits(d)
  /\ UNCHANGED <<start, server, seen, live, heard, mls, key, op, due>>
Detected(d) ==
  /\ d \in room \ live /\ ~At(d, "connect", "entered") /\ ~At(d, "stale", "entered")
  /\ Exits(d)
  /\ UNCHANGED <<start, server, seen, live, heard, mls, key, op, due, used>>

\* A step of a connection, a rotation or an eviction up to the room.
Works(d) ==
  \E w \in Running(d) :
    \/ Token(d, w) \/ Look(d, w) \/ Create(d, w) \/ Join(d, w)
    \/ Build(d, w) \/ Post(d, w) \/ Merge(d, w) \/ Put(d, w) \/ Export(d, w)
    \/ Enter(d, w)
\* What changes nothing, and what changes something, for what d captures.
Quietly(d) ==
  \/ ConnectRoom(d) \/ Works(d) \/ Sees(d) \/ Rotate(d) \/ HandleVoiceCommit(d)
  \/ OnFrameKey(d) \/ Reconnected(d) \/ Detected(d)
Visibly(d) ==
  \/ Cancel(d) \/ Leave(d) \/ Crash(d) \/ Dropped(d)
  \/ \E w \in {"connect", "stale"} : Connected(d, w)

Next ==
  \/ \E d \in Devices : Quietly(d) \/ Visibly(d)
  \/ RoomEmptied

Spec == Init /\ [][Next]_vars

-----------------------------------------------------------------------------
(* Properties.                                                              *)

Places == [base : Nat, epoch : Nat]
TypeOK ==
  /\ start \in Starts /\ room \subseteq Devices /\ live \subseteq Devices /\ due \subseteq live
  /\ tip \in Places /\ info.place \in Places /\ info.leaves \subseteq Devices
  /\ \A d \in Devices :
       /\ key[d] \in Places
       /\ mls[d].status \in {"none", "joining", "joined", "evicted"}
       /\ Place(mls[d]) \in Places /\ mls[d].leaves \subseteq Devices
       /\ mls[d].base <= groups
       /\ heard[d] <= Len(log) /\ seen[d] <= Len(events)

\* All but the last except what the client cannot tell: that its group was
\* published over another one or dropped under an operation on it, and that an
\* operation of its last session goes on while it connects (`raced').

\* Devices in the room use keys of one group, whatever groups they keep from
\* earlier sessions (createVoiceGroup adopts and publishes such a group).
OneVoiceGroup ==
  ~raced => \A c, d \in live \cap room : key[c].base = key[d].base

\* Nobody is in the room with a key of an epoch the server has not accepted,
\* or without a key (connectRoom fails closed).
KeyIsAccepted ==
  ~raced =>
    \A d \in live : key[d].base # 0 /\ (key[d].epoch = 1 \/ \E i \in DOMAIN log : log[i].place = key[d])

\* A device that removed another has left the key the other one knows, unless
\* it was removed itself meanwhile (it left, came back, and another device saw
\* it leave only now).
RemoverRotates ==
  \A i \in DOMAIN log :
    LET c == log[i].by
    IN  (~raced /\ used.fails = 0 /\ log[i].did[1] = "remove" /\ c \in live /\ mls[c].status # "evicted"
         /\ At(c, log[i].did[2], "idle") /\ key[c].base = log[i].place.base)
          => key[c].epoch >= log[i].place.epoch

\* When nothing goes wrong, a device in the room with nothing under way uses
\* the key of the epoch its group is in.
KeyFollowsGroup ==
  \A d \in live :
    (used.fails = 0 /\ used.cancels = 0 /\ d \notin due /\ mls[d].status = "joined" /\ Running(d) = {})
      => key[d] = Place(mls[d])

==============================================================================

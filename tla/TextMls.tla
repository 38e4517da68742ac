------------------------------- MODULE TextMls -------------------------------
(***************************************************************************)
(* The MLS group of one text channel as its devices keep it: creation,     *)
(* external joins, commits, catch-up, messages and removals                *)
(* (lib/mlsGroup.js), with the callers that run them: hooks/useMLS.js,     *)
(* hooks/useTextChannelMLSCommitListener.ts, lib/preDecryptForLinkExport.js *)
(* and the kick clean-up of adapters/useServerModerationEvents.ts.         *)
(*                                                                         *)
(* A device keeps two things that are written apart: the group in the      *)
(* WASM store (mls) and the epoch mlsStore records for it (stored).  Every  *)
(* request is a step of its own, and every step may be the last one before *)
(* a crash.  The per-channel mutex (module ChannelMutex) is the worker     *)
(* "queue": its operations run one at a time.  The link export runs beside *)
(* it, as the worker "export".                                             *)
(*                                                                         *)
(* External: the server is an ordered log of commits (a commit is accepted *)
(* at the next epoch only) and one GroupInfo slot; the WASM refuses a      *)
(* commit of another epoch or group, of its own device, or after eviction, *)
(* and refuses to remove a device while a commit is pending.               *)
(***************************************************************************)
EXTENDS Naturals, Sequences, FiniteSets

CONSTANTS
  Clients,      \* devices that run the program
  Others,       \* devices of the group that only get removed
  Origins,      \* sets of devices that may be in the group at the start
  Leavers,      \* devices that may leave, which makes the others remove them
  Kicked,       \* clients that may be kicked
  Exporters,    \* clients that may run a link export
  Legacy,       \* whether an mls.add_request frame may lack the device id
  None,         \* no value
  Limit,        \* commits getMLSCommitsSinceEpoch returns at most
  PutNewerOnly, \* the server ignores a PUT of an older GroupInfo
  MaxFails,     \* bound: failed requests, crashes and kicks
  MaxLog        \* bound: commits

ASSUME ConstantsOK ==
  /\ Origins \subseteq SUBSET (Clients \cup Others)
  /\ Leavers \subseteq Clients \cup Others
  /\ Kicked \subseteq Clients /\ Exporters \subseteq Clients
  /\ Limit \in Nat \ {0} /\ PutNewerOnly \in BOOLEAN /\ Legacy \subseteq BOOLEAN
  /\ MaxFails \in Nat /\ MaxLog \in Nat
  /\ None \notin [base : Clients \cup Others \cup {None}, epoch : Nat]

VARIABLES
  established, \* the devices in the group at the start; none: no group yet
  log,     \* server: the accepted commits; the i-th one makes epoch i
  info,    \* server: the GroupInfo newcomers join with
  mls,     \* device: the group in the WASM store
  stored,  \* device: the epoch mlsStore records, None if none
  op,      \* device: the operation each worker is running
  frames,  \* device: the mls.add_request frames still to be handled
  msg,     \* the last message sent
  left,    \* clients whose channels were cleaned up after a kick
  fails    \* failed requests, crashes and kicks so far

vars == <<established, log, info, mls, stored, op, frames, msg, left, fails>>
server == <<established, log, info>>
device == <<mls, stored>>

Devices == Clients \cup Others
Workers == {"queue", "export"}
Founder == IF established = {} THEN None ELSE CHOOSE d \in established : TRUE

\* A group is named by the device that created it.
NoGroup == [status |-> "none", base |-> None, epoch |-> 0, pend |-> None]
Group(base, epoch) == [status |-> "joined", base |-> base, epoch |-> epoch, pend |-> None]

\* The leaves of a group after its first `epoch' commits.
Events(d, epoch) == {i \in 1..epoch : log[i].of = d}
Roster(base, epoch) ==
  {d \in Devices :
     LET past == Events(d, epoch)
     IN  IF past = {} THEN d = base \/ (base = Founder /\ d \in established)
         ELSE \E i \in past : log[i].kind = "join" /\ \A j \in past : j <= i}

-----------------------------------------------------------------------------
(* An operation: what the caller asked for, where it is, where a subroutine *)
(* returns to, whether it is in its second attempt, the commit or device it *)
(* is about, the commits fetched, and (history) the log length it began at. *)

Idle == [do |-> "idle", at |-> "end", back |-> "end", retry |-> FALSE, arg |-> None, todo |-> <<>>, head |-> 0]
Begin(do, at, back, arg) ==
  [Idle EXCEPT !.do = do, !.at = at, !.back = back, !.arg = arg, !.head = Len(log)]
Goto(o, at) == [o EXCEPT !.at = at]
Returned(o) == IF o.back = "end" THEN Idle ELSE Goto(o, o.back)

\* What follows an exception: the decrypt path and the commit listener catch
\* up and (the decrypt path) try once more; everything else ends.
Threw(o) ==
  IF o.do \in {"recv", "commit"} /\ ~o.retry
  THEN [o EXCEPT !.at = "fetch", !.back = IF o.do = "recv" THEN "check" ELSE "end", !.retry = TRUE]
  ELSE Idle

At(c, w, at) == op[c][w].at = at /\ op[c][w].do # "idle"
Becomes(c, w, o) == op' = [op EXCEPT ![c][w] = o]
Breaks(c, w) == /\ fails < MaxFails
                /\ fails' = fails + 1
                /\ Becomes(c, w, Threw(op[c][w]))

Init ==
  /\ established \in Origins
  /\ log = <<>>
  /\ info = IF established = {} THEN None ELSE [base |-> Founder, epoch |-> 0]
  /\ mls = [c \in Clients |-> IF c \in established THEN Group(Founder, 0) ELSE NoGroup]
  /\ stored = [c \in Clients |-> IF c \in established THEN 0 ELSE None]
  /\ op = [c \in Clients |-> [w \in Workers |-> Idle]]
  /\ frames = [c \in Clients |-> {}]
  /\ msg = None
  /\ left = {}
  /\ fails = 0

-----------------------------------------------------------------------------
(* Callers.  Starting an operation is being granted the mutex.              *)

Free(c, w) == op[c][w] = Idle /\ c \notin left
Start(c, w, o) == /\ Becomes(c, w, o)
                  /\ UNCHANGED <<server, device, msg, left, fails>>

EncryptStart_NoCatchup(c) == Begin("send", IF stored[c] = None THEN "look" ELSE "use", "use", None)
EncryptStart(c) == Begin("send", IF stored[c] = None THEN "look" ELSE "fetch", "use", None)

EncryptForChannel(c) ==
  /\ Free(c, "queue")
  /\ Start(c, "queue", EncryptStart(c))
  /\ UNCHANGED frames

DecryptStart(c) == Begin("recv", IF stored[c] = None THEN "look" ELSE "use", "use", [base |-> msg.base, epoch |-> msg.epoch])

\* decryptFromChannel runs under the mutex, the link export's decryptOnce not.
Decrypt(c, w) ==
  /\ Free(c, w)
  /\ w = "export" => c \in Exporters
  /\ msg # None /\ msg.by # c
  /\ Start(c, w, DecryptStart(c))
  /\ UNCHANGED frames

\* A commit frame of another device: late, early or both, as the server sends it.
OnCommit(c, i) ==
  /\ Free(c, "queue")
  /\ log[i].by # c
  /\ Start(c, "queue", Begin("commit", "process", "end", i))
  /\ UNCHANGED frames

\* An add_request frame that asks to remove d: without a device id the
\* listener only catches up.
OnAddRequest(c, d) ==
  /\ Free(c, "queue")
  /\ d \in frames[c]
  /\ frames' = [frames EXCEPT ![c] = @ \ {d}]
  /\ \E legacy \in Legacy :
       Start(c, "queue", IF legacy THEN Begin("catchup", "fetch", "end", None)
                         ELSE Begin("remove", "build", "end", d))

-----------------------------------------------------------------------------
(* processMessage on a commit.                                              *)

\* The group is in the state the commit was made in.
Fits(c, i) ==
  /\ mls[c].status = "joined"
  /\ log[i].base = mls[c].base
  /\ i = mls[c].epoch + 1
  /\ log[i].by # c
AfterCommit(c, i) ==
  [Group(mls[c].base, i) EXCEPT !.status = IF log[i].of = c THEN "evicted" ELSE "joined"]

\* processCommit of the frame: the group and then its recorded epoch advance.
ProcessFrame(c, w) ==
  /\ At(c, w, "process")
  /\ LET i == op[c][w].arg
     IN  IF Fits(c, i)
         THEN /\ mls' = [mls EXCEPT ![c] = AfterCommit(c, i)]
              /\ Becomes(c, w, Goto(op[c][w], "record"))
         ELSE /\ Becomes(c, w, Threw(op[c][w]))
              /\ UNCHANGED mls
  /\ UNCHANGED <<server, stored, frames, msg, left, fails>>

\* catchupCommits: the commits after the recorded epoch, Limit of them at most.
Since(c) == IF stored[c] = None THEN 0 ELSE stored[c]
Fetch(c, w) ==
  /\ At(c, w, "fetch")
  /\ \/ /\ LET n == Since(c)
               last == IF n + Limit < Len(log) THEN n + Limit ELSE Len(log)
           IN  Becomes(c, w, [op[c][w] EXCEPT !.at = "replay", !.todo = [i \in 1..(IF last > n THEN last - n ELSE 0) |-> n + i]])
        /\ UNCHANGED fails
     \/ Breaks(c, w)
  /\ UNCHANGED <<server, device, frames, msg, left>>

\* The next fetched commit; one that cannot be processed makes the device
\* join the group anew.
Replay_Throws(c, w) ==
  /\ At(c, w, "replay")
  /\ LET o == op[c][w]
     IN  CASE o.todo = <<>> -> Becomes(c, w, Returned(o)) /\ UNCHANGED mls
           [] o.todo # <<>> /\ Fits(c, Head(o.todo)) ->
                /\ mls' = [mls EXCEPT ![c] = AfterCommit(c, Head(o.todo))]
                /\ Becomes(c, w, [o EXCEPT !.at = "recordNext", !.todo = Tail(@)])
           [] OTHER -> Becomes(c, w, [Threw(o) EXCEPT !.todo = <<>>]) /\ UNCHANGED mls
  /\ UNCHANGED <<server, stored, frames, msg, left, fails>>
Replay(c, w) ==
  /\ At(c, w, "replay")
  /\ LET o == op[c][w]
     IN  CASE o.todo = <<>> -> Becomes(c, w, Returned(o)) /\ UNCHANGED mls
           [] o.todo # <<>> /\ Fits(c, Head(o.todo)) ->
                /\ mls' = [mls EXCEPT ![c] = AfterCommit(c, Head(o.todo))]
                /\ Becomes(c, w, [o EXCEPT !.at = "recordNext", !.todo = Tail(@)])
           [] OTHER -> Becomes(c, w, [o EXCEPT !.at = "join", !.todo = <<>>]) /\ UNCHANGED mls
  /\ UNCHANGED <<server, stored, frames, msg, left, fails>>

Record(c, w) ==
  /\ At(c, w, "record") \/ At(c, w, "recordNext")
  /\ stored' = [stored EXCEPT ![c] = mls[c].epoch]
  /\ Becomes(c, w, IF op[c][w].at = "record" THEN Returned(op[c][w]) ELSE Goto(op[c][w], "replay"))
  /\ UNCHANGED <<server, mls, frames, msg, left, fails>>

-----------------------------------------------------------------------------
(* Creating and joining.                                                    *)

\* joinOrCreateChannelGroup asks whether there is a group.
Look(c, w) ==
  /\ At(c, w, "look")
  /\ \/ /\ Becomes(c, w, Goto(op[c][w], IF info = None THEN "create" ELSE "join"))
        /\ UNCHANGED fails
     \/ Breaks(c, w)
  /\ UNCHANGED <<server, device, frames, msg, left>>

\* createGroup: a group the WASM store has already is taken for one that
\* another path is creating.
Create(c, w) ==
  /\ At(c, w, "create")
  /\ IF mls[c].status = "none"
     THEN /\ mls' = [mls EXCEPT ![c] = Group(c, 0)]
          /\ Becomes(c, w, Goto(op[c][w], "put"))
     ELSE /\ Becomes(c, w, Returned(op[c][w]))
          /\ UNCHANGED mls
  /\ UNCHANGED <<server, stored, frames, msg, left, fails>>

\* joinChannelGroup: fetch the GroupInfo and prepare the external commit.
Join_RecordsFirst(c, w) ==
  /\ At(c, w, "join") /\ info # None
  /\ mls' = [mls EXCEPT ![c] = [status |-> "joining", base |-> info.base, epoch |-> info.epoch, pend |-> c]]
  /\ stored' = [stored EXCEPT ![c] = info.epoch + 1]
  /\ Becomes(c, w, [op[c][w] EXCEPT !.at = "post", !.todo = <<[kind |-> "join", of |-> c, by |-> c, base |-> info.base, epoch |-> info.epoch + 1]>>])
  /\ UNCHANGED <<server, frames, msg, left, fails>>
Join(c, w) ==
  /\ At(c, w, "join")
  /\ LET o == op[c][w]
     IN  \/ /\ info = None
            /\ Becomes(c, w, Returned(o))
            /\ UNCHANGED <<mls, fails>>
         \/ /\ info # None
            /\ mls' = [mls EXCEPT ![c] = [status |-> "joining", base |-> info.base, epoch |-> info.epoch, pend |-> c]]
            /\ Becomes(c, w, [o EXCEPT !.at = "post", !.todo = <<[kind |-> "join", of |-> c, by |-> c, base |-> info.base, epoch |-> info.epoch + 1]>>])
            /\ UNCHANGED fails
         \/ Breaks(c, w) /\ UNCHANGED mls
  /\ UNCHANGED <<server, stored, frames, msg, left>>

\* removeMembers: a pending commit that nobody will read yet.
BuildRemoval(c, w) ==
  /\ At(c, w, "build")
  /\ LET o == op[c][w]
         g == mls[c]
     IN  IF g.status = "joined" /\ g.pend = None /\ o.arg \in Roster(g.base, g.epoch)
         THEN /\ mls' = [mls EXCEPT ![c].pend = o.arg]
              /\ Becomes(c, w, [o EXCEPT !.at = "post", !.todo = <<[kind |-> "remove", of |-> o.arg, by |-> c, base |-> g.base, epoch |-> g.epoch + 1]>>])
         ELSE Becomes(c, w, Threw(o)) /\ UNCHANGED mls
  /\ UNCHANGED <<server, stored, frames, msg, left, fails>>

\* postMLSCommit: accepted at the next epoch, with its GroupInfo; the answer
\* may be lost, and so may the request.
Accepted(commit) == commit.epoch = Len(log) + 1 /\ Len(log) < MaxLog
Post_MergesFirst(c, w) ==
  /\ At(c, w, "post")
  /\ mls' = [mls EXCEPT ![c] = Group(mls[c].base, mls[c].epoch + 1)]
  /\ LET o == op[c][w]
         commit == Head(o.todo)
     IN  \/ /\ Accepted(commit)
            /\ log' = Append(log, [kind |-> commit.kind, of |-> commit.of, by |-> commit.by, base |-> commit.base])
            /\ info' = [base |-> commit.base, epoch |-> commit.epoch]
            /\ Becomes(c, w, [o EXCEPT !.at = "record", !.todo = <<>>])
            /\ UNCHANGED fails
         \/ Breaks(c, w) /\ UNCHANGED <<log, info>>
  /\ UNCHANGED <<established, stored, frames, msg, left>>
Post(c, w) ==
  /\ At(c, w, "post")
  /\ LET o == op[c][w]
         commit == Head(o.todo)
     IN  \/ /\ Accepted(commit)
            /\ log' = Append(log, [kind |-> commit.kind, of |-> commit.of, by |-> commit.by, base |-> commit.base])
            /\ info' = [base |-> commit.base, epoch |-> commit.epoch]
            /\ \/ Becomes(c, w, [o EXCEPT !.at = "merge", !.todo = <<>>]) /\ UNCHANGED fails
               \/ Breaks(c, w)
         \/ /\ ~Accepted(commit)
            /\ Becomes(c, w, [Threw(o) EXCEPT !.todo = <<>>])
            /\ UNCHANGED <<server, fails>>
         \/ Breaks(c, w) /\ UNCHANGED server
  /\ UNCHANGED <<established, device, frames, msg, left>>

\* mergePendingCommit merges whatever commit is pending in the WASM store.
Merge(c, w) ==
  /\ At(c, w, "merge")
  /\ LET o == op[c][w]
     IN  IF mls[c].pend # None
         THEN /\ mls' = [mls EXCEPT ![c] = Group(mls[c].base, mls[c].epoch + 1)]
              /\ Becomes(c, w, Goto(o, IF o.do = "remove" THEN "record" ELSE "put"))
         ELSE Becomes(c, w, Threw(o)) /\ UNCHANGED mls
  /\ UNCHANGED <<server, stored, frames, msg, left, fails>>

\* putMLSGroupInfo after a creation or a join.
Put(c, w) ==
  /\ At(c, w, "put")
  /\ LET mine == [base |-> mls[c].base, epoch |-> mls[c].epoch]
     IN  \/ /\ info' = IF PutNewerOnly /\ info # None /\ info.epoch > mine.epoch THEN info ELSE mine
            /\ \/ Becomes(c, w, Goto(op[c][w], "record")) /\ UNCHANGED fails
               \/ Breaks(c, w)
         \/ Breaks(c, w) /\ UNCHANGED info
  /\ UNCHANGED <<established, log, device, frames, msg, left>>

-----------------------------------------------------------------------------
(* Application messages.                                                    *)

\* createMessage.  Without a group the device joins and tries once more; an
\* eviction, and everything else, is thrown.
Encrypt(c, w) ==
  /\ At(c, w, "use") /\ op[c][w].do = "send"
  /\ LET o == op[c][w]
         g == mls[c]
     IN  CASE g.status = "joined" ->
                /\ msg' = [by |-> c, base |-> g.base, epoch |-> g.epoch, head |-> o.head]
                /\ Becomes(c, w, Idle)
                /\ UNCHANGED stored
           [] g.status = "none" /\ ~o.retry ->
                /\ stored' = [stored EXCEPT ![c] = None]
                /\ Becomes(c, w, [o EXCEPT !.at = "look", !.retry = TRUE])
                /\ UNCHANGED msg
           [] OTHER -> Becomes(c, w, Idle) /\ UNCHANGED <<stored, msg>>
  /\ UNCHANGED <<server, mls, frames, left, fails>>

\* processMessage on an application message, readable in its own epoch.
DecryptMessage(c, w) ==
  /\ At(c, w, "use") /\ op[c][w].do = "recv"
  /\ LET o == op[c][w]
         readable == mls[c].status = "joined" /\ mls[c].base = o.arg.base /\ mls[c].epoch = o.arg.epoch
     IN  Becomes(c, w, IF readable THEN Idle ELSE Threw(o))
  /\ UNCHANGED <<server, device, frames, msg, left, fails>>

\* The second decryptMessage looks for a group again.
Check(c, w) ==
  /\ At(c, w, "check")
  /\ Becomes(c, w, [op[c][w] EXCEPT !.at = IF stored[c] = None THEN "look" ELSE "use", !.back = "use"])
  /\ UNCHANGED <<server, device, frames, msg, left, fails>>

-----------------------------------------------------------------------------
(* The environment.                                                         *)

\* A member leaves: the server asks every other device to remove it.
Leaves(d) ==
  /\ d \in Leavers
  /\ \A c \in Clients : d \notin frames[c]
  /\ info # None /\ d \in Roster(info.base, Len(log))
  /\ \A c \in Clients : \A w \in Workers : op[c][w].do # "remove"
  /\ frames' = [c \in Clients |-> IF c = d THEN frames[c] ELSE frames[c] \cup {d}]
  /\ UNCHANGED <<server, device, op, msg, left, fails>>

\* leaveAllChannelGroups after member_kicked: not under the mutex.
CleansUp(c) ==
  /\ c \in Kicked \ left /\ fails < MaxFails
  /\ fails' = fails + 1
  /\ left' = left \cup {c}
  /\ stored' = [stored EXCEPT ![c] = None]
  /\ UNCHANGED <<server, mls, op, frames, msg>>

Crash(c) ==
  /\ fails < MaxFails
  /\ fails' = fails + 1
  /\ \E w \in Workers : op[c][w] # Idle
  /\ op' = [op EXCEPT ![c] = [w \in Workers |-> Idle]]
  /\ UNCHANGED <<server, device, frames, msg, left>>

Step(c, w) ==
  \/ ProcessFrame(c, w) \/ Fetch(c, w) \/ Replay(c, w) \/ Record(c, w)
  \/ Look(c, w) \/ Create(c, w) \/ Join(c, w) \/ BuildRemoval(c, w)
  \/ Post(c, w) \/ Merge(c, w) \/ Put(c, w)
  \/ Encrypt(c, w) \/ DecryptMessage(c, w) \/ Check(c, w)

Next ==
  \/ \E c \in Clients :
       \/ EncryptForChannel(c)
       \/ \E i \in 1..Len(log) : OnCommit(c, i)
       \/ \E d \in Leavers : OnAddRequest(c, d)
       \/ \E w \in Workers : Decrypt(c, w) \/ Step(c, w)
       \/ CleansUp(c)
       \/ Crash(c)
  \/ \E d \in Leavers : Leaves(d)

\* An operation that was started goes on, and the mutex is FIFO: an operation
\* asked for is granted though others keep coming.
Fairness ==
  \A c \in Clients :
    /\ \A w \in Workers : WF_vars(Step(c, w))
    /\ SF_vars(EncryptForChannel(c))
    /\ \A d \in Leavers : SF_vars(OnAddRequest(c, d))
Spec == Init /\ [][Next]_vars /\ Fairness

-----------------------------------------------------------------------------
(* Properties.                                                              *)

Epochs == 0..MaxLog
Infos == [base : Devices, epoch : Epochs]
TypeOK ==
  /\ established \in Origins
  /\ Len(log) <= MaxLog
  /\ \A i \in DOMAIN log : log[i] \in [kind : {"join", "remove"}, of : Devices, by : Clients, base : Devices]
  /\ info \in Infos \cup {None}
  /\ \A c \in Clients :
       /\ mls[c].status \in {"none", "joining", "joined", "evicted"}
       /\ mls[c].epoch \in Epochs
       /\ stored[c] \in Epochs \cup {None}
       /\ frames[c] \subseteq Leavers
  /\ left \subseteq Kicked
  /\ fails \in 0..MaxFails

\* A device never advances to an epoch the server has not accepted: the
\* commits of its group are a prefix of the server's log (the order of POST
\* and merge in joinChannelGroup and removeMemberFromChannel).
MergedIsAccepted ==
  \A c \in Clients :
    mls[c].status \in {"joined", "evicted"} =>
      /\ mls[c].epoch <= Len(log)
      /\ \A i \in 1..mls[c].epoch : log[i].base = mls[c].base

\* A message is encrypted no earlier than the epoch the group was in when the
\* device began to send, so never for a leaf removed before that (the
\* catch-up before createMessage, HUSHHQ-99).
SendIsCurrent ==
  msg # None =>
    /\ msg.epoch >= msg.head
    /\ msg.epoch > 0 => log[msg.epoch].base = msg.base

\* A group whose external commit was never merged does not pass for a joined
\* one: no operation under the mutex is running or its next catch-up has
\* something to fail on, which makes it join anew.
HalfJoinIsNoticed ==
  \A c \in Clients :
    (mls[c].status = "joining" /\ stored[c] # None) => stored[c] < Len(log)

\* After any bounded number of failures and crashes, every device that keeps
\* sending gets messages through.
SendsGetThrough ==
  \A c \in Clients : []<>(msg # None /\ msg.by = c)

(* What comments and docs say, and the runs refute.                         *)

\* "a removed MLS leaf silently rejoining via send recovery would re-grant
\* access": a removed device is in the group again only after a clean-up.
EvictedStaysOut ==
  \A i \in 1..Len(log) :
    log[i].kind = "join" =>
      \A j \in 1..(i - 1) : ~(log[j].kind = "remove" /\ log[j].of = log[i].of)

\* "a peer left and remaining online members must commit the removal."
LeaverIsRemoved ==
  \A d \in Leavers :
    (\E c \in Clients : d \in frames[c]) ~> (info # None /\ d \notin Roster(info.base, Len(log)))

==============================================================================

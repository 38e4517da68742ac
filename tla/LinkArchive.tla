---------------------------- MODULE LinkArchive ----------------------------
(***************************************************************************)
(* Linking a new device: the old device uploads the message history as an  *)
(* archive of chunks and hands it over in a sealed envelope; the new       *)
(* device imports it (lib/linkArchiveSession.js, lib/linkArchiveTransport  *)
(* .js, lib/linkArchiveExportStore.js, lib/transcriptVault.js,             *)
(* components/devices/ApproveDeviceLinkFlow.jsx, pages/LinkDevice.jsx).    *)
(* The server keeps one archive per user and is modelled from its answers. *)
(* A request with retries fails once all its attempts have, before or      *)
(* after the server acted.  An approval that is closed goes on in the      *)
(* background, beside the next one.                                        *)
(***************************************************************************)
EXTENDS Naturals, FiniteSets, FiniteSetsExt

CONSTANTS
  Archives,    \* how many archives there are (bound)
  Claims,      \* how many link requests the new device may make (bound)
  Flows,       \* approval flows of the old device, closed ones at work included (bound)
  Chunks,      \* chunks of an archive
  Batch,       \* the window the client counts on: 8 in the code
  Stories      \* windows a server may grant, each with how many flows, requests,
               \* archives and failures there may be (bounds)

ASSUME LinkAssumption ==
  /\ {Archives, Claims, Flows, Chunks, Batch} \subseteq Nat \ {0}
  /\ Stories \subseteq [cap : Nat \ {0}, flows : Nat, claims : Nat, archives : 0..Archives, faults : Nat]

Archive == 1..Archives
Claim   == 1..Claims
Flow    == 1..Flows
Chunk   == 0..Chunks - 1

VARIABLES
  cap,      \* the server's window
  arch,     \* the server's record of an archive
  held,     \* the chunks it has confirmed
  keyOf,    \* the request whose session key encrypts an archive
  row,      \* the export row the old device keeps of it
  link,     \* a link request, on the server
  env,      \* the archive its envelope names, 0 without one
  old,      \* the approval flows of the old device
  late,     \* uploads that other workers go on with after a failure
  new,      \* the new device
  vault,    \* the transcript at rest: frames by import, and the import committed
  room,     \* bounds: flows, link requests, archives, and the answers that fail,
            \* storage errors and reloads that are left
  lost,     \* history: why nobody can free an archive's slot, {} if somebody can
  shared    \* history: archives that two flows were at work on, or a second one
            \* took up after they were handed over

vars == <<cap, arch, held, keyOf, row, link, env, old, late, new, vault, room, lost, shared>>

server == <<cap, arch, held, keyOf>>
relay  == <<link, env>>
told   == <<lost, shared>>

Live(a) == arch[a] \in {"staging", "available"}

\* flow: mounted, ph, the claim, the archive, whether a row was written, the tasks
\* of the current window, the next index to ask for, the missing chunks, the record
\* offered for resumption, whether this is a resumption, the rows to reclaim,
\* (history) the failed transfers whose rows it could list, whether the slot
\* was refused
OldIdle == [open |-> FALSE, ph |-> "off", c |-> 0, a |-> 0, kept |-> FALSE, job |-> {},
            next |-> 0, missing |-> {}, rec |-> 0, resume |-> FALSE, todo |-> {},
            listed |-> {}, refused |-> FALSE]
NewIdle == [ph |-> "off", c |-> 0, a |-> 0, next |-> 0, got |-> {}]

Init ==
  /\ \E s \in Stories : cap = s.cap /\ room = [flows |-> s.flows, claims |-> s.claims,
                                               archives |-> s.archives, faults |-> s.faults]
  /\ arch = [a \in Archive |-> "none"]
  /\ held = [a \in Archive |-> {}]
  /\ keyOf = [a \in Archive |-> 0]
  /\ row = [a \in Archive |-> "none"]
  /\ link = [c \in Claim |-> "none"]
  /\ env = [c \in Claim |-> 0]
  /\ old = [f \in Flow |-> OldIdle]
  /\ late = {}
  /\ new = NewIdle
  /\ vault = [frames |-> [c \in Claim |-> {}], meta |-> 0]
  /\ lost = [a \in Archive |-> {}]
  /\ shared = {}

Fault == room.faults > 0 /\ room' = [room EXCEPT !.faults = @ - 1]
Fine  == UNCHANGED room
Lose(a, cause) == lost' = [lost EXCEPT ![a] = @ \cup {cause}]

\* workers take the tasks of a window in order
Least(S, n) == {i \in S : Cardinality({j \in S : j < i}) < n}
Window(from, to) == {i \in Chunk : from <= i /\ i < to /\ i < from + cap}

At(f, p) == old[f].ph = p
AtWork(f) == old[f].ph \notin {"off", "choose"}
Become(f, r) == old' = [old EXCEPT ![f] = r]

\* Another flow is at work on the archive, or is about to delete it.
InUse(f, a) ==
  \E g \in Flow \ {f} : AtWork(g) /\ (old[g].a = a \/ a \in old[g].todo)

(***************************************************************************)
(* The old device: claim, approve, reclaim, allocate.                      *)
(***************************************************************************)

\* Mounting the flow sweeps the rows past their deadline.
Sweep_TakesFailed == [a \in Archive |-> IF row[a] = "dead" \/ arch[a] = "past" THEN "none" ELSE row[a]]
Sweep == [a \in Archive |-> IF arch[a] = "past" THEN "none" ELSE row[a]]

\* A flow is mounted when no other is, and resolves a claim; a sweep that fails
\* leaves the rows.
Resolve(f, c) ==
  /\ f <= room.flows /\ At(f, "off") /\ \A g \in Flow : ~old[g].open
  /\ \A g \in Flow : g < f => ~At(g, "off")
  /\ link[c] = "open" /\ link' = [link EXCEPT ![c] = "claimed"]
  /\ (Fine /\ row' = Sweep) \/ (Fault /\ UNCHANGED row)
  /\ Become(f, [OldIdle EXCEPT !.open = TRUE, !.ph = "choose", !.c = c])
  /\ UNCHANGED <<server, env, late, new, vault, told>>

Newest(S) == {a \in S : \A b \in S : b <= a}

\* The lookup of an interrupted export is answered (bound: before the flow has an
\* archive of its own), and the newest one is offered.  One that fails offers none.
Look(f) ==
  /\ old[f].open /\ old[f].ph \in {"choose", "list", "reclaim"}
  /\ \E a \in Newest({b \in Archive : row[b] = "open"}) : Become(f, [old[f] EXCEPT !.rec = a])
  /\ UNCHANGED <<server, relay, row, late, new, vault, room, told>>

\* A flow that has something under way goes on without its page.
Close(f) ==
  /\ old[f].open
  /\ Become(f, IF AtWork(f) THEN [old[f] EXCEPT !.open = FALSE, !.rec = 0] ELSE OldIdle)
  /\ UNCHANGED <<server, relay, row, late, new, vault, room, told>>

\* Bound: an archive is left for every flow that is about to allocate one.
Spare == Cardinality({a \in Archive : arch[a] # "none"})
         + Cardinality({g \in Flow : old[g].ph \in {"list", "reclaim"}}) < room.archives

Approve(f) ==
  /\ At(f, "choose") /\ old[f].rec = 0
  /\ Spare
  /\ Become(f, [OldIdle EXCEPT !.open = TRUE, !.ph = "list", !.c = old[f].c])
  /\ UNCHANGED <<server, relay, row, late, new, vault, room, told>>

\* The flow ends; the buttons of a mounted one come back.
Ended(f) ==
  IF old[f].open
  THEN [OldIdle EXCEPT !.open = TRUE, !.ph = "choose", !.c = old[f].c, !.rec = old[f].rec]
  ELSE OldIdle
Ends(f) == Become(f, Ended(f))

Failures == {a \in Archive : row[a] # "none" /\ (row[a] = "dead" \/ arch[a] = "past")}
Stale_OnlyPast == {a \in Archive : row[a] # "none" /\ arch[a] = "past"}
Stale == Failures

\* The rows are listed once; without the list nothing is reclaimed.  What comes
\* before it, the reading of the history, can fail too.
List(f) ==
  /\ At(f, "list")
  /\ \/ /\ Fine
        /\ Become(f, [old[f] EXCEPT !.ph = "reclaim", !.todo = Stale, !.listed = Failures])
        /\ shared' = shared \cup {a \in Stale : InUse(f, a)}
     \/ Fault /\ Become(f, [old[f] EXCEPT !.ph = "reclaim"]) /\ UNCHANGED shared
     \/ Fault /\ Ends(f) /\ UNCHANGED shared
  /\ UNCHANGED <<server, relay, row, late, new, vault, lost>>

Gone(a) == [arch EXCEPT ![a] = IF Live(a) THEN "gone" ELSE @]

\* A row of a failed transfer goes only after the server's slot; a failure to
\* remove it is tolerated.
Reclaim(f, a) ==
  /\ At(f, "reclaim") /\ a \in old[f].todo
  /\ Become(f, [old[f] EXCEPT !.todo = @ \ {a}])
  /\ \/ Fine /\ arch' = Gone(a) /\ row' = [row EXCEPT ![a] = "none"] /\ UNCHANGED lost
     \/ Fault /\ arch' = Gone(a) /\ UNCHANGED <<row, lost>>
     \/ Fault /\ Lose(a, "blocked") /\ UNCHANGED <<arch, row>>
  /\ UNCHANGED <<cap, held, keyOf, relay, late, new, vault, shared>>

Allocate(f, a) ==
  /\ arch[a] = "none" /\ \A b \in Archive : b < a => arch[b] # "none"
  /\ held' = held
  /\ keyOf' = [keyOf EXCEPT ![a] = old[f].c]

\* One slot per user: an upload abandoned for long is superseded, a complete
\* archive is not.
InitArchive(f, a) ==
  /\ At(f, "reclaim") /\ old[f].todo = {}
  /\ Allocate(f, a)
  /\ ~\E b \in Archive : arch[b] = "available"
  /\ arch' = [b \in Archive |-> IF b = a THEN "staging"
                                ELSE IF arch[b] = "staging" THEN "gone" ELSE arch[b]]
  /\ \/ Fine /\ Become(f, [old[f] EXCEPT !.ph = "persist", !.a = a, !.listed = {}]) /\ UNCHANGED lost
     \/ Fault /\ Ends(f) /\ Lose(a, "answer")
  /\ UNCHANGED <<cap, relay, row, late, new, vault, shared>>

InitFails(f) ==
  /\ At(f, "reclaim") /\ old[f].todo = {}
  /\ \/ Fine /\ (\E b \in Archive : Live(b)) /\ Become(f, [Ended(f) EXCEPT !.refused = TRUE])
     \/ Fault /\ Ends(f)
  /\ UNCHANGED <<server, relay, row, late, new, vault, told>>

Persist(f) ==
  /\ At(f, "persist")
  /\ \E kept \in BOOLEAN :
       /\ IF kept THEN Fine /\ row' = [row EXCEPT ![old[f].a] = "open"] ELSE Fault /\ UNCHANGED row
       /\ Become(f, [old[f] EXCEPT !.ph = "put", !.kept = kept, !.job = Window(0, Chunks), !.next = cap])
  /\ UNCHANGED <<server, relay, late, new, vault, told>>

(***************************************************************************)
(* The upload.  An error of a fresh upload marks the row and frees the     *)
(* slot; an error of a resumed one leaves both for another attempt.        *)
(***************************************************************************)
Workers == 2

Breaks(f) ==
  IF old[f].resume THEN Ends(f)
  ELSE Become(f, [old[f] EXCEPT !.ph = IF old[f].kept THEN "mark" ELSE "drop", !.job = {}])

Dead(a) == [row EXCEPT ![a] = IF @ = "none" THEN @ ELSE "dead"]

\* The row is marked before the DELETE is sent; if that fails it stays open.
Mark(f) ==
  /\ At(f, "mark")
  /\ (Fine /\ row' = Dead(old[f].a)) \/ (Fault /\ UNCHANGED row)
  /\ Become(f, [old[f] EXCEPT !.ph = "drop"])
  /\ UNCHANGED <<server, relay, late, new, vault, told>>

\* The server stores a chunk and confirms it, unless the archive is closed.
Confirmed(a, i) == IF arch[a] = "staging" THEN [held EXCEPT ![a] = @ \cup {i}] ELSE held

\* A request about an archive that is not open for uploads any more, or a fault.
Refused(f) ==
  \/ Fine /\ arch[old[f].a] # "staging" /\ Breaks(f)
  \/ Fault /\ Breaks(f)

Put(f, i) ==
  /\ old[f].ph \in {"put", "reput"} /\ i \in Least(old[f].job, Workers)
  /\ \/ /\ Fine /\ arch[old[f].a] = "staging"
        /\ held' = Confirmed(old[f].a, i)
        /\ Become(f, [old[f] EXCEPT !.job = @ \ {i}])
        /\ UNCHANGED late
     \/ /\ Refused(f)
        /\ late' = late \cup {<<old[f].a, j>> : j \in old[f].job \ {i}}
        /\ UNCHANGED held
  /\ UNCHANGED <<cap, arch, keyOf, row, relay, new, vault, told>>

\* The other workers of a broken window go on.
PutLate ==
  /\ \E t \in late :
       /\ late' = late \ {t}
       /\ held' = Confirmed(t[1], t[2])
  /\ UNCHANGED <<cap, arch, keyOf, relay, row, old, new, vault, room, told>>

NextWindow_NoAdvance(f) ==
  /\ At(f, "put") /\ old[f].job = {} /\ old[f].next < Chunks
  /\ \/ Fine /\ arch[old[f].a] = "staging"
             /\ Become(f, [old[f] EXCEPT !.job = Window(old[f].next, Chunks)])
     \/ Refused(f)
  /\ UNCHANGED <<server, relay, row, late, new, vault, told>>

NextWindow(f) ==
  /\ At(f, "put") /\ old[f].job = {} /\ old[f].next < Chunks
  /\ \/ Fine /\ arch[old[f].a] = "staging"
             /\ Become(f, [old[f] EXCEPT !.job = Window(old[f].next, Chunks), !.next = @ + cap])
     \/ Refused(f)
  /\ UNCHANGED <<server, relay, row, late, new, vault, told>>

\* The storage behind the server drops a chunk it had confirmed.
Forget(a, i) ==
  /\ arch[a] = "staging" /\ i \in held[a] /\ Fault
  /\ held' = [held EXCEPT ![a] = @ \ {i}]
  /\ UNCHANGED <<cap, arch, keyOf, relay, row, old, late, new, vault, told>>

(***************************************************************************)
(* Finalizing: the server answers ok or the chunks it misses.              *)
(***************************************************************************)
UploadedAll(f) == At(f, "put") /\ old[f].job = {} /\ old[f].next >= Chunks
SentAgain(f)   == At(f, "reput") /\ old[f].job = {} /\ old[f].missing = {}
Finalizing(f)  == UploadedAll(f) \/ SentAgain(f) \/ At(f, "probe")

ToVerify(f) == Become(f, [old[f] EXCEPT !.ph = "verify"])

\* The row goes.  If that fails a fresh upload goes on beside it, a resumed one
\* ends with the error.
Complete_(f) ==
  /\ Live(old[f].a) /\ held[old[f].a] = Chunk
  /\ arch' = [arch EXCEPT ![old[f].a] = "available"]
  /\ \/ Fine /\ row' = [row EXCEPT ![old[f].a] = "none"] /\ ToVerify(f)
     \/ Fault /\ UNCHANGED row /\ IF old[f].resume THEN Ends(f) ELSE ToVerify(f)

\* After a retransmission a second "missing" is an error; a resumption marks its row.
StillMissing(f) ==
  \/ /\ old[f].resume /\ Ends(f)
     /\ (Fine /\ row' = Dead(old[f].a)) \/ (Fault /\ UNCHANGED row)
  \/ ~old[f].resume /\ Breaks(f) /\ Fine /\ UNCHANGED row

Misses_Ignored(f) == ToVerify(f) /\ Fine /\ UNCHANGED row
Misses(f) ==
  \/ SentAgain(f) /\ StillMissing(f)
  \/ /\ ~SentAgain(f) /\ Fine /\ UNCHANGED row
     /\ Become(f, [old[f] EXCEPT !.ph = "reput", !.missing = Chunk \ held[old[f].a]])

\* A resumption that finds the archive gone marks its row and drops it.
FindsItGone(f) ==
  \/ At(f, "probe") /\ Ends(f) /\ Fine /\ row' = [row EXCEPT ![old[f].a] = "none"]
  \/ At(f, "probe") /\ Ends(f) /\ Fault /\ row' \in {row, Dead(old[f].a)}
  \/ ~At(f, "probe") /\ Breaks(f) /\ Fine /\ UNCHANGED row

\* No answer, and the server may have acted.
Unfinalized(f) ==
  /\ Fault /\ UNCHANGED row
  /\ IF At(f, "probe") THEN Ends(f) ELSE Breaks(f)
  /\ arch' \in {arch, IF Live(old[f].a) /\ held[old[f].a] = Chunk
                      THEN [arch EXCEPT ![old[f].a] = "available"] ELSE arch}

Finalize(f) ==
  /\ Finalizing(f)
  /\ \/ Complete_(f)
     \/ Live(old[f].a) /\ held[old[f].a] # Chunk /\ Misses(f) /\ UNCHANGED arch
     \/ ~Live(old[f].a) /\ FindsItGone(f) /\ UNCHANGED arch
     \/ Unfinalized(f)
  /\ UNCHANGED <<cap, held, keyOf, relay, late, new, vault, told>>

\* One window per batch of missing chunks.  A resumption asks for the first to
\* the last of eight and sends the missing ones among those granted; a fresh
\* upload sends all that is granted.
Retransmit(f) ==
  /\ At(f, "reput") /\ old[f].job = {} /\ old[f].missing # {}
  /\ LET slice == Least(old[f].missing, IF old[f].resume THEN Batch ELSE cap)
         granted == Window(Min(slice), Max(slice) + 1)
     IN  \/ /\ Fine /\ arch[old[f].a] = "staging"
            /\ Become(f, [old[f] EXCEPT !.missing = @ \ slice,
                             !.job = IF old[f].resume THEN granted \cap slice ELSE granted])
         \/ Refused(f)
  /\ UNCHANGED <<server, relay, row, late, new, vault, told>>

\* DELETE after a failure; it reports success only when the archive is gone.
Drop(f) ==
  /\ old[f].ph \in {"drop", "undo"}
  /\ Ends(f)
  /\ \/ (Fine \/ Fault) /\ arch' = Gone(old[f].a) /\ UNCHANGED lost
     \/ /\ Fault /\ UNCHANGED arch
        /\ IF At(f, "drop") /\ old[f].kept THEN UNCHANGED lost ELSE Lose(old[f].a, "delete")
  /\ UNCHANGED <<cap, held, keyOf, relay, row, late, new, vault, shared>>

(***************************************************************************)
(* Resumption after a reload, and its rejection by the user.               *)
(***************************************************************************)
Resume(f) ==
  /\ At(f, "choose") /\ old[f].rec # 0
  /\ Become(f, [old[f] EXCEPT !.ph = "probe", !.a = old[f].rec, !.resume = TRUE, !.refused = FALSE])
  /\ shared' = shared \cup {a \in {old[f].rec} : InUse(f, a) \/ \E c \in Claim : env[c] = a}
  /\ UNCHANGED <<server, relay, row, late, new, vault, room, lost>>

Discard(f) ==
  /\ At(f, "choose") /\ old[f].rec # 0
  /\ Become(f, [old[f] EXCEPT !.rec = 0])
  /\ \/ Fine /\ row' = [row EXCEPT ![old[f].rec] = "none"] /\ Lose(old[f].rec, "discard")
     \/ Fault /\ UNCHANGED <<row, lost>>
  /\ UNCHANGED <<server, relay, late, new, vault, shared>>

Deposit(f) ==
  /\ link[old[f].c] = "claimed"
  /\ link' = [link EXCEPT ![old[f].c] = "sealed"]
  /\ env' = [env EXCEPT ![old[f].c] = old[f].a]

Undo(f) == Become(f, [old[f] EXCEPT !.ph = "undo"])

\* The envelope is sealed and deposited; without an answer the archive is deleted.
\* If sealing throws, because the vault timed out meanwhile, it is not.
Verify(f) ==
  /\ At(f, "verify")
  /\ \/ /\ Fine /\ Deposit(f) /\ UNCHANGED lost
        /\ Become(f, [Ended(f) EXCEPT !.rec = IF old[f].resume THEN 0 ELSE @])
     \/ Fine /\ link[old[f].c] # "claimed" /\ Undo(f) /\ UNCHANGED <<relay, lost>>
     \/ Fault /\ Undo(f) /\ UNCHANGED <<relay, lost>>
     \/ Fault /\ Undo(f) /\ Deposit(f) /\ Lose(old[f].a, "verify")
     \/ Fault /\ Ends(f) /\ Lose(old[f].a, "throws") /\ UNCHANGED relay
  /\ UNCHANGED <<server, row, late, new, vault, shared>>

\* Archives that only a running flow knows.
Unrecorded(f) ==
  \/ old[f].ph \in {"persist", "verify", "undo"}
  \/ old[f].ph \in {"put", "reput", "drop"} /\ ~old[f].kept /\ ~old[f].resume

\* The page is left or reloaded.
Reload ==
  /\ (\E f \in Flow : ~At(f, "off")) /\ Fault
  /\ old' = [f \in Flow |-> OldIdle] /\ late' = {}
  /\ lost' = [a \in Archive |->
       lost[a] \cup IF \E f \in Flow : old[f].a = a /\ Unrecorded(f) THEN {"reload"} ELSE {}]
  /\ UNCHANGED <<server, relay, row, new, vault, shared>>

(***************************************************************************)
(* The new device.                                                         *)
(***************************************************************************)
Request(c) ==
  /\ c <= room.claims /\ new.ph \in {"off", "failed"} /\ link[c] = "none"
  /\ \A d \in Claim : d < c => link[d] # "none"
  /\ link' = [link EXCEPT ![c] = "open"]
  /\ new' = [NewIdle EXCEPT !.ph = "poll", !.c = c]
  /\ UNCHANGED <<server, env, row, old, late, vault, room, told>>

\* Requests live a few minutes; the envelope dies with the request.
Expire(c) ==
  /\ link[c] \in {"open", "claimed", "sealed"}
  /\ link' = [link EXCEPT ![c] = "expired"]
  /\ new' = IF new.c = c /\ new.ph = "poll" THEN [new EXCEPT !.ph = "failed"] ELSE new
  /\ IF link[c] = "sealed" THEN Lose(env[c], "unclaimed") ELSE UNCHANGED lost
  /\ UNCHANGED <<server, env, row, old, late, vault, room, shared>>

\* The result is consumed once.  An importer with a generation of its own opens.
Consume ==
  /\ new.ph = "poll" /\ link[new.c] = "sealed"
  /\ link' = [link EXCEPT ![new.c] = "taken"]
  /\ \/ Fine /\ new' = [new EXCEPT !.ph = "fetch", !.a = env[new.c]] /\ UNCHANGED lost
     \/ Fault /\ new' = [new EXCEPT !.ph = "failed"] /\ Lose(env[new.c], "unclaimed")
  /\ UNCHANGED <<server, env, row, old, late, vault, shared>>

\* The importer writes frames of its own generation, publishes them in one
\* transaction that drops every other frame, or removes them.
AppendFrames(S) == vault' = [vault EXCEPT !.frames[new.c] = @ \cup S]
Publish == vault' = [frames |-> [c \in Claim |-> IF c = new.c THEN vault.frames[c] ELSE {}],
                     meta |-> new.c]
Abort == vault' = [vault EXCEPT !.frames[new.c] = {}]

\* One window: each chunk is fetched, decrypted, parsed and written as a frame.
\* The next window starts Batch later whatever the server granted.
Fetch ==
  /\ new.ph = "fetch" /\ new.next < Chunks
  /\ LET granted == Window(new.next, new.next + Batch)
     IN  \/ /\ Fine /\ arch[new.a] = "available" /\ keyOf[new.a] = new.c
            /\ new' = [new EXCEPT !.next = @ + Batch, !.got = @ \cup granted]
            /\ AppendFrames(granted)
         \/ /\ Fine /\ ~(arch[new.a] = "available" /\ keyOf[new.a] = new.c)
            /\ new' = [new EXCEPT !.ph = "clean"] /\ vault' = vault
         \/ /\ Fault /\ new' = [new EXCEPT !.ph = "clean"]
            /\ \E S \in SUBSET granted : AppendFrames(S)
  /\ UNCHANGED <<server, relay, row, old, late, told>>

\* finalizeAccumulator compares the hash over all chunks.  A mismatch leaves the
\* frames behind, a decoder that fails has them removed; a failed commit leaves
\* them too, because the importer is closed before its transaction is run.
Whole_Unchecked(S) == TRUE
Whole(S) == S = Chunk
CommitImport ==
  /\ new.ph = "fetch" /\ new.next >= Chunks
  /\ \/ /\ Fine /\ Whole(new.got)
        /\ Publish
        /\ new' = [new EXCEPT !.ph = "imported"]
     \/ /\ Fine /\ ~Whole(new.got)
        /\ new' = [new EXCEPT !.ph = "clean"] /\ vault' = vault
     \/ /\ Fault /\ Whole(new.got)
        /\ Abort \/ UNCHANGED vault
        /\ new' = [new EXCEPT !.ph = "clean"]
  /\ UNCHANGED <<server, relay, row, old, late, told>>

\* DELETE on every way out.
CleanUp ==
  /\ new.ph \in {"imported", "clean"}
  /\ new' = [new EXCEPT !.ph = IF @ = "imported" THEN "complete" ELSE "failed"]
  /\ \/ Fine /\ arch' = Gone(new.a) /\ UNCHANGED lost
     \/ Fault /\ arch' \in {arch, Gone(new.a)} /\ Lose(new.a, "delete")
  /\ UNCHANGED <<cap, held, keyOf, relay, row, old, late, vault, shared>>

\* completeDeviceLink: challenge, credential, history, session.
Complete ==
  /\ new.ph = "complete"
  /\ \/ Fine /\ new' = [new EXCEPT !.ph = "linked"]
     \/ Fault /\ new' = [new EXCEPT !.ph = "failed"]
  /\ UNCHANGED <<server, relay, row, old, late, vault, told>>

NewReload ==
  /\ new.ph \notin {"off", "linked"} /\ Fault
  /\ new' = NewIdle
  /\ IF new.ph \in {"fetch", "imported", "clean"} THEN Lose(new.a, "reload") ELSE UNCHANGED lost
  /\ UNCHANGED <<server, relay, row, old, late, vault, shared>>

\* Days later, when every flow and every request is over, the archive and its
\* row reach their hard deadline.
HardDeadline(a) ==
  /\ arch[a] \in {"staging", "available", "gone"} /\ (Live(a) \/ row[a] # "none")
  /\ \A f \in Flow : ~AtWork(f)
  /\ new.a # a /\ \A c \in Claim : env[c] = a => link[c] # "sealed"
  /\ arch' = [arch EXCEPT ![a] = "past"]
  /\ UNCHANGED <<cap, held, keyOf, relay, row, old, late, new, vault, room, told>>

OldStep(f) ==
  \/ List(f) \/ InitFails(f) \/ Persist(f) \/ NextWindow(f) \/ Finalize(f) \/ Retransmit(f)
  \/ Mark(f) \/ Drop(f) \/ Verify(f)
  \/ \E i \in Chunk : Put(f, i)
  \/ \E a \in Archive : Reclaim(f, a) \/ InitArchive(f, a)
NewStep == Fetch \/ CommitImport \/ CleanUp \/ Complete

Next ==
  \/ \E f \in Flow :
       \/ OldStep(f) \/ Look(f) \/ Close(f) \/ Approve(f) \/ Resume(f) \/ Discard(f)
       \/ \E c \in Claim : Resolve(f, c)
  \/ \E c \in Claim : Request(c) \/ Expire(c)
  \/ NewStep \/ Consume \/ NewReload \/ PutLate \/ Reload
  \/ \E a \in Archive : HardDeadline(a) \/ \E i \in Chunk : Forget(a, i)

\* A flow that was started goes on: its awaits settle.
Fairness == (\A f \in Flow : WF_vars(OldStep(f))) /\ WF_vars(NewStep)

Spec == Init /\ [][Next]_vars /\ Fairness

(***************************************************************************)
(* Properties.                                                             *)
(***************************************************************************)

\* Until the new device is done with it, an archive whose envelope the server
\* holds is complete and still there, except when the answer to the verification
\* was lost and the old device took that for a refusal, or when two approvals
\* of the old device had taken up the same archive: each deletes it on its own
\* failure (ApproveDeviceLinkFlow, linkArchiveSession).
HandedOverIsComplete ==
  \A c \in Claim :
    (\/ link[c] = "sealed"
     \/ link[c] = "taken" /\ new.c = c /\ new.ph = "fetch")
    => LET a == env[c]
       IN  \/ arch[a] = "available" /\ held[a] = Chunk
           \/ "verify" \in lost[a] \/ a \in shared

\* Who can still free the slot an archive takes.
Accounted(a) ==
  \/ row[a] \in {"open", "dead"}
  \/ \E f \in Flow : AtWork(f) /\ old[f].a = a
  \/ \E c \in Claim : link[c] = "sealed" /\ env[c] = a
  \/ new.a = a /\ new.ph \in {"fetch", "imported", "clean"}

\* The slot of the user is never taken by an archive that neither device can
\* free (linkArchiveSession's rows and DELETEs, LinkDevice's cleanup), except
\* after one of the causes Lose names.
SlotIsAccountedFor ==
  \A a \in Archive : Live(a) => Accounted(a) \/ lost[a] # {}

\* What reclaiming is for (linkArchiveSession.js): a fresh approval is refused
\* for an occupied slot only while another link is in progress, or after one of
\* the named causes; never for the remains of an upload that merely failed and
\* whose row the approval could list.
RetryIsNotRefused ==
  [][\A f \in Flow :
       old'[f].refused /\ ~old[f].refused
       => \E a \in Archive : Live(a) /\ (lost[a] # {} \/ (Accounted(a) /\ a \notin old[f].listed))]_vars

\* The transcript that readers see is a complete one; a linked device has the
\* one of its own link.
ImportIsWhole ==
  /\ vault.meta # 0 => vault.frames[vault.meta] = Chunk
  /\ new.ph = "linked" => vault.meta = new.c

\* An approval or an import that was started ends, in the background too: the
\* buttons come back.
FlowsEnd ==
  /\ \A f \in Flow : []<>~AtWork(f)
  /\ []<>(new.ph \notin {"fetch", "imported", "clean", "complete"})

\* What the resumption is for (linkArchiveSession.js): the archive a new device
\* receives is one its session key opens.
ArchiveOpens ==
  new.ph = "fetch" => keyOf[new.a] = new.c
=============================================================================

# A model of the Hush web client

Hush is a chat and voice client whose messages and calls are end-to-end
encrypted with MLS. These TLA+ modules describe the parts of the client in
which several things happen at once: the WebSocket client and its
subscriptions, the connections to instances, the queue of MLS operations and
the MLS groups behind it, the voice groups, what a voice view captures and sends, the MLS store and the key packages,
the message list, the vault and its session, the transfer of the history to a
new device, and what the screen shows of guilds and calls. TLC checks them on small
instances; TLAPS proves what the rest leans on for any number of devices, calls, publications
and failures.

Paths below are relative to `src/src/` of the repository.

## 1. The system

### Components

| component | state | operations | interacts with | hard because |
|---|---|---|---|---|
| WebSocket client (`lib/ws.js`) | socket, back-off timer, ping counters, `reconnecting`, `intentionalClose`, refcounts of channels | connect, disconnect, on-handlers, subscribe, unsubscribe, network and visibility events | server rooms, the owners of subscriptions, `useConnectionQuality` | late events of old sockets, half-open connections, replay of subscriptions |
| Instance connections (`hooks/useInstances.js`) | entry per instance, WS client, timer, generation | boot, local registration, reconnection, disconnect, session effect | WS client, registry, session | five awaits in a boot; two reconnection loops for one close |
| MLS operation queue (`lib/channelMLSMutex.js`) | one promise tail per channel | `withChannelMLSMutex` | every stateful MLS call of a text channel | map entry removed in a microtask |
| Text groups (`lib/mlsGroup.js`, `hooks/useMLS.js`, `hooks/useTextChannelMLSCommitListener.ts`) | group in the WASM store, recorded epoch | create, join, catch-up, commit, encrypt, decrypt, remove, clean up | server log of commits and GroupInfo, mutex | request per step, crash between any two; races with other devices |
| Voice groups (`hooks/useRoom.js`, `lib/voiceMlsSession.js`, `lib/voiceParticipantMetadata.js`) | voice group, frame key, room, session | connect, rotate, evict, process commits, leave | LiveKit, server log, WS frames | no mutex; LiveKit and MLS change separately |
| Audio and tracks (`audio/capture/CaptureOrchestrator.ts`, `lib/trackManager.js`, `hooks/useRoom.js`, `components/voice-channel-view.tsx`) | current orchestrator, its adapter, tracks, switches of the view | publish, mute, deafen, switch, stop, release, leave | LiveKit, the browser's prompts | publications that overlap; a prompt answered after the room was left |
| Channel message list (`hooks/useChannelMessages.ts`) | rows, known ids, pending sends, watchdogs, cursor | history, older page, send, echo, acknowledgement, catch-up, retry | WS client, text groups | answers overlap realtime frames |
| MLS store (`lib/mlsStore.js`) | shared cache over IndexedDB, mark of the ciphersuite | open, reset of an old suite, preload, flush | WASM callbacks | one cache for calls that overlap |
| KeyPackages (`hooks/useKeyPackageMaintenance.js`, `lib/uploadKeyPackages.js`) | credential, packages, last resort | first upload, replenish | store, server | partial uploads |
| Authentication and vault (`hooks/useAuth.js`, `lib/authLifecycle.js`, `lib/vaultSessionKey.ts`) | vault state, key in memory, session record, deadline, PIN attempts, tombstone | boot, resume, unlock, lock, time out, recover, log out, re-authenticate | server, screen | eight asynchronous functions on one state, reloads, writes nobody awaits |
| Link archive (`lib/linkArchive*.js`, `lib/deviceLinking.js`, `lib/transcriptVault.js`, the two screens) | export row, chunks, import, server's slot | allocate, upload, resume, finalize, hand over, download, import | server, vault | crashes and lost answers on two devices and a server |
| Guilds, channels, members, call (`adapters/use*ForServer.ts`, `components/authenticated-app.tsx`) | query cache, route, `joinedVoice`, guard | fetch, patch by frame, own changes, drag, navigate, join, hang up, removal | server, router, query cache | answers, frames and renders overlap |
| Guild metadata, attachments, single tab, compatibility checks, diagnostics, rendering | | | | see section 7 |

### What makes each correct

* WS client: one live socket; the server's rooms are what owners hold; a revoked
  device stays out; a client in use always has a way back and comes back.
* Instances: calls of an old session have no effect; an instance with a client
  can reconnect; every connection is known to somebody; loops come to rest.
* Queue: mutual exclusion and call order per channel whatever rejects.
* Text groups: one history of commits; nothing encrypted at an epoch the group
  has left; half-finished joins are noticed; sends succeed in the end.
* Voice: one group per room; nobody enters without an accepted key; who
  removes a departed device leaves the old key behind.
* Capture: out of the room nothing is captured; nothing is heard while the view
  shows the microphone as off.
* Message list: a pending row always has something that will settle it, and is
  confirmed as the message it was; nothing is missing from the list.
* Store and key packages: an operation reads what the last one left; a finished
  flush is on disk; nothing of an old suite survives; the server gives out only
  packages whose private keys are here.
* Vault: locked stays locked, guesses are charged, a revocation sticks.
* Archive: what is imported is whole; what is handed over is complete; the
  user's one slot on the server can be freed.
* Guild view: the list converges to the server's; who is removed is out; a call
  that was hung up does not come back.

## 2. Modules

| module | models | composed with |
|---|---|---|
| `FifoLock` | what the queue promises: a FIFO lock per key | |
| `ChannelMutex` | `withChannelMLSMutex`, promise by promise | implements `FifoLock` |
| `WsClient` | `lib/ws.js` with owners, indicator, network and server rooms | |
| `Instances` | `hooks/useInstances.js`, with WS clients reduced to down, up and stopped | |
| `TextMls` | one text channel's group on several devices, server log included | the mutex appears as the worker `queue` |
| `VoiceMls` | one voice channel: group, key, LiveKit room, commit frames | |
| `Capture` | the microphone, the camera and the screen of one voice view | |
| `VoiceCall` | one device's view in the room: joining, losing and leaving it | extends `VoiceMls`, implements `Capture` |
| `ChannelMessages` | the open channel's list, two channels, the socket and the server's log | WS client and MLS reduced to what the list sees |
| `MlsStore` | the cache, the database, its opening and reset, group operations | |
| `KeyPackages` | the makers of key packages and the server's supply | extends `MlsStore` |
| `Vault` | `hooks/useAuth.js` on one tab, with server, browser storage and screen | |
| `LinkArchive` | both devices, the relay and the archive slot of the server | |
| `GuildView` | channel list and members of the open guild, route and call | |
| `MC*` | instances for TLC, and statements TLC refutes that no listed run checks | |
| `*Proofs` | the theorems about the module they extend | |

`PROJECT.json` gives for every definition the source lines it stands for.

How code becomes actions: a synchronous handler, and the code between two
awaits, is one action. An `await` of a request ends an action, so anything may
happen before the answer. `await`s of IndexedDB and of the WASM (a few
milliseconds, no other party) are joined to the step before them, except where
another writer of the same data exists: the recorded epoch of a text group, the
rows of `MlsStore` and the session record of `Vault` are written by steps of
their own.

* **ChannelMutex.** `tails` is `_tails`; `prev` the tail a call found; the
  phases are the promises' states. `FifoLock` knows which calls are pending,
  which were called before each of them, and which hold the lock; `Ahead` reads
  that off the chain. `Call` is the synchronous part, `Start`
  and `Drain` are microtasks, `Settle` is the end of the operation.
* **WsClient.** `sock` is the `readyState` of every `WebSocket` object, kept
  after the client has dropped it, since its events still arrive. `wire` holds
  the frames in flight, `rooms` what the server has joined. `onopen` is one
  step, or two around the awaited `onReconnected` hook.
* **Instances.** `boot` holds the calls of `bootInstance` and
  `registerLocalInstance` with the await they stand at; `generation` is
  `runtimeGenerationRef`; the session effect is `SessionChanges`, `Loads` and
  `Settles`. `dropped` is history: the clients that nobody can close any more.
* **TextMls.** `mls` is the group in the WASM store (its creator, its epoch, its
  pending commit), `stored` the recorded epoch, `op` the operation of each
  worker with the phase it stands at. Shared code (join, catch-up) is modelled
  once: `back` says where it returns to, and `Threw` where an exception ends.
  Ciphertexts and trees are left out: whether a commit fits depends on group and
  epoch only.
* **VoiceMls.** A device may run a connection, a cancelled connection (`stale`),
  the rotation timer and the evictions of several devices at once, as nothing
  locks the voice group. `events` is what LiveKit announced, `seen` and `heard`
  how far a device has read the events and the commits. A group that is
  published again after the server forgot it gets a new name, because the
  server accepts its epochs afresh; its members' keys take the new name with it.
  `disconnectRoom` is one step: what runs between its start and its end is the
  session's commit handler, which is already disposed.
* **Capture.** A *flow* is one call that publishes something, from the click or
  the effect to its end, with the await it stands at; one that publishes the
  microphone is also the orchestrator it creates. `source` is what the flow
  captures (`raw`), has as a live track (`live`), lists for the clean-up
  (`handle`) and sends. `orchestrator` is the shared ref, `releasing` the
  orchestrator that `disconnectRoom` read from it before its awaits. `Stranded`
  is LiveKit refusing what the end of a room finds being published. `loose` is
  history: which flows escape, and why.
* **VoiceCall.** The actions of `VoiceMls` for one device together with those of
  `Capture` for its view: `disconnectRoom` leaves the room and releases what is
  captured; a view closed before there is a room gives up a connection it made
  by itself; a connection it was asked for goes on.
* **ChannelMessages.** A message is its position in the server's log, a text a
  number (0: could not be decrypted). `tasks` holds the asynchronous functions
  under way with the rows they still have to decrypt; a task whose view was
  closed goes on and is ignored where the code checks for it. `hurt` is history:
  which of the named causes may have made this list miss a message.
* **MlsStore, KeyPackages.** A value of the cache or the database is the number
  of the WASM operation that wrote it. `idb` is what a request sees, `safe` what
  is on disk: the bridge's writes are not awaited, the flush's are. `latest`,
  `excused` and `wiped` are history.
* **Vault.** What a function of `useAuth` does between two awaits is one
  operator from device record to device record, named after it; `tasks` holds
  the functions under way. `since`, `hurt` and `guesses` are history.
* **LinkArchive.** `old` and `new` are the flows of the two screens with the
  await they stand at; `arch`, `held` and `keyOf` are the server's record; `row`
  is the export row that a resumption reads; `late` holds the uploads that other
  workers go on with after one failed. `lost` is history: why nobody can free a
  slot any more.
* **GuildView.** A roster is a version number, a channel row an id and a
  position. `nav` is the navigation not rendered yet (the router renders it as a
  transition), `Rendered` the effects that run after a render. `causes`, `since`,
  `wanted` and `undone` are history.

External, modelled from its use: the server (accepts a commit of its group at
the next epoch only; stores the GroupInfo PUT last, or PUT newest; keeps one
archive per user; writes a change before it broadcasts it), the
compiled OpenMLS (refuses a commit of another epoch, of its own device, after
its eviction, or over a pending one), LiveKit (tells those in a room who comes
and goes, in one order), TanStack Query v5 and React Router with
`v7_startTransition`, and browsers (may die between two steps).

## 3. Runs

| run | instance | shows |
|---|---|---|
| `channel_mutex` | 3 calls on one channel, 1 on another, any may reject | mutual exclusion; implements `FifoLock` with its fairness |
| `ws_client` | 3 socket objects, 1 channel, 2 owners, 3 faults, 4 frames in flight | one socket, right rooms, revoked stays out, always a route back, connects in the end |
| `instances` | 2 boots at once, 5 clients, 2 timers, 3 session changes, 2 faults, 1 user request | every client is known, reconnection, sessions do not leak, coming to rest |
| `text_mls` | 2 clients and a leaver, a new channel or one with a member, 1 failure, crash or kick | one history, current sends, half-joins noticed |
| `text_mls_recovery` | 2 clients, 2 failures or crashes | sends get through |
| `voice_mls` | 3 devices, an empty room or one with two, 2 connections, departures or rotations, 1 mishap; or one device alone, with 8 stories of publications, clicks, faults and departures | one group, accepted keys, rotation; nothing captured outside the room, nothing heard while the view shows the microphone as off |
| `channel_messages` | 2 channels, pages of one message, 7 stories of posts, sends, retries, older pages, moves and mishaps | pending rows are watched and end, are confirmed as themselves, nothing is missed |
| `vault` | 2 PIN failures, 25 stories over the four timeout policies | locks hold, guesses are charged, revocations stick, loading ends, a session comes back |
| `key_packages` | 1 group, 2 stores, 3 calls, 5 stories, calls symmetric | reads are current, the old suite gone, packages held |
| `link_archive` | 3 archives, 2 requests, 3 chunks, windows of 1 and 2, 2 faults | handed over is complete, the slot is accounted for, import is whole, retries are not refused, flows end |
| `guild_view` | 2 guilds, 5 channels, 28 stories | lists converge, removed means out, the call is the wanted one |
| `link_resume` | as `link_archive` | refutes: a resumed archive is one the new device can open |

The disagreement that `link_resume` shows is quoted under `findings` in
`PROJECT.json`; others are in section 4.

A *story* is a set of bounds (so many reloads, so many faults, ...) that TLC
explores in every order; a run with stories starts from each of them. Every
pair, and where it matters every triple, of kinds of events that a property can
tell apart occurs in some story, which keeps the runs short where one
product of all bounds would not end.

### Bounds, and why they are enough

* `channel_mutex`: a tail can be replaced twice while an earlier one is being
  removed; that takes three calls. The proofs cover any number.
* `ws_client`: an id of `Socket` is reused when its object is closed and nothing
  refers to it; three allow the current object, one whose close is late and a
  new one. Each scenario a handler distinguishes is one fault; three make
  a fault fall into the recovery from a fault.
* `instances`: two boots in progress (the entry admits one more only after the
  first) and five clients, never exhausted. Three session changes: sign in,
  lock, unlock again. Each of two faults may be a failed request or a drop.
* `text_mls`: two clients and one member to remove give every pair of
  concurrent operations; a commit is a join or a removal, and `MaxLog = 5`
  leaves room for each device's join, the removal and joins after the failure.
  One failure per run of the whole system, at any of its steps, two in the
  recovery run.
* `voice_mls`: three devices are needed for an election among two. `MaxDone = 2`
  allows leave and rejoin, two first participants, a rotation against an
  eviction. A mishap is a failed request, a crash, a lost LiveKit
  connection or a cancelled connection. What is captured does not depend on
  the others, so its stories are told with the device alone (`Starts` = `{"a"}`), which
  may connect, lose and leave the room as often as the bounds allow. Three
  publications give one that is overtaken, one under way and one that starts;
  a story with clicks has every pair of buttons in one call; the departure and the fault
  may fall anywhere. The proofs cover any number of publications.
* `channel_messages`: pages of one message make every history, older page and
  catch-up of two messages need two requests, so something can fall between
  them. Two sends are needed for a confirmation to reach the wrong row.
* `vault`: two PIN failures stand for the ten of the code: one to be charged
  and lost in a reload, one to reach the limit. `MaxWrites = 1`: a seal or a wipe that is
  outstanding merges with the next of its kind, as the last one decides.
* `key_packages`: three calls give one that is overtaken by two others; a batch
  of two packages stands for the fifty, so a failure can fall between two.
* `link_archive`: three chunks and windows of one and two give more windows
  than one; two requests of the new device are the first try and the retry,
  three archives one more than the retry needs. A fault is a request that failed
  before or after the server acted, a storage error or a reload.
* `guild_view`: two guilds, so that something can happen while the other is on
  screen; two voice channels, so that a call can be in another than the one
  viewed.

`CHECK_DEADLOCK FALSE` is set in every configuration: with their bounds used
up, or when the user stays offline, the systems really stop.

### Fairness

* ChannelMutex: microtasks run (weak fairness of `Start`, `Drain`), and an
  operation settles: it is a bounded number of fetches and transactions.
* WsClient: the browser delivers the events it owes (open or failure of a
  connection, closes, timers), the server reads its frames. No fairness for
  faults, users, tokens or visibility.
* Instances: requests are answered, timers fire, sockets open unless stopped.
* TextMls: an operation that was started goes on, and, as the mutex is FIFO, an
  operation that keeps being asked for is granted (strong fairness of the
  callers). Nothing is assumed about failures, which are bounded.
* ChannelMessages: watchdog timers fire, and the encryption of a send ends.
* Vault: the boot effect runs after its render, a request, a decryption and a
  transaction end (a wipe of the session record and a deletion of the vault too),
  the interval of the offline re-authentication fires.
* LinkArchive: an upload or an import that was started goes on.
* VoiceCall, KeyPackages and GuildView: none; their properties are safety.

## 4. Properties

Each property has a comment in its module saying what it means for the code,
and a mutant in `PROJECT.json` (a plausible bug in a mapped definition) that
makes TLC refute it. The mutated forms stand beside the original, named
`<Definition>_<Bug>`; no specification uses them.

Many statements one would like to make are false in a few corners that the code
has no remedy for. There the property names the corners, by a history variable
that records their cause, and shows that there is no other way to break it.

* **Instances.** `LiveIsKnown` names three leaks: a boot that fails after it
  connected its client; a boot that replaces the client another one has just
  recorded; a removal that deletes an entry a boot has connected meanwhile
  (`dropped`). TLC refutes `MCInstances.RemovedStaysRemoved`, `OneClient` and
  `OfflineIsRetried`, and that a locked session has no connection, contrary to
  the comment at `hooks/useInstances.js:878`.
* **TextMls.** `SendIsCurrent` needs a page of commits that holds all that was
  missed: with `Limit = 1` (a hundred in the code) TLC refutes it.
  `EvictedStaysOut` is refuted, since `catchupCommits` answers any failed
  commit by joining again, its own removal too; so is the
  statement that online members commit the removal of a leaver; so
  is `MergedIsAccepted` with an export beside the queue (`Exporters = {"a"}`),
  although the queue's comment (`lib/channelMLSMutex.js:30`) promises otherwise.
  `SendsGetThrough` takes a server that ignores a PUT of an older GroupInfo
  (`PutNewerOnly`). `MCTextMls` has four more refuted statements with the
  constants that show each.
* **VoiceMls.** `OneVoiceGroup`, `KeyIsAccepted` and `RemoverRotates` except
  `raced`: two devices that find no group and both create one; a room that empties
  while one is about to enter; a connection made while an operation of the last
  session is still under way, since a cancelled `connectRoom` is stopped only at
  three points (`hooks/useRoom.js:378`, `437`, `807`) and the rotation timer or an
  eviction at none once it has started. Proving them refuted two earlier
  statements, which larger bounds than the run's break: with cancelled connections
  alone excepted, a rotation of the last session can merge into the next one; and a
  remover that left, came back and was evicted by a device that saw its
  departure only then keeps an old key, hence `status # "evicted"`.
  `MCVoiceCall.Converges`, the comment at `lib/voiceMlsSession.js:5`, is
  refuted: a commit that overtakes the answer to one's own is lost. Without a
  property, since the code has no mechanism against it: the elected remover that
  leaves or is refused does not try again; a device that comes back before
  LiveKit notices its departure is evicted with its new leaf.
* **Capture.** `CaptureStops` and `MutedIsSilent` except a flow that the end of
  the room found waiting ("late"): what the browser grants afterwards is
  captured with no owner, or published in the next call, since `publishMic`
  looks at the refs only before and after its awaits (`hooks/useRoom.js:1120`);
  two publications of the microphone under way at once ("overlap"), which share
  the two refs; and a video that LiveKit refuses ("refused"), which nothing
  lists. `MCVoiceCall.NothingIsCaptured` (the comment at `hooks/useRoom.js:221`),
  `OneMicrophone` (the comment at `components/voice-channel-view.tsx:664`) and
  `EnteredIsSeen` are refuted: a microphone picked in the call is published by the handler and
  by the effect of the preferences; a view closed while it connects enters
  the room. Also seen: after a rejoin the microphone is not published again,
  though the view goes on showing it as it was; a change of device while muted
  or deafened unmutes.
* **ChannelMessages.** `NothingIsMissed` names ten causes: a failed request, a
  replaced client, no cursor at the reconnection, a message before the
  subscription, a load answered without a message that had come on the socket
  ("burst": more than a page has arrived since it was asked for), a load that
  replaces rows, an own message confirmed to a view without its row, a load that finds
  an older page under way or a catch-up of another channel that moves the cursor
  ("stray"), an older page asked for by a row of the channel that was left ("other"), a
  cancelled load that makes a message known which nobody lists ("marked"). The statement with
  fewer causes held in every story of the run; proving it refuted it four times. "burst", "other" and
  "marked" were missing, and "stray" did not count an older page asked for while the
  channel changes; each takes a longer history than the run's.
  `RightText` is refuted: `decryptMessageRow` takes the oldest pending send of
  the last ten seconds for every row of the user, so an own message from another
  device can show the text just sent here. Also seen: a row twice when the load
  races a live message, a message of the channel that was left appended to the new
  channel's list, rows in the order in which decryptions end.
* **Vault.** `LockHolds` is about locks and about sessions that the timeout policy
  has ended. It excepts a lock that meets a function holding the identity already
  ("inflight") or a session record still being written ("seal"), and a page left
  before the wipe or the deletion has landed, or during a logout ("crash").
  `RevocationSticks` excepts a function in flight that clears the tombstone
  ("revoking"), a page left while the vault is being deleted ("dropped"), and an
  encrypted vault that stays since nothing names its user ("nameless"): the marker was
  removed by a boot that raced the recovery, `setPIN` does not restore it, and
  `/me` failed. Proving them corrected the model: a read of the vault waits for the
  wipes and deletions requested before it, a deletion waits for an unlock that holds the
  database open (`HoldsVault`; a logout goes on when it is blocked), and a logout
  clears the tombstone with the rest of the local storage.
  `PinCanBeTried` is refuted with `OutageStories`: `unlockVault` throws "no
  active vault user" (`hooks/useAuth.js:1940`) on a PIN screen shown from the
  blob alone. Also seen: after the end of a session and its recovery the boot
  runs again and may lock; a 401 about an old token ends the new session; the
  catch of a cancelled boot is not guarded; `lockVault` is called by no component.
* **MlsStore, KeyPackages.** `excused` names: what a second, late reset of the
  suite emptied; an entry deleted between another call's request for the rows
  and its answer; writes cut off by a page load. `wiped` are key packages that such
  a reset deletes after they were uploaded, `unsure` last resorts replaced
  before their upload was answered. `MCKeyPackages.CredentialIsKnown` is
  refuted: a credential whose upload failed is found by the next sign-in and
  never uploaded. `withReadOnlyHistoryScope` has no caller but tests, and no
  component mounts `useKeyPackageMaintenance`.
* **LinkArchive.** `lost` names why nobody can free a slot: an answer lost, a
  resumption blocked, the row forgotten by "Discard and start fresh" (which
  leaves the slot taken), a failed delete, the answer to the verification lost
  (the old device then deletes an archive it has handed over), a reload of the
  new device, an envelope nobody claimed. `ArchiveOpens` is refuted by
  `link_resume`: a resumed archive is encrypted for the session key of the first
  request, which the new device's second request does not have. Also seen: a resume whose gaps are
  wider than the server's window, and a window smaller than eight, fail; errors
  in the download loop leave the frames received so far.
* **GuildView.** `ListsConverge` names, as `causes`: a frame lost with the
  connection, one ignored while another guild was on screen, a patch overwritten
  by an older answer, a refetch that joined the first load, a failed fetch, a
  create answered after the deletion frame, a drag rolled back in the other
  guild's list. `CallIsWanted` names, as `undone`: what the effect of the page that is
  being left joins while the navigation is not rendered ("old page"), the page that comes
  after its call was hung up or another one joined ("late page"), the guard that falls while the
  list has lost the row for a moment ("row lost", contrary to the comment at
  `components/authenticated-app.tsx:879`). `RemovedMeansOut` excepts a call that the old page's
  effect has joined in the guild that has just removed the user ("removed"). Proving the two
  refuted their earlier forms, which looked at the call only when no navigation was under way: the
  list of a voice channel's page arrives after the kick was handled and before the way home is
  rendered; a hang-up, a click and a kick meet in one navigation; an older answer puts the row
  of a deleted voice channel back after the guard has fallen. The run has a story for each
  (`RaceStories`). Not modelled: a text channel created
  after `useGuildChannelIds` was answered is not subscribed in the background;
  a snapshot of `useVoiceChannelPresence` may overwrite newer frames; an
  instance ban leaves the call and navigates home late.

## 5. Proofs

Eight modules hold theorems. Each proves, for every value of the constants that
the assumptions of its module allow, an invariant that is inductive, and from it
the properties the runs check. `PROJECT.json` lists the theorems.

**`TextMlsProofs`**, for any clients, other members, starting groups, leavers,
page size, server policy and bounds: `MutexKeepsOneHistory`, `SendsAreCurrent` and
`HalfJoinsAreNoticed`. The first says that with
no link export beside the mutex (`Exporters = {}`) `MergedIsAccepted` always
holds, through every failure, crash and kick. The property says nothing of an
operation in the middle, so the invariant `IInv` adds, per phase, what the local
variables of the operation stand for: a commit being posted is pending in the
store; one being merged is in the log at the epoch after the group's; frames to
be replayed are in the log; a GroupInfo is PUT by a device that has a group; the
groups of the devices and the GroupInfo on the server lie on the log (`Chain`).
The log only grows, so what was on it stays (`ChainStable`); a step of one device
leaves the invariant of the others alone (`Bystander`, `OneClient`). The
assumption is needed: with `Exporters = {"a"}` TLC makes a device merge a commit the
server never accepted. The other two share that assumption and a second invariant, `JInv`: what
each phase of an operation knows of the epoch recorded in IndexedDB and of the epoch at which
the channel stood when the send began: the record is never ahead of a group that was joined, the
record of a join that was not merged is behind the server's log, and frames still to be
replayed follow one another from there. `SendsAreCurrent` also assumes that a page holds the whole log
(`MaxLog <= Limit`), without which it is false; `HalfJoinsAreNoticed` does not.

Its second part is about `ChannelMutex`, which shares no state with `TextMls` (there the mutex is the
worker `queue`), for any `Task`, `Key` and `KeyOf`, from
`MutexAssumption` (`KeyOf` maps calls to keys; `None` is not a call):
`MutexTypeCorrect`, `ChainInvariant`, `MutexHolds`, `OrderHolds`, `LockImplemented`.
Mutual exclusion is not inductive: nothing in it says that the call a running
operation waited for is over. `ChainInv` says what a chain is: arrivals differ;
the call found by a pending call is earlier; a call runs only when the one it
found has drained; pending calls are adjacent along `prev`; the oldest found
nothing pending; the registered tail is the newest. Then two calls past their
predecessors are both the oldest, hence one. `LockImplemented` is the refinement:
the chain's initial state is one of `FifoLock`, a call enters the queue behind all
that are pending on its key, a start acquires a lock that is free with nobody ahead, a
settling operation is a stutter, and a drain releases. The invariant is needed for the
start: that the call found has drained means that no earlier call is pending.

**`WsClientProofs`**: `OneSocketHolds`, `RevokedHolds`, `RouteIsThere`, `ServerKnows`, for any sockets,
channels, owners and faults. `RouteInv` follows the client through its socket and
its timer: a socket in use is the one attached and is not closed, the timer
runs only without a socket, the network listeners only while the client is in
use, an expelled client is closed on purpose. `ServerKnows` needs two more: the
count of a channel is the number of its holders (`SubsInv`), and the frames in flight
on an open socket, applied in order to the rooms the server has, lead to the channels
that are held (`FrameInv`).

**`ChannelMessagesProofs`**: `PendingRowsAreWatched`, `ConfirmedRowsAreMine`, `NothingMissed`, for any
channels, starts, page size and budgets, from `ConstantsOK`. `Typed` gives the log, the rows, the frames and every
function under way their shape: a confirmed row has the stamp of its message, and what a
function has still to read comes after what it has read. `Watch`: no two rows are of the same
send, so what settles one row cannot leave another without its watchdog. `Mine`: the echo of an
own message comes after its acknowledgement, or is known, or the view has changed
(`EchoKnown`); hence the row that the echo would take has been settled. `NothingIsMissed` speaks of a
list at rest; its invariant speaks of what the list will have when nothing more is asked for (`Due`): what it
shows, what functions have read or will still ask for (`Sure`), what is on the socket, and, while that is
down, what a reconnection will ask for (`Missable`). Those are an end of the channel (`Closed`), everything newer than
the cursor among them (`AheadDue`); what a loss of the socket could take is newer than the cursor,
the first page and the place of every catch-up (`BehindSure`), so the reconnection asks for it; and an
older page asked for by a pending row leaves no gap (`OptDue`). `Shape` and `Knowing` say which functions can
be under way together, and that a known message, which a page passes over, is on the
list or about to be.

**`GuildViewProofs`**, for any guilds, channels and stories, from `GuildsAssumption` (the channels are
finitely many, belong to guilds, and are none of the values that stand for nothing) and
`StoriesAssumption` (a story starts on a page, with numbers for bounds): `ViewTyped`, `CallWanted`,
`RemovedOut`, `ListsConverged`. `CallInv` relates the call, the guard against joining again
(`voluntarilyLeft`), the page and the page to come: the effects have run (`Effected`), a guard stands only for
the voice channel that is viewed (`GuardViewed`) and beside no other call except while its page is being
left (`GuardAlone`), and the page's voice channel is the call asked for, or guarded, or in a named race (`PageWanted`,
`NextWanted`). `RemovedInv` says the same of guilds that have removed the user.
`ListsConverge` is about a guild at which nothing is under way and says nothing of how it got there;
`ListsInv` says at every moment how far a list may be from the server. The frames on the wire about a
channel tell a story that ends at what the channel is now (`Ordered`). A list, and the answer of a running fetch, agree
with the server about each channel up to the frames still to come and the moves a drag has still to make
(`Fits`), or a cause is on record for them (`ListsFit`); what a create or a delete has done on the server is
announced or known (`TasksMade`); members are behind only while a frame or a timer will fetch them again
(`MembersFit`). A frame that is handled takes its promise from the wire and puts it into the
rows, an answer brings rows that fitted when they were read, and `since` carries over what went wrong in between.
Its last part is about `Instances`, which shares no state with the view: `KnownHolds`, `ReconnectsHolds`, `StaleBootsAreInert`, for any boots, clients, timers,
session changes and faults. `ClientInv` adds to the properties that each live
client has exactly one holder (`OneHolder`), and that while the entry's own
client is closed a boot of the session brings the next (`EntryServed`).
`StaleBootsAreInert` is an action property: a boot of a session that is over leaves the
entry alone and brings no client to life. From `InstancesAssumption`: the values that stand for nothing
are no client, timer, boot or entry.

**`LinkArchiveProofs`**: `ImportHolds`, `HandOverHolds`, `SlotHolds`, `RetriesAreNotRefused`, for any archives,
requests, chunks, windows and faults. `TypeInv` says what the variables name;
`ImportInv` that the frames fetched are those written; `HandInv` that nothing of the
old device refers to an archive an envelope names; `SlotInv` which phase,
row or offer can still free each archive. `RetriesAreNotRefused`, an action
property, rests on `RowInv`: archives are allocated in order, while the old device is at
work a live archive with an open row is the one it recorded or is about to,
and an attempt to reclaim that did not succeed is a named cause.

**`KeyPackagesProofs`**: `ReadsHold`, `FlushHolds`, `SuiteHolds` and `PackagesHold`, for any
groups, stores, calls and batch size, from `StoresAssumption` and `BatchAssumption`. `StoreInv`
says what the cache, the database and the disk hold of an entry: before the
mark of the suite is written nothing but resets has run (`OldInv`), afterwards no old
value is left anywhere, copies read by a call included (`NoOldSuite`), and an
entry that is not excused is current in the database, current or absent in the
cache, and on disk unless a call has still to flush it (`EntryInv`, `CallInv`).
`FlushHolds` is proved only; no run checks `FlushIsDurable`.

**`VoiceCallProofs`** has three parts. The first is about `Capture` alone:
`CaptureHolds`, `SilenceHolds`, for any number of publications and any order of clicks,
answers and ends of the room. Neither property says who will stop a device that
captures now. `CaptureInv` does: a microphone that captures belongs to the current
orchestrator, to the one leaving takes down, or to the one some publication takes
down (`MicIsOwned`), which a shutdown knows as long as it is current (`ShutdownKnows`); a
video is on the list that is emptied on leaving (`VideoIsListed`); a microphone that
sends is the current one's, in a room, with no other publication under way
(`SentIsCurrent`). Two publications at once, and those the end of a room finds, are
known to be loose (`OverlapIsKnown`, `LeavingIsLate`, `UnseenIsLate`). Taking an
orchestrator down is common to five actions and treated once (`ShutDownEffect`,
`ShutPreserves`), the three ways a room ends in `RoomEndPreserves`.

The second is about `VoiceMls` alone: `OneVoiceGroupHolds`, `AcceptedKeysHold`,
`RemoversRotate`, for any devices and bounds, although no mutex guards the voice group. The
invariant is `VoiceInv`: the types, and `Sound` as long as the history is not `raced`. On
the server, no place of the log is taken twice, none is past `tip`, and the GroupInfo
is one of the current group (`Server`). A connection under way is the only operation of its
device (`Solitary`); a group a device can use is one the server knows (`Owned`). A worker
merges its own commit, the only one in the log after its group's epoch, PUTs what it
merged, and enters with the key of the group it joined (`AtWork`); a device in the room
has an accepted key of the current group (`Sits`), and one that removed another has the
epoch of the removal or is on its way there (`Removes`). Rotation and evictions of one
device interleave freely: a commit that another of its workers overtook is refused or
its pending half is gone, and this is what `Posting` and `Merging` keep track of.

The third composes them: every step of a call is a step of `Capture` or changes nothing
it captures (`CallImplementsCapture`), and a step of `VoiceMls` or none
(`CallIsAVoiceChannel`), so the theorems of both parts hold in every call
(`CallCaptureHolds`, `CallSilenceHolds`, `CallKeysHold`).

**`VaultProofs`**: `PinsAreCharged`, `RevocationHolds`, `LocksHold` (and `VaultTypes`), for any
limit of PIN failures and any number of reloads, faults, locks and functions at once, from
`VaultAssumption`. What a function does between two awaits is a chain of a dozen
operators on the device; most of them are `Tame`, they take away and never give, and so
is a chain of tame ones. Only the few steps that open the vault need an argument
of their own. `GuessInv`: one unlock runs at a time, and while it holds the database its
PIN has been charged and not yet tried. `RevokedInv`: the device has no session, and nothing under
way gives it one. `ClosedInv`: a closed vault is `Shut` (no identity in memory, no function
that holds one, and either no session record, now or later, or no vault), or a logout
that has asked for the deletion is under way (`Leaving`). What the record can still become depends on
the policy, on the writes that are outstanding and on the rotation under way
(`NoRecord`, `NoneToCome`).

Every safety invariant that a passing run checks is stated by a theorem, and so are the
action properties `StaleBootIsInert`, `RetryIsNotRefused` and `StartsInCallOrder` (which no run checks) and the safety part
of `ImplementsFifoLock`. Model-checked only: liveness and the fairness part of `ImplementsFifoLock`, which
the prover does not handle (nor `ENABLED`); what the `MC*` modules refute. No module with a theorem uses a recursive
operator, and nothing is proved by induction over data: an order by rank or time is stated
as a property of the sorted rows, not computed.

## 6. Plan

What would come next, in this order:

1. `GuildView` with the guild lists of `hooks/useInstances.js` (two refreshes
   answered out of order, line 428).
2. `VoiceCall` with a second voice channel, and the source and quality of a shared
   screen.
3. `Vault` with a second tab (`useSingleTab`).
4. Attachments under cancellation, and the recorded read marks.

## 7. Not modelled, and why

* Text groups: `addMemberToChannel`, `performSelfUpdate`, `leaveChannelGroup` and
  `joinAllChannelGroups` of `mlsGroup.js` have no caller. The guild metadata group
  goes through the same code as a channel's.
* WS: the parsing of events and their dispatch to listeners; the length of delays
  (only their order matters to the properties).
* Instances: several instances at once (their entries do not interact), guild
  order and the config cache.
* Messages: the local cache of plaintexts, formatting, attachments, read marks,
  scrolling.
* Voice: a second channel, playback, the noise gate, the test of a device before
  joining, a change of camera or of the screen's source and quality, the audio of
  a shared screen, the React state of the participants.
* Store: the history scope (no caller but tests) and the recorded epoch, which is
  in `TextMls`.
* Vault: guests, sibling tabs, the desktop bridge and its broadcasts, the
  election of a single tab.
* Archive: the legacy format in one piece and the bitmap of the progress bar.
* Guild view: the guild list, presence, the system log and the settings dialogs.
* Attachments: one pipeline per file, local to one composer, which ends with it.
* Cryptography (compiled OpenMLS, PBKDF2, AES), proof verification, request
  schemas, version comparison: functions without state, or outside the program.
* Diagnostics, bug reports and rendering: nothing depends on them.

----------------------------- MODULE GuildView ------------------------------
(***************************************************************************)
(* What one client shows of the guilds of an instance, and the call the     *)
(* user is in: the channel list and the members of the open guild, the      *)
(* route, and `joinedVoice` (components/authenticated-app.tsx with          *)
(* adapters/useChannelsForServer.ts, useMembersForServer.ts,                *)
(* useServerJoinEvents.ts and useServerModerationEvents.ts).  A list is an  *)
(* answer of the server, kept in the query cache and patched by frames, by  *)
(* the answers to the user's own requests, and optimistically by a drag.    *)
(*                                                                         *)
(* A channel has a position; a roster is a number, how often the server     *)
(* has changed it.  Log stands for whatever is viewed when the route names  *)
(* no channel of the list: the guild's system channel, or a blank page.     *)
(*                                                                         *)
(* External: TanStack Query (an answer replaces the cached data; a patch    *)
(* counts as fresh data; `refetch` replaces a running fetch, or joins it    *)
(* when there is no data yet; data is fetched again on mount only when it   *)
(* is stale), React Router (a navigation is a transition: it is rendered    *)
(* later than the state set beside it), and the server, which writes a      *)
(* change before it broadcasts it.                                          *)
(***************************************************************************)
EXTENDS Naturals, Sequences, FiniteSets, SequencesExt

CONSTANTS
    None, Log, Home,
    Guilds, Channels, Voice,
    GuildOf,       \* the guild of each channel
    Stories        \* what exists at the start, and how much may happen

Things == {"creates", "deletes", "moves", "joins", "kicks", "drops", "failures",
           "own creates", "own deletes", "drags", "clicks", "hang-ups", "ages"}

ASSUME GuildsAssumption ==
    /\ GuildOf \in [Channels -> Guilds] /\ Voice \subseteq Channels /\ IsFiniteSet(Channels)
    /\ {None, Log, Home} \cap (Guilds \cup Channels) = {} /\ None # Log /\ None # Home
    /\ None \notin Nat /\ Home \notin Nat
    /\ None \notin [guild : Guilds \cup {Home}, channel : Channels \cup {Log}]
ASSUME StoriesAssumption ==
    \A s \in Stories :
        /\ s.exist \subseteq Channels /\ s.left \in [Things -> Nat]
        /\ s.route \in [guild : Guilds \cup {Home}, channel : Channels \cup {Log}]

VARIABLES
    place,         \* server: the position of each channel, None before it is
                   \* created, Home after it is deleted
    roster,        \* server: the version of each guild's member list
    wire,          \* frames on the way to this client
    query,         \* the query cache: channel list and members of each guild
    timer,         \* guilds whose member refetch waits for its 150 ms
    task,          \* the user's own requests in progress
    removal,       \* per guild: is the user's removal being handled
    route, nav,    \* the route rendered, and the one navigated to, or None
    joinedVoice, voluntarilyLeft,
    wanted,        \* history: the call the user last asked for, None after
                   \* a hang-up
    undone,        \* history: calls the effect joined against the user
    left           \* bound: what may still happen

server == <<place, roster, wire>>
screen == <<route, nav, joinedVoice, voluntarilyLeft, wanted, undone>>
vars == <<server, query, timer, task, removal, screen, left>>

Lists == {"channels", "members"}
Idle == [at |-> "idle", of |-> None, guild |-> None, todo |-> <<>>]
At(g, c) == [guild |-> g, channel |-> c]

FramesOf == [channels |-> {"created", "deleted", "moved"}, members |-> {"joined", "moderated"}]
Exists(c) == place[c] \in Nat
Row(c, p) == [id |-> c, position |-> p]
Ids(rows) == {r.id : r \in rows}
Truth(list, g) ==
    IF list = "members" THEN roster[g]
    ELSE {Row(c, place[c]) : c \in {d \in Channels : GuildOf[d] = g /\ Exists(d)}}

Spend(what) == left[what] > 0 /\ left' = [left EXCEPT ![what] = @ - 1]

-----------------------------------------------------------------------------
(* The query cache.  `causes` and `since` are history: why the data may      *)
(* differ from the server's, and which of that came after the server read    *)
(* the answer of the running fetch.                                          *)

Unloaded == [loaded |-> FALSE, data |-> None, fresh |-> FALSE, fetch |-> "none",
             answer |-> None, causes |-> {}, since |-> {}]
Loaded(answer) == [Unloaded EXCEPT !.loaded = TRUE, !.data = answer, !.fresh = TRUE]

Blame(q, cause) == [q EXCEPT !.causes = @ \cup {cause}, !.since = @ \cup {cause}]

Asked(q) == [q EXCEPT !.fetch = "asked", !.answer = None]

\* A list is mounted: its data is fetched when there is none or it is stale.
Mounted(q) == IF q.fetch = "none" /\ (~q.loaded \/ ~q.fresh) THEN Asked(q) ELSE q

\* refetch(): a running fetch is replaced, or joined when there is no data.
Refetched(q) ==
    IF q.fetch # "none" /\ ~q.loaded
    THEN IF q.fetch = "read" THEN Blame(q, "joined the first load") ELSE q
    ELSE Asked(q)

\* setRaw: the cached rows are patched, starting from none, and count as fresh.
Patched(q, rows) ==
    [q EXCEPT !.loaded = TRUE, !.data = rows, !.fresh = TRUE,
              !.since = IF q.fetch = "read" THEN @ \cup {"overwritten"} ELSE @]
Rows(g) == IF query["channels"][g].loaded THEN query["channels"][g].data ELSE {}

OnList(list, g, q) == query' = [query EXCEPT ![list][g] = q]

ServerReads(list, g) ==
    /\ query[list][g].fetch = "asked"
    /\ removal[g] = "no"
    /\ OnList(list, g, [query[list][g] EXCEPT
           !.fetch = "read", !.answer = Truth(list, g), !.since = {}])
    /\ UNCHANGED <<server, timer, task, removal, screen, left>>

\* Ten seconds pass: the data is stale, which matters when the list mounts again.
Ages(list, g) ==
    /\ query[list][g].fresh /\ route.guild # g
    /\ Spend("ages")
    /\ OnList(list, g, [query[list][g] EXCEPT !.fresh = FALSE])
    /\ UNCHANGED <<server, timer, task, removal, screen>>

-----------------------------------------------------------------------------
(* What is rendered, and the effects that run after it.                      *)

\* activeChannel: the channel of the route when the list has it.
Viewed(r, q) ==
    IF r.guild = Home THEN Log
    ELSE LET list == q["channels"][r.guild]
         IN  IF list.loaded /\ r.channel \in Ids(list.data) THEN r.channel ELSE Log

\* The two effects on the voice route, after the state has become
\* (r, q, joined, guard): a viewed voice channel is joined unless the user has
\* hung up there; the guard falls when that channel is not viewed.
AutoJoin(r, q, joined, guard) ==
    LET v == Viewed(r, q) IN IF v \in Voice /\ guard # v THEN v ELSE joined
Guard(r, q, guard) == IF guard # None /\ Viewed(r, q) = guard THEN guard ELSE None

\* `joined` and `guard` are what the handler has set.  The effect goes against
\* the user in three ways: on the page that is being left, while the navigation
\* is not rendered yet; on a page that comes late, after the call was hung up or
\* another one joined; and on a page whose row the list loses for a moment, so
\* that no guard stands when it is back.  The first one may also join a call in
\* a guild that has removed the user.
Effect(joined) == {joinedVoice'} \ {joined}
Undone(joined, guard) ==
    {<<"old page", c>> : c \in IF nav' # None THEN Effect(joined) ELSE {}}
    \cup {<<"removed", c>> : c \in
            IF nav' # None THEN {d \in Effect(joined) : removal'[GuildOf[d]] = "done"} ELSE {}}
    \cup {<<"late page", n.channel>> : n \in
            IF nav # None /\ (joined # joinedVoice \/ wanted' # wanted) THEN {nav, route} ELSE {}}
    \cup {<<"row lost", c>> : c \in
            IF Viewed(route', query') # route'.channel
               /\ (guard = route'.channel \/ wanted' # wanted)
            THEN {route'.channel} ELSE {}}

Rendered(joined, guard) ==
    /\ joinedVoice' = AutoJoin(route', query', joined, guard)
    /\ voluntarilyLeft' = Guard(route', query', guard)
    /\ undone' = undone \cup Undone(joined, guard)

Quietly ==
    UNCHANGED <<route, nav, wanted>> /\ Rendered(joinedVoice, voluntarilyLeft)

Answers(list, g) ==
    LET q == query[list][g]
    IN  /\ q.fetch = "read"
        /\ OnList(list, g, [Loaded(q.answer) EXCEPT !.causes = q.since])
        /\ UNCHANGED <<server, timer, task, removal, left>>
        /\ Quietly

\* The fetch and its one retry fail; a guild the user is out of always refuses.
FetchFails(list, g) ==
    /\ query[list][g].fetch \in {"asked", "read"}
    /\ IF removal[g] = "no" THEN Spend("failures") ELSE UNCHANGED left
    /\ OnList(list, g, [Blame(query[list][g], "failed") EXCEPT
           !.fetch = "none", !.answer = None, !.since = {}])
    /\ UNCHANGED <<server, timer, task, removal, screen>>

-----------------------------------------------------------------------------
(* The server and other users.                                               *)

Frame(type, g, c) == [type |-> type, guild |-> g, channel |-> c,
                      position |-> IF c = None THEN None ELSE place'[c]]
Broadcast(type, g, c) == wire' = Append(wire, Frame(type, g, c))
Count(g) == Cardinality({c \in Channels : GuildOf[c] = g /\ Exists(c)})

ServerCreates(c) ==
    /\ place[c] = None
    /\ place' = [place EXCEPT ![c] = Count(GuildOf[c])]
    /\ Broadcast("created", GuildOf[c], c)
    /\ UNCHANGED roster
ServerDeletes(c) ==
    /\ Exists(c)
    /\ place' = [place EXCEPT ![c] = Home]
    /\ Broadcast("deleted", GuildOf[c], c)
    /\ UNCHANGED roster
ServerMoves(c, p) ==
    /\ Exists(c)
    /\ place' = [place EXCEPT ![c] = p]
    /\ Broadcast("moved", GuildOf[c], c)
    /\ UNCHANGED roster

ClientRest == <<query, timer, task, removal, screen>>
OtherCreates(c) == ServerCreates(c) /\ Spend("creates") /\ UNCHANGED ClientRest
OtherDeletes(c) == ServerDeletes(c) /\ Spend("deletes") /\ UNCHANGED ClientRest
OtherMoves(c, p) ==
    p # place[c] /\ ServerMoves(c, p) /\ Spend("moves") /\ UNCHANGED ClientRest

\* A member joins, or one is muted, given a role, or removed.
MembersChange(g, type) ==
    /\ Spend("joins")
    /\ roster' = [roster EXCEPT ![g] = @ + 1]
    /\ Broadcast(type, g, None)
    /\ UNCHANGED <<place, ClientRest>>

\* The user is kicked or banned.
Kick(g) ==
    /\ Spend("kicks")
    /\ removal[g] = "no"
    /\ removal' = [removal EXCEPT ![g] = "told"]
    /\ Broadcast("kicked", g, None)
    /\ UNCHANGED <<place, roster, query, timer, task, screen>>

\* The connection drops, with the frames on it.  Nothing is fetched for that.
Drop ==
    /\ wire # <<>> /\ Spend("drops")
    /\ wire' = <<>>
    /\ query' = [l \in Lists |-> [g \in Guilds |->
          IF \E i \in DOMAIN wire : wire[i].guild = g /\ wire[i].type \in FramesOf[l]
          THEN Blame(query[l][g], "missed") ELSE query[l][g]]]
    /\ UNCHANGED <<place, roster, timer, task, removal, screen>>

-----------------------------------------------------------------------------
(* Frames.  The channel list is patched for the guild on screen only.        *)

Head1(type) == wire # <<>> /\ Head(wire).type = type /\ wire' = Tail(wire)

\* A bug to check against: the guild of a frame is not looked at.
EventBelongsToServer_Any(f) == route.guild # Home
EventBelongsToServer(f) == f.guild = route.guild

OnCreated(f, rows) ==
    IF f.channel \in Ids(rows) THEN rows ELSE rows \cup {Row(f.channel, f.position)}
OnDeleted(f, rows) == {r \in rows : r.id # f.channel}
OnMoved(f, rows) ==
    {IF r.id = f.channel THEN Row(r.id, f.position) ELSE r : r \in rows}

OnChannelFrame(type) ==
    /\ Head1(type)
    /\ LET f == Head(wire)
           q == query["channels"][f.guild]
           rows == Rows(route.guild)
       IN  IF EventBelongsToServer(f)
           THEN OnList("channels", route.guild,
                       Patched(query["channels"][route.guild],
                               CASE type = "created" -> OnCreated(f, rows)
                                 [] type = "deleted" -> OnDeleted(f, rows)
                                 [] type = "moved" -> OnMoved(f, rows)))
           ELSE OnList("channels", f.guild, Blame(q, "away"))
    /\ UNCHANGED <<place, roster, timer, task, removal, left>>
    /\ Quietly

\* refetchMembers of the guild's listener: it does nothing for other guilds
\* than the one on screen.
MembersRefetched(g) ==
    OnList("members", g, IF route.guild = g THEN Refetched(query["members"][g])
                         ELSE Blame(query["members"][g], "away"))

OnModeration ==
    /\ Head1("moderated")
    /\ MembersRefetched(Head(wire).guild)
    /\ UNCHANGED <<place, roster, timer, task, removal, screen, left>>

\* member_joined: the refetch waits until 150 ms have passed without another.
OnMemberJoined ==
    /\ Head1("joined")
    /\ timer' = timer \cup {Head(wire).guild}
    /\ UNCHANGED <<place, roster, query, task, removal, screen, left>>
TimerFires(g) ==
    /\ g \in timer
    /\ timer' = timer \ {g}
    /\ MembersRefetched(g)
    /\ UNCHANGED <<server, task, removal, screen, left>>

\* The user's own removal: the MLS groups are cleaned up first, ...
OnSelfRemoved ==
    /\ Head1("kicked")
    /\ removal' = [removal EXCEPT ![Head(wire).guild] = "cleaning"]
    /\ UNCHANGED <<place, roster, query, timer, task, screen, left>>

\* ... then the guild is left, if it is on screen, and so is the call if it is
\* there: both as they are by now.
\* A bug: the call ends with its page only.
LeavesCall_OnScreenOnly(g) == joinedVoice # None /\ GuildOf[joinedVoice] = g /\ route.guild = g
LeavesCall(g) == joinedVoice # None /\ GuildOf[joinedVoice] = g

SelfRemovalEnds(g) ==
    /\ removal[g] = "cleaning"
    /\ removal' = [removal EXCEPT ![g] = "done"]
    /\ nav' = IF route.guild = g THEN At(Home, Log) ELSE nav
    /\ MembersRefetched(g)
    /\ route' = route
    /\ wanted' = IF LeavesCall(g) THEN None ELSE wanted
    /\ IF LeavesCall(g) THEN Rendered(None, joinedVoice)
       ELSE Rendered(joinedVoice, voluntarilyLeft)
    /\ UNCHANGED <<server, timer, task, left>>

-----------------------------------------------------------------------------
(* The user's own changes of the channel list: a request, its effect on the  *)
(* server, and its answer, or a failure before or after the effect.          *)

Begin(kind, t) == task[kind].at = "idle" /\ task' = [task EXCEPT ![kind] = t]
Asks(kind, g, c) == [at |-> "asked", of |-> c, guild |-> g, todo |-> <<>>]

CreateChannel(c) ==
    /\ Spend("own creates")
    /\ place[c] = None /\ route.guild = GuildOf[c]
    /\ Begin("create", Asks("create", route.guild, c))
    /\ UNCHANGED <<server, timer, removal, screen, query>>
DeleteChannel(c) ==
    /\ Spend("own deletes")
    /\ route.guild = GuildOf[c] /\ c \in Ids(Rows(route.guild))
    /\ Begin("delete", Asks("delete", route.guild, c))
    /\ UNCHANGED <<server, timer, removal, screen, query>>

\* Another user may have deleted or created the channel first: refused.
Refused(kind) ==
    LET t == task[kind]
    IN  \/ removal[t.guild] # "no"
        \/ kind = "create" /\ place[t.of] # None
        \/ kind # "create" /\ ~Exists(t.of)

TaskEffect(kind) ==
    LET t == task[kind]
    IN  /\ t.at = "asked" /\ ~Refused(kind)
        /\ CASE kind = "create" -> ServerCreates(t.of)
             [] kind = "delete" -> ServerDeletes(t.of)
             [] kind = "drag" -> ServerMoves(t.of, Head(t.todo).position)
        /\ task' = [task EXCEPT ![kind].at = "done",
              ![kind].todo = IF kind = "create" THEN <<Row(t.of, place'[t.of])>> ELSE @]
        /\ UNCHANGED <<timer, removal, screen, query, left>>

TaskFails(kind) ==
    /\ task[kind].at \in {"asked", "done"}
    /\ IF task[kind].at = "asked" /\ Refused(kind) THEN UNCHANGED left ELSE Spend("failures")
    /\ task' = [task EXCEPT ![kind] = Idle]

\* applyCreated: the row is added when no frame has brought it, even when a
\* frame has taken it away again.
ApplyCreated(row, rows) == IF row.id \in Ids(rows) THEN rows ELSE rows \cup {row}
GoneForGood(c) ==
    /\ place[c] = Home
    /\ \A i \in DOMAIN wire : wire[i].type = "deleted" => wire[i].channel # c

CreateAnswered ==
    LET t == task["create"]
        q == query["channels"][t.guild]
    IN  /\ t.at = "done"
        /\ task' = [task EXCEPT !["create"] = Idle]
        /\ OnList("channels", t.guild,
                  Patched(IF GoneForGood(t.of) THEN Blame(q, "deleted before the answer") ELSE q,
                          ApplyCreated(Head(t.todo), Rows(t.guild))))
        /\ UNCHANGED <<server, timer, removal, left>>
        /\ Quietly

\* applyDeleted: the rows go, the call on the channel ends, and its page is left.
DeleteAnswered ==
    LET t == task["delete"]
        joined == IF joinedVoice = t.of THEN None ELSE joinedVoice
    IN  /\ t.at = "done"
        /\ task' = [task EXCEPT !["delete"] = Idle]
        /\ OnList("channels", t.guild,
                  Patched(query["channels"][t.guild],
                          {r \in Rows(t.guild) : r.id # t.of}))
        /\ nav' = IF Viewed(route, query) = t.of THEN At(t.guild, Log) ELSE nav
        /\ wanted' = IF wanted = t.of THEN None ELSE wanted
        /\ route' = route
        /\ UNCHANGED <<server, timer, removal, left>>
        /\ Rendered(joined, voluntarilyLeft)

CreateOrDeleteFails(kind) ==
    /\ kind \in {"create", "delete"}
    /\ TaskFails(kind)
    /\ UNCHANGED <<server, timer, removal, screen, query>>

\* onChannelsChange: the rows are put in their new order at once, and the moves
\* are sent one after the other.
Positions(order) == [i \in 1..Len(order) |-> Row(order[i], i - 1)]

Drag(order) ==
    LET g == route.guild
        rows == Positions(order)
    IN  /\ Spend("drags")
        /\ g # Home /\ Len(order) > 1
        /\ Begin("drag", [at |-> "asked", of |-> order[1], guild |-> g, todo |-> rows])
        /\ OnList("channels", g, [query["channels"][g] EXCEPT
              !.loaded = TRUE, !.data = ToSet(rows), !.fresh = TRUE])
        /\ UNCHANGED <<server, timer, removal, screen>>

MoveAnswered ==
    LET t == task["drag"]
        rest == Tail(t.todo)
    IN  /\ t.at = "done"
        /\ task' = [task EXCEPT !["drag"] =
              IF rest = <<>> THEN Idle
              ELSE [@ EXCEPT !.at = "asked", !.of = Head(rest).id, !.todo = rest]]
        /\ UNCHANGED <<server, query, timer, removal, screen, left>>

\* A move fails: the rest is not sent and the list is fetched again, by an
\* observer that follows the screen: another guild's list when the user has
\* gone there meanwhile.
AfterFailedMove(g) ==
    [query EXCEPT !["channels"] = [h \in Guilds |->
        IF h = route.guild THEN Refetched(@[h])
        ELSE IF h = g THEN Blame(@[h], "not rolled back") ELSE @[h]]]

MoveFails ==
    /\ TaskFails("drag")
    /\ query' = AfterFailedMove(task["drag"].guild)
    /\ UNCHANGED <<server, timer, removal, screen>>

-----------------------------------------------------------------------------
(* Navigation and the call.                                                  *)

Clicks == Spend("clicks") /\ UNCHANGED <<server, query, timer, task>>

\* History: the user acts in a guild again after the removal was handled.
Back(g) == [i \in Guilds |-> IF i = g /\ removal[i] = "done" THEN "back" ELSE removal[i]]

SelectRail(g) ==
    /\ Clicks
    /\ removal' = removal
    /\ route' = route /\ nav' = At(g, Log) /\ wanted' = wanted
    /\ Rendered(joinedVoice, voluntarilyLeft)

\* handleSelectChannel: a voice channel is joined with the click.
SelectChannel(c) ==
    LET joined == IF c \in Voice THEN c ELSE joinedVoice
    IN  /\ Clicks
        /\ route.guild # Home /\ c \in Ids(Rows(route.guild))
        /\ removal' = Back(route.guild)
        /\ route' = route /\ nav' = At(route.guild, c)
        /\ wanted' = IF c \in Voice THEN c ELSE wanted
        /\ Rendered(joined, voluntarilyLeft)

\* The navigation is rendered: the lists of a guild that comes on screen mount.
RenderNavigation ==
    /\ nav # None
    /\ route' = nav /\ nav' = None /\ wanted' = wanted
    /\ query' = [l \in Lists |-> [g \in Guilds |->
          IF g = nav.guild /\ g # route.guild THEN Mounted(query[l][g]) ELSE query[l][g]]]
    /\ removal' = Back(nav.guild)
    /\ Rendered(joinedVoice, voluntarilyLeft)
    /\ UNCHANGED <<server, timer, task, left>>

\* A bug: no guard.
HangUpGuard_None == None
HangUpGuard == joinedVoice

\* handleVoiceLeave: the guard names the channel that was left.
HangUp ==
    /\ Spend("hang-ups")
    /\ joinedVoice # None
    /\ UNCHANGED <<server, query, timer, task, removal>>
    /\ route' = route /\ nav' = nav /\ wanted' = None
    /\ Rendered(None, HangUpGuard)

\* "Join call" on the page of a channel that was left.
JoinFromPlaceholder ==
    LET v == Viewed(route, query)
    IN  /\ Clicks
        /\ v \in Voice /\ joinedVoice # v
        /\ removal' = Back(route.guild)
        /\ route' = route /\ nav' = nav /\ wanted' = v
        /\ Rendered(v, None)

-----------------------------------------------------------------------------
\* The page is opened at a guild or, by a link, at one of its channels.
Init ==
    /\ \E s \in Stories :
          /\ place = [c \in Channels |->
                IF c \notin s.exist THEN None
                ELSE Cardinality({d \in s.exist :
                       GuildOf[d] = GuildOf[c] /\ s.rank[d] < s.rank[c]})]
          /\ left = s.left
          /\ route = s.route
          /\ wanted = IF s.route.channel \in Voice THEN s.route.channel ELSE None
          /\ roster = [g \in Guilds |-> 0]
          /\ query = [l \in Lists |-> [g \in Guilds |->
                IF l \notin s.unloaded THEN Loaded(Truth(l, g))
                ELSE IF g = s.route.guild THEN Asked(Unloaded) ELSE Unloaded]]
    /\ wire = <<>>
    /\ timer = {}
    /\ task = [k \in {"create", "delete", "drag"} |-> Idle]
    /\ removal = [g \in Guilds |-> "no"]
    /\ nav = None
    /\ joinedVoice = AutoJoin(route, query, None, None)
    /\ voluntarilyLeft = None /\ undone = {}

Orders(g) ==
    LET ids == IF g = Home THEN {} ELSE Ids(Rows(g))
    IN  {o \in [1..Cardinality(ids) -> ids] : ToSet(o) = ids}

Server ==
    \/ \E c \in Channels :
          \/ OtherCreates(c) \/ OtherDeletes(c)
          \/ \E p \in 0..(Count(GuildOf[c]) - 1) : OtherMoves(c, p)
    \/ \E g \in Guilds : Kick(g) \/ \E type \in FramesOf.members : MembersChange(g, type)
    \/ Drop

Cache == \E list \in Lists, g \in Guilds :
    ServerReads(list, g) \/ Answers(list, g) \/ FetchFails(list, g) \/ Ages(list, g)

Frames ==
    \/ \E type \in FramesOf.channels : OnChannelFrame(type)
    \/ OnModeration \/ OnMemberJoined \/ OnSelfRemoved
    \/ \E g \in Guilds : TimerFires(g) \/ SelfRemovalEnds(g)

Tasks ==
    \/ \E c \in Channels : CreateChannel(c) \/ DeleteChannel(c)
    \/ \E o \in Orders(route.guild) : Drag(o)
    \/ \E k \in DOMAIN task : TaskEffect(k) \/ CreateOrDeleteFails(k)
    \/ CreateAnswered \/ DeleteAnswered \/ MoveAnswered \/ MoveFails

User ==
    \/ \E g \in Guilds \cup {Home} : SelectRail(g)
    \/ \E c \in Channels : SelectChannel(c)
    \/ RenderNavigation \/ HangUp \/ JoinFromPlaceholder

Next == Server \/ Cache \/ Frames \/ Tasks \/ User

Spec == Init /\ [][Next]_vars

-----------------------------------------------------------------------------
(* Properties.                                                               *)

Settled(list, g) ==
    /\ route.guild = g /\ removal[g] = "no"
    /\ query[list][g].fetch = "none"
    /\ \A i \in DOMAIN wire : wire[i].guild # g
    /\ g \notin timer
    /\ \A k \in DOMAIN task : task[k].guild # g

\* "Realtime state must converge without manual reload": when nothing is under
\* way, the list of the open guild is the server's, whatever fetches, frames,
\* the user's own requests and drags have overlapped.  Excepted are the causes
\* the program has no remedy for, each by name: a frame lost with the
\* connection ("missed") or ignored while another guild was open and the data
\* still counted as fresh on return ("away"), a patch overwritten by an answer
\* the server had read before ("overwritten"), a refetch joined to a first
\* load already read, a failed fetch, a create answered after the deletion,
\* and a failed drag rolled back in another guild's list.
ListsConverge ==
    \A list \in Lists, g \in Guilds :
        Settled(list, g) =>
            query[list][g].data = Truth(list, g) \/ query[list][g].causes # {}

\* "voice membership follows server membership": once the user's removal from a
\* guild has been handled, the guild is not on screen and the call is not in it,
\* wherever the user went during the clean-up, until the user goes back; unless
\* the effect has joined it on the guild's page before that was left.
RemovedMeansOut ==
    \A g \in Guilds :
        removal[g] = "done" /\ nav = None =>
            /\ route.guild # g
            /\ joinedVoice # None /\ GuildOf[joinedVoice] = g => <<"removed", joinedVoice>> \in undone

\* A call that the user has hung up, or that ended, does not come back by itself,
\* whatever list, route and effects do: the call is the one last asked for, or
\* one of those that the effect joined in a named race (`undone').
CallIsWanted ==
    joinedVoice # None =>
        \/ joinedVoice = wanted
        \/ \E why \in {"old page", "late page", "row lost"} : <<why, joinedVoice>> \in undone
=============================================================================

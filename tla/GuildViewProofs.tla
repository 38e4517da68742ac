--------------------------- MODULE GuildViewProofs ---------------------------
(***************************************************************************)
(* What holds of the guilds a client shows, for any number of guilds and    *)
(* channels and any story: where the call and the page are, and how the     *)
(* lists relate to the server, the frames to come and the requests under    *)
(* way.  The last section proves what holds of the connection of one        *)
(* instance (module Instances), which has no state in common with it.       *)
(***************************************************************************)
EXTENDS GuildView, Instances, FiniteSetTheorems, TLAPS

-----------------------------------------------------------------------------
(* The shape of the state.                                                   *)

ListTypes == {"created", "deleted", "moved"}
MemberTypes == {"joined", "moderated", "kicked"}
Kinds == {"create", "delete", "drag"}
Fetches == {"none", "asked", "read"}
Causes == {"failed", "missed", "away", "overwritten", "joined the first load",
           "deleted before the answer", "not rolled back"}
Here(g) == {c \in Channels : GuildOf[c] = g}
AnyRow == [id : Channels, position : Nat]
RowsOf(g) == SUBSET [id : Here(g), position : Nat]
Datum == (SUBSET AnyRow) \cup Nat \cup {None}
Data(list, g) == IF list = "members" THEN Nat ELSE RowsOf(g)
CacheEntry == [loaded : BOOLEAN, data : Datum, fresh : BOOLEAN, fetch : Fetches,
          answer : Datum, causes : SUBSET Causes, since : SUBSET Causes]
FrameT == [type : ListTypes \cup MemberTypes, guild : Guilds,
           channel : Channels \cup {None}, position : Nat \cup {None, Home}]
TaskSet == [at : {"idle", "asked", "done"}, of : Channels \cup {None},
            guild : Guilds \cup {None}, todo : Seq(AnyRow)]
Pages == [guild : Guilds \cup {Home}, channel : Channels \cup {Log}]
Calls == Voice \cup {None}

ServerT ==
    /\ place \in [Channels -> Nat \cup {None, Home}]
    /\ roster \in [Guilds -> Nat]
    /\ left \in [Things -> Nat]
FrameOK(f) ==
    IF f.type \in ListTypes
    THEN f.channel \in Here(f.guild) /\ (f.type # "deleted" => f.position \in Nat)
    ELSE f.channel = None
WireT == wire \in Seq(FrameT) /\ \A i \in DOMAIN wire : FrameOK(wire[i])
EntryOK(list, g, q) ==
    /\ q \in CacheEntry
    /\ q.loaded => q.data \in Data(list, g)
    /\ q.fetch = "read" => q.answer \in Data(list, g)
QueryT ==
    /\ query \in [Lists -> [Guilds -> CacheEntry]]
    /\ \A l \in Lists, g \in Guilds : EntryOK(l, g, query[l][g])
TaskOK(kind, t) ==
    /\ t.at = "idle" => t.guild = None
    /\ t.at # "idle" => t.guild \in Guilds /\ t.of \in Here(t.guild)
    /\ kind = "create" /\ t.at = "done" =>
          t.todo # <<>> /\ Head(t.todo) \in AnyRow /\ Head(t.todo).id = t.of
    /\ kind = "drag" /\ t.at # "idle" =>
          /\ t.todo # <<>> /\ Head(t.todo).id = t.of
          /\ \A i \in DOMAIN t.todo : t.todo[i].id \in Here(t.guild)
TasksT ==
    /\ task \in [Kinds -> TaskSet]
    /\ \A k \in Kinds : TaskOK(k, task[k])
ScreenT ==
    /\ removal \in [Guilds -> {"no", "told", "cleaning", "done", "back"}]
    /\ timer \subseteq Guilds
    /\ route \in Pages /\ nav \in Pages \cup {None}
    /\ joinedVoice \in Calls /\ voluntarilyLeft \in Calls /\ wanted \in Calls
Typed == ServerT /\ WireT /\ QueryT /\ TasksT /\ ScreenT

-----------------------------------------------------------------------------
(* The call.                                                                 *)

Tagged(c) == \E why \in {"old page", "late page", "row lost"} : <<why, c>> \in undone
\* The effects have run: a viewed voice channel is the call, or guarded.
Effected ==
    LET v == Viewed(route, query)
    IN  v \in Voice => joinedVoice = v \/ voluntarilyLeft = v
\* The guard stands for the channel that is viewed, ...
GuardViewed == voluntarilyLeft # None => Viewed(route, query) = voluntarilyLeft
\* ... and beside another call only while its page is being left.
GuardAlone ==
    /\ voluntarilyLeft # None /\ joinedVoice # None
    /\ nav = None \/ nav.channel = voluntarilyLeft
    => joinedVoice = voluntarilyLeft
\* The voice channel of the page, and of the page to come, is the call asked
\* for, unless it was left by hand or a race is named.
PageWanted ==
    nav = None /\ route.channel \in Voice =>
        \/ wanted = route.channel
        \/ voluntarilyLeft = route.channel
        \/ Tagged(route.channel)
NextWanted ==
    nav # None /\ nav.channel \in Voice => wanted = nav.channel \/ Tagged(nav.channel)
CallInv == Effected /\ GuardViewed /\ GuardAlone /\ PageWanted /\ NextWanted /\ CallIsWanted

\* What the effects of one handler do.
LEMMA RenderedIs ==
    ASSUME NEW joined, NEW guard, GuildsAssumption, Rendered(joined, guard)
    PROVE  LET v == Viewed(route', query')
           IN  /\ v = route'.channel \/ v = Log
               /\ v \in Voice /\ guard # v => joinedVoice' = v
               /\ ~(v \in Voice /\ guard # v) => joinedVoice' = joined
               /\ guard # None /\ v = guard => voluntarilyLeft' = guard
               /\ ~(guard # None /\ v = guard) => voluntarilyLeft' = None
               /\ \A t \in undone : t \in undone'
               /\ nav' # None /\ joinedVoice' # joined =>
                     /\ <<"old page", joinedVoice'>> \in undone'
                     /\ removal'[GuildOf[joinedVoice']] = "done" =>
                           <<"removed", joinedVoice'>> \in undone'
               /\ nav # None /\ (joined # joinedVoice \/ wanted' # wanted) =>
                     <<"late page", nav.channel>> \in undone' /\ <<"late page", route.channel>> \in undone'
               /\ v # route'.channel /\ (guard = route'.channel \/ wanted' # wanted) =>
                     <<"row lost", route'.channel>> \in undone'
<1> DEFINE v == Viewed(route', query')
<1>1. v = route'.channel \/ v = Log
  BY DEF Viewed
<1>2. /\ v \in Voice /\ guard # v => joinedVoice' = v
      /\ ~(v \in Voice /\ guard # v) => joinedVoice' = joined
  BY DEF Rendered, AutoJoin
<1>3. /\ guard # None /\ v = guard => voluntarilyLeft' = guard
      /\ ~(guard # None /\ v = guard) => voluntarilyLeft' = None
  BY DEF Rendered, Guard
<1> HIDE DEF v
<1>4. undone' = undone \cup Undone(joined, guard)
  BY DEF Rendered
<1>5. nav' # None /\ joinedVoice' # joined => <<"old page", joinedVoice'>> \in Undone(joined, guard)
  BY DEF Undone, Effect
<1>6. nav' # None /\ joinedVoice' # joined /\ removal'[GuildOf[joinedVoice']] = "done"
        => <<"removed", joinedVoice'>> \in Undone(joined, guard)
  BY DEF Undone, Effect
<1>7. nav # None /\ (joined # joinedVoice \/ wanted' # wanted) =>
        /\ <<"late page", nav.channel>> \in Undone(joined, guard)
        /\ <<"late page", route.channel>> \in Undone(joined, guard)
  BY DEF Undone
<1>8. v # route'.channel /\ (guard = route'.channel \/ wanted' # wanted)
        => <<"row lost", route'.channel>> \in Undone(joined, guard)
  BY DEF Undone, v
<1> QED
  BY <1>1, <1>2, <1>3, <1>4, <1>5, <1>6, <1>7, <1>8 DEF v

\* The tags stay.
LEMMA TagsStay ==
    ASSUME \A t \in undone : t \in undone', NEW c, Tagged(c)
    PROVE  Tagged(c)'
BY DEF Tagged

\* A handler that leaves the page, the navigation and the call alone keeps the
\* invariant, whatever becomes of the list.
LEMMA QuietStep ==
    ASSUME GuildsAssumption, ScreenT, CallInv, Quietly
    PROVE  CallInv'
<1> DEFINE v == Viewed(route, query)
           w == Viewed(route', query')
<1>1. /\ route' = route /\ nav' = nav /\ wanted' = wanted
      /\ w = route.channel \/ w = Log
      /\ w \in Voice /\ voluntarilyLeft # w => joinedVoice' = w
      /\ ~(w \in Voice /\ voluntarilyLeft # w) => joinedVoice' = joinedVoice
      /\ voluntarilyLeft # None /\ w = voluntarilyLeft => voluntarilyLeft' = voluntarilyLeft
      /\ ~(voluntarilyLeft # None /\ w = voluntarilyLeft) => voluntarilyLeft' = None
      /\ \A t \in undone : t \in undone'
      /\ nav' # None /\ joinedVoice' # joinedVoice => <<"old page", joinedVoice'>> \in undone'
      /\ w # route.channel /\ voluntarilyLeft = route.channel => <<"row lost", route.channel>> \in undone'
  BY RenderedIs DEF Quietly
<1>2. Log \notin Voice /\ None \notin Voice /\ None # Log
  BY DEF GuildsAssumption
<1>3. /\ v \in Voice => joinedVoice = v \/ voluntarilyLeft = v
      /\ voluntarilyLeft # None => v = voluntarilyLeft
      /\ joinedVoice \in Calls /\ voluntarilyLeft \in Calls /\ wanted \in Calls
  BY DEF CallInv, Effected, GuardViewed, ScreenT
<1> HIDE DEF v, w
<1>4. Effected'
  BY <1>1, <1>2 DEF Effected, w
<1>5. GuardViewed'
  BY <1>1 DEF GuardViewed, w
<1>6. GuardAlone'
  BY <1>1, <1>2, <1>3 DEF CallInv, GuardAlone
<1>7. PageWanted'
  BY <1>1, <1>2, <1>3 DEF CallInv, PageWanted, Tagged
<1>8. NextWanted'
  BY <1>1, TagsStay DEF CallInv, NextWanted
<1>9. CallIsWanted'
  BY <1>1, <1>2, <1>3 DEF CallInv, CallIsWanted, PageWanted, Tagged
<1> QED
  BY <1>4, <1>5, <1>6, <1>7, <1>8, <1>9 DEF CallInv

\* A handler that does not render keeps the invariant if the list on screen
\* keeps its channels.
LEMMA StillStep ==
    ASSUME CallInv, UNCHANGED screen, Viewed(route, query') = Viewed(route, query)
    PROVE  CallInv'
<1>1. /\ route' = route /\ nav' = nav /\ wanted' = wanted /\ joinedVoice' = joinedVoice
      /\ voluntarilyLeft' = voluntarilyLeft /\ undone' = undone
  BY DEF screen
<1>2. Viewed(route', query') = Viewed(route, query)
  BY <1>1
<1>3. Effected' /\ GuardViewed'
  BY <1>1, <1>2 DEF CallInv, Effected, GuardViewed
<1>4. GuardAlone' /\ PageWanted' /\ NextWanted' /\ CallIsWanted'
  BY <1>1 DEF CallInv, GuardAlone, PageWanted, NextWanted, CallIsWanted, Tagged
<1> QED
  BY <1>3, <1>4 DEF CallInv

\* The same for a list whose channels are not touched at all.
LEMMA SameRowsView ==
    ASSUME \A g \in Guilds : /\ query'["channels"][g].loaded = query["channels"][g].loaded
                             /\ query'["channels"][g].data = query["channels"][g].data,
           ScreenT
    PROVE  Viewed(route, query') = Viewed(route, query)
<1>1. route.guild = Home \/ route.guild \in Guilds
  BY DEF ScreenT, Pages
<1> QED
  BY <1>1 DEF Viewed

\* The view is the same while the cache is.
LEMMA SameQueryView ==
    ASSUME query' = query
    PROVE  Viewed(route, query') = Viewed(route, query)
BY DEF Viewed

-----------------------------------------------------------------------------
(* The handlers that set the page or the call.                               *)

\* A hang-up (handleVoiceLeave): the effect finds the guard, or a page in
\* transition.
LEMMA HangUpKeepsCall ==
    ASSUME GuildsAssumption, ScreenT, CallInv, HangUp
    PROVE  CallInv'
<1> DEFINE v == Viewed(route, query)
           w == Viewed(route', query')
<1>1. /\ route' = route /\ nav' = nav /\ query' = query /\ wanted' = None /\ joinedVoice # None
      /\ Rendered(None, joinedVoice)
  BY DEF HangUp, HangUpGuard
<1>2. /\ w = v
      /\ w = route.channel \/ w = Log
      /\ w \in Voice /\ joinedVoice # w => joinedVoice' = w
      /\ ~(w \in Voice /\ joinedVoice # w) => joinedVoice' = None
      /\ w = joinedVoice => voluntarilyLeft' = joinedVoice
      /\ w # joinedVoice => voluntarilyLeft' = None
      /\ \A t \in undone : t \in undone'
      /\ nav' # None /\ joinedVoice' # None => <<"old page", joinedVoice'>> \in undone'
      /\ nav # None => <<"late page", nav.channel>> \in undone'
      /\ w # route.channel /\ wanted' # wanted => <<"row lost", route.channel>> \in undone'
  BY <1>1, RenderedIs
<1>3. Log \notin Voice /\ None \notin Voice /\ None # Log
  BY DEF GuildsAssumption
<1>4. /\ v \in Voice => joinedVoice = v \/ voluntarilyLeft = v
      /\ voluntarilyLeft # None => v = voluntarilyLeft
      /\ joinedVoice \in Calls /\ voluntarilyLeft \in Calls /\ wanted \in Calls
  BY DEF CallInv, Effected, GuardViewed, ScreenT
<1> HIDE DEF v, w
<1>5. Effected'
  BY <1>1, <1>2, <1>3 DEF Effected, w
<1>6. GuardViewed'
  BY <1>1, <1>2 DEF GuardViewed, w
<1>7. GuardAlone'
  BY <1>1, <1>2, <1>3, <1>4 DEF GuardAlone, Calls
<1>8. PageWanted'
  BY <1>1, <1>2, <1>3, <1>4 DEF CallInv, GuardAlone, PageWanted, Tagged
<1>9. NextWanted'
  BY <1>1, <1>2 DEF NextWanted, Tagged
<1>10. CallIsWanted'
  BY <1>1, <1>2, <1>3, <1>4 DEF CallInv, GuardAlone, CallIsWanted, PageWanted, Tagged
<1> QED
  BY <1>5, <1>6, <1>7, <1>8, <1>9, <1>10 DEF CallInv

\* The call joined from the placeholder is the one wanted.
LEMMA JoinKeepsCall ==
    ASSUME GuildsAssumption, ScreenT, CallInv, JoinFromPlaceholder
    PROVE  CallInv'
<1> DEFINE v == Viewed(route, query)
           w == Viewed(route', query')
<1>1. /\ route' = route /\ nav' = nav /\ query' = query /\ wanted' = v /\ v \in Voice /\ joinedVoice # v
      /\ Rendered(v, None)
  BY DEF JoinFromPlaceholder, Clicks
<1>2. None \notin Voice /\ Log \notin Voice
  BY DEF GuildsAssumption
<1>3. /\ w = v
      /\ w = route.channel \/ w = Log
      /\ joinedVoice' = v /\ voluntarilyLeft' = None
      /\ nav # None => <<"late page", nav.channel>> \in undone'
  BY <1>1, <1>2, RenderedIs
<1> HIDE DEF v, w
<1>4. Effected' /\ GuardViewed'
  BY <1>3 DEF Effected, GuardViewed, w
<1>5. GuardAlone' /\ PageWanted' /\ CallIsWanted'
  BY <1>1, <1>2, <1>3 DEF GuardAlone, PageWanted, CallIsWanted
<1>6. NextWanted'
  BY <1>1, <1>3 DEF NextWanted, Tagged
<1> QED
  BY <1>4, <1>5, <1>6 DEF CallInv

\* A navigation leads to a page.
LEMMA AtIsPage ==
    ASSUME GuildsAssumption, NEW g \in Guilds \cup {Home}, NEW c \in Channels \cup {Log}
    PROVE  /\ At(g, c) \in Pages /\ At(g, c) # None
           /\ At(g, c).guild = g /\ At(g, c).channel = c
<1>1. At(g, c) \in Pages /\ At(g, c).guild = g /\ At(g, c).channel = c
  BY DEF At, Pages
<1> QED
  BY <1>1 DEF GuildsAssumption, Pages

\* A click on a guild changes the page later, and no call.
LEMMA SelectRailKeepsCall ==
    ASSUME GuildsAssumption, ScreenT, CallInv, NEW g \in Guilds \cup {Home}, SelectRail(g)
    PROVE  CallInv'
<1> DEFINE v == Viewed(route, query)
           w == Viewed(route', query')
<1>1. /\ route' = route /\ nav' = At(g, Log) /\ query' = query /\ wanted' = wanted
      /\ Rendered(joinedVoice, voluntarilyLeft)
  BY DEF SelectRail, Clicks
<1>2. nav' # None /\ nav'.channel = Log
  BY <1>1, AtIsPage
<1>3. Log \notin Voice /\ None \notin Voice
  BY DEF GuildsAssumption
<1>4. /\ v \in Voice => joinedVoice = v \/ voluntarilyLeft = v
      /\ voluntarilyLeft # None => v = voluntarilyLeft
      /\ joinedVoice \in Calls /\ voluntarilyLeft \in Calls
  BY DEF CallInv, Effected, GuardViewed, ScreenT
<1>5. /\ w = v
      /\ w \in Voice /\ voluntarilyLeft # w => joinedVoice' = w
      /\ ~(w \in Voice /\ voluntarilyLeft # w) => joinedVoice' = joinedVoice
      /\ voluntarilyLeft # None /\ w = voluntarilyLeft => voluntarilyLeft' = voluntarilyLeft
      /\ ~(voluntarilyLeft # None /\ w = voluntarilyLeft) => voluntarilyLeft' = None
      /\ \A t \in undone : t \in undone'
  BY <1>1, RenderedIs
<1> HIDE DEF v, w
<1>6. joinedVoice' = joinedVoice /\ voluntarilyLeft' = voluntarilyLeft
  BY <1>3, <1>4, <1>5
<1>7. Effected' /\ GuardViewed'
  BY <1>4, <1>5, <1>6 DEF Effected, GuardViewed, w
<1>8. GuardAlone' /\ NextWanted' /\ PageWanted'
  BY <1>2, <1>3, <1>4, <1>6 DEF GuardAlone, NextWanted, PageWanted, Calls
<1>9. CallIsWanted'
  BY <1>1, <1>5, <1>6 DEF CallInv, CallIsWanted
<1> QED
  BY <1>7, <1>8, <1>9 DEF CallInv

\* A click on a voice channel joins the call that is wanted from then on.
LEMMA SelectChannelKeepsCall ==
    ASSUME GuildsAssumption, ScreenT, CallInv, NEW c \in Channels, SelectChannel(c)
    PROVE  CallInv'
<1> DEFINE v == Viewed(route, query)
           w == Viewed(route', query')
           joined == IF c \in Voice THEN c ELSE joinedVoice
<1>1. /\ route' = route /\ nav' = At(route.guild, c) /\ query' = query
      /\ wanted' = (IF c \in Voice THEN c ELSE wanted)
      /\ Rendered(joined, voluntarilyLeft)
  BY DEF SelectChannel, Clicks
<1>2. nav' # None /\ nav'.channel = c
  BY <1>1, AtIsPage DEF ScreenT, Pages
<1>3. Log \notin Voice /\ None \notin Voice
  BY DEF GuildsAssumption
<1>4. /\ v \in Voice => joinedVoice = v \/ voluntarilyLeft = v
      /\ voluntarilyLeft # None => v = voluntarilyLeft
      /\ joinedVoice \in Calls /\ voluntarilyLeft \in Calls
  BY DEF CallInv, Effected, GuardViewed, ScreenT
<1>5. /\ w = v
      /\ w \in Voice /\ voluntarilyLeft # w => joinedVoice' = w
      /\ ~(w \in Voice /\ voluntarilyLeft # w) => joinedVoice' = joined
      /\ voluntarilyLeft # None /\ w = voluntarilyLeft => voluntarilyLeft' = voluntarilyLeft
      /\ ~(voluntarilyLeft # None /\ w = voluntarilyLeft) => voluntarilyLeft' = None
      /\ \A t \in undone : t \in undone'
      /\ nav' # None /\ joinedVoice' # joined => <<"old page", joinedVoice'>> \in undone'
  BY <1>1, RenderedIs
<1> HIDE DEF v, w
<1>6. Effected' /\ GuardViewed'
  BY <1>3, <1>5 DEF Effected, GuardViewed, w
<1>7. GuardAlone'
  BY <1>2, <1>3, <1>4, <1>5 DEF CallInv, GuardAlone, Calls
<1>8. NextWanted' /\ PageWanted'
  BY <1>1, <1>2 DEF NextWanted, PageWanted
<1>9. CallIsWanted'
  BY <1>1, <1>2, <1>5 DEF CallInv, CallIsWanted, Tagged
<1> QED
  BY <1>6, <1>7, <1>8, <1>9 DEF CallInv

\* The page comes on screen: its call was asked for with the click, or it comes
\* late.
LEMMA RenderNavigationKeepsCall ==
    ASSUME GuildsAssumption, ScreenT, CallInv, RenderNavigation
    PROVE  CallInv'
<1> DEFINE v == Viewed(route, query)
           w == Viewed(route', query')
<1>1. /\ nav # None /\ route' = nav /\ nav' = None /\ wanted' = wanted
      /\ Rendered(joinedVoice, voluntarilyLeft)
  BY DEF RenderNavigation
<1>2. Log \notin Voice /\ None \notin Voice /\ None # Log
  BY DEF GuildsAssumption
<1>3. /\ v \in Voice => joinedVoice = v \/ voluntarilyLeft = v
      /\ voluntarilyLeft # None => v = voluntarilyLeft
      /\ joinedVoice \in Calls /\ voluntarilyLeft \in Calls
  BY DEF CallInv, Effected, GuardViewed, ScreenT
<1>4. /\ w = nav.channel \/ w = Log
      /\ w \in Voice /\ voluntarilyLeft # w => joinedVoice' = w
      /\ ~(w \in Voice /\ voluntarilyLeft # w) => joinedVoice' = joinedVoice
      /\ voluntarilyLeft # None /\ w = voluntarilyLeft => voluntarilyLeft' = voluntarilyLeft
      /\ ~(voluntarilyLeft # None /\ w = voluntarilyLeft) => voluntarilyLeft' = None
      /\ \A t \in undone : t \in undone'
  BY <1>1, RenderedIs
<1>5. nav.channel \in Voice =>
        \/ wanted = nav.channel
        \/ \E why \in {"old page", "late page", "row lost"} : <<why, nav.channel>> \in undone'
  BY <1>1, <1>4 DEF CallInv, NextWanted, Tagged
<1> HIDE DEF v, w
<1>6. Effected' /\ GuardViewed'
  BY <1>2, <1>4 DEF Effected, GuardViewed, w
<1>7. GuardAlone'
  BY <1>1, <1>2, <1>3, <1>4 DEF CallInv, GuardAlone, Calls
<1>8. NextWanted' /\ PageWanted'
  BY <1>1, <1>5 DEF NextWanted, PageWanted, Tagged
<1>9. CallIsWanted'
  BY <1>1, <1>2, <1>4, <1>5 DEF CallInv, CallIsWanted, Tagged
<1> QED
  BY <1>6, <1>7, <1>8, <1>9 DEF CallInv

\* The call in the guild that removed the user ends and is not wanted any more.
LEMMA SelfRemovalKeepsCall ==
    ASSUME GuildsAssumption, ScreenT, CallInv, NEW g \in Guilds, SelfRemovalEnds(g),
           Viewed(route, query') = Viewed(route, query)
    PROVE  CallInv'
<1> DEFINE v == Viewed(route, query)
           w == Viewed(route', query')
<1>1. /\ route' = route
      /\ nav' = (IF route.guild = g THEN At(Home, Log) ELSE nav)
      /\ wanted' = (IF LeavesCall(g) THEN None ELSE wanted)
  BY DEF SelfRemovalEnds
<1>2. /\ At(Home, Log) # None /\ At(Home, Log).channel = Log
      /\ Log \notin Voice /\ None \notin Voice /\ None # Log
  BY AtIsPage DEF GuildsAssumption
<1>3. /\ v \in Voice => joinedVoice = v \/ voluntarilyLeft = v
      /\ voluntarilyLeft # None => v = voluntarilyLeft
      /\ joinedVoice \in Calls /\ voluntarilyLeft \in Calls /\ wanted \in Calls
      /\ w = v
  BY <1>1 DEF CallInv, Effected, GuardViewed, ScreenT
<1>4. CASE ~LeavesCall(g)
  <2>1. Rendered(joinedVoice, voluntarilyLeft)
    BY <1>4 DEF SelfRemovalEnds
  <2>2. /\ w \in Voice /\ voluntarilyLeft # w => joinedVoice' = w
        /\ ~(w \in Voice /\ voluntarilyLeft # w) => joinedVoice' = joinedVoice
        /\ voluntarilyLeft # None /\ w = voluntarilyLeft => voluntarilyLeft' = voluntarilyLeft
        /\ ~(voluntarilyLeft # None /\ w = voluntarilyLeft) => voluntarilyLeft' = None
        /\ \A t \in undone : t \in undone'
    BY <2>1, RenderedIs
  <2> HIDE DEF v, w
  <2>3. joinedVoice' = joinedVoice /\ voluntarilyLeft' = voluntarilyLeft
    BY <1>2, <1>3, <2>2
  <2>4. Effected' /\ GuardViewed'
    BY <1>2, <2>2 DEF Effected, GuardViewed, w
  <2>5. GuardAlone'
    BY <1>1, <1>2, <1>3, <2>3 DEF CallInv, GuardAlone, Calls
  <2>6. NextWanted' /\ PageWanted' /\ CallIsWanted'
    BY <1>1, <1>2, <1>4, <2>2, <2>3 DEF CallInv, NextWanted, PageWanted, CallIsWanted, Tagged
  <2> QED
    BY <2>4, <2>5, <2>6 DEF CallInv
<1>5. CASE LeavesCall(g)
  <2>1. Rendered(None, joinedVoice) /\ joinedVoice # None /\ wanted' = None
    BY <1>1, <1>5 DEF SelfRemovalEnds, LeavesCall
  <2>2. /\ w = route.channel \/ w = Log
        /\ w \in Voice /\ joinedVoice # w => joinedVoice' = w
        /\ ~(w \in Voice /\ joinedVoice # w) => joinedVoice' = None
        /\ w = joinedVoice => voluntarilyLeft' = joinedVoice
        /\ w # joinedVoice => voluntarilyLeft' = None
        /\ \A t \in undone : t \in undone'
        /\ nav' # None /\ joinedVoice' # None => <<"old page", joinedVoice'>> \in undone'
        /\ nav # None => <<"late page", nav.channel>> \in undone'
        /\ w # route.channel /\ wanted' # wanted => <<"row lost", route.channel>> \in undone'
    BY <1>1, <2>1, RenderedIs
  <2> HIDE DEF v, w
  <2>3. Effected' /\ GuardViewed'
    BY <1>2, <2>1, <2>2 DEF Effected, GuardViewed, w
  <2>4. GuardAlone'
    BY <1>2, <1>3, <2>1, <2>2 DEF GuardAlone, Calls
  <2>5. PageWanted'
    BY <1>1, <1>2, <1>3, <2>1, <2>2 DEF CallInv, GuardAlone, PageWanted, Tagged
  <2>6. NextWanted'
    BY <1>1, <1>2, <2>1, <2>2 DEF NextWanted, Tagged
  <2>7. CallIsWanted'
    BY <1>1, <1>2, <1>3, <2>1, <2>2 DEF CallInv, GuardAlone, CallIsWanted, PageWanted, Tagged
  <2> QED
    BY <2>3, <2>4, <2>5, <2>6, <2>7 DEF CallInv
<1> QED
  BY <1>4, <1>5

\* The call on a deleted channel ends and is not wanted any more.
LEMMA DeleteKeepsCall ==
    ASSUME GuildsAssumption, ScreenT, CallInv, DeleteAnswered,
           task["delete"].of \in Channels, task["delete"].guild \in Guilds,
           Viewed(route, query') # task["delete"].of
    PROVE  CallInv'
<1> DEFINE v == Viewed(route, query)
           w == Viewed(route', query')
           c == task["delete"].of
           joined == IF joinedVoice = c THEN None ELSE joinedVoice
<1>1. /\ route' = route
      /\ nav' = (IF v = c THEN At(task["delete"].guild, Log) ELSE nav)
      /\ wanted' = (IF wanted = c THEN None ELSE wanted)
      /\ Rendered(joined, voluntarilyLeft)
  BY DEF DeleteAnswered
<1>2. /\ At(task["delete"].guild, Log) # None /\ At(task["delete"].guild, Log).channel = Log
      /\ Log \notin Voice /\ None \notin Voice /\ None # Log /\ Log \notin Channels
      /\ None \notin Channels
  BY AtIsPage DEF GuildsAssumption
<1>3. /\ v \in Voice => joinedVoice = v \/ voluntarilyLeft = v
      /\ voluntarilyLeft # None => v = voluntarilyLeft
      /\ joinedVoice \in Calls /\ voluntarilyLeft \in Calls /\ wanted \in Calls
      /\ w # c
  BY <1>1 DEF CallInv, Effected, GuardViewed, ScreenT
<1>4. /\ w = route.channel \/ w = Log
      /\ w \in Voice /\ voluntarilyLeft # w => joinedVoice' = w
      /\ ~(w \in Voice /\ voluntarilyLeft # w) => joinedVoice' = joined
      /\ voluntarilyLeft # None /\ w = voluntarilyLeft => voluntarilyLeft' = voluntarilyLeft
      /\ ~(voluntarilyLeft # None /\ w = voluntarilyLeft) => voluntarilyLeft' = None
      /\ \A t \in undone : t \in undone'
      /\ nav' # None /\ joinedVoice' # joined => <<"old page", joinedVoice'>> \in undone'
      /\ nav # None /\ (joined # joinedVoice \/ wanted' # wanted) =>
            <<"late page", nav.channel>> \in undone' /\ <<"late page", route.channel>> \in undone'
      /\ w # route.channel /\ (voluntarilyLeft = route.channel \/ wanted' # wanted) =>
            <<"row lost", route.channel>> \in undone'
  BY <1>1, RenderedIs
<1>5. v = route.channel \/ v = Log
  BY DEF Viewed
<1> HIDE DEF v, w, c
<1>6. Effected' /\ GuardViewed'
  BY <1>2, <1>4 DEF Effected, GuardViewed, w
<1>7. GuardAlone'
  BY <1>1, <1>2, <1>3, <1>4 DEF CallInv, GuardAlone, Calls, c
<1>8. PageWanted'
  BY <1>1, <1>2, <1>3, <1>4, <1>5 DEF CallInv, PageWanted, Tagged, c
<1>9. NextWanted'
  BY <1>1, <1>2, <1>4 DEF CallInv, NextWanted, Tagged, c
<1>10. CallIsWanted'
  BY <1>1, <1>2, <1>3, <1>4, <1>5 DEF CallInv, GuardAlone, CallIsWanted, PageWanted, Tagged, c
<1> QED
  BY <1>6, <1>7, <1>8, <1>9, <1>10 DEF CallInv

-----------------------------------------------------------------------------
(* The query cache keeps its shape.                                          *)

\* What a list may hold is a datum.
LEMMA DataIsDatum ==
    ASSUME NEW list \in Lists, NEW g \in Guilds, NEW d \in Data(list, g)
    PROVE  d \in Datum
<1>1. Here(g) \subseteq Channels
  BY DEF Here
<1>2. [id : Here(g), position : Nat] \subseteq AnyRow
  BY <1>1 DEF AnyRow
<1>3. CASE list = "members"
  BY <1>3 DEF Data, Datum
<1>4. CASE list = "channels"
  BY <1>2, <1>4 DEF Data, Datum, RowsOf
<1> QED
  BY <1>3, <1>4 DEF Lists

\* A cause is put on record; nothing else changes.
LEMMA BlameOK ==
    ASSUME NEW list \in Lists, NEW g \in Guilds, NEW q, EntryOK(list, g, q), NEW cause \in Causes
    PROVE  /\ EntryOK(list, g, Blame(q, cause))
           /\ Blame(q, cause).loaded = q.loaded /\ Blame(q, cause).data = q.data
           /\ Blame(q, cause).fetch = q.fetch /\ Blame(q, cause).answer = q.answer
           /\ Blame(q, cause).causes # {} /\ Blame(q, cause).since # {}
<1> DEFINE b == Blame(q, cause)
<1>1. q \in CacheEntry
  BY DEF EntryOK
<1>2. /\ b \in CacheEntry /\ b.loaded = q.loaded /\ b.data = q.data /\ b.fetch = q.fetch
      /\ b.answer = q.answer /\ b.causes = q.causes \cup {cause} /\ b.since = q.since \cup {cause}
  BY <1>1 DEF Blame, CacheEntry
<1> HIDE DEF b
<1>3. EntryOK(list, g, b)
  BY <1>2 DEF EntryOK
<1>4. b.causes # {} /\ b.since # {}
  BY <1>2
<1> QED
  BY <1>2, <1>3, <1>4 DEF b

\* An entry whose fetch is started keeps its data.
LEMMA AskedOK ==
    ASSUME NEW list \in Lists, NEW g \in Guilds, NEW q, EntryOK(list, g, q)
    PROVE  /\ EntryOK(list, g, Asked(q))
           /\ Asked(q).loaded = q.loaded /\ Asked(q).data = q.data /\ Asked(q).fetch = "asked"
<1> DEFINE b == Asked(q)
<1>1. q \in CacheEntry /\ None \in Datum /\ "asked" \in Fetches
  BY DEF EntryOK, Datum, Fetches
<1>2. b \in CacheEntry /\ b.loaded = q.loaded /\ b.data = q.data /\ b.fetch = "asked"
  BY <1>1 DEF Asked, CacheEntry
<1> HIDE DEF b
<1>3. EntryOK(list, g, b)
  BY <1>2 DEF EntryOK
<1> QED
  BY <1>2, <1>3 DEF b

\* An entry that is mounted without data is fetched.
LEMMA MountedOK ==
    ASSUME NEW list \in Lists, NEW g \in Guilds, NEW q, EntryOK(list, g, q)
    PROVE  /\ EntryOK(list, g, Mounted(q))
           /\ Mounted(q).loaded = q.loaded /\ Mounted(q).data = q.data
           /\ Mounted(q) = q \/ Mounted(q).fetch = "asked"
           /\ Mounted(q).fetch = "none" => q.loaded
BY AskedOK DEF Mounted

\* After a refetch a fetch is running, and one that was read before is blamed.
LEMMA RefetchedOK ==
    ASSUME NEW list \in Lists, NEW g \in Guilds, NEW q, EntryOK(list, g, q)
    PROVE  /\ EntryOK(list, g, Refetched(q))
           /\ Refetched(q).loaded = q.loaded /\ Refetched(q).data = q.data
           /\ Refetched(q).fetch # "none"
           /\ Refetched(q).fetch = "read" => Refetched(q).since # {}
<1>1. "joined the first load" \in Causes
  BY DEF Causes
<1>2. CASE q.fetch # "none" /\ ~q.loaded
  <2>1. CASE q.fetch = "read"
    BY <1>1, <1>2, <2>1, BlameOK DEF Refetched
  <2>2. CASE q.fetch # "read"
    BY <1>2, <2>2 DEF Refetched
  <2> QED
    BY <2>1, <2>2
<1>3. CASE ~(q.fetch # "none" /\ ~q.loaded)
  BY <1>3, AskedOK DEF Refetched
<1> QED
  BY <1>2, <1>3

\* An answer is loaded and has no cause against it.
LEMMA LoadedOK ==
    ASSUME NEW list \in Lists, NEW g \in Guilds, NEW d \in Data(list, g)
    PROVE  /\ EntryOK(list, g, Loaded(d)) /\ Loaded(d).loaded /\ Loaded(d).data = d
           /\ Loaded(d).fetch = "none" /\ Loaded(d).causes = {}
<1> DEFINE l == Loaded(d)
<1>1. d \in Datum /\ None \in Datum /\ "none" \in Fetches
  BY DataIsDatum DEF Datum, Fetches
<1>2. Unloaded \in CacheEntry /\ Unloaded.fetch = "none" /\ Unloaded.causes = {}
  BY <1>1 DEF Unloaded, CacheEntry
<1>3. l \in CacheEntry /\ l.loaded /\ l.data = d /\ l.fetch = "none" /\ l.causes = {}
  BY <1>1, <1>2 DEF Loaded, CacheEntry
<1> HIDE DEF l
<1>4. EntryOK(list, g, l)
  BY <1>3 DEF EntryOK
<1> QED
  BY <1>3, <1>4 DEF l

\* A patch replaces the rows and leaves the fetch as it is.
LEMMA PatchedOK ==
    ASSUME NEW list \in Lists, NEW g \in Guilds, NEW q, EntryOK(list, g, q), NEW rows \in Data(list, g)
    PROVE  /\ EntryOK(list, g, Patched(q, rows))
           /\ Patched(q, rows).loaded /\ Patched(q, rows).data = rows
           /\ Patched(q, rows).fetch = q.fetch /\ Patched(q, rows).answer = q.answer
           /\ Patched(q, rows).causes = q.causes
           /\ q.fetch = "read" => Patched(q, rows).since # {}
<1> DEFINE s == IF q.fetch = "read" THEN q.since \cup {"overwritten"} ELSE q.since
           b == Patched(q, rows)
<1>1. q \in CacheEntry /\ rows \in Datum
  BY DataIsDatum DEF EntryOK
<1>2. s \in SUBSET Causes
  BY <1>1 DEF CacheEntry, Causes
<1>3. b = [q EXCEPT !.loaded = TRUE, !.data = rows, !.fresh = TRUE, !.since = s]
  BY <1>1 DEF Patched, CacheEntry
<1> HIDE DEF b, s
<1>4. /\ b \in CacheEntry /\ b.loaded /\ b.data = rows /\ b.fetch = q.fetch /\ b.answer = q.answer
      /\ b.causes = q.causes /\ b.since = s
  BY <1>1, <1>2, <1>3 DEF CacheEntry
<1>5. q.fetch = "read" => b.since # {}
  BY <1>4 DEF s
<1>6. EntryOK(list, g, b)
  BY <1>4 DEF EntryOK
<1> QED
  BY <1>4, <1>5, <1>6 DEF b

\* One entry of the cache changes.
LEMMA OnListIs ==
    ASSUME QueryT, NEW list \in Lists, NEW g \in Guilds, NEW q, EntryOK(list, g, q), OnList(list, g, q)
    PROVE  /\ QueryT' /\ query'[list][g] = q
           /\ \A l \in Lists, h \in Guilds : l # list \/ h # g => query'[l][h] = query[l][h]
<1>1. query \in [Lists -> [Guilds -> CacheEntry]] /\ q \in CacheEntry
  BY DEF QueryT, EntryOK
<1>2. query' = [query EXCEPT ![list][g] = q]
  BY DEF OnList
<1>3. query' \in [Lists -> [Guilds -> CacheEntry]]
  BY <1>1, <1>2
<1>4. query'[list][g] = q
  BY <1>1, <1>2
<1>5. \A l \in Lists, h \in Guilds : l # list \/ h # g => query'[l][h] = query[l][h]
  BY <1>1, <1>2
<1>6. ASSUME NEW l \in Lists, NEW h \in Guilds
      PROVE  EntryOK(l, h, query'[l][h])
  BY <1>4, <1>5 DEF QueryT
<1>7. QueryT'
  BY <1>3, <1>6 DEF QueryT
<1> QED
  BY <1>4, <1>5, <1>7

-----------------------------------------------------------------------------
(* The server, its frames and the bound.                                     *)

\* What may still happen stays a number.
LEMMA SpendOK ==
    ASSUME left \in [Things -> Nat], NEW what \in Things, Spend(what)
    PROVE  left' \in [Things -> Nat]
BY DEF Spend

\* The number of channels of a guild is one: there are finitely many channels.
LEMMA CountIsNat ==
    ASSUME GuildsAssumption, NEW g
    PROVE  Count(g) \in Nat
<1> DEFINE S == {c \in Channels : GuildOf[c] = g /\ Exists(c)}
<1>1. IsFiniteSet(S)
  <2>1. S \subseteq Channels /\ IsFiniteSet(Channels)
    BY DEF GuildsAssumption
  <2> HIDE DEF S
  <2> QED
    BY <2>1, FS_Subset
<1> QED
  BY <1>1, FS_CardinalityType DEF Count

\* A sequence with one more element, index by index.
LEMMA AppendIs ==
    ASSUME NEW S, NEW s \in Seq(S), NEW e \in S, NEW t, t = Append(s, e)
    PROVE  /\ t \in Seq(S) /\ Len(t) = Len(s) + 1 /\ Len(s) \in Nat
           /\ DOMAIN t = 1..(Len(s) + 1) /\ DOMAIN s = 1..Len(s)
           /\ t[Len(s) + 1] = e
           /\ \A i \in 1..Len(s) : t[i] = s[i]
OBVIOUS

\* A sequence without its first element, index by index.
LEMMA TailIs ==
    ASSUME NEW S, NEW s \in Seq(S), s # <<>>, NEW t, t = Tail(s)
    PROVE  /\ t \in Seq(S) /\ Len(s) \in Nat \ {0} /\ Len(t) = Len(s) - 1
           /\ DOMAIN t = 1..(Len(s) - 1) /\ DOMAIN s = 1..Len(s)
           /\ Head(s) = s[1] /\ Head(s) \in S
           /\ \A i \in 1..(Len(s) - 1) : t[i] = s[i + 1]
OBVIOUS

\* A frame that is broadcast tells of its channel as the frames do.
LEMMA BroadcastOK ==
    ASSUME GuildsAssumption, WireT, NEW type \in ListTypes \cup MemberTypes, NEW g \in Guilds,
           NEW c \in Channels \cup {None},
           IF type \in ListTypes
           THEN c \in Here(g) /\ (type # "deleted" => place'[c] \in Nat) ELSE c = None,
           place' \in [Channels -> Nat \cup {None, Home}],
           Broadcast(type, g, c)
    PROVE  /\ WireT' /\ Frame(type, g, c) \in FrameT /\ FrameOK(Frame(type, g, c))
           /\ wire' = Append(wire, Frame(type, g, c))
<1> DEFINE f == Frame(type, g, c)
<1>1. /\ f.type = type /\ f.guild = g /\ f.channel = c
      /\ c # None => f.position = place'[c]
  BY DEF Frame
<1>2. (IF c = None THEN None ELSE place'[c]) \in Nat \cup {None, Home}
  OBVIOUS
<1>3. f \in FrameT
  BY <1>2 DEF FrameT, Frame
<1>4. FrameOK(f)
  BY <1>1 DEF FrameOK, Here, GuildsAssumption
<1>5. wire' = Append(wire, f)
  BY DEF Broadcast
<1> HIDE DEF f
<1>6. wire' \in Seq(FrameT) /\ \A i \in DOMAIN wire' : wire'[i] = f \/ (i \in DOMAIN wire /\ wire'[i] = wire[i])
  <2>1. wire \in Seq(FrameT)
    BY DEF WireT
  <2> QED
    BY <1>3, <1>5, <2>1, AppendIs
<1>7. \A i \in DOMAIN wire' : FrameOK(wire'[i])
  BY <1>4, <1>6 DEF WireT
<1> QED
  BY <1>3, <1>4, <1>5, <1>6, <1>7 DEF WireT, f

\* The server creates a channel.
LEMMA ServerCreatesOK ==
    ASSUME GuildsAssumption, ServerT, WireT, NEW c \in Channels, ServerCreates(c)
    PROVE  /\ place' \in [Channels -> Nat \cup {None, Home}] /\ place'[c] \in Nat
           /\ roster' = roster /\ WireT'
<1>1. Count(GuildOf[c]) \in Nat
  BY CountIsNat
<1>2. place' \in [Channels -> Nat \cup {None, Home}] /\ place'[c] \in Nat /\ roster' = roster
  BY <1>1 DEF ServerCreates, ServerT
<1>3. c \in Here(GuildOf[c]) /\ GuildOf[c] \in Guilds /\ "created" \in ListTypes
  BY DEF Here, GuildsAssumption, ListTypes
<1> QED
  BY <1>2, <1>3, BroadcastOK DEF ServerCreates

\* The server deletes a channel.
LEMMA ServerDeletesOK ==
    ASSUME GuildsAssumption, ServerT, WireT, NEW c \in Channels, ServerDeletes(c)
    PROVE  /\ place' \in [Channels -> Nat \cup {None, Home}]
           /\ roster' = roster /\ WireT'
<1>2. place' \in [Channels -> Nat \cup {None, Home}] /\ roster' = roster
  BY DEF ServerDeletes, ServerT
<1>3. c \in Here(GuildOf[c]) /\ GuildOf[c] \in Guilds /\ "deleted" \in ListTypes
  BY DEF Here, GuildsAssumption, ListTypes
<1> QED
  BY <1>2, <1>3, BroadcastOK DEF ServerDeletes

\* The server moves a channel.
LEMMA ServerMovesOK ==
    ASSUME GuildsAssumption, ServerT, WireT, NEW c \in Channels, NEW p \in Nat, ServerMoves(c, p)
    PROVE  /\ place' \in [Channels -> Nat \cup {None, Home}]
           /\ roster' = roster /\ WireT'
<1>2. place' \in [Channels -> Nat \cup {None, Home}] /\ roster' = roster /\ place'[c] \in Nat
  BY DEF ServerMoves, ServerT
<1>3. c \in Here(GuildOf[c]) /\ GuildOf[c] \in Guilds /\ "moved" \in ListTypes
  BY DEF Here, GuildsAssumption, ListTypes
<1> QED
  BY <1>2, <1>3, BroadcastOK DEF ServerMoves

\* A frame is taken from the wire.
LEMMA HeadIs ==
    ASSUME WireT, NEW type, Head1(type)
    PROVE  /\ Head(wire) \in FrameT /\ FrameOK(Head(wire)) /\ Head(wire).type = type
           /\ wire' = Tail(wire) /\ wire # <<>> /\ wire \in Seq(FrameT)
           /\ (\A i \in DOMAIN wire : FrameOK(wire[i]))' /\ wire' \in Seq(FrameT)
           /\ WireT'
<1>1. wire # <<>> /\ Head(wire).type = type /\ wire' = Tail(wire) /\ wire \in Seq(FrameT)
  BY DEF Head1, WireT
<1>2. /\ wire' \in Seq(FrameT) /\ Head(wire) \in FrameT /\ Head(wire) = wire[1]
      /\ 1 \in DOMAIN wire
      /\ \A i \in DOMAIN wire' : i + 1 \in DOMAIN wire /\ wire'[i] = wire[i + 1]
  BY <1>1, TailIs
<1>3. FrameOK(Head(wire)) /\ \A i \in DOMAIN wire' : FrameOK(wire'[i])
  BY <1>2 DEF WireT
<1>4. WireT'
  BY <1>2, <1>3 DEF WireT
<1> QED
  BY <1>1, <1>2, <1>3, <1>4

\* The list of the server is one that an entry may hold.
LEMMA TruthIsData ==
    ASSUME GuildsAssumption, ServerT, NEW list \in Lists, NEW g \in Guilds
    PROVE  Truth(list, g) \in Data(list, g)
<1>1. CASE list = "members"
  BY <1>1 DEF Truth, Data, ServerT
<1>2. CASE list # "members"
  <2> DEFINE T == {Row(c, place[c]) : c \in {d \in Channels : GuildOf[d] = g /\ Exists(d)}}
  <2>1. ASSUME NEW r \in T
        PROVE  r \in [id : Here(g), position : Nat]
    <3>1. PICK c \in Channels : GuildOf[c] = g /\ Exists(c) /\ r = Row(c, place[c])
      BY <2>1
    <3> QED
      BY <3>1 DEF Row, Here, Exists
  <2>2. Truth(list, g) = T
    BY <1>2 DEF Truth
  <2> HIDE DEF T
  <2> QED
    BY <1>2, <2>1, <2>2 DEF Data, RowsOf
<1> QED
  BY <1>1, <1>2

\* The rows that the handlers patch are rows of the guild.
LEMMA RowsAreRows ==
    ASSUME QueryT, NEW g \in Guilds
    PROVE  Rows(g) \in RowsOf(g) /\ Rows(g) \in Data("channels", g)
<1>1. EntryOK("channels", g, query["channels"][g])
  BY DEF QueryT, Lists
<1>2. Rows(g) \in RowsOf(g)
  BY <1>1 DEF Rows, EntryOK, Data, RowsOf
<1> QED
  BY <1>2 DEF Data

\* What a frame makes of the rows of its own guild.
LEMMA FrameRowsOK ==
    ASSUME NEW g \in Guilds, NEW rows \in RowsOf(g), NEW f \in FrameT, f.channel \in Here(g),
           f.type # "deleted" => f.position \in Nat
    PROVE  /\ f.type # "deleted" => OnCreated(f, rows) \in RowsOf(g) /\ OnMoved(f, rows) \in RowsOf(g)
           /\ OnDeleted(f, rows) \in RowsOf(g)
<1>1. \A r \in rows : r \in [id : Here(g), position : Nat]
  BY DEF RowsOf
<1>2. OnDeleted(f, rows) \in RowsOf(g)
  BY <1>1 DEF OnDeleted, RowsOf
<1>3. ASSUME f.type # "deleted"
      PROVE  OnCreated(f, rows) \in RowsOf(g) /\ OnMoved(f, rows) \in RowsOf(g)
  <2>1. \A c \in Here(g) : Row(c, f.position) \in [id : Here(g), position : Nat]
    BY <1>3 DEF Row
  <2>2. OnCreated(f, rows) \in RowsOf(g)
    BY <1>1, <2>1 DEF OnCreated, RowsOf
  <2>3. OnMoved(f, rows) \in RowsOf(g)
    BY <1>1, <2>1 DEF OnMoved, RowsOf
  <2> QED
    BY <2>2, <2>3
<1> QED
  BY <1>2, <1>3

-----------------------------------------------------------------------------
(* The shape of the state is kept, action by action.                         *)

\* The type of the server, while it does not change.
LEMMA ServerStays ==
    ASSUME ServerT, place' = place, roster' = roster, left' \in [Things -> Nat]
    PROVE  ServerT'
BY DEF ServerT
\* The type of the frames, while they do not change.
LEMMA WireStays ==
    ASSUME WireT, wire' = wire
    PROVE  WireT'
BY DEF WireT
\* The type of the cache, while it does not change.
LEMMA QueryStays ==
    ASSUME QueryT, query' = query
    PROVE  QueryT'
BY DEF QueryT
\* The type of the requests, while they do not change.
LEMMA TasksStay ==
    ASSUME TasksT, task' = task
    PROVE  TasksT'
BY DEF TasksT
\* The type of the screen, while it does not change.
LEMMA ScreenStays ==
    ASSUME ScreenT, UNCHANGED <<timer, removal, screen>>
    PROVE  ScreenT'
BY DEF ScreenT, screen

\* The effect and the guard name voice channels.
LEMMA RenderedOK ==
    ASSUME GuildsAssumption, NEW joined \in Calls, NEW guard \in Calls, Rendered(joined, guard)
    PROVE  joinedVoice' \in Calls /\ voluntarilyLeft' \in Calls
<1> DEFINE w == Viewed(route', query')
<1>1. /\ joinedVoice' = w \/ joinedVoice' = joined
      /\ joinedVoice' = w => w \in Voice \/ joinedVoice' = joined
      /\ voluntarilyLeft' = guard \/ voluntarilyLeft' = None
  BY RenderedIs
<1> HIDE DEF w
<1> QED
  BY <1>1 DEF Calls

\* refetchMembers touches the members of one guild.
LEMMA MembersRefetchedOK ==
    ASSUME QueryT, NEW g \in Guilds, MembersRefetched(g)
    PROVE  /\ QueryT'
           /\ \A h \in Guilds : query'["channels"][h] = query["channels"][h]
           /\ \A h \in Guilds : h # g => query'["members"][h] = query["members"][h]
           /\ query'["members"][g] = IF route.guild = g THEN Refetched(query["members"][g])
                                     ELSE Blame(query["members"][g], "away")
<1> DEFINE q == query["members"][g]
           b == IF route.guild = g THEN Refetched(q) ELSE Blame(q, "away")
<1>1. "members" \in Lists /\ "channels" \in Lists /\ "away" \in Causes
  BY DEF Lists, Causes
<1>2. EntryOK("members", g, q)
  BY <1>1 DEF QueryT
<1>3. EntryOK("members", g, b)
  BY <1>1, <1>2, RefetchedOK, BlameOK
<1>4. OnList("members", g, b)
  BY DEF MembersRefetched
<1> HIDE DEF b
<1> QED
  BY <1>1, <1>3, <1>4, OnListIs DEF b

\* A change of the server alone leaves the client typed.
LEMMA ClientRestTyped ==
    ASSUME Typed, UNCHANGED ClientRest
    PROVE  QueryT' /\ TasksT' /\ ScreenT'
<1>1. query' = query /\ task' = task /\ UNCHANGED <<timer, removal, screen>>
  BY DEF ClientRest
<1> QED
  BY <1>1, QueryStays, TasksStay, ScreenStays DEF Typed

\* Each thing that may happen is one of them.
LEMMA ThingsAre ==
    /\ "creates" \in Things /\ "deletes" \in Things /\ "moves" \in Things /\ "joins" \in Things
    /\ "kicks" \in Things /\ "drops" \in Things /\ "failures" \in Things /\ "own creates" \in Things
    /\ "own deletes" \in Things /\ "drags" \in Things /\ "clicks" \in Things
    /\ "hang-ups" \in Things /\ "ages" \in Things
BY DEF Things

\* The changes of other users keep the types.
LEMMA OthersTyped ==
    ASSUME GuildsAssumption, Typed, NEW c \in Channels, NEW p \in Nat,
           OtherCreates(c) \/ OtherDeletes(c) \/ OtherMoves(c, p)
    PROVE  Typed'
<1>1. left' \in [Things -> Nat] /\ UNCHANGED ClientRest
  BY SpendOK, ThingsAre DEF OtherCreates, OtherDeletes, OtherMoves, Typed, ServerT
<1>2. place' \in [Channels -> Nat \cup {None, Home}] /\ roster' = roster /\ WireT'
  BY ServerCreatesOK, ServerDeletesOK, ServerMovesOK DEF OtherCreates, OtherDeletes, OtherMoves, Typed
<1>3. ServerT'
  BY <1>1, <1>2 DEF Typed, ServerT
<1> QED
  BY <1>1, <1>2, <1>3, ClientRestTyped DEF Typed

\* A change of the members keeps the types.
LEMMA MembersChangeTyped ==
    ASSUME GuildsAssumption, Typed, NEW g \in Guilds, NEW type \in FramesOf.members, MembersChange(g, type)
    PROVE  Typed'
<1>1. left' \in [Things -> Nat] /\ UNCHANGED ClientRest /\ place' = place
  BY SpendOK, ThingsAre DEF MembersChange, Typed, ServerT
<1>2. roster' \in [Guilds -> Nat] /\ ServerT'
  BY <1>1 DEF MembersChange, Typed, ServerT
<1>3. type \in MemberTypes /\ type \notin ListTypes
  BY DEF FramesOf, MemberTypes, ListTypes
<1>4. WireT'
  BY <1>2, <1>3, BroadcastOK DEF MembersChange, Typed, ServerT
<1> QED
  BY <1>1, <1>2, <1>4, ClientRestTyped DEF Typed

\* The removal of the user keeps the types.
LEMMA KickTyped ==
    ASSUME GuildsAssumption, Typed, NEW g \in Guilds, Kick(g)
    PROVE  Typed'
<1>1. left' \in [Things -> Nat] /\ place' = place /\ roster' = roster /\ query' = query /\ task' = task
  BY SpendOK, ThingsAre DEF Kick, Typed, ServerT
<1>2. ServerT'
  BY <1>1, ServerStays DEF Typed
<1>3. "kicked" \in MemberTypes /\ "kicked" \notin ListTypes
  BY DEF MemberTypes, ListTypes
<1>4. WireT'
  BY <1>2, <1>3, BroadcastOK DEF Kick, Typed, ServerT
<1>5. ScreenT'
  BY DEF Kick, Typed, ScreenT, screen
<1> QED
  BY <1>1, <1>2, <1>4, <1>5, QueryStays, TasksStay DEF Typed

\* A map of the whole cache.
LEMMA DropIs ==
    ASSUME Typed, Drop
    PROVE  /\ QueryT'
           /\ \A l \in Lists, g \in Guilds :
                 query'[l][g] = IF \E i \in DOMAIN wire : wire[i].guild = g /\ wire[i].type \in FramesOf[l]
                                THEN Blame(query[l][g], "missed") ELSE query[l][g]
<1> DEFINE New(l, g) == IF \E i \in DOMAIN wire : wire[i].guild = g /\ wire[i].type \in FramesOf[l]
                        THEN Blame(query[l][g], "missed") ELSE query[l][g]
<1>1. query' = [l \in Lists |-> [g \in Guilds |-> New(l, g)]]
  BY DEF Drop
<1>2. \A l \in Lists, g \in Guilds : EntryOK(l, g, New(l, g)) /\ New(l, g) \in CacheEntry
  <2>1. "missed" \in Causes
    BY DEF Causes
  <2> SUFFICES ASSUME NEW l \in Lists, NEW g \in Guilds
               PROVE  EntryOK(l, g, New(l, g)) /\ New(l, g) \in CacheEntry
    OBVIOUS
  <2>2. EntryOK(l, g, query[l][g])
    BY DEF Typed, QueryT
  <2>3. EntryOK(l, g, New(l, g))
    BY <2>1, <2>2, BlameOK
  <2> QED
    BY <2>3 DEF EntryOK
<1> HIDE DEF New
<1>3. \A l \in Lists, g \in Guilds : query'[l][g] = New(l, g)
  BY <1>1
<1>4. query' \in [Lists -> [Guilds -> CacheEntry]]
  BY <1>1, <1>2
<1>5. QueryT'
  BY <1>2, <1>3, <1>4 DEF QueryT
<1> QED
  BY <1>3, <1>5 DEF New

\* A lost connection keeps the types.
LEMMA DropTyped ==
    ASSUME Typed, Drop
    PROVE  Typed'
<1>1. left' \in [Things -> Nat]
  BY SpendOK, ThingsAre DEF Drop, Typed, ServerT
<1>2. WireT'
  BY DEF Drop, WireT
<1> QED
  BY <1>1, <1>2, DropIs, ServerStays, TasksStay, ScreenStays DEF Typed, Drop

\* What the server's reading, ten seconds, and a failure do to an entry.
CacheStep(list, g, q, r) ==
    \/ r.fetch = "read" /\ r.answer = Truth(list, g)
    \/ r.fetch = q.fetch /\ r.answer = q.answer /\ r.causes = q.causes /\ r.since = q.since
    \/ r.fetch = "none" /\ r.causes # {}

\* What the steps of a fetch, and ten seconds, do to the cache.
LEMMA CacheTyped ==
    ASSUME GuildsAssumption, Typed, NEW list \in Lists, NEW g \in Guilds,
           ServerReads(list, g) \/ Ages(list, g) \/ FetchFails(list, g)
    PROVE  /\ Typed'
           /\ \A h \in Guilds : /\ query'["channels"][h].loaded = query["channels"][h].loaded
                                /\ query'["channels"][h].data = query["channels"][h].data
           /\ query'[list][g].loaded = query[list][g].loaded /\ query'[list][g].data = query[list][g].data
           /\ CacheStep(list, g, query[list][g], query'[list][g])
           /\ \A l \in Lists, h \in Guilds : l # list \/ h # g => query'[l][h] = query[l][h]
<1> DEFINE q == query[list][g]
<1>1. EntryOK(list, g, q) /\ q \in CacheEntry
  BY DEF Typed, QueryT, EntryOK
<1>2. left' \in [Things -> Nat] /\ UNCHANGED <<server, timer, task, removal, screen>>
  BY SpendOK, ThingsAre DEF ServerReads, Ages, FetchFails, Typed, ServerT
<1>3. \E r \in CacheEntry : /\ EntryOK(list, g, r) /\ OnList(list, g, r) /\ r.loaded = q.loaded /\ r.data = q.data
                    /\ CacheStep(list, g, q, r)
  <2>1. CASE ServerReads(list, g)
    <3> DEFINE r == [q EXCEPT !.fetch = "read", !.answer = Truth(list, g), !.since = {}]
    <3>1. Truth(list, g) \in Data(list, g) /\ Truth(list, g) \in Datum /\ "read" \in Fetches
      BY TruthIsData, DataIsDatum DEF Typed, Fetches
    <3>2. /\ r \in CacheEntry /\ r.loaded = q.loaded /\ r.data = q.data
          /\ r.answer = Truth(list, g) /\ r.fetch = "read"
      BY <1>1, <3>1 DEF CacheEntry
    <3>3. OnList(list, g, r)
      BY <2>1 DEF ServerReads
    <3> HIDE DEF r
    <3>4. EntryOK(list, g, r)
      BY <1>1, <3>1, <3>2 DEF EntryOK
    <3> QED
      BY <3>2, <3>3, <3>4 DEF CacheStep
  <2>2. CASE Ages(list, g)
    <3> DEFINE r == [q EXCEPT !.fresh = FALSE]
    <3>1. /\ r \in CacheEntry /\ r.loaded = q.loaded /\ r.data = q.data
          /\ r.answer = q.answer /\ r.fetch = q.fetch /\ r.causes = q.causes /\ r.since = q.since
      BY <1>1 DEF CacheEntry
    <3>2. OnList(list, g, r)
      BY <2>2 DEF Ages
    <3> HIDE DEF r
    <3>3. EntryOK(list, g, r)
      BY <1>1, <3>1 DEF EntryOK
    <3> QED
      BY <3>1, <3>2, <3>3 DEF CacheStep
  <2>3. CASE FetchFails(list, g)
    <3> DEFINE b == Blame(q, "failed")
               r == [b EXCEPT !.fetch = "none", !.answer = None, !.since = {}]
    <3> "failed" \in Causes
      BY DEF Causes
    <3>1. /\ EntryOK(list, g, b) /\ b.loaded = q.loaded /\ b.data = q.data /\ b.causes # {}
      BY <1>1, BlameOK
    <3>2. OnList(list, g, r)
      BY <2>3 DEF FetchFails
    <3> HIDE DEF b
    <3>3. b \in CacheEntry /\ None \in Datum /\ "none" \in Fetches
      BY <3>1 DEF EntryOK, Datum, Fetches
    <3>4. r \in CacheEntry /\ r.loaded = b.loaded /\ r.data = b.data /\ r.fetch = "none" /\ r.causes = b.causes
      BY <3>3 DEF CacheEntry
    <3> HIDE DEF r
    <3>5. EntryOK(list, g, r)
      BY <3>1, <3>4 DEF EntryOK
    <3> QED
      BY <3>1, <3>2, <3>4, <3>5 DEF CacheStep
  <2> QED
    BY <2>1, <2>2, <2>3
<1>4. PICK r \in CacheEntry : /\ EntryOK(list, g, r) /\ OnList(list, g, r) /\ r.loaded = q.loaded /\ r.data = q.data
                    /\ CacheStep(list, g, q, r)
  BY <1>3
<1>5. /\ QueryT' /\ query'[list][g] = r
      /\ \A l \in Lists, h \in Guilds : l # list \/ h # g => query'[l][h] = query[l][h]
  BY <1>4, OnListIs DEF Typed
<1>6. ASSUME NEW h \in Guilds
      PROVE  /\ query'["channels"][h].loaded = query["channels"][h].loaded
             /\ query'["channels"][h].data = query["channels"][h].data
  <2>1. "channels" \in Lists
    BY DEF Lists
  <2> QED
    BY <1>4, <1>5, <2>1
<1>7. Typed'
  BY <1>2, <1>5, ServerStays, WireStays, TasksStay, ScreenStays DEF Typed, server
<1> QED
  BY <1>4, <1>5, <1>6, <1>7

\* What an answer does to the cache.
LEMMA AnswersTyped ==
    ASSUME GuildsAssumption, Typed, NEW list \in Lists, NEW g \in Guilds, Answers(list, g)
    PROVE  /\ Typed'
           /\ query[list][g].fetch = "read"
           /\ query'[list][g].loaded /\ query'[list][g].data = query[list][g].answer
           /\ query'[list][g].fetch = "none" /\ query'[list][g].causes = query[list][g].since
           /\ \A l \in Lists, h \in Guilds : l # list \/ h # g => query'[l][h] = query[l][h]
<1> DEFINE q == query[list][g]
           d == q.answer
           since == q.since
           r == [Loaded(d) EXCEPT !.causes = since]
<1>1. q.fetch = "read" /\ EntryOK(list, g, q) /\ q \in CacheEntry
  BY DEF Answers, Typed, QueryT, EntryOK
<1>2. d \in Data(list, g) /\ since \in SUBSET Causes
  BY <1>1 DEF EntryOK, CacheEntry
<1>3. EntryOK(list, g, r) /\ r.loaded /\ r.data = d /\ r.fetch = "none" /\ r.causes = since
  <2> DEFINE l == Loaded(d)
  <2> HIDE DEF d, since
  <2>1. EntryOK(list, g, l) /\ l.loaded /\ l.data = d /\ l.fetch = "none"
    BY <1>2, LoadedOK
  <2>2. r = [l EXCEPT !.causes = since]
    OBVIOUS
  <2> HIDE DEF l, r
  <2>3. r \in CacheEntry /\ r.loaded /\ r.data = d /\ r.fetch = "none" /\ r.causes = since
    BY <1>2, <2>1, <2>2 DEF EntryOK, CacheEntry
  <2> QED
    BY <1>2, <2>3 DEF EntryOK
<1>4. OnList(list, g, r) /\ UNCHANGED <<server, timer, task, removal, left>> /\ Quietly
  BY DEF Answers
<1> HIDE DEF r
<1>5. /\ QueryT' /\ query'[list][g] = r
      /\ \A l \in Lists, h \in Guilds : l # list \/ h # g => query'[l][h] = query[l][h]
  BY <1>3, <1>4, OnListIs DEF Typed
<1>6. ScreenT'
  BY <1>4, RenderedOK DEF Quietly, Typed, ScreenT
<1> QED
  BY <1>1, <1>3, <1>4, <1>5, <1>6, ServerStays, WireStays, TasksStay DEF Typed, ServerT, server

\* What a frame does to the channel list.
LEMMA ChannelFrameIs ==
    ASSUME GuildsAssumption, Typed, NEW type \in ListTypes, OnChannelFrame(type)
    PROVE  LET f == Head(wire)
               q == query["channels"][f.guild]
               rows == Rows(f.guild)
           IN  /\ f.guild \in Guilds /\ f.channel \in Here(f.guild) /\ f.type = type
               /\ QueryT'
               /\ \A h \in Guilds : query'["members"][h] = query["members"][h]
               /\ \A h \in Guilds : h # f.guild => query'["channels"][h] = query["channels"][h]
               /\ query'["channels"][f.guild] =
                     IF f.guild = route.guild
                     THEN Patched(q, IF type = "created" THEN OnCreated(f, rows)
                                     ELSE IF type = "deleted" THEN OnDeleted(f, rows) ELSE OnMoved(f, rows))
                     ELSE Blame(q, "away")
<1> DEFINE f == Head(wire)
           g == f.guild
           q == query["channels"][g]
           rows == Rows(g)
           new == IF type = "created" THEN OnCreated(f, rows)
                  ELSE IF type = "deleted" THEN OnDeleted(f, rows) ELSE OnMoved(f, rows)
           b == IF g = route.guild THEN Patched(q, new) ELSE Blame(q, "away")
<1>1. f \in FrameT /\ FrameOK(f) /\ f.type = type
  BY HeadIs DEF OnChannelFrame, Typed
<1>2. g \in Guilds /\ f.channel \in Here(g) /\ (type # "deleted" => f.position \in Nat)
  BY <1>1 DEF FrameT, FrameOK
<1>3. "channels" \in Lists /\ "members" \in Lists /\ "away" \in Causes
  BY DEF Lists, Causes
<1>4. EntryOK("channels", g, q)
  BY <1>2, <1>3 DEF Typed, QueryT
<1>5. rows \in RowsOf(g)
  BY <1>2, RowsAreRows DEF Typed
<1> HIDE DEF f, rows
<1>6. new \in RowsOf(g)
  <2>1. type = "created" \/ type = "deleted" \/ type = "moved"
    BY DEF ListTypes
  <2> QED
    BY <1>1, <1>2, <1>5, <2>1, FrameRowsOK
<1>7. new \in Data("channels", g)
  BY <1>6 DEF Data
<1>8. OnList("channels", g, b)
  <2>1. type = "created" \/ type = "deleted" \/ type = "moved"
    BY DEF ListTypes
  <2>2. CASE g = route.guild
    BY <2>1, <2>2 DEF OnChannelFrame, EventBelongsToServer, f, rows
  <2>3. CASE g # route.guild
    BY <2>3 DEF OnChannelFrame, EventBelongsToServer, f
  <2> QED
    BY <2>2, <2>3
<1> HIDE DEF new
<1>9. EntryOK("channels", g, b)
  BY <1>2, <1>3, <1>4, <1>7, PatchedOK, BlameOK
<1> HIDE DEF b
<1>10. /\ QueryT' /\ query'["channels"][g] = b
       /\ \A l \in Lists, h \in Guilds : l # "channels" \/ h # g => query'[l][h] = query[l][h]
  BY <1>2, <1>3, <1>8, <1>9, OnListIs DEF Typed
<1>11. /\ \A h \in Guilds : query'["members"][h] = query["members"][h]
       /\ \A h \in Guilds : h # g => query'["channels"][h] = query["channels"][h]
  BY <1>3, <1>10
<1>12. query'["channels"][g] = b
  BY <1>10
<1> QED
  BY <1>1, <1>2, <1>10, <1>11, <1>12 DEF b, new, f, rows

\* A channel frame keeps the types.
LEMMA ChannelFrameTyped ==
    ASSUME GuildsAssumption, Typed, NEW type \in ListTypes, OnChannelFrame(type)
    PROVE  Typed'
<1>1. QueryT'
  BY ChannelFrameIs
<1>2. WireT'
  BY HeadIs DEF OnChannelFrame, Typed
<1>3. UNCHANGED <<place, roster, timer, task, removal, left>> /\ Quietly
  BY DEF OnChannelFrame
<1>4. ScreenT'
  BY <1>3, RenderedOK DEF Quietly, Typed, ScreenT
<1> QED
  BY <1>1, <1>2, <1>3, <1>4, ServerStays, TasksStay DEF Typed, ServerT

\* The frames about members keep the types and touch no channel list.
LEMMA MemberFramesTyped ==
    ASSUME GuildsAssumption, Typed, NEW g \in Guilds,
           OnModeration \/ OnMemberJoined \/ OnSelfRemoved \/ TimerFires(g)
    PROVE  /\ Typed'
           /\ \A h \in Guilds : query'["channels"][h] = query["channels"][h]
<1>1. CASE OnModeration
  <2>1. Head(wire).guild \in Guilds /\ WireT'
    BY <1>1, HeadIs DEF OnModeration, Typed, FrameT
  <2>2. MembersRefetched(Head(wire).guild)
    BY <1>1 DEF OnModeration
  <2>3. QueryT' /\ \A h \in Guilds : query'["channels"][h] = query["channels"][h]
    BY <2>1, <2>2, MembersRefetchedOK DEF Typed
  <2> QED
    BY <1>1, <2>1, <2>3, ServerStays, TasksStay, ScreenStays DEF Typed, ServerT, OnModeration
<1>2. CASE OnMemberJoined
  <2>1. Head(wire).guild \in Guilds /\ WireT'
    BY <1>2, HeadIs DEF OnMemberJoined, Typed, FrameT
  <2>2. ScreenT'
    BY <1>2, <2>1 DEF OnMemberJoined, Typed, ScreenT, screen
  <2> QED
    BY <1>2, <2>1, <2>2, ServerStays, QueryStays, TasksStay DEF Typed, ServerT, OnMemberJoined
<1>3. CASE OnSelfRemoved
  <2>1. Head(wire).guild \in Guilds /\ WireT'
    BY <1>3, HeadIs DEF OnSelfRemoved, Typed, FrameT
  <2>2. ScreenT'
    BY <1>3, <2>1 DEF OnSelfRemoved, Typed, ScreenT, screen
  <2> QED
    BY <1>3, <2>1, <2>2, ServerStays, QueryStays, TasksStay DEF Typed, ServerT, OnSelfRemoved
<1>4. CASE TimerFires(g)
  <2>1. QueryT' /\ \A h \in Guilds : query'["channels"][h] = query["channels"][h]
    BY <1>4, MembersRefetchedOK DEF TimerFires, Typed
  <2>2. ScreenT'
    BY <1>4 DEF TimerFires, Typed, ScreenT, screen
  <2> QED
    BY <1>4, <2>1, <2>2, ServerStays, WireStays, TasksStay DEF Typed, ServerT, TimerFires, server
<1> QED
  BY <1>1, <1>2, <1>3, <1>4

\* The end of a removal keeps the types and touches no channel list.
LEMMA SelfRemovalTyped ==
    ASSUME GuildsAssumption, Typed, NEW g \in Guilds, SelfRemovalEnds(g)
    PROVE  /\ Typed'
           /\ \A h \in Guilds : query'["channels"][h] = query["channels"][h]
<1>1. QueryT' /\ \A h \in Guilds : query'["channels"][h] = query["channels"][h]
  BY MembersRefetchedOK DEF SelfRemovalEnds, Typed
<1>2. joinedVoice \in Calls /\ voluntarilyLeft \in Calls /\ None \in Calls
  BY DEF Typed, ScreenT, Calls
<1>3. joinedVoice' \in Calls /\ voluntarilyLeft' \in Calls
  BY <1>2, RenderedOK DEF SelfRemovalEnds
<1>4. At(Home, Log) \in Pages
  BY AtIsPage
<1>5. nav' \in Pages \cup {None} /\ route' \in Pages /\ wanted' \in Calls
  BY <1>2, <1>4 DEF SelfRemovalEnds, Typed, ScreenT
<1>6. removal' \in [Guilds -> {"no", "told", "cleaning", "done", "back"}] /\ timer' = timer
  BY DEF SelfRemovalEnds, Typed, ScreenT
<1>7. ScreenT'
  BY <1>3, <1>5, <1>6 DEF Typed, ScreenT
<1> QED
  BY <1>1, <1>7, ServerStays, WireStays, TasksStay DEF Typed, ServerT, SelfRemovalEnds, server

-----------------------------------------------------------------------------
(* The user's own requests.                                                  *)

\* A request of a channel of its guild.
LEMMA AsksOK ==
    ASSUME GuildsAssumption, NEW kind \in {"create", "delete"}, NEW c \in Channels
    PROVE  /\ Asks(kind, GuildOf[c], c) \in TaskSet /\ TaskOK(kind, Asks(kind, GuildOf[c], c))
           /\ Asks(kind, GuildOf[c], c).at = "asked"
<1> DEFINE t == Asks(kind, GuildOf[c], c)
<1>1. GuildOf[c] \in Guilds /\ c \in Here(GuildOf[c])
  BY DEF GuildsAssumption, Here
<1>2. t \in TaskSet /\ t.at = "asked" /\ t.of = c /\ t.guild = GuildOf[c]
  BY <1>1 DEF Asks, TaskSet
<1> HIDE DEF t
<1>3. TaskOK(kind, t)
  BY <1>1, <1>2 DEF TaskOK
<1> QED
  BY <1>2, <1>3 DEF t

\* No request.
LEMMA IdleOK ==
    ASSUME NEW kind
    PROVE  Idle \in TaskSet /\ TaskOK(kind, Idle) /\ Idle.at = "idle" /\ Idle.guild = None
<1>1. Idle \in TaskSet /\ Idle.at = "idle" /\ Idle.guild = None
  BY DEF Idle, TaskSet
<1> HIDE DEF Idle
<1> QED
  BY <1>1 DEF TaskOK

\* One request changes.
LEMMA TaskSetTo ==
    ASSUME TasksT, NEW kind \in Kinds, NEW t \in TaskSet, TaskOK(kind, t), task' = [task EXCEPT ![kind] = t]
    PROVE  TasksT' /\ task'[kind] = t /\ \A k \in Kinds : k # kind => task'[k] = task[k]
<1>1. task' \in [Kinds -> TaskSet] /\ task'[kind] = t /\ \A k \in Kinds : k # kind => task'[k] = task[k]
  BY DEF TasksT
<1> QED
  BY <1>1 DEF TasksT

\* A row of a guild is one of its channels.
LEMMA ChannelOfRows ==
    ASSUME GuildsAssumption, QueryT, NEW g \in Guilds, NEW c \in Ids(Rows(g))
    PROVE  c \in Here(g) /\ c \in Channels /\ GuildOf[c] = g
<1>1. PICK r \in Rows(g) : r.id = c
  BY DEF Ids
<1>2. r \in [id : Here(g), position : Nat]
  BY <1>1, RowsAreRows DEF RowsOf
<1> QED
  BY <1>1, <1>2 DEF Here

\* A request that begins changes nothing but the requests.
LEMMA AskTyped ==
    ASSUME GuildsAssumption, Typed, NEW c \in Channels, CreateChannel(c) \/ DeleteChannel(c)
    PROVE  /\ Typed' /\ query' = query /\ UNCHANGED screen
<1>1. /\ left' \in [Things -> Nat] /\ UNCHANGED <<server, timer, removal, screen, query>>
      /\ route.guild = GuildOf[c]
  BY SpendOK, ThingsAre DEF CreateChannel, DeleteChannel, Typed, ServerT
<1>2. PICK kind \in {"create", "delete"} : Begin(kind, Asks(kind, GuildOf[c], c))
  BY <1>1 DEF CreateChannel, DeleteChannel
<1>3. TasksT'
  BY <1>2, AsksOK, TaskSetTo DEF Begin, Kinds, Typed
<1> QED
  BY <1>1, <1>3, ServerStays, WireStays, QueryStays, ScreenStays DEF Typed, server

\* What a request does on the server.
LEMMA TaskEffectIs ==
    ASSUME GuildsAssumption, Typed, NEW kind \in Kinds, TaskEffect(kind)
    PROVE  LET t == task[kind]
               u == task'[kind]
           IN  /\ t.at = "asked" /\ ~Refused(kind) /\ t.guild \in Guilds /\ t.of \in Here(t.guild) /\ t.of \in Channels
               /\ u.at = "done" /\ u.of = t.of /\ u.guild = t.guild
               /\ kind = "create" => ServerCreates(t.of) /\ u.todo = <<Row(t.of, place'[t.of])>>
               /\ kind = "delete" => ServerDeletes(t.of) /\ u.todo = t.todo
               /\ kind = "drag" =>
                     /\ ServerMoves(t.of, Head(t.todo).position) /\ u.todo = t.todo
                     /\ Head(t.todo) \in AnyRow
               /\ \A k \in Kinds : k # kind => task'[k] = task[k]
               /\ Typed' /\ query' = query /\ UNCHANGED screen
<1> DEFINE t == task[kind]
           todo == IF kind = "create" THEN <<Row(t.of, place'[t.of])>> ELSE t.todo
           u == [t EXCEPT !.at = "done", !.todo = todo]
<1>1. /\ t \in TaskSet /\ TaskOK(kind, t) /\ t.at = "asked" /\ ~Refused(kind)
      /\ UNCHANGED <<timer, removal, screen, query, left>>
  BY DEF Typed, TasksT, TaskEffect
<1>2. t.guild \in Guilds /\ t.of \in Here(t.guild) /\ t.of \in Channels /\ t.todo \in Seq(AnyRow)
  BY <1>1 DEF TaskOK, Here, TaskSet
<1>3. task' = [task EXCEPT ![kind] = u]
  BY <1>1 DEF TaskEffect, Typed, TasksT, TaskSet
<1>4. /\ kind = "create" => ServerCreates(t.of)
      /\ kind = "delete" => ServerDeletes(t.of)
      /\ kind = "drag" => ServerMoves(t.of, Head(t.todo).position)
  BY DEF TaskEffect, Kinds
<1>5. kind = "drag" => t.todo # <<>> /\ Head(t.todo) \in AnyRow /\ Head(t.todo).position \in Nat
  <2>1. kind = "drag" => t.todo # <<>>
    BY <1>1 DEF TaskOK
  <2>2. kind = "drag" => Head(t.todo) \in AnyRow
    BY <1>2, <2>1
  <2>3. \A r \in AnyRow : r.position \in Nat
    BY DEF AnyRow
  <2> QED
    BY <2>1, <2>2, <2>3
<1>6. /\ place' \in [Channels -> Nat \cup {None, Home}] /\ roster' = roster /\ WireT'
      /\ kind = "create" => place'[t.of] \in Nat
  BY <1>2, <1>4, <1>5, ServerCreatesOK, ServerDeletesOK, ServerMovesOK DEF Typed, Kinds
<1>7. todo \in Seq(AnyRow)
  <2>1. CASE kind = "create"
    <3>1. Row(t.of, place'[t.of]) \in AnyRow
      BY <1>2, <1>6, <2>1 DEF Row, AnyRow
    <3> QED
      BY <2>1, <3>1
  <2>2. CASE kind # "create"
    BY <1>2, <2>2
  <2> QED
    BY <2>1, <2>2
<1>8. u \in TaskSet /\ u.at = "done" /\ u.of = t.of /\ u.guild = t.guild /\ u.todo = todo
  BY <1>1, <1>7 DEF TaskSet
<1>9. kind = "create" => todo # <<>> /\ Head(todo) \in AnyRow /\ Head(todo).id = t.of
  BY <1>2, <1>6 DEF Row, AnyRow
<1>10. kind # "create" => todo = t.todo
  OBVIOUS
<1> HIDE DEF u, todo
<1>11. TaskOK(kind, u)
  BY <1>1, <1>2, <1>8, <1>9, <1>10 DEF TaskOK
<1>12. TasksT' /\ task'[kind] = u /\ \A k \in Kinds : k # kind => task'[k] = task[k]
  BY <1>3, <1>8, <1>11, TaskSetTo DEF Typed
<1>13. Typed'
  <2>1. left' \in [Things -> Nat] /\ ServerT'
    BY <1>1, <1>6 DEF Typed, ServerT
  <2> QED
    BY <1>1, <1>6, <1>12, <2>1, QueryStays, ScreenStays DEF Typed
<1>14. query' = query /\ UNCHANGED screen
  BY <1>1
<1> QED
  BY <1>1, <1>2, <1>4, <1>5, <1>8, <1>12, <1>13, <1>14 DEF todo

\* A request that fails is over.
LEMMA TaskFailsOK ==
    ASSUME Typed, NEW kind \in Kinds, TaskFails(kind)
    PROVE  /\ TasksT' /\ task'[kind] = Idle /\ \A k \in Kinds : k # kind => task'[k] = task[k]
           /\ task[kind].guild \in Guilds /\ left' \in [Things -> Nat]
<1>1. left' \in [Things -> Nat]
  BY SpendOK, ThingsAre DEF TaskFails, Typed, ServerT
<1>2. task[kind].guild \in Guilds
  BY DEF TaskFails, Typed, TasksT, TaskOK
<1>3. task' = [task EXCEPT ![kind] = Idle]
  BY DEF TaskFails
<1> QED
  BY <1>1, <1>2, <1>3, IdleOK, TaskSetTo DEF Typed

\* A create or delete that fails changes nothing but the requests.
LEMMA CreateOrDeleteFailsTyped ==
    ASSUME Typed, NEW kind \in Kinds, CreateOrDeleteFails(kind)
    PROVE  Typed' /\ query' = query /\ UNCHANGED screen
<1>1. TaskFails(kind) /\ UNCHANGED <<server, timer, removal, screen, query>>
  BY DEF CreateOrDeleteFails
<1> QED
  BY <1>1, TaskFailsOK, ServerStays, WireStays, QueryStays, ScreenStays DEF Typed, server

\* What the answer to a create does (applyCreated).
LEMMA CreateAnsweredIs ==
    ASSUME GuildsAssumption, Typed, CreateAnswered
    PROVE  LET t == task["create"]
               q == query["channels"][t.guild]
               p == IF GoneForGood(t.of) THEN Blame(q, "deleted before the answer") ELSE q
           IN  /\ t.at = "done" /\ t.guild \in Guilds /\ t.of \in Here(t.guild)
               /\ Head(t.todo).id = t.of
               /\ EntryOK("channels", t.guild, p)
               /\ ApplyCreated(Head(t.todo), Rows(t.guild)) \in Data("channels", t.guild)
               /\ query'["channels"][t.guild] = Patched(p, ApplyCreated(Head(t.todo), Rows(t.guild)))
               /\ \A h \in Guilds : query'["members"][h] = query["members"][h]
               /\ \A h \in Guilds : h # t.guild => query'["channels"][h] = query["channels"][h]
               /\ task'["create"] = Idle /\ \A k \in Kinds : k # "create" => task'[k] = task[k]
               /\ Typed'
<1> DEFINE t == task["create"]
           g == t.guild
           q == query["channels"][g]
           p == IF GoneForGood(t.of) THEN Blame(q, "deleted before the answer") ELSE q
           rows == ApplyCreated(Head(t.todo), Rows(g))
           b == Patched(p, rows)
<1>1. "create" \in Kinds /\ "channels" \in Lists /\ "deleted before the answer" \in Causes /\ "members" \in Lists
  BY DEF Kinds, Lists, Causes
<1>2. /\ t \in TaskSet /\ TaskOK("create", t) /\ t.at = "done"
      /\ UNCHANGED <<server, timer, removal, left>> /\ Quietly
  BY <1>1 DEF Typed, TasksT, CreateAnswered
<1>3. /\ g \in Guilds /\ t.of \in Here(g) /\ t.todo # <<>>
      /\ Head(t.todo) \in AnyRow /\ Head(t.todo).id = t.of
  BY <1>2 DEF TaskOK
<1>4. rows \in Data("channels", g)
  <2>1. Rows(g) \in RowsOf(g)
    BY <1>3, RowsAreRows DEF Typed
  <2>2. Head(t.todo) \in [id : Here(g), position : Nat]
    BY <1>3 DEF AnyRow
  <2>3. rows \in RowsOf(g)
    BY <2>1, <2>2 DEF ApplyCreated, RowsOf
  <2> QED
    BY <2>3 DEF Data
<1>5. EntryOK("channels", g, q)
  BY <1>1, <1>3 DEF Typed, QueryT
<1>6. OnList("channels", g, b) /\ task' = [task EXCEPT !["create"] = Idle]
  BY DEF CreateAnswered
<1> HIDE DEF rows
<1>7. EntryOK("channels", g, p)
  BY <1>1, <1>3, <1>5, BlameOK
<1> HIDE DEF p
<1>8. EntryOK("channels", g, b)
  BY <1>1, <1>3, <1>4, <1>7, PatchedOK
<1> HIDE DEF b
<1>9. /\ QueryT' /\ query'["channels"][g] = b
      /\ \A l \in Lists, h \in Guilds : l # "channels" \/ h # g => query'[l][h] = query[l][h]
  <2>1. QueryT
    BY DEF Typed
  <2>2. OnList("channels", g, b)
    BY <1>6
  <2>3. "channels" \in Lists /\ g \in Guilds
    BY <1>1, <1>3
  <2> HIDE DEF t, g, q
  <2> QED
    BY <1>8, <2>1, <2>2, <2>3, OnListIs
<1>10. TasksT' /\ task'["create"] = Idle /\ \A k \in Kinds : k # "create" => task'[k] = task[k]
  BY <1>1, <1>6, IdleOK, TaskSetTo DEF Typed
<1>11. ScreenT'
  BY <1>2, RenderedOK DEF Quietly, Typed, ScreenT
<1>12. Typed'
  BY <1>2, <1>9, <1>10, <1>11, ServerStays, WireStays DEF Typed, ServerT, server
<1>13. /\ \A h \in Guilds : query'["members"][h] = query["members"][h]
       /\ \A h \in Guilds : h # g => query'["channels"][h] = query["channels"][h]
  BY <1>1, <1>9
<1>14. query'["channels"][g] = Patched(p, rows)
  BY <1>9 DEF b
<1> QED
  BY <1>2, <1>3, <1>4, <1>7, <1>10, <1>12, <1>13, <1>14 DEF p, rows

\* What the answer to a delete does (applyDeleted).
LEMMA DeleteAnsweredIs ==
    ASSUME GuildsAssumption, Typed, DeleteAnswered
    PROVE  LET t == task["delete"]
               q == query["channels"][t.guild]
               rows == {r \in Rows(t.guild) : r.id # t.of}
           IN  /\ t.at = "done" /\ t.guild \in Guilds /\ t.of \in Here(t.guild)
               /\ EntryOK("channels", t.guild, q) /\ rows \in Data("channels", t.guild)
               /\ query'["channels"][t.guild] = Patched(q, rows)
               /\ \A h \in Guilds : query'["members"][h] = query["members"][h]
               /\ \A h \in Guilds : h # t.guild => query'["channels"][h] = query["channels"][h]
               /\ task'["delete"] = Idle /\ \A k \in Kinds : k # "delete" => task'[k] = task[k]
               /\ Typed'
<1> DEFINE t == task["delete"]
           g == t.guild
           q == query["channels"][g]
           rows == {r \in Rows(g) : r.id # t.of}
           b == Patched(q, rows)
           joined == IF joinedVoice = t.of THEN None ELSE joinedVoice
<1>1. "delete" \in Kinds /\ "channels" \in Lists /\ "members" \in Lists
  BY DEF Kinds, Lists
<1>2. /\ t \in TaskSet /\ TaskOK("delete", t) /\ t.at = "done"
      /\ UNCHANGED <<server, timer, removal, left>>
      /\ Rendered(joined, voluntarilyLeft)
  BY <1>1 DEF Typed, TasksT, DeleteAnswered
<1>3. g \in Guilds /\ t.of \in Here(g)
  BY <1>2 DEF TaskOK
<1>4. rows \in Data("channels", g)
  BY <1>3, RowsAreRows DEF Typed, Data, RowsOf
<1>5. EntryOK("channels", g, q)
  BY <1>1, <1>3 DEF Typed, QueryT
<1>6. OnList("channels", g, b) /\ task' = [task EXCEPT !["delete"] = Idle]
  BY DEF DeleteAnswered
<1> HIDE DEF rows
<1>7. EntryOK("channels", g, b)
  BY <1>1, <1>3, <1>4, <1>5, PatchedOK
<1> HIDE DEF b
<1>8. /\ QueryT' /\ query'["channels"][g] = b
      /\ \A l \in Lists, h \in Guilds : l # "channels" \/ h # g => query'[l][h] = query[l][h]
  BY <1>1, <1>3, <1>6, <1>7, OnListIs DEF Typed
<1>9. TasksT' /\ task'["delete"] = Idle /\ \A k \in Kinds : k # "delete" => task'[k] = task[k]
  BY <1>1, <1>6, IdleOK, TaskSetTo DEF Typed
<1>10. joined \in Calls /\ voluntarilyLeft \in Calls /\ None \in Calls
  BY DEF Typed, ScreenT, Calls
<1> HIDE DEF joined
<1>11. joinedVoice' \in Calls /\ voluntarilyLeft' \in Calls
  BY <1>2, <1>10, RenderedOK
<1>12. At(g, Log) \in Pages
  BY <1>3, AtIsPage
<1>13. nav' \in Pages \cup {None} /\ route' \in Pages /\ wanted' \in Calls
  BY <1>10, <1>12 DEF DeleteAnswered, Typed, ScreenT
<1>14. ScreenT'
  BY <1>2, <1>11, <1>13 DEF Typed, ScreenT
<1>15. Typed'
  BY <1>2, <1>8, <1>9, <1>14, ServerStays, WireStays DEF Typed, ServerT, server
<1>16. /\ \A h \in Guilds : query'["members"][h] = query["members"][h]
       /\ \A h \in Guilds : h # g => query'["channels"][h] = query["channels"][h]
  BY <1>1, <1>8
<1>17. query'["channels"][g] = Patched(q, rows)
  BY <1>8 DEF b
<1> QED
  BY <1>2, <1>3, <1>4, <1>5, <1>9, <1>15, <1>16, <1>17 DEF rows

\* The order a drag asks for has the rows of the list.
LEMMA PositionsAre ==
    ASSUME GuildsAssumption, QueryT, NEW g \in Guilds, NEW order \in Orders(g), Len(order) > 1
    PROVE  /\ query["channels"][g].loaded
           /\ Positions(order) \in Seq([id : Here(g), position : Nat])
           /\ Len(order) \in Nat /\ DOMAIN Positions(order) = 1..Len(order)
           /\ \A i \in 1..Len(order) : Positions(order)[i].id = order[i]
           /\ ToSet(Positions(order)) \in RowsOf(g)
           /\ Ids(ToSet(Positions(order))) = Ids(Rows(g))
           /\ order[1] \in Here(g)
<1> DEFINE ids == Ids(Rows(g))
           rows == Positions(order)
<1>1. g # Home
  BY DEF GuildsAssumption
<1>2. order \in [1..Cardinality(ids) -> ids] /\ ToSet(order) = ids
  BY <1>1 DEF Orders
<1>3. ids \subseteq Here(g)
  BY ChannelOfRows
<1>4. Cardinality(ids) \in Nat
  <2>1. Here(g) \subseteq Channels /\ IsFiniteSet(Channels)
    BY DEF Here, GuildsAssumption
  <2>2. IsFiniteSet(ids)
    BY <1>3, <2>1, FS_Subset
  <2> QED
    BY <2>2, FS_CardinalityType
<1> HIDE DEF ids
<1>5. order \in Seq(ids) /\ Len(order) \in Nat /\ DOMAIN order = 1..Len(order)
  BY <1>2, <1>4
<1>6. rows = [i \in 1..Len(order) |-> Row(order[i], i - 1)]
  BY DEF Positions
<1>7. \A i \in 1..Len(order) : Row(order[i], i - 1) \in [id : Here(g), position : Nat] /\ order[i] \in Here(g)
  BY <1>3, <1>5 DEF Row
<1>8. /\ rows \in Seq([id : Here(g), position : Nat]) /\ DOMAIN rows = 1..Len(order)
      /\ \A i \in 1..Len(order) : rows[i] = Row(order[i], i - 1)
  BY <1>5, <1>6, <1>7
<1>9. \A i \in 1..Len(order) : rows[i].id = order[i]
  BY <1>8 DEF Row
<1> HIDE DEF rows
<1>10. ToSet(rows) = {rows[i] : i \in 1..Len(order)} /\ ids = {order[i] : i \in 1..Len(order)}
  BY <1>2, <1>5, <1>8 DEF ToSet
<1>11. ToSet(rows) \in RowsOf(g)
  BY <1>7, <1>8, <1>10 DEF RowsOf
<1>12. Ids(ToSet(rows)) = ids
  BY <1>9, <1>10 DEF Ids
<1>13. query["channels"][g].loaded
  <2>1. order[1] \in ids
    BY <1>5, <1>10
  <2>2. Rows(g) # {}
    BY <2>1 DEF ids, Ids
  <2> QED
    BY <2>2 DEF Rows
<1> QED
  BY <1>5, <1>7, <1>8, <1>9, <1>11, <1>12, <1>13 DEF rows, ids

\* A sequence over a set is one over a larger set.
LEMMA SeqWidens ==
    ASSUME NEW S, NEW T, S \subseteq T, NEW s \in Seq(S)
    PROVE  s \in Seq(T)
OBVIOUS

\* The elements of a sequence are of its set.
LEMMA ElementsIn ==
    ASSUME NEW S, NEW s \in Seq(S), NEW i \in DOMAIN s
    PROVE  s[i] \in S
OBVIOUS

\* What a drag does: the rows are put in their new order, and the moves wait.
LEMMA DragIs ==
    ASSUME GuildsAssumption, Typed, NEW order \in Orders(route.guild), Drag(order)
    PROVE  LET g == route.guild
               rows == Positions(order)
           IN  /\ g \in Guilds /\ Len(order) > 1 /\ query["channels"][g].loaded
               /\ rows \in Seq([id : Here(g), position : Nat]) /\ ToSet(rows) \in RowsOf(g)
               /\ Ids(ToSet(rows)) = Ids(Rows(g))
               /\ query'["channels"][g].loaded /\ query'["channels"][g].data = ToSet(rows)
               /\ query'["channels"][g].fetch = query["channels"][g].fetch
               /\ query'["channels"][g].answer = query["channels"][g].answer
               /\ query'["channels"][g].causes = query["channels"][g].causes
               /\ query'["channels"][g].since = query["channels"][g].since
               /\ \A h \in Guilds : query'["members"][h] = query["members"][h]
               /\ \A h \in Guilds : h # g => query'["channels"][h] = query["channels"][h]
               /\ task["drag"].at = "idle" /\ task'["drag"].at = "asked" /\ task'["drag"].guild = g
               /\ task'["drag"].todo = rows
               /\ \A k \in Kinds : k # "drag" => task'[k] = task[k]
               /\ Typed' /\ UNCHANGED screen
<1> DEFINE g == route.guild
           rows == Positions(order)
           q == query["channels"][g]
           b == [q EXCEPT !.loaded = TRUE, !.data = ToSet(rows), !.fresh = TRUE]
           t == [at |-> "asked", of |-> order[1], guild |-> g, todo |-> rows]
<1>1. "drag" \in Kinds /\ "channels" \in Lists /\ "members" \in Lists
  BY DEF Kinds, Lists
<1>2. g \in Guilds /\ Len(order) > 1
  BY DEF Drag, Typed, ScreenT, Pages
<1>3. /\ q.loaded /\ rows \in Seq([id : Here(g), position : Nat]) /\ Len(order) \in Nat
      /\ DOMAIN rows = 1..Len(order) /\ \A i \in 1..Len(order) : rows[i].id = order[i]
      /\ ToSet(rows) \in RowsOf(g) /\ Ids(ToSet(rows)) = Ids(Rows(g)) /\ order[1] \in Here(g)
  BY <1>2, PositionsAre DEF Typed
<1>4. EntryOK("channels", g, q) /\ q \in CacheEntry
  BY <1>1, <1>2 DEF Typed, QueryT, EntryOK
<1>5. OnList("channels", g, b) /\ task["drag"].at = "idle" /\ task' = [task EXCEPT !["drag"] = t]
      /\ UNCHANGED <<server, timer, removal, screen>>
  BY DEF Drag, Begin
<1>6. left' \in [Things -> Nat]
  BY SpendOK, ThingsAre DEF Drag, Typed, ServerT
<1> HIDE DEF rows
<1>7. ToSet(rows) \in Data("channels", g) /\ ToSet(rows) \in Datum
  <2>1. ToSet(rows) \in Data("channels", g)
    BY <1>3 DEF Data
  <2> QED
    BY <1>1, <1>2, <2>1, DataIsDatum
<1>8. /\ b \in CacheEntry /\ b.loaded /\ b.data = ToSet(rows) /\ b.fetch = q.fetch /\ b.answer = q.answer
      /\ b.causes = q.causes /\ b.since = q.since
  BY <1>4, <1>7 DEF CacheEntry
<1> HIDE DEF b
<1>9. EntryOK("channels", g, b)
  BY <1>4, <1>7, <1>8 DEF EntryOK
<1>10. /\ QueryT' /\ query'["channels"][g] = b
       /\ \A l \in Lists, h \in Guilds : l # "channels" \/ h # g => query'[l][h] = query[l][h]
  BY <1>1, <1>2, <1>5, <1>9, OnListIs DEF Typed
<1>11. rows \in Seq(AnyRow) /\ rows # <<>> /\ Head(rows).id = order[1]
       /\ \A i \in DOMAIN rows : rows[i].id \in Here(g)
  <2>1. Here(g) \subseteq Channels
    BY DEF Here
  <2>2. [id : Here(g), position : Nat] \subseteq AnyRow
    BY <2>1 DEF AnyRow
  <2>3. rows \in Seq(AnyRow)
    BY <1>3, <2>2, SeqWidens
  <2>4. rows # <<>> /\ Head(rows) = rows[1]
    BY <1>2, <1>3
  <2>5. \A i \in DOMAIN rows : rows[i].id \in Here(g)
    <3>1. \A i \in DOMAIN rows : rows[i] \in [id : Here(g), position : Nat]
      <4> DEFINE Set == [id : Here(g), position : Nat]
      <4>1. rows \in Seq(Set)
        BY <1>3
      <4> HIDE DEF Set
      <4>2. \A i \in DOMAIN rows : rows[i] \in Set
        BY <4>1, ElementsIn
      <4> QED
        BY <4>2 DEF Set
    <3> QED
      BY <3>1
  <2> QED
    BY <1>2, <1>3, <2>3, <2>4, <2>5
<1>12. t \in TaskSet /\ t.at = "asked" /\ t.guild = g /\ t.of = order[1] /\ t.todo = rows
  BY <1>2, <1>3, <1>11 DEF TaskSet, Here
<1> HIDE DEF t
<1>13. TaskOK("drag", t)
  BY <1>2, <1>3, <1>11, <1>12 DEF TaskOK
<1>14. TasksT' /\ task'["drag"] = t /\ \A k \in Kinds : k # "drag" => task'[k] = task[k]
  BY <1>1, <1>5, <1>12, <1>13, TaskSetTo DEF Typed
<1>15. Typed' /\ UNCHANGED screen
  BY <1>5, <1>6, <1>10, <1>14, ServerStays, WireStays, ScreenStays DEF Typed, server
<1>16. /\ \A h \in Guilds : query'["members"][h] = query["members"][h]
       /\ \A h \in Guilds : h # g => query'["channels"][h] = query["channels"][h]
  BY <1>1, <1>10
<1> QED
  BY <1>2, <1>3, <1>5, <1>8, <1>10, <1>12, <1>14, <1>15, <1>16 DEF rows

\* What the answer to a move does: the next one is sent.
LEMMA MoveAnsweredIs ==
    ASSUME GuildsAssumption, Typed, MoveAnswered
    PROVE  LET t == task["drag"]
               rest == Tail(t.todo)
               u == task'["drag"]
           IN  /\ t.at = "done" /\ t.todo # <<>> /\ t.todo \in Seq(AnyRow)
               /\ rest = <<>> => u = Idle
               /\ rest # <<>> => u.at = "asked" /\ u.guild = t.guild /\ u.todo = rest
               /\ \A k \in Kinds : k # "drag" => task'[k] = task[k]
               /\ Typed' /\ query' = query /\ UNCHANGED screen
<1> DEFINE t == task["drag"]
           rest == Tail(t.todo)
           v == [t EXCEPT !.at = "asked", !.of = Head(rest).id, !.todo = rest]
           u == IF rest = <<>> THEN Idle ELSE v
<1>1. "drag" \in Kinds
  BY DEF Kinds
<1>2. /\ t \in TaskSet /\ TaskOK("drag", t) /\ t.at = "done"
      /\ UNCHANGED <<server, query, timer, removal, screen, left>>
  BY <1>1 DEF Typed, TasksT, MoveAnswered
<1>3. task' = [task EXCEPT !["drag"] = u]
  BY <1>2 DEF MoveAnswered, Typed, TasksT
<1>4. t.todo # <<>> /\ t.todo \in Seq(AnyRow) /\ t.guild \in Guilds
      /\ \A i \in DOMAIN t.todo : t.todo[i].id \in Here(t.guild)
  BY <1>2 DEF TaskOK, TaskSet
<1>5. /\ rest \in Seq(AnyRow)
      /\ \A i \in DOMAIN rest : i + 1 \in DOMAIN t.todo /\ rest[i] = t.todo[i + 1]
  BY <1>4, TailIs
<1> HIDE DEF rest
<1>6. \A i \in DOMAIN rest : rest[i].id \in Here(t.guild)
  BY <1>4, <1>5
<1>7. ASSUME rest # <<>>
      PROVE  v \in TaskSet /\ TaskOK("drag", v) /\ v.at = "asked" /\ v.guild = t.guild /\ v.todo = rest
  <2>1. Head(rest) = rest[1] /\ 1 \in DOMAIN rest /\ Head(rest) \in AnyRow
    BY <1>5, <1>7
  <2>2. Head(rest).id \in Channels /\ Head(rest).id \in Here(t.guild)
    BY <1>6, <2>1 DEF Here
  <2>3. v \in TaskSet /\ v.at = "asked" /\ v.guild = t.guild /\ v.todo = rest /\ v.of = Head(rest).id
    BY <1>2, <1>5, <2>2 DEF TaskSet
  <2> HIDE DEF v
  <2>4. TaskOK("drag", v)
    BY <1>4, <1>6, <1>7, <2>2, <2>3 DEF TaskOK
  <2> QED
    BY <2>3, <2>4
<1> HIDE DEF v
<1>8. u \in TaskSet /\ TaskOK("drag", u)
  BY <1>7, IdleOK
<1> HIDE DEF u
<1>9. TasksT' /\ task'["drag"] = u /\ \A k \in Kinds : k # "drag" => task'[k] = task[k]
  BY <1>1, <1>3, <1>8, TaskSetTo DEF Typed
<1>10. Typed' /\ query' = query /\ UNCHANGED screen
  BY <1>2, <1>9, ServerStays, WireStays, QueryStays, ScreenStays DEF Typed, ServerT, server
<1>11. /\ rest = <<>> => u = Idle
       /\ rest # <<>> => u.at = "asked" /\ u.guild = t.guild /\ u.todo = rest
  BY <1>7 DEF u
<1> QED
  BY <1>2, <1>4, <1>9, <1>10, <1>11 DEF rest

\* What a failed move does: the list on screen is fetched again.
LEMMA MoveFailsIs ==
    ASSUME GuildsAssumption, Typed, MoveFails
    PROVE  LET t == task["drag"]
           IN  /\ t.guild \in Guilds /\ task'["drag"] = Idle
               /\ \A k \in Kinds : k # "drag" => task'[k] = task[k]
               /\ \A h \in Guilds : query'["members"][h] = query["members"][h]
               /\ \A h \in Guilds :
                     query'["channels"][h] =
                        IF h = route.guild THEN Refetched(query["channels"][h])
                        ELSE IF h = t.guild THEN Blame(query["channels"][h], "not rolled back")
                        ELSE query["channels"][h]
               /\ \A h \in Guilds : /\ query'["channels"][h].loaded = query["channels"][h].loaded
                                    /\ query'["channels"][h].data = query["channels"][h].data
               /\ Typed' /\ UNCHANGED screen
<1> DEFINE g == task["drag"].guild
           New(h) == IF h = route.guild THEN Refetched(query["channels"][h])
                     ELSE IF h = g THEN Blame(query["channels"][h], "not rolled back")
                     ELSE query["channels"][h]
           news == [h \in Guilds |-> New(h)]
<1>1. "drag" \in Kinds /\ "channels" \in Lists /\ "members" \in Lists /\ "not rolled back" \in Causes
  BY DEF Kinds, Lists, Causes
<1>2. TaskFails("drag") /\ query' = AfterFailedMove(g) /\ UNCHANGED <<server, timer, removal, screen>>
  BY DEF MoveFails
<1>3. /\ TasksT' /\ task'["drag"] = Idle /\ \A k \in Kinds : k # "drag" => task'[k] = task[k]
      /\ g \in Guilds /\ left' \in [Things -> Nat]
  BY <1>1, <1>2, TaskFailsOK
<1>4. query \in [Lists -> [Guilds -> CacheEntry]] /\ \A h \in Guilds : EntryOK("channels", h, query["channels"][h])
  BY <1>1 DEF Typed, QueryT
<1>5. query' = [query EXCEPT !["channels"] = news]
  BY <1>1, <1>2, <1>4 DEF AfterFailedMove
<1>6. \A h \in Guilds : /\ EntryOK("channels", h, New(h)) /\ New(h).loaded = query["channels"][h].loaded
                        /\ New(h).data = query["channels"][h].data
  <2> SUFFICES ASSUME NEW h \in Guilds
               PROVE  /\ EntryOK("channels", h, New(h)) /\ New(h).loaded = query["channels"][h].loaded
                      /\ New(h).data = query["channels"][h].data
    OBVIOUS
  <2>1. EntryOK("channels", h, query["channels"][h])
    BY <1>4
  <2>2. CASE h = route.guild
    <3>1. /\ EntryOK("channels", h, Refetched(query["channels"][h]))
          /\ Refetched(query["channels"][h]).loaded = query["channels"][h].loaded
          /\ Refetched(query["channels"][h]).data = query["channels"][h].data
      BY <1>1, <2>1, RefetchedOK
    <3> QED
      BY <2>2, <3>1
  <2>3. CASE h # route.guild /\ h = g
    <3>1. /\ EntryOK("channels", h, Blame(query["channels"][h], "not rolled back"))
          /\ Blame(query["channels"][h], "not rolled back").loaded = query["channels"][h].loaded
          /\ Blame(query["channels"][h], "not rolled back").data = query["channels"][h].data
      <4>1. "channels" \in Lists /\ "not rolled back" \in Causes
        BY <1>1
      <4> DEFINE q == query["channels"][h]
      <4>2. EntryOK("channels", h, q)
        BY <2>1
      <4> HIDE DEF q
      <4>3. EntryOK("channels", h, Blame(q, "not rolled back"))
        BY <4>1, <4>2, BlameOK
      <4>4. /\ Blame(q, "not rolled back").loaded = q.loaded
            /\ Blame(q, "not rolled back").data = q.data
        <5>1. q \in CacheEntry
          BY <4>2 DEF EntryOK
        <5> QED
          BY <5>1 DEF Blame, CacheEntry
      <4> QED
        BY <4>3, <4>4 DEF q
    <3> QED
      BY <2>3, <3>1
  <2>4. CASE h # route.guild /\ h # g
    BY <2>1, <2>4
  <2> QED
    BY <2>2, <2>3, <2>4
<1> HIDE DEF New
<1>7. news \in [Guilds -> CacheEntry] /\ \A h \in Guilds : news[h] = New(h)
  BY <1>6 DEF EntryOK
<1> HIDE DEF news
<1>8. /\ query' \in [Lists -> [Guilds -> CacheEntry]] /\ query'["channels"] = news
      /\ \A l \in Lists : l # "channels" => query'[l] = query[l]
  BY <1>1, <1>4, <1>5, <1>7
<1>9. QueryT'
  <2>1. ASSUME NEW l \in Lists, NEW h \in Guilds
        PROVE  EntryOK(l, h, query'[l][h])
    <3>1. CASE l = "channels"
      BY <1>6, <1>7, <1>8, <3>1
    <3>2. CASE l # "channels"
      BY <1>8, <3>2 DEF Typed, QueryT
    <3> QED
      BY <3>1, <3>2
  <2> QED
    BY <1>8, <2>1 DEF QueryT
<1>10. Typed' /\ UNCHANGED screen
  BY <1>2, <1>3, <1>9, ServerStays, WireStays, ScreenStays DEF Typed, server
<1>11. \A h \in Guilds : query'["members"][h] = query["members"][h]
  BY <1>1, <1>8
<1>12. \A h \in Guilds : query'["channels"][h] = New(h)
  BY <1>7, <1>8
<1>13. \A h \in Guilds : /\ query'["channels"][h].loaded = query["channels"][h].loaded
                         /\ query'["channels"][h].data = query["channels"][h].data
  BY <1>6, <1>12
<1> QED
  BY <1>3, <1>10, <1>11, <1>12, <1>13 DEF New

-----------------------------------------------------------------------------
(* The page and the call.                                                    *)

\* Nobody is removed by going back.
LEMMA BackOK ==
    ASSUME ScreenT, NEW g, removal' = Back(g)
    PROVE  /\ removal' \in [Guilds -> {"no", "told", "cleaning", "done", "back"}]
           /\ \A h \in Guilds : /\ removal'[h] = "done" => removal[h] = "done"
                                /\ removal'[g] # "done" \/ h # g
<1>1. removal' = [i \in Guilds |-> IF i = g /\ removal[i] = "done" THEN "back" ELSE removal[i]]
  BY DEF Back
<1>2. removal \in [Guilds -> {"no", "told", "cleaning", "done", "back"}]
  BY DEF ScreenT
<1>3. removal' \in [Guilds -> {"no", "told", "cleaning", "done", "back"}]
  BY <1>1, <1>2
<1>4. \A h \in Guilds : removal'[h] = IF h = g /\ removal[h] = "done" THEN "back" ELSE removal[h]
  BY <1>1
<1> QED
  BY <1>3, <1>4

\* The clicks keep the types and do not touch the cache.
LEMMA ClickTyped ==
    ASSUME GuildsAssumption, Typed,
           \/ \E g \in Guilds \cup {Home} : SelectRail(g)
           \/ \E c \in Channels : SelectChannel(c)
           \/ HangUp \/ JoinFromPlaceholder
    PROVE  Typed' /\ query' = query
<1>1. /\ UNCHANGED <<server, query, timer, task>> /\ left' \in [Things -> Nat]
  BY SpendOK, ThingsAre DEF SelectRail, SelectChannel, JoinFromPlaceholder, HangUp, Clicks, Typed, ServerT
<1>2. /\ joinedVoice \in Calls /\ voluntarilyLeft \in Calls /\ wanted \in Calls /\ None \in Calls
      /\ \A v \in Voice : v \in Calls
      /\ route \in Pages /\ nav \in Pages \cup {None}
  BY DEF Typed, ScreenT, Calls
<1>3. \E joined \in Calls, guard \in Calls : Rendered(joined, guard)
  <2>1. CASE \E g \in Guilds \cup {Home} : SelectRail(g)
    BY <1>2, <2>1 DEF SelectRail
  <2>2. CASE \E c \in Channels : SelectChannel(c)
    <3>1. PICK c \in Channels : SelectChannel(c)
      BY <2>2
    <3>2. (IF c \in Voice THEN c ELSE joinedVoice) \in Calls
      BY <1>2
    <3>3. Rendered(IF c \in Voice THEN c ELSE joinedVoice, voluntarilyLeft)
      BY <3>1 DEF SelectChannel
    <3> QED
      BY <1>2, <3>2, <3>3
  <2>3. CASE HangUp
    BY <1>2, <2>3 DEF HangUp, HangUpGuard
  <2>4. CASE JoinFromPlaceholder
    BY <1>2, <2>4 DEF JoinFromPlaceholder
  <2> QED
    BY <2>1, <2>2, <2>3, <2>4
<1>4. joinedVoice' \in Calls /\ voluntarilyLeft' \in Calls
  BY <1>3, RenderedOK
<1>5. removal' \in [Guilds -> {"no", "told", "cleaning", "done", "back"}]
  <2>1. removal' = removal \/ removal' = Back(route.guild)
    BY DEF SelectRail, SelectChannel, HangUp, JoinFromPlaceholder
  <2> QED
    BY <2>1, BackOK DEF Typed, ScreenT
<1>6. route' = route /\ wanted' \in Calls
  BY <1>2 DEF SelectRail, SelectChannel, HangUp, JoinFromPlaceholder
<1>7. nav' \in Pages \cup {None}
  <2>1. \A g \in Guilds \cup {Home}, c \in Channels \cup {Log} : At(g, c) \in Pages
    BY AtIsPage
  <2>2. route.guild \in Guilds \cup {Home}
    BY <1>2 DEF Pages
  <2> QED
    BY <1>2, <2>1, <2>2 DEF SelectRail, SelectChannel, HangUp, JoinFromPlaceholder
<1>8. ScreenT'
  BY <1>1, <1>2, <1>4, <1>5, <1>6, <1>7 DEF Typed, ScreenT
<1> QED
  BY <1>1, <1>8, ServerStays, WireStays, QueryStays, TasksStay DEF Typed, server

\* What a navigation does when it is rendered.
LEMMA RenderNavigationIs ==
    ASSUME GuildsAssumption, Typed, RenderNavigation
    PROVE  /\ Typed'
           /\ \A l \in Lists, g \in Guilds :
                 query'[l][g] = IF g = nav.guild /\ g # route.guild THEN Mounted(query[l][g]) ELSE query[l][g]
<1> DEFINE New(l, g) == IF g = nav.guild /\ g # route.guild THEN Mounted(query[l][g]) ELSE query[l][g]
<1>1. query' = [l \in Lists |-> [g \in Guilds |-> New(l, g)]]
  BY DEF RenderNavigation
<1>2. \A l \in Lists, g \in Guilds : EntryOK(l, g, New(l, g)) /\ New(l, g) \in CacheEntry
  <2> SUFFICES ASSUME NEW l \in Lists, NEW g \in Guilds
               PROVE  EntryOK(l, g, New(l, g)) /\ New(l, g) \in CacheEntry
    OBVIOUS
  <2>1. EntryOK(l, g, query[l][g])
    BY DEF Typed, QueryT
  <2>2. EntryOK(l, g, New(l, g))
    BY <2>1, MountedOK
  <2> QED
    BY <2>2 DEF EntryOK
<1> HIDE DEF New
<1>3. \A l \in Lists, g \in Guilds : query'[l][g] = New(l, g)
  BY <1>1
<1>4. query' \in [Lists -> [Guilds -> CacheEntry]]
  BY <1>1, <1>2
<1>5. QueryT'
  BY <1>2, <1>3, <1>4 DEF QueryT
<1>6. /\ UNCHANGED <<server, timer, task, left>> /\ route' = nav /\ nav # None /\ nav' = None
      /\ wanted' = wanted /\ removal' = Back(nav.guild)
      /\ Rendered(joinedVoice, voluntarilyLeft)
  BY DEF RenderNavigation
<1>7. joinedVoice' \in Calls /\ voluntarilyLeft' \in Calls
  BY <1>6, RenderedOK DEF Typed, ScreenT
<1>8. removal' \in [Guilds -> {"no", "told", "cleaning", "done", "back"}]
  BY <1>6, BackOK DEF Typed
<1>9. ScreenT'
  BY <1>6, <1>7, <1>8 DEF Typed, ScreenT
<1>10. Typed'
  BY <1>5, <1>6, <1>9, ServerStays, WireStays, TasksStay DEF Typed, ServerT, server
<1> QED
  BY <1>3, <1>10 DEF New

-----------------------------------------------------------------------------
(* The start.                                                                *)

\* The page is opened with the types.
LEMMA InitTyped ==
    ASSUME GuildsAssumption, StoriesAssumption, Init
    PROVE  Typed
<1>1. PICK s \in Stories :
         /\ place = [c \in Channels |->
               IF c \notin s.exist THEN None
               ELSE Cardinality({d \in s.exist : GuildOf[d] = GuildOf[c] /\ s.rank[d] < s.rank[c]})]
         /\ left = s.left
         /\ route = s.route
         /\ wanted = IF s.route.channel \in Voice THEN s.route.channel ELSE None
         /\ roster = [g \in Guilds |-> 0]
         /\ query = [l \in Lists |-> [g \in Guilds |->
               IF l \notin s.unloaded THEN Loaded(Truth(l, g))
               ELSE IF g = s.route.guild THEN Asked(Unloaded) ELSE Unloaded]]
  BY DEF Init
<1>2. s.exist \subseteq Channels /\ s.left \in [Things -> Nat] /\ s.route \in Pages
  BY DEF StoriesAssumption, Pages
<1>3. ServerT
  <2>1. ASSUME NEW c \in Channels
        PROVE  Cardinality({d \in s.exist : GuildOf[d] = GuildOf[c] /\ s.rank[d] < s.rank[c]}) \in Nat
    <3> DEFINE S == {d \in s.exist : GuildOf[d] = GuildOf[c] /\ s.rank[d] < s.rank[c]}
    <3>1. S \subseteq Channels /\ IsFiniteSet(Channels)
      BY <1>2 DEF GuildsAssumption
    <3> HIDE DEF S
    <3>2. IsFiniteSet(S)
      BY <3>1, FS_Subset
    <3>3. Cardinality(S) \in Nat
      BY <3>2, FS_CardinalityType
    <3> QED
      BY <3>3 DEF S
  <2>2. place \in [Channels -> Nat \cup {None, Home}]
    BY <1>1, <2>1
  <2>3. roster \in [Guilds -> Nat]
    BY <1>1
  <2> QED
    BY <1>1, <1>2, <2>2, <2>3 DEF ServerT
<1>4. WireT
  BY DEF Init, WireT
<1>5. QueryT
  <2> DEFINE New(l, g) == IF l \notin s.unloaded THEN Loaded(Truth(l, g))
                          ELSE IF g = s.route.guild THEN Asked(Unloaded) ELSE Unloaded
  <2>1. \A l \in Lists, g \in Guilds : EntryOK(l, g, New(l, g)) /\ New(l, g) \in CacheEntry
    <3> SUFFICES ASSUME NEW l \in Lists, NEW g \in Guilds
                 PROVE  EntryOK(l, g, New(l, g)) /\ New(l, g) \in CacheEntry
      OBVIOUS
    <3>1. Truth(l, g) \in Data(l, g) /\ {} \in SUBSET Causes
      BY <1>3, TruthIsData
    <3>2. EntryOK(l, g, Loaded(Truth(l, g)))
      BY <3>1, LoadedOK
    <3>3. EntryOK(l, g, Unloaded)
      <4>1. None \in Datum /\ "none" \in Fetches
        BY DEF Datum, Fetches
      <4>2. Unloaded \in CacheEntry /\ ~Unloaded.loaded /\ Unloaded.fetch = "none"
        BY <4>1 DEF Unloaded, CacheEntry
      <4> QED
        BY <4>2 DEF EntryOK
    <3>4. EntryOK(l, g, Asked(Unloaded))
      BY <3>3, AskedOK
    <3>5. EntryOK(l, g, New(l, g))
      BY <3>2, <3>3, <3>4
    <3> QED
      BY <3>5 DEF EntryOK
  <2>2. query = [l \in Lists |-> [g \in Guilds |-> New(l, g)]]
    BY <1>1
  <2> HIDE DEF New
  <2>3. query \in [Lists -> [Guilds -> CacheEntry]] /\ \A l \in Lists, g \in Guilds : query[l][g] = New(l, g)
    BY <2>1, <2>2
  <2> QED
    BY <2>1, <2>3 DEF QueryT
<1>6. TasksT
  <2>1. task = [k \in Kinds |-> Idle]
    BY DEF Init, Kinds
  <2>2. \A k \in Kinds : task[k] = Idle
    BY <2>1
  <2>3. task \in [Kinds -> TaskSet]
    BY <2>1, IdleOK
  <2> QED
    BY <2>2, <2>3, IdleOK DEF TasksT
<1>7. ScreenT
  <2>1. joinedVoice \in Calls
    <3>1. joinedVoice = AutoJoin(route, query, None, None)
      BY DEF Init
    <3> DEFINE v == Viewed(route, query)
    <3>2. (joinedVoice = v /\ v \in Voice) \/ joinedVoice = None
      BY <3>1 DEF AutoJoin
    <3> HIDE DEF v
    <3> QED
      BY <3>2 DEF Calls
  <2>2. wanted \in Calls
    BY <1>1 DEF Calls
  <2>3. voluntarilyLeft \in Calls /\ nav \in Pages \cup {None} /\ timer \subseteq Guilds
        /\ removal \in [Guilds -> {"no", "told", "cleaning", "done", "back"}]
    BY DEF Init, Calls
  <2> QED
    BY <1>1, <1>2, <2>1, <2>2, <2>3 DEF ScreenT
<1> QED
  BY <1>3, <1>4, <1>5, <1>6, <1>7 DEF Typed

-----------------------------------------------------------------------------
(* The removal of the user.                                                  *)

\* Until the user goes back, the page of a guild the user was removed from is
\* being left, ...
RemovedLeaves == \A g \in Guilds : removal[g] = "done" => route.guild # g \/ nav # None
\* ... and a call there was joined on it.
RemovedCall ==
    \A g \in Guilds :
        removal[g] = "done" /\ joinedVoice # None /\ GuildOf[joinedVoice] = g =>
            <<"removed", joinedVoice>> \in undone
RemovedInv == RemovedLeaves /\ RemovedCall

\* A viewed voice channel is one of the guild on screen.
LEMMA ViewedHere ==
    ASSUME GuildsAssumption, NEW r \in Pages, NEW q,
           \A g \in Guilds : EntryOK("channels", g, q["channels"][g]),
           Viewed(r, q) \in Voice
    PROVE  r.guild \in Guilds /\ GuildOf[Viewed(r, q)] = r.guild
<1> DEFINE list == q["channels"][r.guild]
<1>1. Log \notin Voice
  BY DEF GuildsAssumption
<1>2. r.guild # Home /\ list.loaded /\ r.channel \in Ids(list.data) /\ Viewed(r, q) = r.channel
  BY <1>1 DEF Viewed
<1>3. r.guild \in Guilds
  BY <1>2 DEF Pages
<1>4. list.data \in RowsOf(r.guild)
  BY <1>2, <1>3 DEF EntryOK, Data
<1>5. PICK row \in list.data : row.id = r.channel
  BY <1>2 DEF Ids
<1>6. row \in [id : Here(r.guild), position : Nat]
  BY <1>4, <1>5 DEF RowsOf
<1> QED
  BY <1>2, <1>3, <1>5, <1>6 DEF Here

\* The effect joins a call of a guild that removed the user only with its tag.
LEMMA RemovedRendered ==
    ASSUME GuildsAssumption, QueryT', ScreenT', RemovedLeaves', NEW joined \in Calls, NEW guard,
           Rendered(joined, guard),
           joined # None /\ removal'[GuildOf[joined]] = "done" => <<"removed", joined>> \in undone
    PROVE  RemovedInv'
<1> DEFINE w == Viewed(route', query')
<1>1. /\ joinedVoice' = joined \/ (joinedVoice' = w /\ w \in Voice)
      /\ \A t \in undone : t \in undone'
      /\ nav' # None /\ joinedVoice' # joined /\ removal'[GuildOf[joinedVoice']] = "done" =>
            <<"removed", joinedVoice'>> \in undone'
  BY RenderedIs
<1>2. w \in Voice => GuildOf[w] = route'.guild
  <2>1. \A g \in Guilds : EntryOK("channels", g, query'["channels"][g])
    BY DEF QueryT, Lists
  <2>2. route' \in Pages
    BY DEF ScreenT
  <2> QED
    BY <2>1, <2>2, ViewedHere
<1> HIDE DEF w
<1>3. RemovedCall'
  <2> SUFFICES ASSUME NEW g \in Guilds, removal'[g] = "done", joinedVoice' # None, GuildOf[joinedVoice'] = g
               PROVE  <<"removed", joinedVoice'>> \in undone'
    BY DEF RemovedCall
  <2>1. CASE joinedVoice' = joined
    BY <1>1, <2>1
  <2>2. CASE joinedVoice' # joined
    <3>1. route'.guild = g /\ joinedVoice' = w
      BY <1>1, <1>2, <2>2
    <3>2. nav' # None
      BY <3>1 DEF RemovedLeaves
    <3> QED
      BY <1>1, <2>2, <3>2
  <2> QED
    BY <2>1, <2>2
<1> QED
  BY <1>3 DEF RemovedInv

\* While the screen stays, so does what is said of removed guilds.
LEMMA RemovedStill ==
    ASSUME ScreenT, RemovedInv, UNCHANGED screen,
           \A g \in Guilds : removal'[g] = "done" => removal[g] = "done"
    PROVE  RemovedInv'
<1>1. route' = route /\ nav' = nav /\ joinedVoice' = joinedVoice /\ undone' = undone
  BY DEF screen
<1> QED
  BY <1>1 DEF RemovedInv, RemovedLeaves, RemovedCall

\* An effect after a change of the lists.
LEMMA RemovedQuiet ==
    ASSUME GuildsAssumption, Typed, Typed', RemovedInv, Quietly, removal' = removal
    PROVE  RemovedInv'
<1>1. RemovedLeaves'
  BY DEF Quietly, RemovedInv, RemovedLeaves
<1>2. Rendered(joinedVoice, voluntarilyLeft)
  BY DEF Quietly
<1>3. joinedVoice \in Calls /\ QueryT' /\ ScreenT'
  BY DEF Typed, ScreenT
<1>4. joinedVoice # None /\ removal'[GuildOf[joinedVoice]] = "done" => <<"removed", joinedVoice>> \in undone
  BY <1>3 DEF RemovedInv, RemovedCall, Calls, GuildsAssumption
<1> QED
  BY <1>1, <1>2, <1>3, <1>4, RemovedRendered

\* The user navigates, joins and hangs up.
LEMMA RemovedUser ==
    ASSUME GuildsAssumption, Typed, Typed', RemovedInv, User
    PROVE  RemovedInv'
<1>1. joinedVoice \in Calls /\ QueryT' /\ ScreenT' /\ None \in Calls /\ ScreenT /\ QueryT
  BY DEF Typed, ScreenT, Calls
<1>2. joinedVoice # None /\ removal[GuildOf[joinedVoice]] = "done" => <<"removed", joinedVoice>> \in undone
  BY <1>1 DEF RemovedInv, RemovedCall, Calls, GuildsAssumption
<1>3. ASSUME NEW g \in Guilds \cup {Home}, SelectRail(g)
      PROVE  RemovedInv'
  <2>1. nav' # None /\ removal' = removal /\ Rendered(joinedVoice, voluntarilyLeft)
    BY <1>3, AtIsPage DEF SelectRail
  <2>2. RemovedLeaves'
    BY <2>1 DEF RemovedLeaves
  <2> QED
    BY <1>1, <1>2, <2>1, <2>2, RemovedRendered
<1>4. ASSUME NEW c \in Channels, SelectChannel(c)
      PROVE  RemovedInv'
  <2> DEFINE joined == IF c \in Voice THEN c ELSE joinedVoice
  <2>1. /\ route.guild \in Guilds /\ c \in Ids(Rows(route.guild)) /\ removal' = Back(route.guild)
        /\ nav' = At(route.guild, c) /\ Rendered(joined, voluntarilyLeft)
    BY <1>1, <1>4 DEF SelectChannel, ScreenT, Pages
  <2>2. GuildOf[c] = route.guild
    BY <1>1, <2>1, ChannelOfRows
  <2>3. RemovedLeaves'
    BY <2>1, AtIsPage DEF RemovedLeaves
  <2>4. \A h \in Guilds : /\ removal'[h] = "done" => removal[h] = "done"
                          /\ removal'[route.guild] # "done"
    BY <1>1, <2>1, BackOK
  <2>5. joined \in Calls
    BY <1>1 DEF Calls
  <2>6. joined # None /\ removal'[GuildOf[joined]] = "done" => <<"removed", joined>> \in undone
    BY <1>1, <1>2, <2>2, <2>4 DEF Calls, GuildsAssumption
  <2> HIDE DEF joined
  <2> QED
    BY <1>1, <2>1, <2>3, <2>5, <2>6, RemovedRendered
<1>5. ASSUME RenderNavigation
      PROVE  RemovedInv'
  <2>1. /\ nav # None /\ route' = nav /\ nav' = None /\ removal' = Back(nav.guild)
        /\ Rendered(joinedVoice, voluntarilyLeft)
    BY <1>5 DEF RenderNavigation
  <2>2. \A h \in Guilds : /\ removal'[h] = "done" => removal[h] = "done"
                          /\ removal'[nav.guild] # "done" \/ h # nav.guild
    BY <1>1, <2>1, BackOK
  <2>3. RemovedLeaves'
    BY <2>1, <2>2 DEF RemovedLeaves
  <2>4. joinedVoice # None /\ removal'[GuildOf[joinedVoice]] = "done" => <<"removed", joinedVoice>> \in undone
    BY <1>1, <1>2, <2>2 DEF Calls, GuildsAssumption
  <2> QED
    BY <1>1, <2>1, <2>3, <2>4, RemovedRendered
<1>6. ASSUME HangUp
      PROVE  RemovedInv'
  <2>1. removal' = removal /\ route' = route /\ nav' = nav /\ Rendered(None, joinedVoice)
    BY <1>6 DEF HangUp, HangUpGuard
  <2>2. RemovedLeaves'
    BY <2>1 DEF RemovedInv, RemovedLeaves
  <2> QED
    BY <1>1, <2>1, <2>2, RemovedRendered
<1>7. ASSUME JoinFromPlaceholder
      PROVE  RemovedInv'
  <2> DEFINE v == Viewed(route, query)
  <2>1. /\ v \in Voice /\ removal' = Back(route.guild) /\ route' = route /\ nav' = nav /\ Rendered(v, None)
    BY <1>7 DEF JoinFromPlaceholder
  <2>2. route.guild \in Guilds /\ GuildOf[v] = route.guild
    <3>1. \A g \in Guilds : EntryOK("channels", g, query["channels"][g])
      BY <1>1 DEF QueryT, Lists
    <3>2. route \in Pages
      BY <1>1 DEF ScreenT
    <3> QED
      BY <2>1, <3>1, <3>2, ViewedHere
  <2> HIDE DEF v
  <2>3. \A h \in Guilds : /\ removal'[h] = "done" => removal[h] = "done"
                          /\ removal'[route.guild] # "done"
    BY <1>1, <2>1, <2>2, BackOK
  <2>4. RemovedLeaves'
    BY <2>1, <2>3 DEF RemovedInv, RemovedLeaves
  <2>5. v \in Calls
    BY <2>1 DEF Calls
  <2> QED
    BY <1>1, <2>1, <2>2, <2>3, <2>4, <2>5, RemovedRendered
<1> QED
  BY <1>3, <1>4, <1>5, <1>6, <1>7 DEF User

\* The end of a removal leaves the guild and its call.
LEMMA RemovedBySelf ==
    ASSUME GuildsAssumption, Typed, Typed', RemovedInv, NEW g \in Guilds, SelfRemovalEnds(g)
    PROVE  RemovedInv'
<1>1. joinedVoice \in Calls /\ QueryT' /\ ScreenT' /\ None \in Calls /\ ScreenT
  BY DEF Typed, ScreenT, Calls
<1>2. joinedVoice # None /\ removal[GuildOf[joinedVoice]] = "done" => <<"removed", joinedVoice>> \in undone
  BY <1>1 DEF RemovedInv, RemovedCall, Calls, GuildsAssumption
<1>3. /\ route' = route /\ nav' = IF route.guild = g THEN At(Home, Log) ELSE nav
      /\ removal' = [removal EXCEPT ![g] = "done"]
  BY DEF SelfRemovalEnds
<1>4. At(Home, Log) # None
  BY AtIsPage
<1>5. \A h \in Guilds : h # g => removal'[h] = removal[h]
  BY <1>1, <1>3 DEF ScreenT
<1>6. RemovedLeaves'
  BY <1>3, <1>4, <1>5 DEF RemovedInv, RemovedLeaves
<1>7. CASE LeavesCall(g)
  <2>1. Rendered(None, joinedVoice)
    BY <1>7 DEF SelfRemovalEnds
  <2> QED
    BY <1>1, <1>6, <2>1, RemovedRendered
<1>8. CASE ~LeavesCall(g)
  <2>1. Rendered(joinedVoice, voluntarilyLeft)
    BY <1>8 DEF SelfRemovalEnds
  <2>2. joinedVoice # None /\ removal'[GuildOf[joinedVoice]] = "done" => <<"removed", joinedVoice>> \in undone
    BY <1>1, <1>2, <1>5, <1>8 DEF LeavesCall, Calls, GuildsAssumption
  <2> QED
    BY <1>1, <1>6, <2>1, <2>2, RemovedRendered
<1> QED
  BY <1>7, <1>8

\* The answer to a delete leaves a page for one of the same guild.
LEMMA RemovedByDelete ==
    ASSUME GuildsAssumption, Typed, Typed', RemovedInv, DeleteAnswered
    PROVE  RemovedInv'
<1> DEFINE joined == IF joinedVoice = task["delete"].of THEN None ELSE joinedVoice
<1>1. joinedVoice \in Calls /\ QueryT' /\ ScreenT' /\ joined \in Calls
  BY DEF Typed, ScreenT, Calls
<1>2. joinedVoice # None /\ removal[GuildOf[joinedVoice]] = "done" => <<"removed", joinedVoice>> \in undone
  BY <1>1 DEF RemovedInv, RemovedCall, Calls, GuildsAssumption
<1>3. /\ route' = route /\ removal' = removal /\ Rendered(joined, voluntarilyLeft)
      /\ nav' = IF Viewed(route, query) = task["delete"].of THEN At(task["delete"].guild, Log) ELSE nav
  BY DEF DeleteAnswered
<1>4. At(task["delete"].guild, Log) # None
  <2>1. task["delete"].guild \in Guilds
    BY DeleteAnsweredIs
  <2> QED
    BY <2>1, AtIsPage
<1>5. RemovedLeaves'
  BY <1>3, <1>4 DEF RemovedInv, RemovedLeaves
<1>6. joined # None /\ removal'[GuildOf[joined]] = "done" => <<"removed", joined>> \in undone
  BY <1>2, <1>3
<1> HIDE DEF joined
<1> QED
  BY <1>1, <1>3, <1>5, <1>6, RemovedRendered

-----------------------------------------------------------------------------
(* The induction.                                                            *)

Inv == Typed /\ CallInv /\ RemovedInv

\* The start: the effects have run on the page that was opened.
LEMMA InitInv ==
    ASSUME GuildsAssumption, StoriesAssumption, Init
    PROVE  Inv
<1>1. Typed
  BY InitTyped
<1>2. /\ joinedVoice = AutoJoin(route, query, None, None) /\ voluntarilyLeft = None /\ nav = None
      /\ removal = [g \in Guilds |-> "no"]
      /\ wanted = IF route.channel \in Voice THEN route.channel ELSE None
  BY DEF Init
<1>3. None \notin Voice /\ Log \notin Voice
  BY DEF GuildsAssumption
<1> DEFINE v == Viewed(route, query)
<1>4. v = route.channel \/ v = Log
  BY DEF Viewed
<1>5. joinedVoice = IF v \in Voice THEN v ELSE None
  BY <1>2, <1>3 DEF AutoJoin
<1> HIDE DEF v
<1>6. Effected /\ GuardViewed /\ GuardAlone
  BY <1>2, <1>5 DEF Effected, GuardViewed, GuardAlone, v
<1>7. PageWanted /\ NextWanted /\ CallIsWanted
  BY <1>2, <1>3, <1>4, <1>5 DEF PageWanted, NextWanted, CallIsWanted
<1>8. RemovedInv
  BY <1>2 DEF RemovedInv, RemovedLeaves, RemovedCall
<1> QED
  BY <1>1, <1>6, <1>7, <1>8 DEF Inv, CallInv

\* A step that keeps the page, the call and the rows of the lists.
LEMMA StillInv ==
    ASSUME Inv, Typed', UNCHANGED screen, Viewed(route, query') = Viewed(route, query),
           \A g \in Guilds : removal'[g] = "done" => removal[g] = "done"
    PROVE  Inv'
BY StillStep, RemovedStill DEF Inv, Typed

\* The steps of the server and of other users keep the invariant.
LEMMA ServerInv ==
    ASSUME GuildsAssumption, Inv, Server
    PROVE  Inv'
<1>1. Typed
  BY DEF Inv
<1>2. ASSUME NEW c \in Channels, NEW p \in Nat, OtherCreates(c) \/ OtherDeletes(c) \/ OtherMoves(c, p)
      PROVE  Inv'
  <2>1. UNCHANGED screen /\ removal' = removal /\ query' = query
    BY <1>2 DEF OtherCreates, OtherDeletes, OtherMoves, ClientRest
  <2>2. Typed'
    BY <1>1, <1>2, OthersTyped
  <2> QED
    BY <2>1, <2>2, StillInv, SameQueryView
<1>3. ASSUME NEW g \in Guilds, NEW type \in FramesOf.members, MembersChange(g, type)
      PROVE  Inv'
  <2>1. UNCHANGED screen /\ removal' = removal /\ query' = query
    BY <1>3 DEF MembersChange, ClientRest
  <2>2. Typed'
    BY <1>1, <1>3, MembersChangeTyped
  <2> QED
    BY <2>1, <2>2, StillInv, SameQueryView
<1>4. ASSUME NEW g \in Guilds, Kick(g)
      PROVE  Inv'
  <2>1. UNCHANGED screen /\ query' = query /\ removal' = [removal EXCEPT ![g] = "told"]
    BY <1>4 DEF Kick
  <2>2. Typed'
    BY <1>1, <1>4, KickTyped
  <2>3. \A h \in Guilds : removal'[h] = "done" => removal[h] = "done"
    BY <1>1, <2>1 DEF Typed, ScreenT
  <2> QED
    BY <2>1, <2>2, <2>3, StillInv, SameQueryView
<1>5. ASSUME Drop
      PROVE  Inv'
  <2>1. UNCHANGED screen /\ removal' = removal
    BY <1>5 DEF Drop
  <2>2. Typed'
    BY <1>1, <1>5, DropTyped
  <2>3. \A g \in Guilds : /\ query'["channels"][g].loaded = query["channels"][g].loaded
                          /\ query'["channels"][g].data = query["channels"][g].data
    <3> SUFFICES ASSUME NEW g \in Guilds
                 PROVE  /\ query'["channels"][g].loaded = query["channels"][g].loaded
                        /\ query'["channels"][g].data = query["channels"][g].data
      OBVIOUS
    <3> DEFINE q == query["channels"][g]
    <3>1. "channels" \in Lists
      BY DEF Lists
    <3>2. query'["channels"][g] = Blame(q, "missed") \/ query'["channels"][g] = q
      BY <1>1, <1>5, <3>1, DropIs
    <3>3. q \in CacheEntry
      BY <1>1, <3>1 DEF Typed, QueryT
    <3> HIDE DEF q
    <3>4. Blame(q, "missed").loaded = q.loaded /\ Blame(q, "missed").data = q.data
      BY <3>3 DEF Blame, CacheEntry
    <3> QED
      BY <3>2, <3>4 DEF q
  <2>4. Viewed(route, query') = Viewed(route, query)
    BY <1>1, <2>3, SameRowsView DEF Typed
  <2> QED
    BY <2>1, <2>2, <2>4, StillInv
<1>6. \A c \in Channels : Count(GuildOf[c]) \in Nat /\ \A p \in 0..(Count(GuildOf[c]) - 1) : p \in Nat
  BY CountIsNat
<1> QED
  <2>1. CASE \E c \in Channels : \/ OtherCreates(c) \/ OtherDeletes(c)
                                 \/ \E p \in 0..(Count(GuildOf[c]) - 1) : OtherMoves(c, p)
    <3>1. PICK c \in Channels : \E p \in Nat : OtherCreates(c) \/ OtherDeletes(c) \/ OtherMoves(c, p)
      <4>1. 0 \in Nat
        OBVIOUS
      <4> QED
        BY <1>6, <2>1, <4>1
    <3> QED
      BY <1>2, <3>1
  <2>2. CASE \E g \in Guilds : Kick(g) \/ \E type \in FramesOf.members : MembersChange(g, type)
    BY <1>3, <1>4, <2>2
  <2> QED
    BY <1>5, <2>1, <2>2 DEF Server

\* The steps of the fetches keep the invariant.
LEMMA CacheInv ==
    ASSUME GuildsAssumption, Inv, Cache
    PROVE  Inv'
<1>1. Typed /\ CallInv /\ RemovedInv
  BY DEF Inv
<1>2. PICK list \in Lists, g \in Guilds :
         ServerReads(list, g) \/ Answers(list, g) \/ FetchFails(list, g) \/ Ages(list, g)
  BY DEF Cache
<1>3. CASE ServerReads(list, g) \/ Ages(list, g) \/ FetchFails(list, g)
  <2>1. UNCHANGED screen /\ removal' = removal
    BY <1>3 DEF ServerReads, Ages, FetchFails
  <2>2. /\ Typed'
        /\ \A h \in Guilds : /\ query'["channels"][h].loaded = query["channels"][h].loaded
                             /\ query'["channels"][h].data = query["channels"][h].data
    BY <1>1, <1>3, CacheTyped
  <2>3. Viewed(route, query') = Viewed(route, query)
    BY <1>1, <2>2, SameRowsView DEF Typed
  <2> QED
    BY <2>1, <2>2, <2>3, StillInv
<1>4. CASE Answers(list, g)
  <2>1. Quietly /\ removal' = removal
    BY <1>4 DEF Answers
  <2>2. Typed'
    BY <1>1, <1>4, AnswersTyped
  <2> QED
    BY <1>1, <2>1, <2>2, QuietStep, RemovedQuiet DEF Inv, Typed
<1> QED
  BY <1>2, <1>3, <1>4

\* The frames keep the invariant.
LEMMA FramesInv ==
    ASSUME GuildsAssumption, Inv, Frames
    PROVE  Inv'
<1>1. Typed /\ CallInv /\ RemovedInv /\ ScreenT
  BY DEF Inv, Typed
<1>2. ASSUME NEW type \in ListTypes, OnChannelFrame(type)
      PROVE  Inv'
  <2>1. Quietly /\ removal' = removal
    BY <1>2 DEF OnChannelFrame
  <2>2. Typed'
    BY <1>1, <1>2, ChannelFrameTyped
  <2> QED
    BY <1>1, <2>1, <2>2, QuietStep, RemovedQuiet DEF Inv
<1>3. ASSUME NEW g \in Guilds, OnModeration \/ OnMemberJoined \/ OnSelfRemoved \/ TimerFires(g)
      PROVE  Inv'
  <2>1. UNCHANGED screen
    BY <1>3 DEF OnModeration, OnMemberJoined, OnSelfRemoved, TimerFires
  <2>2. Typed' /\ \A h \in Guilds : query'["channels"][h] = query["channels"][h]
    BY <1>1, <1>3, MemberFramesTyped
  <2>3. Viewed(route, query') = Viewed(route, query)
    BY <1>1, <2>2, SameRowsView
  <2>4. \A h \in Guilds : removal'[h] = "done" => removal[h] = "done"
    BY <1>1, <1>3 DEF OnModeration, OnMemberJoined, OnSelfRemoved, TimerFires, ScreenT
  <2> QED
    BY <2>1, <2>2, <2>3, <2>4, StillInv
<1>4. ASSUME NEW g \in Guilds, SelfRemovalEnds(g)
      PROVE  Inv'
  <2>1. Typed' /\ \A h \in Guilds : query'["channels"][h] = query["channels"][h]
    BY <1>1, <1>4, SelfRemovalTyped
  <2>2. Viewed(route, query') = Viewed(route, query)
    BY <1>1, <2>1, SameRowsView
  <2> QED
    BY <1>1, <1>4, <2>1, <2>2, SelfRemovalKeepsCall, RemovedBySelf DEF Inv
<1>5. \A type \in FramesOf.channels : type \in ListTypes
  BY DEF FramesOf, ListTypes
<1>6. \E g \in Guilds : TRUE
  <2>1. CASE OnModeration \/ OnMemberJoined \/ OnSelfRemoved
    <3>1. PICK type : Head1(type)
      BY <2>1 DEF OnModeration, OnMemberJoined, OnSelfRemoved
    <3>2. Head(wire) \in FrameT
      BY <1>1, <3>1, HeadIs DEF Typed
    <3> QED
      BY <3>2 DEF FrameT
  <2>2. CASE \E type \in FramesOf.channels : OnChannelFrame(type)
    <3>1. PICK type : Head1(type)
      BY <2>2 DEF OnChannelFrame
    <3>2. Head(wire) \in FrameT
      BY <1>1, <3>1, HeadIs DEF Typed
    <3> QED
      BY <3>2 DEF FrameT
  <2>3. CASE \E g \in Guilds : TimerFires(g) \/ SelfRemovalEnds(g)
    BY <2>3
  <2> QED
    BY <2>1, <2>2, <2>3 DEF Frames
<1> QED
  BY <1>2, <1>3, <1>4, <1>5, <1>6 DEF Frames

\* The user's own requests keep the invariant.
LEMMA TasksInv ==
    ASSUME GuildsAssumption, Inv, Tasks
    PROVE  Inv'
<1>1. Typed /\ CallInv /\ RemovedInv /\ ScreenT /\ QueryT
  BY DEF Inv, Typed
<1>2. ASSUME Typed', query' = query, UNCHANGED screen, removal' = removal
      PROVE  Inv'
  BY <1>2, StillInv, SameQueryView
<1>3. ASSUME NEW c \in Channels, CreateChannel(c) \/ DeleteChannel(c)
      PROVE  Inv'
  <2>1. removal' = removal
    BY <1>3 DEF CreateChannel, DeleteChannel
  <2> QED
    BY <1>1, <1>2, <1>3, <2>1, AskTyped
<1>4. ASSUME NEW k \in Kinds, TaskEffect(k)
      PROVE  Inv'
  <2>1. removal' = removal
    BY <1>4 DEF TaskEffect
  <2>2. Typed' /\ query' = query /\ UNCHANGED screen
    BY <1>1, <1>4, TaskEffectIs
  <2> QED
    BY <1>2, <2>1, <2>2
<1>5. ASSUME NEW k \in Kinds, CreateOrDeleteFails(k)
      PROVE  Inv'
  <2>1. removal' = removal
    BY <1>5 DEF CreateOrDeleteFails
  <2> QED
    BY <1>1, <1>2, <1>5, <2>1, CreateOrDeleteFailsTyped
<1>6. ASSUME MoveAnswered
      PROVE  Inv'
  <2>1. removal' = removal
    BY <1>6 DEF MoveAnswered
  <2>2. Typed' /\ query' = query /\ UNCHANGED screen
    BY <1>1, <1>6, MoveAnsweredIs
  <2> QED
    BY <1>2, <2>1, <2>2
<1>7. ASSUME MoveFails
      PROVE  Inv'
  <2>1. removal' = removal
    BY <1>7 DEF MoveFails
  <2>2. /\ Typed' /\ UNCHANGED screen
        /\ \A h \in Guilds : /\ query'["channels"][h].loaded = query["channels"][h].loaded
                             /\ query'["channels"][h].data = query["channels"][h].data
    BY <1>1, <1>7, MoveFailsIs
  <2>3. Viewed(route, query') = Viewed(route, query)
    BY <1>1, <2>2, SameRowsView
  <2> QED
    BY <2>1, <2>2, <2>3, StillInv
<1>8. ASSUME NEW order \in Orders(route.guild), Drag(order)
      PROVE  Inv'
  <2>1. removal' = removal
    BY <1>8 DEF Drag
  <2> DEFINE g == route.guild
  <2>2. /\ g \in Guilds /\ query["channels"][g].loaded
        /\ Ids(ToSet(Positions(order))) = Ids(Rows(g))
        /\ query'["channels"][g].loaded /\ query'["channels"][g].data = ToSet(Positions(order))
        /\ Typed' /\ UNCHANGED screen
    BY <1>1, <1>8, DragIs
  <2>3. Ids(query'["channels"][g].data) = Ids(query["channels"][g].data)
    BY <2>2 DEF Rows
  <2>4. Viewed(route, query') = Viewed(route, query)
    BY <2>2, <2>3 DEF Viewed
  <2> QED
    BY <2>1, <2>2, <2>4, StillInv
<1>9. ASSUME CreateAnswered
      PROVE  Inv'
  <2>1. Quietly /\ removal' = removal
    BY <1>9 DEF CreateAnswered
  <2>2. Typed'
    BY <1>1, <1>9, CreateAnsweredIs
  <2> QED
    BY <1>1, <2>1, <2>2, QuietStep, RemovedQuiet DEF Inv
<1>10. ASSUME DeleteAnswered
       PROVE  Inv'
  <2> DEFINE t == task["delete"]
             q == query["channels"][t.guild]
             rows == {r \in Rows(t.guild) : r.id # t.of}
  <2>1. /\ t.guild \in Guilds /\ t.of \in Here(t.guild) /\ EntryOK("channels", t.guild, q)
        /\ rows \in Data("channels", t.guild) /\ query'["channels"][t.guild] = Patched(q, rows)
        /\ \A h \in Guilds : h # t.guild => query'["channels"][h] = query["channels"][h]
        /\ Typed'
    BY <1>1, <1>10, DeleteAnsweredIs
  <2>2. query'["channels"][t.guild].data = rows
    <3>1. "channels" \in Lists
      BY DEF Lists
    <3>2. Patched(q, rows).data = rows
      <4> HIDE DEF rows, q
      <4> QED
        BY <2>1, <3>1, PatchedOK
    <3> QED
      BY <2>1, <3>2
  <2>3. t.of \in Channels /\ GuildOf[t.of] = t.guild /\ t.of # Log
    BY <2>1 DEF Here, GuildsAssumption
  <2>4. Viewed(route, query') # t.of
    <3> SUFFICES ASSUME Viewed(route, query') = t.of
                 PROVE  FALSE
      OBVIOUS
    <3>1. /\ route.guild # Home /\ route.channel = t.of
          /\ t.of \in Ids(query'["channels"][route.guild].data) /\ query'["channels"][route.guild].loaded
      BY <2>3 DEF Viewed
    <3>2. route.guild = t.guild
      <4>1. route.guild \in Guilds
        BY <1>1, <3>1 DEF ScreenT, Pages
      <4>2. EntryOK("channels", route.guild, query'["channels"][route.guild])
        BY <2>1, <4>1 DEF Typed, QueryT, Lists
      <4>3. query'["channels"][route.guild].data \in RowsOf(route.guild)
        BY <3>1, <4>2 DEF EntryOK, Data
      <4>4. PICK r \in query'["channels"][route.guild].data : r.id = t.of
        BY <3>1 DEF Ids
      <4>5. r.id \in Here(route.guild)
        BY <4>3, <4>4 DEF RowsOf
      <4> QED
        BY <2>3, <4>4, <4>5 DEF Here
    <3> QED
      BY <2>2, <3>1, <3>2 DEF Ids
  <2>5. CallInv'
    BY <1>1, <1>10, <2>1, <2>3, <2>4, DeleteKeepsCall
  <2> QED
    BY <1>1, <1>10, <2>1, <2>5, RemovedByDelete DEF Inv
<1>11. DOMAIN task = Kinds
  BY <1>1 DEF Typed, TasksT
<1> QED
  BY <1>3, <1>4, <1>5, <1>6, <1>7, <1>8, <1>9, <1>10, <1>11 DEF Tasks

\* The clicks keep the invariant.
LEMMA UserInv ==
    ASSUME GuildsAssumption, Inv, User
    PROVE  Inv'
<1>1. Typed /\ CallInv /\ RemovedInv /\ ScreenT
  BY DEF Inv, Typed
<1>2. Typed'
  BY <1>1, ClickTyped, RenderNavigationIs DEF User
<1>3. CallInv'
  BY <1>1, SelectRailKeepsCall, SelectChannelKeepsCall, RenderNavigationKeepsCall, HangUpKeepsCall,
     JoinKeepsCall DEF User
<1> QED
  BY <1>1, <1>2, <1>3, RemovedUser DEF Inv

\* Every step keeps the invariant.
LEMMA InvStep ==
    ASSUME GuildsAssumption, Inv, [Next]_vars
    PROVE  Inv'
<1>1. CASE Next
  BY <1>1, ServerInv, CacheInv, FramesInv, TasksInv, UserInv DEF Next
<1>2. CASE UNCHANGED vars
  <2>1. /\ UNCHANGED <<place, roster, wire>> /\ query' = query /\ timer' = timer /\ task' = task
        /\ removal' = removal /\ UNCHANGED screen /\ left' = left
    BY <1>2 DEF vars, server
  <2>2. Typed'
    BY <2>1, ServerStays, WireStays, QueryStays, TasksStay, ScreenStays DEF Inv, Typed, ServerT
  <2> QED
    BY <2>1, <2>2, StillInv, SameQueryView
<1> QED
  BY <1>1, <1>2

\* The invariant holds in every behaviour.
LEMMA InvAlways == Spec => []Inv
<1>1. Init => Inv
  BY InitInv, GuildsAssumption, StoriesAssumption
<1>2. Inv /\ [Next]_vars => Inv'
  BY InvStep, GuildsAssumption
<1> QED
  BY <1>1, <1>2, PTL DEF Spec

\* Every variable of the view has its type, and a request, a frame and a list
\* name channels of their own guild (authenticated-app.tsx and the adapters).
THEOREM ViewTyped == Spec => []Typed
<1>1. Inv => Typed
  BY DEF Inv
<1> QED
  BY <1>1, InvAlways, PTL

\* A call that was hung up or ended does not come back by itself: the call is the
\* one last asked for, or the effect has joined it in one of the three named
\* races (the two voice effects of authenticated-app.tsx:1035-1068).
THEOREM CallWanted == Spec => []CallIsWanted
<1>1. Inv => CallIsWanted
  BY DEF Inv, CallInv
<1> QED
  BY <1>1, InvAlways, PTL

\* Once the user's removal from a guild has been handled
\* (handleSelfRemovedFromServer) the guild is not on screen, and the call is in
\* it only if the effect has joined it on the guild's page before that was left.
THEOREM RemovedOut == Spec => []RemovedMeansOut
<1>1. Inv => RemovedMeansOut
  BY DEF Inv, RemovedInv, RemovedLeaves, RemovedCall, RemovedMeansOut
<1> QED
  BY <1>1, InvAlways, PTL

-----------------------------------------------------------------------------
(* The lists.                                                                *)

SaidIn(w, type, c) == \E i \in DOMAIN w : w[i].type = type /\ w[i].channel = c
Later(w, i, type, c) == \E j \in DOMAIN w : i < j /\ w[j].type = type /\ w[j].channel = c

\* The frames about a channel that are still to come end at what it is: a
\* creation comes first and a deletion last, and the last position is the true one.
Ordered(w, places) ==
    \A i \in DOMAIN w : w[i].type \in ListTypes =>
        LET f == w[i]
            c == f.channel
        IN  /\ places[c] # None /\ ~Later(w, i, "created", c)
            /\ f.type = "deleted" => places[c] = Home
            /\ f.type # "deleted" /\ places[c] \notin Nat => Later(w, i, "deleted", c)
            /\ f.type # "deleted" /\ places[c] \in Nat =>
                  f.position = places[c] \/ Later(w, i, "moved", c)

\* Rows agree with the server about a channel, up to the frames to come and
\* the moves that are still to be sent.
Agrees(rows, c, p, w, moving) ==
    /\ p \in Nat => c \in Ids(rows) \/ SaidIn(w, "created", c)
    /\ p \notin Nat => c \notin Ids(rows) \/ SaidIn(w, "deleted", c)
    /\ p \in Nat => \A r \in rows : r.id = c =>
          r.position = p \/ SaidIn(w, "moved", c) \/ c \in moving
Fits(rows, g, places, w, moving) == \A c \in Here(g) : Agrees(rows, c, places[c], w, moving)

\* The channels whose move of the drag the server has not made yet.
MovingOf(t) ==
    IF t.at = "idle" THEN {}
    ELSE {t.todo[i].id : i \in (IF t.at = "done" THEN 2 ELSE 1)..Len(t.todo)}
Moving == MovingOf(task["drag"])
Untouched(g) == route.guild # g /\ \A k \in Kinds : task[k].guild # g

\* An entry without a cause on record is not loaded, and not looked at, or
\* fits; and so does the answer of its running fetch.
ListFits(q, g, untouched, places, w, moving) ==
    /\ q.fetch = "none" /\ q.causes = {} =>
          \/ ~q.loaded /\ untouched
          \/ q.loaded /\ Fits(q.data, g, places, w, moving)
    /\ q.fetch = "read" /\ q.since = {} => Fits(q.answer, g, places, w, moving)
ListsFit ==
    \A g \in Guilds : ListFits(query["channels"][g], g, Untouched(g), place, wire, Moving)

\* What the user's requests have done.
CreateMade(t, places, w) ==
    t.at = "done" =>
        /\ places[t.of] # None
        /\ places[t.of] \in Nat /\ SaidIn(w, "created", t.of) =>
              Head(t.todo).position = places[t.of] \/ SaidIn(w, "moved", t.of)
DeleteMade(t, places) == t.at = "done" => places[t.of] = Home
TasksMade == CreateMade(task["create"], place, wire) /\ DeleteMade(task["delete"], place)

\* A change of the members is still to be noticed.
BehindIn(w, timers, g) ==
    g \in timers \/ \E i \in DOMAIN w : w[i].guild = g /\ w[i].type \in FramesOf["members"]
MembersFits(q, away, version, behind) ==
    /\ q.fetch = "none" /\ q.causes = {} =>
          \/ ~q.loaded /\ away
          \/ q.loaded /\ (q.data = version \/ behind)
    /\ q.fetch = "read" /\ q.since = {} => q.answer = version \/ behind
MembersFit ==
    \A g \in Guilds :
        MembersFits(query["members"][g], route.guild # g, roster[g], BehindIn(wire, timer, g))

ChannelsInv == Ordered(wire, place) /\ TasksMade /\ ListsFit
ListsInv == ChannelsInv /\ MembersFit

\* Rows that fit still do when more frames are to come and more moves to be sent.
LEMMA FitsGrow ==
    ASSUME NEW rows, NEW g, NEW p1, NEW p2, NEW w1, NEW w2, NEW m1, NEW m2,
           Fits(rows, g, p1, w1, m1),
           \A c \in Here(g) : p2[c] = p1[c] /\ (c \in m1 => c \in m2),
           \A type \in ListTypes, c \in Here(g) : SaidIn(w1, type, c) => SaidIn(w2, type, c)
    PROVE  Fits(rows, g, p2, w2, m2)
BY DEF Fits, Agrees, ListTypes

\* The same of an entry, when only its freshness changes.
LEMMA ListFitsGrow ==
    ASSUME NEW q, NEW r, NEW g, NEW u1, NEW u2, NEW p1, NEW p2, NEW w1, NEW w2, NEW m1, NEW m2,
           ListFits(q, g, u1, p1, w1, m1),
           q.loaded = r.loaded, q.data = r.data, q.fetch = r.fetch, q.answer = r.answer,
           q.causes = r.causes, q.since = r.since,
           ~q.loaded /\ u1 => u2,
           \A c \in Here(g) : p2[c] = p1[c] /\ (c \in m1 => c \in m2),
           \A type \in ListTypes, c \in Here(g) : SaidIn(w1, type, c) => SaidIn(w2, type, c)
    PROVE  ListFits(r, g, u2, p2, w2, m2)
BY FitsGrow DEF ListFits

\* The server changes a channel and says so.
Changes(c, p1, p2, w1, w2) ==
    \/ p1[c] = None /\ p2[c] \in Nat /\ SaidIn(w2, "created", c)
    \/ p1[c] \in Nat /\ p2[c] \notin Nat /\ SaidIn(w2, "deleted", c)
    \/ p1[c] \in Nat /\ p2[c] \in Nat /\ SaidIn(w2, "moved", c)

\* Rows that fit still do when the server changes a channel and says so.
LEMMA ChangeFits ==
    ASSUME GuildsAssumption, NEW rows, NEW g, NEW p1, NEW p2, NEW w1, NEW w2, NEW m1, NEW m2, NEW d,
           Fits(rows, g, p1, w1, m1), Changes(d, p1, p2, w1, w2),
           p1[d] = None => ~SaidIn(w1, "deleted", d),
           \A c \in Here(g) : c # d => p2[c] = p1[c] /\ (c \in m1 => c \in m2),
           \A type \in ListTypes, c \in Here(g) : SaidIn(w1, type, c) => SaidIn(w2, type, c)
    PROVE  Fits(rows, g, p2, w2, m2)
<1>1. SUFFICES ASSUME NEW c \in Here(g)
               PROVE  Agrees(rows, c, p2[c], w2, m2)
  BY DEF Fits
<1>2. Agrees(rows, c, p1[c], w1, m1)
  BY DEF Fits
<1>3. CASE c # d
  BY <1>2, <1>3 DEF Agrees, ListTypes
<1>4. CASE c = d
  <2>1. CASE p1[d] = None /\ p2[d] \in Nat /\ SaidIn(w2, "created", d)
    <3>1. c \notin Ids(rows)
      BY <1>2, <1>4, <2>1 DEF Agrees, GuildsAssumption
    <3>2. \A r \in rows : r.id # c
      BY <3>1 DEF Ids
    <3> QED
      BY <1>4, <2>1, <3>1, <3>2 DEF Agrees
  <2>2. CASE p1[d] \in Nat /\ p2[d] \notin Nat /\ SaidIn(w2, "deleted", d)
    BY <1>4, <2>2 DEF Agrees
  <2>3. CASE p1[d] \in Nat /\ p2[d] \in Nat /\ SaidIn(w2, "moved", d)
    BY <1>2, <1>4, <2>3 DEF Agrees, ListTypes
  <2> QED
    BY <2>1, <2>2, <2>3 DEF Changes
<1> QED
  BY <1>3, <1>4

\* The same of an entry.
LEMMA ListChangeFits ==
    ASSUME GuildsAssumption, NEW q, NEW g, NEW u, NEW p1, NEW p2, NEW w1, NEW w2, NEW m1, NEW m2, NEW d,
           ListFits(q, g, u, p1, w1, m1), Changes(d, p1, p2, w1, w2),
           p1[d] = None => ~SaidIn(w1, "deleted", d),
           \A c \in Here(g) : c # d => p2[c] = p1[c] /\ (c \in m1 => c \in m2),
           \A type \in ListTypes, c \in Here(g) : SaidIn(w1, type, c) => SaidIn(w2, type, c)
    PROVE  ListFits(q, g, u, p2, w2, m2)
BY ChangeFits DEF ListFits

-----------------------------------------------------------------------------
(* Frames at the end and at the head of the wire.                            *)

\* A frame more is said.
LEMMA SaidAppend ==
    ASSUME NEW w \in Seq(FrameT), NEW f \in FrameT, NEW v, v = Append(w, f), NEW type, NEW c
    PROVE  SaidIn(v, type, c) <=> SaidIn(w, type, c) \/ (f.type = type /\ f.channel = c)
<1>1. /\ DOMAIN v = 1..(Len(w) + 1) /\ DOMAIN w = 1..Len(w) /\ Len(w) \in Nat
      /\ v[Len(w) + 1] = f /\ \A i \in 1..Len(w) : v[i] = w[i]
  BY AppendIs
<1>2. Len(w) + 1 \in DOMAIN v /\ \A i \in DOMAIN w : i \in DOMAIN v
  BY <1>1
<1>3. \A i \in DOMAIN v : i \in DOMAIN w \/ i = Len(w) + 1
  BY <1>1
<1> HIDE DEF FrameT
<1> QED
  BY <1>1, <1>2, <1>3 DEF SaidIn

\* A frame more is later than all others.
LEMMA LaterAppend ==
    ASSUME NEW w \in Seq(FrameT), NEW f \in FrameT, NEW v, v = Append(w, f), NEW type, NEW c,
           NEW i \in DOMAIN w
    PROVE  Later(v, i, type, c) <=> Later(w, i, type, c) \/ (f.type = type /\ f.channel = c)
<1>1. /\ DOMAIN v = 1..(Len(w) + 1) /\ DOMAIN w = 1..Len(w) /\ Len(w) \in Nat
      /\ v[Len(w) + 1] = f /\ \A j \in 1..Len(w) : v[j] = w[j]
  BY AppendIs
<1>2. Len(w) + 1 \in DOMAIN v /\ i < Len(w) + 1 /\ \A j \in DOMAIN w : j \in DOMAIN v
  BY <1>1
<1>3. \A j \in DOMAIN v : j \in DOMAIN w \/ j = Len(w) + 1
  BY <1>1
<1> QED
  BY <1>1, <1>2, <1>3 DEF Later

\* What is said later is said.
LEMMA LaterIsSaid ==
    ASSUME NEW w, NEW i, NEW type, NEW c, Later(w, i, type, c)
    PROVE  SaidIn(w, type, c)
BY DEF Later, SaidIn

\* A channel that a frame is about has been created, and deleted when a frame
\* says so.
LEMMA OrderedSaid ==
    ASSUME NEW w, NEW places, Ordered(w, places), NEW type \in ListTypes, NEW c, SaidIn(w, type, c)
    PROVE  places[c] # None /\ (type = "deleted" => places[c] = Home)
BY DEF Ordered, SaidIn

\* A frame more is said, of every type and channel.
LEMMA SaysAppend ==
    ASSUME NEW w \in Seq(FrameT), NEW f \in FrameT, NEW v, v = Append(w, f)
    PROVE  \A type, c : SaidIn(v, type, c) <=> SaidIn(w, type, c) \/ (f.type = type /\ f.channel = c)
BY SaidAppend

\* A frame tells of the change of one channel.
Tells(f, d, p1, p2) ==
    /\ f.channel = d /\ f.position = p2[d]
    /\ \A c \in Channels : c # d => p2[c] = p1[c]
    /\ \/ f.type = "created" /\ p1[d] = None /\ p2[d] \in Nat
       \/ f.type = "deleted" /\ p1[d] \in Nat /\ p2[d] = Home
       \/ f.type = "moved" /\ p1[d] \in Nat /\ p2[d] \in Nat

\* The frame of a change comes after the others about its channel.
LEMMA OrderedChange ==
    ASSUME GuildsAssumption, NEW w \in Seq(FrameT), \A i \in DOMAIN w : FrameOK(w[i]),
           NEW f \in FrameT, NEW v, v = Append(w, f), NEW p1, NEW p2, Ordered(w, p1),
           NEW d \in Channels, Tells(f, d, p1, p2)
    PROVE  /\ Ordered(v, p2) /\ Changes(d, p1, p2, w, v)
           /\ p1[d] = None => ~SaidIn(w, "deleted", d)
           /\ \A type, c : SaidIn(w, type, c) => SaidIn(v, type, c)
<1>0. /\ f.channel = d /\ f.position = p2[d]
      /\ \A c \in Channels : c # d => p2[c] = p1[c]
      /\ \/ f.type = "created" /\ p1[d] = None /\ p2[d] \in Nat
         \/ f.type = "deleted" /\ p1[d] \in Nat /\ p2[d] = Home
         \/ f.type = "moved" /\ p1[d] \in Nat /\ p2[d] \in Nat
  BY DEF Tells
<1>1. \A type, c : SaidIn(v, type, c) <=> SaidIn(w, type, c) \/ (f.type = type /\ f.channel = c)
  BY ONLY w \in Seq(FrameT), f \in FrameT, v = Append(w, f), SaysAppend
<1>2. \A type, c : \A i \in DOMAIN w :
         Later(v, i, type, c) <=> Later(w, i, type, c) \/ (f.type = type /\ f.channel = c)
  <2> SUFFICES ASSUME NEW type, NEW c, NEW i \in DOMAIN w
               PROVE  Later(v, i, type, c) <=> Later(w, i, type, c) \/ (f.type = type /\ f.channel = c)
    OBVIOUS
  <2>1. v = Append(w, f)
    OBVIOUS
  <2> QED
    BY <2>1, LaterAppend
<1>3. Home \notin Nat /\ None \notin Nat
  BY DEF GuildsAssumption
<1>4. Changes(d, p1, p2, w, v)
  BY <1>0, <1>1, <1>3 DEF Changes
<1>5. p1[d] = None => ~SaidIn(w, "deleted", d)
  <2>1. SaidIn(w, "deleted", d) => p1[d] # None
    BY OrderedSaid DEF ListTypes
  <2> QED
    BY <2>1
<1>6. /\ DOMAIN v = 1..(Len(w) + 1) /\ DOMAIN w = 1..Len(w) /\ Len(w) \in Nat
      /\ v[Len(w) + 1] = f /\ \A i \in 1..Len(w) : v[i] = w[i]
  BY AppendIs
<1>7. \A type, c : ~Later(v, Len(w) + 1, type, c)
  BY <1>6 DEF Later
<1>8. Ordered(v, p2)
  <2> SUFFICES ASSUME NEW i \in DOMAIN v, v[i].type \in ListTypes
               PROVE  /\ p2[v[i].channel] # None /\ ~Later(v, i, "created", v[i].channel)
                      /\ v[i].type = "deleted" => p2[v[i].channel] = Home
                      /\ v[i].type # "deleted" /\ p2[v[i].channel] \notin Nat =>
                            Later(v, i, "deleted", v[i].channel)
                      /\ v[i].type # "deleted" /\ p2[v[i].channel] \in Nat =>
                            v[i].position = p2[v[i].channel] \/ Later(v, i, "moved", v[i].channel)
    BY DEF Ordered
  <2>1. CASE i = Len(w) + 1
    <3>1. v[i] = f
      BY <1>6, <2>1
    <3>2. None # Home
      BY DEF GuildsAssumption
    <3> QED
      BY <1>0, <1>3, <1>7, <2>1, <3>1, <3>2
  <2>2. CASE i \in DOMAIN w
    <3> DEFINE c == w[i].channel
    <3>1. v[i] = w[i] /\ FrameOK(w[i])
      BY <1>6, <2>2
    <3>2. c \in Channels
      BY <3>1 DEF FrameOK, Here
    <3>3. /\ p1[c] # None /\ ~Later(w, i, "created", c)
          /\ w[i].type = "deleted" => p1[c] = Home
          /\ w[i].type # "deleted" /\ p1[c] \notin Nat => Later(w, i, "deleted", c)
          /\ w[i].type # "deleted" /\ p1[c] \in Nat => w[i].position = p1[c] \/ Later(w, i, "moved", c)
      BY <2>2, <3>1 DEF Ordered
    <3>4. \A type : Later(v, i, type, c) <=> Later(w, i, type, c) \/ (f.type = type /\ d = c)
      BY <1>0, <1>2, <2>2
    <3> HIDE DEF c
    <3>5. CASE c = d
      BY <1>0, <1>3, <3>1, <3>3, <3>4, <3>5 DEF c, GuildsAssumption
    <3>6. CASE c # d
      BY <1>0, <3>1, <3>2, <3>3, <3>4, <3>6 DEF c
    <3> QED
      BY <3>5, <3>6
  <2> QED
    BY <1>6, <2>1, <2>2
<1> QED
  BY <1>1, <1>4, <1>5, <1>8

\* A frame that is not about a channel.
LEMMA OrderedOther ==
    ASSUME NEW w \in Seq(FrameT), NEW f \in FrameT, f.type \notin ListTypes, NEW v, v = Append(w, f),
           NEW places, Ordered(w, places)
    PROVE  /\ Ordered(v, places)
           /\ \A type \in ListTypes : \A c : SaidIn(v, type, c) <=> SaidIn(w, type, c)
<1>1. \A type, c : SaidIn(v, type, c) <=> SaidIn(w, type, c) \/ (f.type = type /\ f.channel = c)
  BY SaidAppend
<1>2. \A type, c : \A i \in DOMAIN w :
         Later(v, i, type, c) <=> Later(w, i, type, c) \/ (f.type = type /\ f.channel = c)
  BY LaterAppend
<1>3. /\ DOMAIN v = 1..(Len(w) + 1) /\ DOMAIN w = 1..Len(w) /\ Len(w) \in Nat
      /\ v[Len(w) + 1] = f /\ \A i \in 1..Len(w) : v[i] = w[i]
  BY AppendIs
<1>4. \A i \in DOMAIN v : v[i].type \in ListTypes => i \in DOMAIN w /\ v[i] = w[i]
  BY <1>3
<1>5. \A type \in ListTypes : \A c : \A i \in DOMAIN w : Later(v, i, type, c) <=> Later(w, i, type, c)
  BY <1>2
<1>6. Ordered(v, places)
  BY <1>4, <1>5 DEF Ordered, ListTypes
<1> QED
  BY <1>1, <1>6

\* The frames after the first are in order, and the first fits what follows it.
LEMMA OrderedTail ==
    ASSUME NEW w \in Seq(FrameT), w # <<>>, NEW v, v = Tail(w), NEW places, Ordered(w, places)
    PROVE  /\ Ordered(v, places)
           /\ \A type, c : SaidIn(w, type, c) <=>
                 SaidIn(v, type, c) \/ (Head(w).type = type /\ Head(w).channel = c)
           /\ Head(w).type \in ListTypes =>
                LET c == Head(w).channel
                IN  /\ places[c] # None /\ ~SaidIn(v, "created", c)
                    /\ Head(w).type = "deleted" => places[c] = Home
                    /\ Head(w).type # "deleted" /\ places[c] \notin Nat => SaidIn(v, "deleted", c)
                    /\ Head(w).type # "deleted" /\ places[c] \in Nat =>
                          Head(w).position = places[c] \/ SaidIn(v, "moved", c)
<1>1. /\ Len(w) \in Nat \ {0} /\ DOMAIN v = 1..(Len(w) - 1) /\ DOMAIN w = 1..Len(w)
      /\ Head(w) = w[1] /\ \A i \in 1..(Len(w) - 1) : v[i] = w[i + 1]
  BY TailIs
<1>2. 1 \in DOMAIN w /\ \A i \in DOMAIN v : i + 1 \in DOMAIN w /\ v[i] = w[i + 1] /\ 1 < i + 1
  BY <1>1
<1>3. \A j \in DOMAIN w : j = 1 \/ (j - 1 \in DOMAIN v /\ v[j - 1] = w[j] /\ 1 < j)
  BY <1>1
<1>4. \A type, c : SaidIn(w, type, c) <=>
         SaidIn(v, type, c) \/ (Head(w).type = type /\ Head(w).channel = c)
  <2> SUFFICES ASSUME NEW type, NEW c
               PROVE  SaidIn(w, type, c) <=>
                         SaidIn(v, type, c) \/ (Head(w).type = type /\ Head(w).channel = c)
    OBVIOUS
  <2>1. SaidIn(v, type, c) => SaidIn(w, type, c)
    BY <1>2 DEF SaidIn
  <2>2. Head(w).type = type /\ Head(w).channel = c => SaidIn(w, type, c)
    BY <1>1, <1>2 DEF SaidIn
  <2>3. ASSUME NEW j \in DOMAIN w, w[j].type = type, w[j].channel = c
        PROVE  SaidIn(v, type, c) \/ (Head(w).type = type /\ Head(w).channel = c)
    <3>1. CASE j = 1
      BY <1>1, <2>3, <3>1
    <3>2. CASE j - 1 \in DOMAIN v /\ v[j - 1] = w[j]
      BY <2>3, <3>2 DEF SaidIn
    <3> QED
      BY <1>3, <3>1, <3>2
  <2> QED
    BY <2>1, <2>2, <2>3 DEF SaidIn
<1>5. \A type, c : Later(w, 1, type, c) <=> SaidIn(v, type, c)
  BY <1>1, <1>2, <1>3 DEF SaidIn, Later
<1>6. \A type, c : \A i \in DOMAIN v : Later(v, i, type, c) <=> Later(w, i + 1, type, c)
  <2> SUFFICES ASSUME NEW type, NEW c, NEW i \in DOMAIN v
               PROVE  Later(v, i, type, c) <=> Later(w, i + 1, type, c)
    OBVIOUS
  <2>1. ASSUME NEW j \in DOMAIN v, i < j
        PROVE  j + 1 \in DOMAIN w /\ i + 1 < j + 1 /\ w[j + 1] = v[j]
    BY <1>1, <2>1
  <2>2. ASSUME NEW j \in DOMAIN w, i + 1 < j
        PROVE  j - 1 \in DOMAIN v /\ i < j - 1 /\ v[j - 1] = w[j]
    BY <1>1, <2>2
  <2> QED
    BY <2>1, <2>2 DEF Later
<1>7. Ordered(v, places)
  BY <1>2, <1>6 DEF Ordered
<1>8. Head(w).type \in ListTypes =>
        LET c == Head(w).channel
        IN  /\ places[c] # None /\ ~SaidIn(v, "created", c)
            /\ Head(w).type = "deleted" => places[c] = Home
            /\ Head(w).type # "deleted" /\ places[c] \notin Nat => SaidIn(v, "deleted", c)
            /\ Head(w).type # "deleted" /\ places[c] \in Nat =>
                  Head(w).position = places[c] \/ SaidIn(v, "moved", c)
  BY <1>1, <1>2, <1>5 DEF Ordered
<1> QED
  BY <1>4, <1>7, <1>8

\* The rows after a frame about their guild, and the rows of the others.
LEMMA TailFitsOthers ==
    ASSUME NEW rows, NEW g, NEW places, NEW w, NEW v, NEW m, Fits(rows, g, places, w, m),
           \A type \in ListTypes, c \in Here(g) : SaidIn(w, type, c) => SaidIn(v, type, c)
    PROVE  Fits(rows, g, places, v, m)
BY FitsGrow

\* Rows patched by the first frame fit the frames after it.
LEMMA FrameFits ==
    ASSUME GuildsAssumption, NEW w \in Seq(FrameT), w # <<>>, NEW v, v = Tail(w), NEW places, Ordered(w, places),
           NEW g, NEW rows, NEW m, Fits(rows, g, places, w, m),
           Head(w).type \in ListTypes, Head(w).channel \in Here(g), NEW new,
           new = IF Head(w).type = "created" THEN OnCreated(Head(w), rows)
                 ELSE IF Head(w).type = "deleted" THEN OnDeleted(Head(w), rows) ELSE OnMoved(Head(w), rows)
    PROVE  Fits(new, g, places, v, m)
<1> DEFINE f == Head(w)
           d == f.channel
<1>1. /\ \A type, c : SaidIn(w, type, c) <=> SaidIn(v, type, c) \/ (f.type = type /\ d = c)
      /\ places[d] # None /\ ~SaidIn(v, "created", d)
      /\ f.type = "deleted" => places[d] = Home
      /\ f.type # "deleted" /\ places[d] \notin Nat => SaidIn(v, "deleted", d)
      /\ f.type # "deleted" /\ places[d] \in Nat => f.position = places[d] \/ SaidIn(v, "moved", d)
  BY OrderedTail
<1>2. \A c : c # d => (c \in Ids(new) <=> c \in Ids(rows))
             /\ \A r \in new : r.id = c => r \in rows
  <2> HIDE DEF f
  <2>1. CASE f.type = "created"
    BY <2>1 DEF OnCreated, Ids, Row, f
  <2>2. CASE f.type = "deleted"
    BY <2>2 DEF OnDeleted, Ids, f
  <2>3. CASE f.type = "moved"
    BY <2>3 DEF OnMoved, Ids, Row, f
  <2> QED
    BY <2>1, <2>2, <2>3 DEF ListTypes, f
<1>3. SUFFICES ASSUME NEW c \in Here(g)
               PROVE  Agrees(new, c, places[c], v, m)
  BY DEF Fits
<1>4. Agrees(rows, c, places[c], w, m)
  BY DEF Fits
<1> HIDE DEF f
<1>5. CASE c # d
  BY <1>1, <1>2, <1>4, <1>5 DEF Agrees
<1>6. CASE c = d /\ f.type = "created"
  <2>1. new = OnCreated(f, rows)
    BY <1>6 DEF f
  <2>2. d \in Ids(new)
    BY <2>1 DEF OnCreated, Ids, Row
  <2>3. \A r \in new : r.id = d => r \in rows \/ r.position = f.position
    BY <2>1 DEF OnCreated, Row
  <2>4. SaidIn(w, "moved", d) => SaidIn(v, "moved", d)
    BY <1>1, <1>6
  <2> QED
    BY <1>1, <1>4, <1>6, <2>2, <2>3, <2>4 DEF Agrees
<1>7. CASE c = d /\ f.type = "deleted"
  <2>1. new = OnDeleted(f, rows)
    BY <1>7 DEF f
  <2>2. d \notin Ids(new)
    BY <2>1 DEF OnDeleted, Ids
  <2>3. places[d] \notin Nat
    BY <1>1, <1>7 DEF GuildsAssumption
  <2> QED
    BY <1>7, <2>2, <2>3 DEF Agrees
<1>8. CASE c = d /\ f.type = "moved"
  <2>1. new = OnMoved(f, rows)
    BY <1>8 DEF f
  <2>2. d \in Ids(new) <=> d \in Ids(rows)
    <3>1. new = {IF r.id = d THEN Row(r.id, f.position) ELSE r : r \in rows}
      BY <2>1 DEF OnMoved
    <3> HIDE DEF d
    <3>2. \A r : (IF r.id = d THEN Row(r.id, f.position) ELSE r).id = r.id
      BY DEF Row
    <3>3. \A r \in rows : \E s \in new : s.id = r.id
      BY <3>1, <3>2
    <3>4. \A s \in new : \E r \in rows : s.id = r.id
      BY <3>1, <3>2
    <3> QED
      BY <3>3, <3>4 DEF Ids
  <2>3. \A r \in new : r.id = d => r.position = f.position
    BY <2>1 DEF OnMoved, Row
  <2>4. /\ SaidIn(w, "created", d) => SaidIn(v, "created", d)
        /\ SaidIn(w, "deleted", d) => SaidIn(v, "deleted", d)
    BY <1>1, <1>8
  <2> QED
    BY <1>1, <1>4, <1>8, <2>2, <2>3, <2>4 DEF Agrees
<1> QED
  BY <1>5, <1>6, <1>7, <1>8 DEF ListTypes, f

-----------------------------------------------------------------------------
(* Steps that leave the channel lists, or the members, alone.                *)

\* The channel lists fit while neither they nor the frames about them change.
LEMMA ChannelsStill ==
    ASSUME ChannelsInv, Ordered(wire', place'), place' = place, task' = task, route' = route,
           \A g \in Guilds : query'["channels"][g] = query["channels"][g],
           \A type \in ListTypes : \A c : SaidIn(wire', type, c) <=> SaidIn(wire, type, c)
    PROVE  ChannelsInv'
<1>1. TasksMade'
  BY DEF ChannelsInv, TasksMade, CreateMade, DeleteMade, ListTypes
<1>2. Moving' = Moving /\ \A g \in Guilds : Untouched(g)' = Untouched(g)
  BY DEF Moving, Untouched
<1>3. ASSUME NEW g \in Guilds
      PROVE  ListFits(query'["channels"][g], g, Untouched(g)', place', wire', Moving')
  <2>1. ListFits(query["channels"][g], g, Untouched(g), place, wire, Moving)
    BY DEF ChannelsInv, ListsFit
  <2>2. \A type \in ListTypes, c \in Here(g) : SaidIn(wire, type, c) => SaidIn(wire', type, c)
    OBVIOUS
  <2>3. ListFits(query["channels"][g], g, Untouched(g), place, wire', Moving)
    BY <2>1, <2>2, ListFitsGrow
  <2> QED
    BY <1>2, <2>3
<1> QED
  BY <1>1, <1>3 DEF ChannelsInv, ListsFit

\* The channel lists fit while nothing about them changes.
LEMMA ChannelsSame ==
    ASSUME ChannelsInv, UNCHANGED <<place, wire, task, route>>,
           \A g \in Guilds : query'["channels"][g] = query["channels"][g]
    PROVE  ChannelsInv'
<1>1. Ordered(wire', place')
  BY DEF ChannelsInv
<1> QED
  BY <1>1, ChannelsStill

\* The members fit while they do not change and no frame about them is lost.
LEMMA MembersStill ==
    ASSUME MembersFit, route' = route, roster' = roster,
           \A g \in Guilds : query'["members"][g] = query["members"][g],
           \A g \in Guilds : BehindIn(wire, timer, g) => BehindIn(wire', timer', g)
    PROVE  MembersFit'
BY DEF MembersFit, MembersFits

\* What is still to be noticed stays so with one more frame.
LEMMA BehindAppend ==
    ASSUME NEW w \in Seq(FrameT), NEW f \in FrameT, NEW v, v = Append(w, f), NEW timers, NEW g
    PROVE  /\ BehindIn(w, timers, g) => BehindIn(v, timers, g)
           /\ f.type \in FramesOf["members"] /\ f.guild = g => BehindIn(v, timers, g)
<1>1. /\ DOMAIN v = 1..(Len(w) + 1) /\ DOMAIN w = 1..Len(w) /\ Len(w) \in Nat
      /\ v[Len(w) + 1] = f /\ \A i \in 1..Len(w) : v[i] = w[i]
  BY AppendIs
<1>2. Len(w) + 1 \in DOMAIN v /\ \A i \in DOMAIN w : i \in DOMAIN v /\ v[i] = w[i]
  BY <1>1
<1> QED
  BY <1>1, <1>2 DEF BehindIn

\* What is still to be noticed stays so, unless the frame was the first.
LEMMA BehindTail ==
    ASSUME NEW w \in Seq(FrameT), w # <<>>, NEW v, v = Tail(w), NEW timers, NEW g,
           BehindIn(w, timers, g)
    PROVE  BehindIn(v, timers, g) \/ (Head(w).type \in FramesOf["members"] /\ Head(w).guild = g)
<1>1. /\ Len(w) \in Nat \ {0} /\ DOMAIN v = 1..(Len(w) - 1) /\ DOMAIN w = 1..Len(w)
      /\ Head(w) = w[1] /\ \A i \in 1..(Len(w) - 1) : v[i] = w[i + 1]
  BY TailIs
<1>2. \A j \in DOMAIN w : j = 1 \/ (j - 1 \in DOMAIN v /\ v[j - 1] = w[j])
  BY <1>1
<1>3. CASE g \in timers
  BY <1>3 DEF BehindIn
<1>4. CASE \E j \in DOMAIN w : w[j].guild = g /\ w[j].type \in FramesOf["members"]
  <2>1. PICK j \in DOMAIN w : w[j].guild = g /\ w[j].type \in FramesOf["members"]
    BY <1>4
  <2>2. CASE j = 1
    BY <1>1, <2>1, <2>2
  <2>3. CASE j - 1 \in DOMAIN v /\ v[j - 1] = w[j]
    BY <2>1, <2>3 DEF BehindIn
  <2> QED
    BY <1>2, <2>2, <2>3
<1> QED
  BY <1>3, <1>4 DEF BehindIn

\* The frames about members and about channels.
LEMMA MemberFramesAre ==
    /\ FramesOf["members"] = {"joined", "moderated"} /\ FramesOf["channels"] = ListTypes
    /\ \A type \in ListTypes : type \notin FramesOf["members"]
BY DEF FramesOf, ListTypes

\* A member list that is fetched again, or blamed, fits.
LEMMA MembersRefetchedFit ==
    ASSUME Typed, MembersFit, NEW g \in Guilds, MembersRefetched(g), route' = route, roster' = roster,
           \A h \in Guilds : h # g => (BehindIn(wire, timer, h) => BehindIn(wire', timer', h))
    PROVE  MembersFit'
<1> DEFINE q == query["members"][g]
<1>1. /\ \A h \in Guilds : h # g => query'["members"][h] = query["members"][h]
      /\ query'["members"][g] = IF route.guild = g THEN Refetched(q) ELSE Blame(q, "away")
  BY MembersRefetchedOK DEF Typed
<1>2. EntryOK("members", g, q) /\ q \in CacheEntry /\ "members" \in Lists /\ "away" \in Causes
  BY DEF Typed, QueryT, Lists, Causes, EntryOK
<1>3. ASSUME NEW h \in Guilds, h # g
      PROVE  MembersFits(query'["members"][h], route'.guild # h, roster'[h], BehindIn(wire', timer', h))
  BY <1>1, <1>3 DEF MembersFit, MembersFits
<1>4. ASSUME NEW r, r.fetch # "none" \/ r.causes # {}, r.fetch = "read" => r.since # {},
             NEW away, NEW version, NEW behind
      PROVE  MembersFits(r, away, version, behind)
  BY <1>4 DEF MembersFits
<1>5. /\ query'["members"][g].fetch # "none" \/ query'["members"][g].causes # {}
      /\ query'["members"][g].fetch = "read" => query'["members"][g].since # {}
  <2> HIDE DEF q
  <2>1. CASE route.guild = g
    <3>1. Refetched(q).fetch # "none" /\ (Refetched(q).fetch = "read" => Refetched(q).since # {})
      BY <1>2, RefetchedOK
    <3> QED
      BY <1>1, <2>1, <3>1 DEF q
  <2>2. CASE route.guild # g
    <3> DEFINE b == Blame(q, "away")
    <3>1. b.causes = q.causes \cup {"away"} /\ b.since = q.since \cup {"away"}
      BY <1>2 DEF Blame, CacheEntry
    <3>2. query'["members"][g] = b
      BY <1>1, <2>2 DEF q
    <3> HIDE DEF b
    <3> QED
      BY <3>1, <3>2
  <2> QED
    BY <2>1, <2>2
<1>6. MembersFits(query'["members"][g], route'.guild # g, roster'[g], BehindIn(wire', timer', g))
  BY <1>4, <1>5
<1> QED
  BY <1>3, <1>6 DEF MembersFit

-----------------------------------------------------------------------------
(* The server.                                                               *)

\* A change of a channel: its frame goes behind the others.
LEMMA ServerChangeIs ==
    ASSUME GuildsAssumption, Typed, ChannelsInv, NEW d \in Channels, NEW p \in Nat,
           ServerCreates(d) \/ ServerDeletes(d) \/ ServerMoves(d, p)
    PROVE  /\ Ordered(wire', place') /\ Changes(d, place, place', wire, wire')
           /\ place[d] = None => ~SaidIn(wire, "deleted", d)
           /\ \A type, c : SaidIn(wire, type, c) => SaidIn(wire', type, c)
           /\ \A type, c : SaidIn(wire', type, c) /\ c # d => SaidIn(wire, type, c)
           /\ \A c \in Channels : c # d => place'[c] = place[c]
           /\ place[d] # None => (place'[d] \in Nat => SaidIn(wire', "moved", d))
           /\ ServerMoves(d, p) => SaidIn(wire', "moved", d)
           /\ \A g, timers : BehindIn(wire, timers, g) => BehindIn(wire', timers, g)
           /\ place'[d] # None /\ (place'[d] \notin Nat => place'[d] = Home)
           /\ roster' = roster
<1>1. PICK type \in ListTypes : /\ Broadcast(type, GuildOf[d], d)
                                /\ \/ type = "created" /\ place[d] = None /\ ServerCreates(d)
                                   \/ type = "deleted" /\ ServerDeletes(d)
                                   \/ type = "moved" /\ ServerMoves(d, p)
  <2>1. "created" \in ListTypes /\ "deleted" \in ListTypes /\ "moved" \in ListTypes
    BY DEF ListTypes
  <2> QED
    BY <2>1 DEF ServerCreates, ServerDeletes, ServerMoves
<1>2. place \in [Channels -> Nat \cup {None, Home}] /\ Home \notin Nat /\ None \notin Nat /\ None # Home
  BY DEF Typed, ServerT, GuildsAssumption
<1>3. place' \in [Channels -> Nat \cup {None, Home}] /\ (type = "created" => place'[d] \in Nat) /\ roster' = roster
  BY <1>1, ServerCreatesOK, ServerDeletesOK, ServerMovesOK DEF Typed
<1>4. /\ \A c \in Channels : c # d => place'[c] = place[c]
      /\ \/ type = "created" /\ place[d] = None /\ place'[d] \in Nat
         \/ type = "deleted" /\ place[d] \in Nat /\ place'[d] = Home
         \/ type = "moved" /\ place[d] \in Nat /\ place'[d] \in Nat
  <2>1. CASE type = "created" /\ ServerCreates(d) /\ place[d] = None
    BY <1>2, <1>3, <2>1 DEF ServerCreates
  <2>2. CASE type = "deleted" /\ ServerDeletes(d)
    BY <1>2, <2>2 DEF ServerDeletes, Exists
  <2>3. CASE type = "moved" /\ ServerMoves(d, p)
    BY <1>2, <2>3 DEF ServerMoves, Exists
  <2> QED
    BY <1>1, <2>1, <2>2, <2>3
<1> DEFINE f == Frame(type, GuildOf[d], d)
<1>5. wire' = Append(wire, f) /\ f \in FrameT
  <2>1. d \in Here(GuildOf[d]) /\ GuildOf[d] \in Guilds /\ (type # "deleted" => place'[d] \in Nat)
    BY <1>4 DEF Here, GuildsAssumption
  <2> QED
    BY <1>1, <1>3, <2>1, BroadcastOK DEF Typed
<1>6. f.channel = d /\ f.type = type /\ f.position = place'[d]
  BY DEF Frame, GuildsAssumption
<1> HIDE DEF f
<1>7. wire \in Seq(FrameT) /\ \A i \in DOMAIN wire : FrameOK(wire[i])
  BY DEF Typed, WireT
<1>8. Ordered(wire, place)
  BY DEF ChannelsInv
<1>9. /\ Ordered(wire', place') /\ Changes(d, place, place', wire, wire')
      /\ place[d] = None => ~SaidIn(wire, "deleted", d)
      /\ \A t, c : SaidIn(wire, t, c) => SaidIn(wire', t, c)
  <2>1. Tells(f, d, place, place')
    BY <1>4, <1>6 DEF Tells
  <2> QED
    BY <1>5, <1>7, <1>8, <2>1, OrderedChange
<1>10. \A g, timers : BehindIn(wire, timers, g) => BehindIn(wire', timers, g)
  BY <1>5, <1>7, BehindAppend
<1>11. ServerMoves(d, p) => SaidIn(wire', "moved", d)
  <2>1. ServerMoves(d, p) => Broadcast("moved", GuildOf[d], d)
    BY DEF ServerMoves
  <2>2. Broadcast("moved", GuildOf[d], d) => wire' = Append(wire, Frame("moved", GuildOf[d], d))
    BY DEF Broadcast
  <2>3. ServerMoves(d, p) => type = "moved"
    <3>1. ServerMoves(d, p) => place[d] \in Nat /\ place'[d] \in Nat
      BY <1>2 DEF ServerMoves, Exists
    <3> QED
      BY <1>2, <1>4, <3>1
  <2>4. SaidIn(wire', type, d)
    BY <1>5, <1>6, <1>7, SaidAppend
  <2> QED
    BY <2>3, <2>4
<1>12. place'[d] # None /\ (place'[d] \notin Nat => place'[d] = Home)
  BY <1>2, <1>4
<1>13. \A t, c : SaidIn(wire', t, c) /\ c # d => SaidIn(wire, t, c)
  BY <1>5, <1>6, <1>7, SaysAppend
<1>14. place[d] # None => (place'[d] \in Nat => SaidIn(wire', "moved", d))
  BY <1>2, <1>4, <1>9 DEF Changes
<1> QED
  BY <1>3, <1>4, <1>9, <1>10, <1>11, <1>12, <1>13, <1>14

\* A change of a channel leaves every list as far from it as the frames say.
LEMMA ServerChangeFits ==
    ASSUME GuildsAssumption, Typed, ChannelsInv, NEW d \in Channels, NEW p \in Nat,
           ServerCreates(d) \/ ServerDeletes(d) \/ ServerMoves(d, p), query' = query,
           \A c \in Channels : c # d => (c \in Moving => c \in Moving'),
           \A g \in Guilds : Untouched(g) => Untouched(g)'
    PROVE  Ordered(wire', place') /\ ListsFit'
<1>1. /\ Ordered(wire', place') /\ Changes(d, place, place', wire, wire')
      /\ place[d] = None => ~SaidIn(wire, "deleted", d)
      /\ \A type, c : SaidIn(wire, type, c) => SaidIn(wire', type, c)
      /\ \A c \in Channels : c # d => place'[c] = place[c]
  BY ServerChangeIs
<1>2. ASSUME NEW g \in Guilds
      PROVE  ListFits(query["channels"][g], g, Untouched(g)', place', wire', Moving')
  <2> DEFINE q == query["channels"][g]
             m == Moving'
             v == wire'
             after == place'
  <2>1. ListFits(q, g, Untouched(g), place, wire, Moving)
    BY DEF ChannelsInv, ListsFit
  <2>2. /\ \A c \in Here(g) : c # d => after[c] = place[c] /\ (c \in Moving => c \in m)
        /\ \A type \in ListTypes, c \in Here(g) : SaidIn(wire, type, c) => SaidIn(v, type, c)
        /\ Changes(d, place, after, wire, v)
        /\ place[d] = None => ~SaidIn(wire, "deleted", d)
    BY <1>1 DEF Here
  <2> HIDE DEF q, m, v, after
  <2>3. ListFits(q, g, Untouched(g), after, v, m)
    BY <2>1, <2>2, ListChangeFits
  <2>4. ListFits(q, g, Untouched(g)', after, v, m)
    BY <2>3 DEF ListFits
  <2> QED
    BY <2>4 DEF q, m, v, after
<1> QED
  BY <1>1, <1>2 DEF ListsFit

\* What the user's requests have done, and what another change makes of it.
LEMMA TasksMadeStay ==
    ASSUME GuildsAssumption, Typed, ChannelsInv, NEW d \in Channels, NEW p \in Nat,
           ServerCreates(d) \/ ServerDeletes(d) \/ ServerMoves(d, p)
    PROVE  CreateMade(task["create"], place', wire') /\ DeleteMade(task["delete"], place')
<1>1. /\ \A type, c : SaidIn(wire, type, c) => SaidIn(wire', type, c)
      /\ \A type, c : SaidIn(wire', type, c) /\ c # d => SaidIn(wire, type, c)
      /\ \A c \in Channels : c # d => place'[c] = place[c]
      /\ place[d] # None => (place'[d] \in Nat => SaidIn(wire', "moved", d))
      /\ place'[d] # None
  BY ServerChangeIs
<1>2. CreateMade(task["create"], place, wire) /\ DeleteMade(task["delete"], place)
  BY DEF ChannelsInv, TasksMade
<1>3. ASSUME NEW t, t.at = "done" => t.of \in Channels, CreateMade(t, place, wire)
      PROVE  CreateMade(t, place', wire')
  <2>1. CASE t.of = d
    BY <1>1, <1>3, <2>1 DEF CreateMade
  <2>2. CASE t.of # d
    BY <1>1, <1>3, <2>2 DEF CreateMade
  <2> QED
    BY <2>1, <2>2
<1>4. ASSUME NEW t, t.at = "done" => t.of \in Channels, DeleteMade(t, place)
      PROVE  DeleteMade(t, place')
  <2>1. place[d] # Home
    BY DEF ServerCreates, ServerDeletes, ServerMoves, Exists, GuildsAssumption
  <2> QED
    BY <1>1, <1>4, <2>1 DEF DeleteMade
<1>5. \A k \in Kinds : task[k].at = "done" => task[k].of \in Channels
  BY DEF Typed, TasksT, TaskOK, Here
<1>6. "create" \in Kinds /\ "delete" \in Kinds
  BY DEF Kinds
<1> QED
  BY <1>2, <1>3, <1>4, <1>5, <1>6

\* Other users change channels.
LEMMA OthersFit ==
    ASSUME GuildsAssumption, Typed, ListsInv, NEW d \in Channels, NEW p \in Nat,
           OtherCreates(d) \/ OtherDeletes(d) \/ OtherMoves(d, p)
    PROVE  ListsInv'
<1>1. /\ ServerCreates(d) \/ ServerDeletes(d) \/ ServerMoves(d, p)
      /\ query' = query /\ timer' = timer /\ task' = task /\ route' = route
  BY DEF OtherCreates, OtherDeletes, OtherMoves, ClientRest, screen
<1>2. ChannelsInv /\ MembersFit
  BY DEF ListsInv
<1>3. Moving' = Moving /\ \A g \in Guilds : Untouched(g)' = Untouched(g)
  BY <1>1 DEF Moving, Untouched
<1>4. Ordered(wire', place') /\ ListsFit'
  BY <1>1, <1>2, <1>3, ServerChangeFits
<1>5. /\ \A type, c : SaidIn(wire, type, c) => SaidIn(wire', type, c)
      /\ \A type, c : SaidIn(wire', type, c) /\ c # d => SaidIn(wire, type, c)
      /\ \A c \in Channels : c # d => place'[c] = place[c]
      /\ place[d] # None => (place'[d] \in Nat => SaidIn(wire', "moved", d))
      /\ \A g, timers : BehindIn(wire, timers, g) => BehindIn(wire', timers, g)
      /\ place'[d] # None /\ (place'[d] \notin Nat => place'[d] = Home)
      /\ roster' = roster
  BY <1>1, <1>2, ServerChangeIs
<1>6. TasksMade'
  BY <1>1, <1>2, TasksMadeStay DEF TasksMade
<1>7. MembersFit'
  BY <1>1, <1>2, <1>5, MembersStill
<1> QED
  BY <1>4, <1>6, <1>7 DEF ListsInv, ChannelsInv

\* A frame that is not about a channel is sent.
LEMMA MembersSentFit ==
    ASSUME GuildsAssumption, Typed, ListsInv, NEW g \in Guilds, NEW type \in MemberTypes,
           Broadcast(type, g, None), place' = place, task' = task, route' = route,
           query' = query
    PROVE  /\ ChannelsInv'
           /\ \A h, timers : BehindIn(wire, timers, h) => BehindIn(wire', timers, h)
           /\ type # "kicked" => \A timers : BehindIn(wire', timers, g)
<1> DEFINE f == Frame(type, g, None)
<1>1. wire' = Append(wire, f) /\ f \in FrameT
  <2>1. type \notin ListTypes
    BY DEF MemberTypes, ListTypes
  <2>2. place' \in [Channels -> Nat \cup {None, Home}]
    BY DEF Typed, ServerT
  <2> QED
    BY <2>1, <2>2, BroadcastOK DEF Typed
<1>2. f.type = type /\ f.guild = g
  BY DEF Frame
<1> HIDE DEF f
<1>3. wire \in Seq(FrameT) /\ ChannelsInv /\ Ordered(wire, place)
  BY DEF Typed, WireT, ListsInv, ChannelsInv
<1>4. f.type \notin ListTypes /\ (type # "kicked" => f.type \in FramesOf["members"])
  BY <1>2 DEF MemberTypes, ListTypes, FramesOf
<1>5. Ordered(wire', place) /\ \A t \in ListTypes : \A c : SaidIn(wire', t, c) <=> SaidIn(wire, t, c)
  BY <1>1, <1>3, <1>4, OrderedOther
<1>6. ChannelsInv'
  BY <1>3, <1>5, ChannelsStill
<1>7. \A timers, h : /\ BehindIn(wire, timers, h) => BehindIn(wire', timers, h)
                     /\ f.type \in FramesOf["members"] /\ f.guild = h => BehindIn(wire', timers, h)
  BY <1>1, <1>3, BehindAppend
<1> QED
  BY <1>2, <1>4, <1>6, <1>7

\* A change of the members is noticed later.
LEMMA MembersChangeFit ==
    ASSUME GuildsAssumption, Typed, ListsInv, NEW g \in Guilds,
           Kick(g) \/ \E type \in FramesOf.members : MembersChange(g, type)
    PROVE  ListsInv'
<1>1. CASE Kick(g)
  <2>1. /\ Broadcast("kicked", g, None) /\ "kicked" \in MemberTypes
        /\ UNCHANGED <<place, roster, query, timer, task, route>>
    BY <1>1 DEF Kick, MemberTypes, screen
  <2>2. ChannelsInv' /\ \A h, timers : BehindIn(wire, timers, h) => BehindIn(wire', timers, h)
    BY <2>1, MembersSentFit
  <2>3. MembersFit'
    BY <2>1, <2>2, MembersStill DEF ListsInv
  <2> QED
    BY <2>2, <2>3 DEF ListsInv
<1>2. CASE \E type \in FramesOf.members : MembersChange(g, type)
  <2>1. PICK type \in FramesOf.members : MembersChange(g, type)
    BY <1>2
  <2>2. /\ Broadcast(type, g, None) /\ type \in MemberTypes /\ type # "kicked"
        /\ UNCHANGED <<place, query, timer, task, route>>
        /\ roster' = [roster EXCEPT ![g] = @ + 1]
    BY <2>1 DEF MembersChange, FramesOf, MemberTypes, ClientRest, screen
  <2>3. /\ ChannelsInv' /\ \A h, timers : BehindIn(wire, timers, h) => BehindIn(wire', timers, h)
        /\ \A timers : BehindIn(wire', timers, g)
    BY <2>2, MembersSentFit
  <2>4. \A h \in Guilds : h # g => roster'[h] = roster[h]
    BY <2>2 DEF Typed, ServerT
  <2>5. ASSUME NEW h \in Guilds
        PROVE  MembersFits(query["members"][h], route.guild # h, roster'[h], BehindIn(wire', timer, h))
    <3>1. MembersFits(query["members"][h], route.guild # h, roster[h], BehindIn(wire, timer, h))
      BY DEF ListsInv, MembersFit
    <3>2. CASE h = g
      BY <2>3, <3>1, <3>2 DEF MembersFits
    <3>3. CASE h # g
      BY <2>3, <2>4, <3>1, <3>3 DEF MembersFits
    <3> QED
      BY <3>2, <3>3
  <2>6. MembersFit'
    BY <2>2, <2>5 DEF MembersFit
  <2> QED
    BY <2>3, <2>6 DEF ListsInv
<1> QED
  BY <1>1, <1>2

-----------------------------------------------------------------------------
(* The fetches, and a lost connection.                                       *)

\* One channel list changes.
LEMMA ChannelsOne ==
    ASSUME ChannelsInv, NEW g \in Guilds, UNCHANGED <<place, wire, task, route>>,
           \A h \in Guilds : h # g => query'["channels"][h] = query["channels"][h],
           ListFits(query'["channels"][g], g, Untouched(g), place, wire, Moving)
    PROVE  ChannelsInv'
<1>1. Moving' = Moving /\ \A h \in Guilds : Untouched(h)' = Untouched(h)
  BY DEF Moving, Untouched
<1>2. Ordered(wire', place') /\ TasksMade'
  BY DEF ChannelsInv, TasksMade, CreateMade, DeleteMade
<1>3. \A h \in Guilds : ListFits(query'["channels"][h], h, Untouched(h)', place', wire', Moving')
  BY <1>1 DEF ChannelsInv, ListsFit
<1> QED
  BY <1>2, <1>3 DEF ChannelsInv, ListsFit

\* The members of one guild change.
LEMMA MembersOne ==
    ASSUME MembersFit, NEW g \in Guilds, UNCHANGED <<roster, wire, timer, route>>,
           \A h \in Guilds : h # g => query'["members"][h] = query["members"][h],
           MembersFits(query'["members"][g], route.guild # g, roster[g], BehindIn(wire, timer, g))
    PROVE  MembersFit'
BY DEF MembersFit

\* The list of the server fits.
LEMMA TruthFits ==
    ASSUME NEW g \in Guilds, NEW m
    PROVE  Fits(Truth("channels", g), g, place, wire, m)
<1> DEFINE rows == Truth("channels", g)
<1>1. rows = {Row(c, place[c]) : c \in {d \in Channels : GuildOf[d] = g /\ place[d] \in Nat}}
  BY DEF Truth, Exists
<1>2. \A r \in rows : r.id \in Here(g) /\ place[r.id] \in Nat /\ r.position = place[r.id]
  BY <1>1 DEF Row, Here
<1>3. \A c \in Here(g) : place[c] \in Nat => \E r \in rows : r.id = c
  <2> SUFFICES ASSUME NEW c \in Here(g), place[c] \in Nat
               PROVE  \E r \in rows : r.id = c
    OBVIOUS
  <2>1. c \in {d \in Channels : GuildOf[d] = g /\ place[d] \in Nat}
    BY DEF Here
  <2>2. Row(c, place[c]) \in rows
    BY <1>1, <2>1
  <2>3. Row(c, place[c]).id = c
    BY DEF Row
  <2> QED
    BY <2>2, <2>3
<1> HIDE DEF rows
<1>4. \A c \in Here(g) : Agrees(rows, c, place[c], wire, m)
  BY <1>2, <1>3 DEF Agrees, Ids
<1> QED
  BY <1>4 DEF Fits, rows

\* The server reads, ten seconds pass, or a fetch fails.
LEMMA CacheFit ==
    ASSUME GuildsAssumption, Typed, ListsInv, NEW list \in Lists, NEW g \in Guilds,
           ServerReads(list, g) \/ Ages(list, g) \/ FetchFails(list, g)
    PROVE  ListsInv'
<1>1. /\ query'[list][g].loaded = query[list][g].loaded /\ query'[list][g].data = query[list][g].data
      /\ CacheStep(list, g, query[list][g], query'[list][g])
      /\ \A l \in Lists, h \in Guilds : l # list \/ h # g => query'[l][h] = query[l][h]
  BY CacheTyped
<1>2. UNCHANGED <<place, roster, wire, timer, task, route>>
  BY DEF ServerReads, Ages, FetchFails, server, screen
<1>3. /\ "channels" \in Lists /\ "members" \in Lists /\ "channels" # "members"
      /\ list = "channels" \/ list = "members"
  BY DEF Lists
<1> DEFINE q == query[list][g]
           r == query'[list][g]
<1>4. CASE list = "channels"
  <2>1. ListFits(q, g, Untouched(g), place, wire, Moving)
    BY <1>4 DEF ListsInv, ChannelsInv, ListsFit
  <2>2. Fits(Truth(list, g), g, place, wire, Moving)
    BY <1>4, TruthFits
  <2>3. r.loaded = q.loaded /\ r.data = q.data /\ CacheStep(list, g, q, r)
    BY <1>1
  <2> HIDE DEF q, r
  <2>4. ListFits(r, g, Untouched(g), place, wire, Moving)
    BY <2>1, <2>2, <2>3 DEF ListFits, CacheStep
  <2>5. /\ \A h \in Guilds : h # g => query'["channels"][h] = query["channels"][h]
        /\ \A h \in Guilds : query'["members"][h] = query["members"][h]
    BY <1>1, <1>3, <1>4
  <2>6. ChannelsInv'
    BY <1>2, <1>4, <2>4, <2>5, ChannelsOne DEF ListsInv, r
  <2>7. MembersFit'
    BY <1>2, <2>5, MembersStill DEF ListsInv
  <2> QED
    BY <2>6, <2>7 DEF ListsInv
<1>5. CASE list = "members"
  <2>1. MembersFits(q, route.guild # g, roster[g], BehindIn(wire, timer, g))
    BY <1>5 DEF ListsInv, MembersFit
  <2>2. Truth(list, g) = roster[g]
    BY <1>5 DEF Truth
  <2>3. r.loaded = q.loaded /\ r.data = q.data /\ CacheStep(list, g, q, r)
    BY <1>1
  <2> HIDE DEF q, r
  <2>4. MembersFits(r, route.guild # g, roster[g], BehindIn(wire, timer, g))
    BY <2>1, <2>2, <2>3 DEF MembersFits, CacheStep
  <2>5. /\ \A h \in Guilds : h # g => query'["members"][h] = query["members"][h]
        /\ \A h \in Guilds : query'["channels"][h] = query["channels"][h]
    BY <1>1, <1>3, <1>5
  <2>6. MembersFit'
    BY <1>2, <1>5, <2>4, <2>5, MembersOne DEF ListsInv, r
  <2>7. ChannelsInv'
    BY <1>2, <2>5, ChannelsSame DEF ListsInv
  <2> QED
    BY <2>6, <2>7 DEF ListsInv
<1> QED
  BY <1>3, <1>4, <1>5

\* An answer arrives: it fits, or one of the causes came after it was read.
LEMMA AnswersFit ==
    ASSUME GuildsAssumption, Typed, ListsInv, NEW list \in Lists, NEW g \in Guilds, Answers(list, g)
    PROVE  ListsInv'
<1>1. /\ query[list][g].fetch = "read"
      /\ query'[list][g].loaded /\ query'[list][g].data = query[list][g].answer
      /\ query'[list][g].fetch = "none" /\ query'[list][g].causes = query[list][g].since
      /\ \A l \in Lists, h \in Guilds : l # list \/ h # g => query'[l][h] = query[l][h]
  BY AnswersTyped
<1>2. UNCHANGED <<place, roster, wire, timer, task, route>>
  BY DEF Answers, server, Quietly
<1>3. /\ "channels" \in Lists /\ "members" \in Lists /\ "channels" # "members"
      /\ list = "channels" \/ list = "members"
  BY DEF Lists
<1> DEFINE q == query[list][g]
           r == query'[list][g]
<1>4. q.fetch = "read" /\ r.loaded /\ r.data = q.answer /\ r.fetch = "none" /\ r.causes = q.since
  BY <1>1
<1>5. CASE list = "channels"
  <2>1. ListFits(q, g, Untouched(g), place, wire, Moving)
    BY <1>5 DEF ListsInv, ChannelsInv, ListsFit
  <2> HIDE DEF q, r
  <2>2. ListFits(r, g, Untouched(g), place, wire, Moving)
    BY <1>4, <2>1 DEF ListFits
  <2>3. /\ \A h \in Guilds : h # g => query'["channels"][h] = query["channels"][h]
        /\ \A h \in Guilds : query'["members"][h] = query["members"][h]
    BY <1>1, <1>3, <1>5
  <2>4. ChannelsInv'
    BY <1>2, <1>5, <2>2, <2>3, ChannelsOne DEF ListsInv, r
  <2>5. MembersFit'
    BY <1>2, <2>3, MembersStill DEF ListsInv
  <2> QED
    BY <2>4, <2>5 DEF ListsInv
<1>6. CASE list = "members"
  <2>1. MembersFits(q, route.guild # g, roster[g], BehindIn(wire, timer, g))
    BY <1>6 DEF ListsInv, MembersFit
  <2> HIDE DEF q, r
  <2>2. MembersFits(r, route.guild # g, roster[g], BehindIn(wire, timer, g))
    BY <1>4, <2>1 DEF MembersFits
  <2>3. /\ \A h \in Guilds : h # g => query'["members"][h] = query["members"][h]
        /\ \A h \in Guilds : query'["channels"][h] = query["channels"][h]
    BY <1>1, <1>3, <1>6
  <2>4. MembersFit'
    BY <1>2, <1>6, <2>2, <2>3, MembersOne DEF ListsInv, r
  <2>5. ChannelsInv'
    BY <1>2, <2>3, ChannelsSame DEF ListsInv
  <2> QED
    BY <2>4, <2>5 DEF ListsInv
<1> QED
  BY <1>3, <1>5, <1>6

\* The frames that a dropped connection loses leave their cause on the lists
\* they were about.
LEMMA DropFit ==
    ASSUME GuildsAssumption, Typed, ListsInv, Drop
    PROVE  ListsInv'
<1>1. /\ wire' = <<>> /\ UNCHANGED <<place, roster, timer, task, route>>
      /\ \A l \in Lists, g \in Guilds :
            query'[l][g] = IF \E i \in DOMAIN wire : wire[i].guild = g /\ wire[i].type \in FramesOf[l]
                           THEN Blame(query[l][g], "missed") ELSE query[l][g]
  BY DropIs DEF Drop, screen
<1>2. "channels" \in Lists /\ "members" \in Lists /\ "missed" \in Causes
  BY DEF Lists, Causes
<1>3. \A i : i \notin DOMAIN wire'
  BY <1>1
<1>4. Ordered(wire', place') /\ \A type, c : ~SaidIn(wire', type, c)
  BY <1>3 DEF Ordered, SaidIn
<1>5. Moving' = Moving /\ \A g \in Guilds : Untouched(g)' = Untouched(g)
  BY <1>1 DEF Moving, Untouched
<1>6. TasksMade'
  BY <1>1, <1>4 DEF ListsInv, ChannelsInv, TasksMade, CreateMade, DeleteMade
<1>7. ASSUME NEW l \in Lists, NEW g \in Guilds,
             \E i \in DOMAIN wire : wire[i].guild = g /\ wire[i].type \in FramesOf[l]
      PROVE  query'[l][g].causes # {} /\ query'[l][g].since # {}
  <2>1. EntryOK(l, g, query[l][g])
    BY DEF Typed, QueryT
  <2>2. Blame(query[l][g], "missed").causes # {} /\ Blame(query[l][g], "missed").since # {}
    BY <1>2, <2>1, BlameOK
  <2> QED
    BY <1>1, <1>7, <2>2
<1>8. ASSUME NEW g \in Guilds
      PROVE  ListFits(query'["channels"][g], g, Untouched(g)', place', wire', Moving')
  <2>1. ListFits(query["channels"][g], g, Untouched(g), place, wire, Moving)
    BY DEF ListsInv, ChannelsInv, ListsFit
  <2>2. CASE \E i \in DOMAIN wire : wire[i].guild = g /\ wire[i].type \in FramesOf["channels"]
    <3>1. query'["channels"][g].causes # {} /\ query'["channels"][g].since # {}
      BY <1>2, <1>7, <2>2
    <3> QED
      BY <3>1 DEF ListFits
  <2>3. CASE ~ \E i \in DOMAIN wire : wire[i].guild = g /\ wire[i].type \in FramesOf["channels"]
    <3>1. query'["channels"][g] = query["channels"][g]
      BY <1>1, <1>2, <2>3
    <3>2. \A type \in ListTypes, c \in Here(g) : ~SaidIn(wire, type, c)
      <4> SUFFICES ASSUME NEW type \in ListTypes, NEW c \in Here(g), NEW i \in DOMAIN wire,
                          wire[i].type = type, wire[i].channel = c
                   PROVE  FALSE
        BY DEF SaidIn
      <4>1. FrameOK(wire[i])
        BY DEF Typed, WireT
      <4>2. wire[i].guild = g
        BY <4>1 DEF FrameOK, Here
      <4> QED
        BY <2>3, <4>2, MemberFramesAre
    <3>3. \A type \in ListTypes, c \in Here(g) : SaidIn(wire, type, c) => SaidIn(wire', type, c)
      BY <3>2
    <3>4. ListFits(query["channels"][g], g, Untouched(g), place, wire', Moving)
      BY <2>1, <3>3, ListFitsGrow
    <3> QED
      BY <1>1, <1>5, <3>1, <3>4
  <2> QED
    BY <2>2, <2>3
<1>9. ASSUME NEW g \in Guilds
      PROVE  MembersFits(query'["members"][g], route'.guild # g, roster'[g], BehindIn(wire', timer', g))
  <2>1. MembersFits(query["members"][g], route.guild # g, roster[g], BehindIn(wire, timer, g))
    BY DEF ListsInv, MembersFit
  <2>2. CASE \E i \in DOMAIN wire : wire[i].guild = g /\ wire[i].type \in FramesOf["members"]
    <3>1. query'["members"][g].causes # {} /\ query'["members"][g].since # {}
      BY <1>2, <1>7, <2>2
    <3> QED
      BY <3>1 DEF MembersFits
  <2>3. CASE ~ \E i \in DOMAIN wire : wire[i].guild = g /\ wire[i].type \in FramesOf["members"]
    <3>1. query'["members"][g] = query["members"][g]
      BY <1>1, <1>2, <2>3
    <3>2. BehindIn(wire, timer, g) => BehindIn(wire', timer', g)
      BY <1>1, <2>3 DEF BehindIn
    <3> QED
      BY <1>1, <2>1, <3>1, <3>2 DEF MembersFits
  <2> QED
    BY <2>2, <2>3
<1> QED
  BY <1>4, <1>6, <1>8, <1>9 DEF ListsInv, ChannelsInv, ListsFit, MembersFit

-----------------------------------------------------------------------------
(* The frames.                                                               *)

\* A patch overwrites what a fetch under way has read.
LEMMA PatchedBlames ==
    ASSUME NEW q \in CacheEntry, NEW rows \in Datum, Patched(q, rows).fetch = "read"
    PROVE  Patched(q, rows).since # {}
<1> DEFINE since == IF q.fetch = "read" THEN q.since \cup {"overwritten"} ELSE q.since
           r == [q EXCEPT !.loaded = TRUE, !.data = rows, !.fresh = TRUE, !.since = since]
<1>1. Patched(q, rows) = r
  BY DEF Patched
<1>2. r.fetch = q.fetch /\ r.since = since
  BY DEF CacheEntry
<1> HIDE DEF r
<1> QED
  BY <1>1, <1>2

\* A patch of rows that fit by rows that fit.
LEMMA PatchedFit ==
    ASSUME NEW g \in Guilds, NEW q, EntryOK("channels", g, q), NEW rows \in RowsOf(g),
           NEW u, NEW p, NEW w, NEW m,
           q.fetch = "none" /\ q.causes = {} => Fits(rows, g, p, w, m)
    PROVE  ListFits(Patched(q, rows), g, u, p, w, m)
<1>1. "channels" \in Lists /\ rows \in Data("channels", g) /\ rows \in Datum /\ q \in CacheEntry
  <2>1. "channels" \in Lists /\ rows \in Data("channels", g)
    BY DEF Lists, Data
  <2> QED
    BY <2>1, DataIsDatum DEF EntryOK
<1> DEFINE r == Patched(q, rows)
<1>2. r.loaded /\ r.data = rows /\ r.fetch = q.fetch /\ r.causes = q.causes
  BY <1>1, PatchedOK
<1>3. r.fetch = "read" => r.since # {}
  BY <1>1, PatchedBlames
<1> HIDE DEF r
<1>4. ListFits(r, g, u, p, w, m)
  BY <1>2, <1>3 DEF ListFits
<1> QED
  BY <1>4 DEF r

\* An entry with a cause on record fits anything.
LEMMA BlamedFit ==
    ASSUME NEW g, NEW r, r.causes # {} \/ r.fetch # "none", r.since # {} \/ r.fetch # "read",
           NEW u, NEW p, NEW w, NEW m
    PROVE  ListFits(r, g, u, p, w, m)
BY DEF ListFits

\* A frame about a channel.
LEMMA ChannelFrameFit ==
    ASSUME GuildsAssumption, Typed, ListsInv, NEW type \in ListTypes, OnChannelFrame(type)
    PROVE  ListsInv'
<1>0. Head(wire).guild \in Guilds
  BY ChannelFrameIs
<1> PICK g \in Guilds : g = Head(wire).guild
  BY <1>0
<1> DEFINE f == Head(wire)
           q == query["channels"][g]
           rows == Rows(g)
           new == IF type = "created" THEN OnCreated(f, rows)
                  ELSE IF type = "deleted" THEN OnDeleted(f, rows) ELSE OnMoved(f, rows)
           r == query'["channels"][g]
<1>1. /\ f.guild = g /\ f.channel \in Here(g) /\ f.type = type
      /\ \A h \in Guilds : query'["members"][h] = query["members"][h]
      /\ \A h \in Guilds : h # g => query'["channels"][h] = query["channels"][h]
      /\ r = IF g = route.guild THEN Patched(q, new) ELSE Blame(q, "away")
  BY ChannelFrameIs
<1>2. /\ wire # <<>> /\ wire' = Tail(wire) /\ UNCHANGED <<place, roster, timer, task, route>>
  BY DEF OnChannelFrame, Head1, Quietly
<1>3. wire \in Seq(FrameT) /\ ChannelsInv /\ MembersFit /\ Ordered(wire, place)
  BY DEF Typed, WireT, ListsInv, ChannelsInv
<1>4. /\ Ordered(wire', place)
      /\ \A t, c : SaidIn(wire, t, c) <=> SaidIn(wire', t, c) \/ (f.type = t /\ f.channel = c)
      /\ ~SaidIn(wire', "created", f.channel)
  BY <1>1, <1>2, <1>3, OrderedTail
<1>5. TasksMade'
  <2>1. TasksMade
    BY <1>3 DEF ChannelsInv
  <2> QED
    BY <1>2, <1>4, <2>1 DEF TasksMade, CreateMade, DeleteMade
<1>6. MembersFit'
  <2>1. \A h \in Guilds : BehindIn(wire, timer, h) => BehindIn(wire', timer, h)
    BY <1>1, <1>2, <1>3, BehindTail, MemberFramesAre
  <2> QED
    BY <1>1, <1>2, <1>3, <2>1, MembersStill
<1>7. Moving' = Moving /\ \A h \in Guilds : Untouched(h)' = Untouched(h)
  BY <1>2 DEF Moving, Untouched
<1>8. ASSUME NEW h \in Guilds, h # g
      PROVE  ListFits(query'["channels"][h], h, Untouched(h)', place', wire', Moving')
  <2>1. ListFits(query["channels"][h], h, Untouched(h), place, wire, Moving)
    BY <1>3 DEF ChannelsInv, ListsFit
  <2>2. \A t \in ListTypes, c \in Here(h) : SaidIn(wire, t, c) => SaidIn(wire', t, c)
    BY <1>1, <1>4, <1>8 DEF Here
  <2>3. ListFits(query["channels"][h], h, Untouched(h), place, wire', Moving)
    BY <2>1, <2>2, ListFitsGrow
  <2> QED
    BY <1>1, <1>2, <1>7, <1>8, <2>3
<1>9. ListFits(r, g, Untouched(g)', place', wire', Moving')
  <2>1. "channels" \in Lists /\ "away" \in Causes
    BY DEF Lists, Causes
  <2>2. EntryOK("channels", g, q)
    BY <1>1, <2>1 DEF Typed, QueryT
  <2>3. CASE g # route.guild
    <3>1. Blame(q, "away").causes # {} /\ Blame(q, "away").since # {}
      BY <1>1, <2>1, <2>2, BlameOK
    <3>2. r.causes # {} /\ r.since # {}
      BY <1>1, <2>3, <3>1
    <3> HIDE DEF r
    <3> QED
      BY <3>2, BlamedFit
  <2>4. CASE g = route.guild
    <3>1. f \in FrameT /\ FrameOK(f) /\ rows \in RowsOf(g)
      BY <1>1, <1>2, HeadIs, RowsAreRows DEF Typed, Head1, OnChannelFrame
    <3>2. new \in RowsOf(g)
      <4>1. f.channel \in Here(g) /\ (f.type # "deleted" => f.position \in Nat)
        BY <1>1, <3>1 DEF FrameOK
      <4> HIDE DEF f, rows
      <4> QED
        BY <1>1, <3>1, <4>1, FrameRowsOK
    <3>3. q.fetch = "none" /\ q.causes = {} => Fits(new, g, place, wire', Moving)
      <4> SUFFICES ASSUME q.fetch = "none", q.causes = {}
                   PROVE  Fits(new, g, place, wire', Moving)
        OBVIOUS
      <4>1. ListFits(q, g, Untouched(g), place, wire, Moving)
        BY <1>1, <1>3 DEF ChannelsInv, ListsFit
      <4>2. ~Untouched(g)
        BY <2>4 DEF Untouched
      <4>3. q.loaded /\ Fits(q.data, g, place, wire, Moving)
        BY <4>1, <4>2 DEF ListFits
      <4>4. rows = q.data
        BY <4>3 DEF Rows
      <4>5. new = IF f.type = "created" THEN OnCreated(f, rows)
                  ELSE IF f.type = "deleted" THEN OnDeleted(f, rows) ELSE OnMoved(f, rows)
        BY <1>1
      <4>6. f.type \in ListTypes
        BY <1>1
      <4> HIDE DEF new, rows, q
      <4> QED
        BY <1>1, <1>2, <1>3, <4>3, <4>4, <4>5, <4>6, FrameFits
    <3>4. r = Patched(q, new)
      BY <1>1, <2>4
    <3> HIDE DEF new, q, r
    <3>5. ListFits(r, g, Untouched(g)', place, wire', Moving)
      BY <1>1, <2>2, <3>2, <3>3, <3>4, PatchedFit
    <3> QED
      BY <1>2, <1>7, <3>5
  <2> QED
    BY <2>3, <2>4
<1>10. ListsFit'
  <2>1. \A h \in Guilds : ListFits(query'["channels"][h], h, Untouched(h)', place', wire', Moving')
    BY <1>8, <1>9
  <2> QED
    BY <2>1 DEF ListsFit
<1>11. Ordered(wire', place')
  BY <1>2, <1>4
<1> HIDE DEF q, rows, new, r
<1> QED
  BY <1>5, <1>6, <1>10, <1>11 DEF ListsInv, ChannelsInv

\* A frame about members leaves the channel lists as they are.
LEMMA OtherFrameFit ==
    ASSUME Typed, ChannelsInv, wire # <<>>, wire' = Tail(wire), Head(wire).type \notin ListTypes,
           UNCHANGED <<place, task, route>>,
           \A h \in Guilds : query'["channels"][h] = query["channels"][h]
    PROVE  ChannelsInv'
<1>1. wire \in Seq(FrameT) /\ Ordered(wire, place)
  BY DEF Typed, WireT, ChannelsInv
<1>2. /\ Ordered(wire', place)
      /\ \A t, c : SaidIn(wire, t, c) <=> SaidIn(wire', t, c) \/ (Head(wire).type = t /\ Head(wire).channel = c)
  BY <1>1, OrderedTail
<1> QED
  BY <1>2, ChannelsStill

\* The frames about members, and the timer of their refetch.
LEMMA MemberFramesFit ==
    ASSUME GuildsAssumption, Typed, ListsInv, NEW g \in Guilds,
           OnModeration \/ OnMemberJoined \/ OnSelfRemoved \/ TimerFires(g) \/ SelfRemovalEnds(g)
    PROVE  ListsInv'
<1>1. \A h \in Guilds : query'["channels"][h] = query["channels"][h]
  BY MemberFramesTyped, SelfRemovalTyped
<1>2. ChannelsInv /\ MembersFit /\ wire \in Seq(FrameT)
  BY DEF ListsInv, Typed, WireT
<1>3. CASE TimerFires(g)
  <2>1. UNCHANGED <<place, wire, task, route, roster>> /\ timer' = timer \ {g} /\ MembersRefetched(g)
    BY <1>3 DEF TimerFires, server, screen
  <2>2. ChannelsInv'
    BY <1>1, <1>2, <2>1, ChannelsSame
  <2>3. \A h \in Guilds : h # g => (BehindIn(wire, timer, h) => BehindIn(wire', timer', h))
    BY <2>1 DEF BehindIn
  <2> QED
    BY <1>2, <2>1, <2>2, <2>3, MembersRefetchedFit DEF ListsInv
<1>4. CASE SelfRemovalEnds(g)
  <2>1. UNCHANGED <<place, wire, task, route, roster, timer>> /\ MembersRefetched(g)
    BY <1>4 DEF SelfRemovalEnds, server
  <2>2. ChannelsInv'
    BY <1>1, <1>2, <2>1, ChannelsSame
  <2> QED
    BY <1>2, <2>1, <2>2, MembersRefetchedFit DEF ListsInv
<1>5. CASE OnModeration
  <2> DEFINE h == Head(wire).guild
  <2>1. /\ wire # <<>> /\ wire' = Tail(wire) /\ Head(wire).type = "moderated"
        /\ UNCHANGED <<place, task, route, roster, timer>> /\ MembersRefetched(h)
    BY <1>5 DEF OnModeration, Head1, screen
  <2>2. ChannelsInv'
    BY <1>1, <1>2, <2>1, OtherFrameFit DEF ListTypes
  <2>3. h \in Guilds
    BY <1>5, HeadIs DEF OnModeration, Typed, FrameT
  <2>4. \A k \in Guilds : k # h => (BehindIn(wire, timer, k) => BehindIn(wire', timer', k))
    BY <1>2, <2>1, BehindTail
  <2> HIDE DEF h
  <2> QED
    BY <1>2, <2>1, <2>2, <2>3, <2>4, MembersRefetchedFit DEF ListsInv
<1>6. CASE OnMemberJoined
  <2>1. /\ wire # <<>> /\ wire' = Tail(wire) /\ Head(wire).type = "joined"
        /\ UNCHANGED <<place, task, route, roster, query>> /\ timer' = timer \cup {Head(wire).guild}
    BY <1>6 DEF OnMemberJoined, Head1, screen
  <2>2. ChannelsInv'
    BY <1>1, <1>2, <2>1, OtherFrameFit DEF ListTypes
  <2>3. \A k \in Guilds : BehindIn(wire, timer, k) => BehindIn(wire', timer, k) \/ k = Head(wire).guild
    BY <1>2, <2>1, BehindTail
  <2>4. \A k \in Guilds : BehindIn(wire, timer, k) => BehindIn(wire', timer', k)
    BY <2>1, <2>3 DEF BehindIn
  <2>5. MembersFit'
    BY <1>2, <2>1, <2>4, MembersStill
  <2> QED
    BY <2>2, <2>5 DEF ListsInv
<1>7. CASE OnSelfRemoved
  <2>1. /\ wire # <<>> /\ wire' = Tail(wire) /\ Head(wire).type = "kicked"
        /\ UNCHANGED <<place, task, route, roster, query, timer>>
    BY <1>7 DEF OnSelfRemoved, Head1, screen
  <2>2. ChannelsInv'
    BY <1>1, <1>2, <2>1, OtherFrameFit DEF ListTypes
  <2>3. \A k \in Guilds : BehindIn(wire, timer, k) => BehindIn(wire', timer, k)
    BY <1>2, <2>1, BehindTail, MemberFramesAre
  <2>4. MembersFit'
    BY <1>2, <2>1, <2>3, MembersStill
  <2> QED
    BY <2>2, <2>4 DEF ListsInv
<1> QED
  BY <1>3, <1>4, <1>5, <1>6, <1>7

-----------------------------------------------------------------------------
(* The user's own requests.                                                  *)

\* Every list fits after a step of the requests: those that it does not touch
\* still do, as no channel leaves the drag and no guild gets a request.
LEMMA TasksStep ==
    ASSUME ChannelsInv, NEW g \in Guilds, UNCHANGED <<place, wire, route>>,
           \A h \in Guilds : h # g => query'["channels"][h] = query["channels"][h],
           \A h \in Guilds : h # g => (Untouched(h) => Untouched(h)'),
           \A h \in Guilds, c \in Channels : h # g /\ c \in Here(h) /\ c \in Moving => c \in Moving',
           ListFits(query'["channels"][g], g, Untouched(g)', place, wire, Moving'),
           CreateMade(task'["create"], place, wire), DeleteMade(task'["delete"], place)
    PROVE  ChannelsInv'
<1>1. Ordered(wire', place') /\ TasksMade'
  BY DEF ChannelsInv, TasksMade
<1>2. ASSUME NEW h \in Guilds, h # g
      PROVE  ListFits(query'["channels"][h], h, Untouched(h)', place', wire', Moving')
  <2> DEFINE q == query["channels"][h]
             m == Moving'
             u == Untouched(h)'
  <2>1. ListFits(q, h, Untouched(h), place, wire, Moving)
    BY DEF ChannelsInv, ListsFit
  <2>2. (Untouched(h) => u) /\ \A c \in Here(h) : c \in Moving => c \in m
    BY <1>2 DEF Here
  <2> HIDE DEF q, m, u
  <2>3. ListFits(q, h, u, place, wire, m)
    BY <2>1, <2>2, ListFitsGrow
  <2> QED
    BY <1>2, <2>3 DEF q, m, u
<1>3. ListsFit'
  <2>1. \A h \in Guilds : ListFits(query'["channels"][h], h, Untouched(h)', place', wire', Moving')
    BY <1>2
  <2> QED
    BY <2>1 DEF ListsFit
<1> QED
  BY <1>1, <1>3 DEF ChannelsInv

\* The same when no list changes.
LEMMA TasksStill ==
    ASSUME ChannelsInv, UNCHANGED <<place, wire, route>>,
           \A h \in Guilds : query'["channels"][h] = query["channels"][h],
           \A h \in Guilds : Untouched(h) => Untouched(h)',
           \A c \in Channels : c \in Moving => c \in Moving',
           CreateMade(task'["create"], place, wire), DeleteMade(task'["delete"], place)
    PROVE  ChannelsInv'
<1>1. Ordered(wire', place') /\ TasksMade'
  BY DEF ChannelsInv, TasksMade
<1>2. ASSUME NEW h \in Guilds
      PROVE  ListFits(query'["channels"][h], h, Untouched(h)', place', wire', Moving')
  <2> DEFINE q == query["channels"][h]
             m == Moving'
             u == Untouched(h)'
  <2>1. ListFits(q, h, Untouched(h), place, wire, Moving)
    BY DEF ChannelsInv, ListsFit
  <2>2. (Untouched(h) => u) /\ \A c \in Here(h) : c \in Moving => c \in m
    BY <1>2 DEF Here
  <2> HIDE DEF q, m, u
  <2>3. ListFits(q, h, u, place, wire, m)
    BY <2>1, <2>2, ListFitsGrow
  <2> QED
    BY <1>2, <2>3 DEF q, m, u
<1>3. ListsFit'
  BY <1>2 DEF ListsFit
<1> QED
  BY <1>1, <1>3 DEF ChannelsInv

\* A request that has not been answered has made nothing.
LEMMA NotMade ==
    ASSUME NEW t, t.at # "done", NEW p, NEW w
    PROVE  CreateMade(t, p, w) /\ DeleteMade(t, p)
BY DEF CreateMade, DeleteMade

\* The guilds of requests that begin and end.
LEMMA UntouchedStay ==
    ASSUME GuildsAssumption, NEW kind \in Kinds, route' = route,
           \A k \in Kinds : k # kind => task'[k] = task[k],
           \/ task'[kind].guild = None
           \/ task'[kind].guild = route.guild
           \/ task'[kind].guild = task[kind].guild
    PROVE  \A h \in Guilds : Untouched(h) => Untouched(h)'
<1> SUFFICES ASSUME NEW h \in Guilds, Untouched(h)
             PROVE  Untouched(h)'
  OBVIOUS
<1>1. h # None /\ route.guild # h /\ \A k \in Kinds : task[k].guild # h
  BY DEF GuildsAssumption, Untouched
<1>2. \A k \in Kinds : task'[k].guild # h
  BY <1>1
<1> QED
  BY <1>1, <1>2 DEF Untouched

\* A create or delete is asked for.
LEMMA AskFit ==
    ASSUME GuildsAssumption, Typed, ListsInv, NEW d \in Channels, CreateChannel(d) \/ DeleteChannel(d)
    PROVE  ListsInv'
<1>1. PICK kind \in {"create", "delete"} :
         /\ Begin(kind, Asks(kind, GuildOf[d], d)) /\ route.guild = GuildOf[d]
         /\ UNCHANGED <<place, roster, wire, timer, route, query>>
  BY DEF CreateChannel, DeleteChannel, server, screen
<1>2. kind \in Kinds /\ "drag" \in Kinds /\ "create" \in Kinds /\ "delete" \in Kinds /\ kind # "drag"
  BY DEF Kinds
<1>3. /\ task' = [task EXCEPT ![kind] = Asks(kind, GuildOf[d], d)] /\ task \in [Kinds -> TaskSet]
      /\ Asks(kind, GuildOf[d], d).at = "asked" /\ Asks(kind, GuildOf[d], d).guild = GuildOf[d]
  BY <1>1 DEF Begin, Typed, TasksT, Asks
<1> DEFINE t == Asks(kind, GuildOf[d], d)
<1> HIDE DEF t
<1>4. task'[kind] = t /\ t.at = "asked" /\ t.guild = GuildOf[d] /\ \A k \in Kinds : k # kind => task'[k] = task[k]
  BY <1>2, <1>3 DEF t
<1>5. Moving' = Moving
  BY <1>2, <1>4 DEF Moving
<1>6. \A h \in Guilds : Untouched(h) => Untouched(h)'
  BY <1>1, <1>2, <1>4, UntouchedStay
<1>7. CreateMade(task'["create"], place, wire) /\ DeleteMade(task'["delete"], place)
  <2>1. CreateMade(task["create"], place, wire) /\ DeleteMade(task["delete"], place)
    BY DEF ListsInv, ChannelsInv, TasksMade
  <2>2. task'[kind].at # "done"
    BY <1>4
  <2>3. CreateMade(task'[kind], place, wire) /\ DeleteMade(task'[kind], place)
    BY <2>2, NotMade
  <2> QED
    BY <1>2, <1>4, <2>1, <2>3
<1>8. ChannelsInv'
  BY <1>1, <1>5, <1>6, <1>7, TasksStill DEF ListsInv
<1>9. MembersFit'
  BY <1>1, MembersStill DEF ListsInv
<1> QED
  BY <1>8, <1>9 DEF ListsInv

\* A create or delete fails.
LEMMA AskFailsFit ==
    ASSUME GuildsAssumption, Typed, ListsInv, NEW kind \in Kinds, CreateOrDeleteFails(kind)
    PROVE  ListsInv'
<1>1. /\ TaskFails(kind) /\ kind # "drag" /\ UNCHANGED <<place, roster, wire, timer, route, query>>
  BY DEF CreateOrDeleteFails, server, screen
<1>2. "drag" \in Kinds /\ "create" \in Kinds /\ "delete" \in Kinds
  BY DEF Kinds
<1>3. /\ task'[kind] = Idle /\ Idle.at = "idle" /\ Idle.guild = None
      /\ \A k \in Kinds : k # kind => task'[k] = task[k]
  BY <1>1, TaskFailsOK, IdleOK
<1>4. Moving' = Moving
  BY <1>1, <1>2, <1>3 DEF Moving
<1>5. \A h \in Guilds : Untouched(h) => Untouched(h)'
  BY <1>1, <1>3, UntouchedStay
<1>6. CreateMade(task'["create"], place, wire) /\ DeleteMade(task'["delete"], place)
  <2>1. CreateMade(task["create"], place, wire) /\ DeleteMade(task["delete"], place)
    BY DEF ListsInv, ChannelsInv, TasksMade
  <2>2. CreateMade(task'[kind], place, wire) /\ DeleteMade(task'[kind], place)
    BY <1>3, NotMade
  <2> QED
    BY <1>2, <1>3, <2>1, <2>2
<1>7. ChannelsInv'
  BY <1>1, <1>4, <1>5, <1>6, TasksStill DEF ListsInv
<1>8. MembersFit'
  BY <1>1, MembersStill DEF ListsInv
<1> QED
  BY <1>7, <1>8 DEF ListsInv

\* A request takes its effect on the server.
LEMMA TaskEffectFit ==
    ASSUME GuildsAssumption, Typed, ListsInv, NEW kind \in Kinds, TaskEffect(kind)
    PROVE  ListsInv'
<1>1. "drag" \in Kinds /\ "create" \in Kinds /\ "delete" \in Kinds
  BY DEF Kinds
<1> PICK t : t = task[kind]
  OBVIOUS
<1> DEFINE u == task'[kind]
<1>2. /\ t.at = "asked" /\ t.guild \in Guilds /\ t.of \in Here(t.guild) /\ t.of \in Channels
      /\ u.at = "done" /\ u.of = t.of /\ u.guild = t.guild
      /\ kind = "create" => ServerCreates(t.of) /\ u.todo = <<Row(t.of, place'[t.of])>>
      /\ kind = "delete" => ServerDeletes(t.of) /\ u.todo = t.todo
      /\ kind = "drag" => /\ ServerMoves(t.of, Head(t.todo).position) /\ u.todo = t.todo
                          /\ Head(t.todo) \in AnyRow
      /\ \A k \in Kinds : k # kind => task'[k] = task[k]
      /\ query' = query /\ UNCHANGED screen
  BY TaskEffectIs
<1>3. route' = route /\ timer' = timer /\ ChannelsInv /\ MembersFit
  BY <1>2 DEF screen, TaskEffect, ListsInv
<1>4. PICK p \in Nat : ServerCreates(t.of) \/ ServerDeletes(t.of) \/ ServerMoves(t.of, p)
  <2>1. CASE kind = "drag"
    <3>1. Head(t.todo).position \in Nat
      BY <1>2, <2>1 DEF AnyRow
    <3> QED
      BY <1>2, <2>1, <3>1
  <2>2. CASE kind # "drag"
    BY <1>2, <2>2 DEF Kinds
  <2> QED
    BY <2>1, <2>2
<1>5. /\ place'[t.of] # None /\ roster' = roster
      /\ \A g, timers : BehindIn(wire, timers, g) => BehindIn(wire', timers, g)
  BY <1>2, <1>3, <1>4, ServerChangeIs
<1>6. \A h \in Guilds : Untouched(h) => Untouched(h)'
  BY <1>2, <1>3, UntouchedStay
<1>7. \A c \in Channels : c # t.of => (c \in Moving => c \in Moving')
  <2>1. CASE kind # "drag"
    BY <1>1, <1>2, <2>1 DEF Moving
  <2>2. CASE kind = "drag"
    <3>1. /\ t.todo \in Seq(AnyRow) /\ t.todo # <<>> /\ Head(t.todo).id = t.of
      BY <1>1, <1>2, <2>2 DEF Typed, TasksT, TaskOK, TaskSet
    <3>2. /\ Moving = {t.todo[i].id : i \in 1..Len(t.todo)}
          /\ Moving' = {t.todo[i].id : i \in 2..Len(t.todo)}
      <4>1. Moving = MovingOf(t) /\ Moving' = MovingOf(u) /\ u.todo = t.todo
        BY <1>2, <2>2 DEF Moving
      <4> HIDE DEF u
      <4> QED
        BY <1>2, <4>1 DEF MovingOf
    <3>3. Len(t.todo) \in Nat /\ t.todo[1].id = t.of
      BY <3>1, TailIs
    <3> QED
      BY <3>2, <3>3
  <2> QED
    BY <2>1, <2>2
<1>8. Ordered(wire', place') /\ ListsFit'
  BY <1>2, <1>3, <1>4, <1>6, <1>7, ServerChangeFits
<1>9. TasksMade'
  <2>1. CreateMade(task["create"], place', wire') /\ DeleteMade(task["delete"], place')
    BY <1>2, <1>3, <1>4, TasksMadeStay
  <2>2. CreateMade(task'["create"], place', wire')
    <3>1. CASE kind = "create"
      <4>1. Head(<<Row(t.of, place'[t.of])>>).position = place'[t.of]
        BY DEF Row
      <4>2. u.of = t.of /\ Head(u.todo).position = place'[t.of]
        BY <1>2, <3>1, <4>1
      <4> HIDE DEF u
      <4>3. CreateMade(u, place', wire')
        BY <1>5, <4>2 DEF CreateMade
      <4> QED
        BY <3>1, <4>3 DEF u
    <3>2. CASE kind # "create"
      BY <1>1, <1>2, <2>1, <3>2
    <3> QED
      BY <3>1, <3>2
  <2>3. DeleteMade(task'["delete"], place')
    <3>1. CASE kind = "delete"
      <4>1. u.of = t.of /\ place'[t.of] = Home
        BY <1>2, <3>1 DEF ServerDeletes, Typed, ServerT
      <4> HIDE DEF u
      <4>2. DeleteMade(u, place')
        BY <4>1 DEF DeleteMade
      <4> QED
        BY <3>1, <4>2 DEF u
    <3>2. CASE kind # "delete"
      BY <1>1, <1>2, <2>1, <3>2
    <3> QED
      BY <3>1, <3>2
  <2> QED
    BY <2>2, <2>3 DEF TasksMade
<1>10. MembersFit'
  BY <1>2, <1>3, <1>5, MembersStill
<1> QED
  BY <1>8, <1>9, <1>10 DEF ListsInv, ChannelsInv

\* The answer to a create brings a row that fits, unless the channel is gone and
\* no frame is left to say so.
LEMMA CreatedFits ==
    ASSUME GuildsAssumption, NEW g, NEW rows, NEW t, t.of \in Here(g), Head(t.todo).id = t.of, t.at = "done",
           NEW p, p[t.of] \in Nat \cup {None, Home}, NEW w, NEW m,
           Fits(rows, g, p, w, m), CreateMade(t, p, w),
           p[t.of] = Home => SaidIn(w, "deleted", t.of)
    PROVE  Fits(ApplyCreated(Head(t.todo), rows), g, p, w, m)
<1> DEFINE d == t.of
           row == Head(t.todo)
           new == rows \cup {row}
<1>1. CASE d \in Ids(rows)
  BY <1>1 DEF ApplyCreated
<1>2. CASE d \notin Ids(rows)
  <2>1. ApplyCreated(row, rows) = new
    BY <1>2 DEF ApplyCreated
  <2>2. row.id = d /\ \A c : c \in Ids(new) <=> c \in Ids(rows) \/ c = d
    BY DEF Ids
  <2>3. \A r \in rows : r.id # d
    BY <1>2 DEF Ids
  <2>4. Agrees(rows, d, p[d], w, m)
    BY DEF Fits
  <2>5. /\ p[d] # None
        /\ p[d] \in Nat /\ SaidIn(w, "created", d) => row.position = p[d] \/ SaidIn(w, "moved", d)
    BY DEF CreateMade
  <2>6. p[d] \in Nat \/ p[d] = Home
    BY <2>5
  <2> HIDE DEF row
  <2>7. ASSUME NEW c \in Here(g)
        PROVE  Agrees(new, c, p[c], w, m)
    <3>1. CASE c = d
      BY <1>2, <2>2, <2>3, <2>4, <2>5, <2>6, <3>1 DEF Agrees, GuildsAssumption
    <3>2. CASE c # d
      <4>1. Agrees(rows, c, p[c], w, m)
        BY DEF Fits
      <4> QED
        BY <2>2, <3>2, <4>1 DEF Agrees
    <3> QED
      BY <3>1, <3>2
  <2> HIDE DEF new
  <2>8. Fits(new, g, p, w, m)
    BY <2>7 DEF Fits
  <2> QED
    BY <2>1, <2>8 DEF row
<1> QED
  BY <1>1, <1>2

\* A create is answered.
LEMMA CreateAnsweredFit ==
    ASSUME GuildsAssumption, Typed, ListsInv, CreateAnswered
    PROVE  ListsInv'
<1>1. "drag" \in Kinds /\ "create" \in Kinds /\ "delete" \in Kinds
  BY DEF Kinds
<1> PICK t : t = task["create"]
  OBVIOUS
<1> PICK g : g = t.guild
  OBVIOUS
<1> DEFINE q == query["channels"][g]
           b == IF GoneForGood(t.of) THEN Blame(q, "deleted before the answer") ELSE q
           new == ApplyCreated(Head(t.todo), Rows(g))
           r == query'["channels"][g]
<1>2. /\ t.at = "done" /\ g \in Guilds /\ t.of \in Here(g) /\ Head(t.todo).id = t.of
      /\ EntryOK("channels", g, b) /\ new \in Data("channels", g) /\ r = Patched(b, new)
      /\ \A h \in Guilds : query'["members"][h] = query["members"][h]
      /\ \A h \in Guilds : h # g => query'["channels"][h] = query["channels"][h]
      /\ task'["create"] = Idle /\ \A k \in Kinds : k # "create" => task'[k] = task[k]
  BY CreateAnsweredIs
<1>3. UNCHANGED <<place, roster, wire, timer, route>> /\ ChannelsInv /\ MembersFit
  BY DEF CreateAnswered, server, Quietly, ListsInv
<1>4. Idle.at = "idle" /\ Idle.guild = None
  BY IdleOK
<1>5. Moving' = Moving
  BY <1>1, <1>2 DEF Moving
<1>6. \A h \in Guilds : Untouched(h) => Untouched(h)'
  BY <1>1, <1>2, <1>3, <1>4, UntouchedStay
<1>7. CreateMade(t, place, wire) /\ DeleteMade(task["delete"], place)
  BY <1>3 DEF ChannelsInv, TasksMade
<1>8. CreateMade(task'["create"], place, wire) /\ DeleteMade(task'["delete"], place)
  <2>1. CreateMade(Idle, place, wire)
    BY <1>4, NotMade
  <2> QED
    BY <1>1, <1>2, <1>7, <2>1
<1>9. b.fetch = "none" /\ b.causes = {} => Fits(new, g, place, wire, Moving)
  <2> SUFFICES ASSUME b.fetch = "none", b.causes = {}
               PROVE  Fits(new, g, place, wire, Moving)
    OBVIOUS
  <2>1. "channels" \in Lists /\ "deleted before the answer" \in Causes
    BY DEF Lists, Causes
  <2>2. EntryOK("channels", g, q)
    BY <1>2, <2>1 DEF Typed, QueryT
  <2>3. Blame(q, "deleted before the answer").causes # {}
    <3>1. g \in Guilds
      BY <1>2
    <3> HIDE DEF q
    <3> QED
      BY ONLY <3>1, <2>1, <2>2, BlameOK
  <2>4. ~GoneForGood(t.of) /\ b = q
    BY <2>3
  <2>5. ListFits(q, g, Untouched(g), place, wire, Moving)
    BY <1>2, <1>3 DEF ChannelsInv, ListsFit
  <2>6. ~Untouched(g)
    BY <1>1 DEF Untouched
  <2>7. q.loaded /\ Fits(q.data, g, place, wire, Moving)
    BY <2>4, <2>5, <2>6 DEF ListFits
  <2>8. Rows(g) = q.data
    BY <2>7 DEF Rows
  <2>9. place[t.of] = Home => SaidIn(wire, "deleted", t.of)
    BY <2>4 DEF GoneForGood, SaidIn
  <2>10. place[t.of] \in Nat \cup {None, Home}
    BY <1>2 DEF Typed, ServerT, Here
  <2>11. Fits(Rows(g), g, place, wire, Moving)
    BY <2>7, <2>8
  <2> HIDE DEF q, b
  <2> QED
    BY <1>2, <1>7, <2>9, <2>10, <2>11, CreatedFits
<1>10. ListFits(r, g, Untouched(g)', place, wire, Moving)
  <2>1. new \in RowsOf(g)
    BY <1>2 DEF Data
  <2> HIDE DEF new, b, r
  <2> QED
    BY <1>2, <1>9, <2>1, PatchedFit
<1>11. ChannelsInv'
  <2>1. ListFits(query'["channels"][g], g, Untouched(g)', place, wire, Moving')
    BY <1>5, <1>10
  <2> HIDE DEF q, b, new, r
  <2> QED
    BY <1>2, <1>3, <1>5, <1>6, <1>8, <2>1, TasksStep
<1>12. MembersFit'
  BY <1>2, <1>3, MembersStill
<1> QED
  BY <1>11, <1>12 DEF ListsInv

\* A delete is answered.
LEMMA DeleteAnsweredFit ==
    ASSUME GuildsAssumption, Typed, ListsInv, DeleteAnswered
    PROVE  ListsInv'
<1>1. "drag" \in Kinds /\ "create" \in Kinds /\ "delete" \in Kinds
  BY DEF Kinds
<1> PICK t : t = task["delete"]
  OBVIOUS
<1> PICK g : g = t.guild
  OBVIOUS
<1> DEFINE q == query["channels"][g]
           new == {x \in Rows(g) : x.id # t.of}
           r == query'["channels"][g]
<1>2. /\ t.at = "done" /\ g \in Guilds /\ t.of \in Here(g)
      /\ EntryOK("channels", g, q) /\ new \in Data("channels", g) /\ r = Patched(q, new)
      /\ \A h \in Guilds : query'["members"][h] = query["members"][h]
      /\ \A h \in Guilds : h # g => query'["channels"][h] = query["channels"][h]
      /\ task'["delete"] = Idle /\ \A k \in Kinds : k # "delete" => task'[k] = task[k]
  BY DeleteAnsweredIs
<1>3. UNCHANGED <<place, roster, wire, timer, route>> /\ ChannelsInv /\ MembersFit
  BY DEF DeleteAnswered, server, ListsInv
<1>4. Idle.at = "idle" /\ Idle.guild = None
  BY IdleOK
<1>5. Moving' = Moving
  BY <1>1, <1>2 DEF Moving
<1>6. \A h \in Guilds : Untouched(h) => Untouched(h)'
  BY <1>1, <1>2, <1>3, <1>4, UntouchedStay
<1>7. CreateMade(task["create"], place, wire) /\ DeleteMade(t, place)
  BY <1>3 DEF ChannelsInv, TasksMade
<1>8. CreateMade(task'["create"], place, wire) /\ DeleteMade(task'["delete"], place)
  <2>1. DeleteMade(Idle, place)
    BY <1>4, NotMade
  <2> QED
    BY <1>1, <1>2, <1>7, <2>1
<1>9. q.fetch = "none" /\ q.causes = {} => Fits(new, g, place, wire, Moving)
  <2> SUFFICES ASSUME q.fetch = "none", q.causes = {}
               PROVE  Fits(new, g, place, wire, Moving)
    OBVIOUS
  <2>1. ListFits(q, g, Untouched(g), place, wire, Moving)
    BY <1>2, <1>3 DEF ChannelsInv, ListsFit
  <2>2. ~Untouched(g)
    BY <1>1 DEF Untouched
  <2>3. q.loaded /\ Fits(q.data, g, place, wire, Moving)
    BY <2>1, <2>2 DEF ListFits
  <2>4. Rows(g) = q.data
    BY <2>3 DEF Rows
  <2>5. place[t.of] \notin Nat
    BY <1>2, <1>7 DEF DeleteMade, GuildsAssumption
  <2>6. \A c : c \in Ids(new) <=> c \in Ids(Rows(g)) /\ c # t.of
    BY DEF Ids
  <2>7. ASSUME NEW c \in Here(g)
        PROVE  Agrees(new, c, place[c], wire, Moving)
    <3>1. Agrees(Rows(g), c, place[c], wire, Moving)
      BY <2>3, <2>4 DEF Fits
    <3>2. new \subseteq Rows(g)
      OBVIOUS
    <3> HIDE DEF new
    <3> QED
      BY <2>5, <2>6, <3>1, <3>2 DEF Agrees
  <2> HIDE DEF new
  <2> QED
    BY <2>7 DEF Fits
<1>10. ListFits(r, g, Untouched(g)', place, wire, Moving)
  <2>1. new \in RowsOf(g)
    BY <1>2 DEF Data
  <2> HIDE DEF new, q, r
  <2> QED
    BY <1>2, <1>9, <2>1, PatchedFit
<1>11. ChannelsInv'
  <2>1. ListFits(query'["channels"][g], g, Untouched(g)', place, wire, Moving')
    BY <1>5, <1>10
  <2> HIDE DEF q, new, r
  <2> QED
    BY <1>2, <1>3, <1>5, <1>6, <1>8, <2>1, TasksStep
<1>12. MembersFit'
  BY <1>2, <1>3, MembersStill
<1> QED
  BY <1>11, <1>12 DEF ListsInv

\* The channels of a drag whose move is still to be made.
LEMMA MovingAsked ==
    ASSUME NEW t, NEW S, t.todo \in Seq(S), t.at = "asked", NEW c
    PROVE  c \in MovingOf(t) <=> \E i \in DOMAIN t.todo : t.todo[i].id = c
<1>1. DOMAIN t.todo = 1..Len(t.todo) /\ Len(t.todo) \in Nat
  OBVIOUS
<1>2. MovingOf(t) = {t.todo[i].id : i \in 1..Len(t.todo)}
  BY DEF MovingOf
<1> QED
  BY <1>1, <1>2

\* The same while the answer to the first move is awaited.
LEMMA MovingDone ==
    ASSUME NEW t, NEW S, t.todo \in Seq(S), t.at = "done", NEW c \in MovingOf(t)
    PROVE  \E i \in DOMAIN t.todo : 1 < i /\ t.todo[i].id = c
<1>1. DOMAIN t.todo = 1..Len(t.todo) /\ Len(t.todo) \in Nat
  OBVIOUS
<1>2. MovingOf(t) = {t.todo[i].id : i \in 2..Len(t.todo)}
  BY DEF MovingOf
<1>3. \A i : i \in 2..Len(t.todo) => i \in 1..Len(t.todo) /\ 1 < i
  BY <1>1
<1> QED
  BY <1>1, <1>2, <1>3

\* A drag: the rows are those of before, and all of them are to be moved.
LEMMA DragFit ==
    ASSUME GuildsAssumption, Typed, ListsInv, NEW order \in Orders(route.guild), Drag(order)
    PROVE  ListsInv'
<1>1. "drag" \in Kinds /\ "create" \in Kinds /\ "delete" \in Kinds /\ "drag" # "create" /\ "drag" # "delete"
  BY DEF Kinds
<1> PICK g : g = route.guild
  OBVIOUS
<1> PICK rows : rows = Positions(order)
  OBVIOUS
<1> DEFINE q == query["channels"][g]
           r == query'["channels"][g]
<1>2. /\ g \in Guilds /\ q.loaded /\ rows \in Seq([id : Here(g), position : Nat]) /\ Ids(ToSet(rows)) = Ids(Rows(g))
      /\ r.loaded /\ r.data = ToSet(rows) /\ r.fetch = q.fetch /\ r.answer = q.answer
      /\ r.causes = q.causes /\ r.since = q.since
      /\ \A h \in Guilds : query'["members"][h] = query["members"][h]
      /\ \A h \in Guilds : h # g => query'["channels"][h] = query["channels"][h]
      /\ task["drag"].at = "idle" /\ task'["drag"].at = "asked" /\ task'["drag"].guild = g
      /\ task'["drag"].todo = rows
      /\ \A k \in Kinds : k # "drag" => task'[k] = task[k]
  BY DragIs
<1>3. UNCHANGED <<place, roster, wire, timer, route>> /\ ChannelsInv /\ MembersFit
  BY DEF Drag, server, screen, ListsInv
<1>4. \A h \in Guilds : Untouched(h) => Untouched(h)'
  BY <1>1, <1>2, <1>3, UntouchedStay
<1>5. Moving = {} /\ \A i \in DOMAIN rows : rows[i].id \in Moving'
  <2>1. Moving = {}
    BY <1>2 DEF Moving, MovingOf
  <2> PICK u : u = task'["drag"]
    OBVIOUS
  <2>2. u.at = "asked" /\ u.todo = rows /\ rows \in Seq([id : Here(g), position : Nat])
    BY <1>2
  <2>3. \A c : c \in MovingOf(u) <=> \E i \in DOMAIN u.todo : u.todo[i].id = c
    <3>1. u.todo \in Seq([id : Here(g), position : Nat]) /\ u.at = "asked"
      BY <2>2
    <3> QED
      BY ONLY <3>1, MovingAsked
  <2> QED
    BY <2>1, <2>2, <2>3 DEF Moving
<1>6. CreateMade(task'["create"], place, wire) /\ DeleteMade(task'["delete"], place)
  BY <1>1, <1>2, <1>3 DEF ChannelsInv, TasksMade
<1>7. ListFits(q, g, Untouched(g), place, wire, Moving) /\ ~Untouched(g)
  BY <1>2, <1>3 DEF ChannelsInv, ListsFit, Untouched
<1> PICK m : m = Moving'
  OBVIOUS
<1>8. \A x \in ToSet(rows) : x.id \in m
  BY <1>5 DEF ToSet
<1>9. q.loaded => Rows(g) = q.data
  BY DEF Rows
<1>10. ASSUME Fits(Rows(g), g, place, wire, Moving)
       PROVE  Fits(ToSet(rows), g, place, wire, m)
  <2> SUFFICES ASSUME NEW c \in Here(g)
               PROVE  Agrees(ToSet(rows), c, place[c], wire, m)
    BY DEF Fits
  <2>1. Agrees(Rows(g), c, place[c], wire, Moving)
    BY <1>10 DEF Fits
  <2>2. c \in Ids(ToSet(rows)) <=> c \in Ids(Rows(g))
    BY <1>2
  <2> QED
    BY <1>8, <2>1, <2>2 DEF Agrees
<1>11. ASSUME Fits(q.answer, g, place, wire, Moving)
       PROVE  Fits(q.answer, g, place, wire, m)
  BY <1>5, <1>11, FitsGrow
<1>12. ListFits(r, g, Untouched(g)', place, wire, m)
  <2>1. /\ q.loaded /\ Rows(g) = q.data
        /\ r.loaded /\ r.data = ToSet(rows) /\ r.fetch = q.fetch /\ r.answer = q.answer
        /\ r.causes = q.causes /\ r.since = q.since
    BY <1>2, <1>9
  <2> HIDE DEF q, r
  <2>2. q.fetch = "none" /\ q.causes = {} => Fits(q.data, g, place, wire, Moving)
    BY <1>7 DEF ListFits
  <2>3. q.fetch = "read" /\ q.since = {} => Fits(q.answer, g, place, wire, Moving)
    BY <1>7 DEF ListFits
  <2>4. q.fetch = "none" /\ q.causes = {} => Fits(ToSet(rows), g, place, wire, m)
    BY <1>10, <2>1, <2>2
  <2>5. r.fetch = "none" /\ r.causes = {} => r.loaded /\ Fits(r.data, g, place, wire, m)
    BY <2>1, <2>4
  <2>6. r.fetch = "read" /\ r.since = {} => Fits(r.answer, g, place, wire, m)
    BY <1>11, <2>1, <2>3
  <2> QED
    BY <2>5, <2>6 DEF ListFits
<1>13. ChannelsInv'
  <2>1. ListFits(query'["channels"][g], g, Untouched(g)', place, wire, Moving')
    BY <1>12
  <2> HIDE DEF q, r
  <2> QED
    BY <1>2, <1>3, <1>4, <1>5, <1>6, <2>1, TasksStep
<1>14. MembersFit'
  BY <1>2, <1>3, MembersStill
<1> QED
  BY <1>13, <1>14 DEF ListsInv

\* A move is answered: the next one is sent, and the same channels are to be moved.
LEMMA MoveAnsweredFit ==
    ASSUME GuildsAssumption, Typed, ListsInv, MoveAnswered
    PROVE  ListsInv'
<1>1. "drag" \in Kinds /\ "create" \in Kinds /\ "delete" \in Kinds /\ "drag" # "create" /\ "drag" # "delete"
  BY DEF Kinds
<1> PICK t : t = task["drag"]
  OBVIOUS
<1> PICK u : u = task'["drag"]
  OBVIOUS
<1> PICK rest : rest = Tail(t.todo)
  OBVIOUS
<1>2. /\ t.at = "done" /\ t.todo # <<>> /\ t.todo \in Seq(AnyRow)
      /\ rest = <<>> => u = Idle
      /\ rest # <<>> => u.at = "asked" /\ u.guild = t.guild /\ u.todo = rest
      /\ \A k \in Kinds : k # "drag" => task'[k] = task[k]
      /\ query' = query /\ UNCHANGED screen
  BY MoveAnsweredIs
<1>3. UNCHANGED <<place, roster, wire, timer, route>> /\ ChannelsInv /\ MembersFit
  BY DEF MoveAnswered, server, screen, ListsInv
<1>4. Idle.at = "idle" /\ Idle.guild = None
  BY IdleOK
<1>5. \A h \in Guilds : Untouched(h) => Untouched(h)'
  BY <1>1, <1>2, <1>3, <1>4, UntouchedStay
<1>6. \A c \in Channels : c \in Moving => c \in Moving'
  <2>1. /\ rest \in Seq(AnyRow) /\ Len(t.todo) \in Nat \ {0} /\ DOMAIN t.todo = 1..Len(t.todo)
        /\ DOMAIN rest = 1..(Len(t.todo) - 1) /\ \A i \in 1..(Len(t.todo) - 1) : rest[i] = t.todo[i + 1]
    BY <1>2, TailIs
  <2>2. \A c \in MovingOf(t) : \E i \in DOMAIN t.todo : 1 < i /\ t.todo[i].id = c
    <3>1. t.todo \in Seq(AnyRow) /\ t.at = "done"
      BY <1>2
    <3> QED
      BY ONLY <3>1, MovingDone
  <2>3. \A i \in DOMAIN t.todo : 1 < i => i - 1 \in DOMAIN rest /\ rest[i - 1] = t.todo[i]
    BY <2>1
  <2>4. \A c : c \in MovingOf(t) => \E i \in DOMAIN rest : rest[i].id = c
    BY <2>2, <2>3
  <2>5. CASE rest = <<>>
    <3>1. MovingOf(t) = {}
      BY <2>4, <2>5
    <3> QED
      BY <3>1 DEF Moving
  <2>6. CASE rest # <<>>
    <3>1. u.todo = rest /\ u.at = "asked"
      BY <1>2, <2>6
    <3>2. \A c : c \in MovingOf(u) <=> \E i \in DOMAIN u.todo : u.todo[i].id = c
      <4>1. u.todo \in Seq(AnyRow) /\ u.at = "asked"
        BY <2>1, <3>1
      <4> QED
        BY ONLY <4>1, MovingAsked
    <3> QED
      BY <2>4, <3>1, <3>2 DEF Moving
  <2> QED
    BY <2>5, <2>6
<1>7. CreateMade(task'["create"], place, wire) /\ DeleteMade(task'["delete"], place)
  BY <1>1, <1>2, <1>3 DEF ChannelsInv, TasksMade
<1>8. ChannelsInv'
  BY <1>2, <1>3, <1>5, <1>6, <1>7, TasksStill
<1>9. MembersFit'
  BY <1>2, <1>3, MembersStill
<1> QED
  BY <1>8, <1>9 DEF ListsInv

\* A move fails: the list on screen is fetched, and that of the drag is blamed.
LEMMA MoveFailsFit ==
    ASSUME GuildsAssumption, Typed, ListsInv, MoveFails
    PROVE  ListsInv'
<1>1. "drag" \in Kinds /\ "create" \in Kinds /\ "delete" \in Kinds /\ "drag" # "create" /\ "drag" # "delete"
  BY DEF Kinds
<1> PICK t : t = task["drag"]
  OBVIOUS
<1> PICK g : g = t.guild
  OBVIOUS
<1>2. /\ g \in Guilds /\ task'["drag"] = Idle /\ \A k \in Kinds : k # "drag" => task'[k] = task[k]
      /\ \A h \in Guilds : query'["members"][h] = query["members"][h]
      /\ \A h \in Guilds : query'["channels"][h] =
            IF h = route.guild THEN Refetched(query["channels"][h])
            ELSE IF h = g THEN Blame(query["channels"][h], "not rolled back")
            ELSE query["channels"][h]
  BY MoveFailsIs
<1>3. UNCHANGED <<place, roster, wire, timer, route>> /\ ChannelsInv /\ MembersFit
  BY DEF MoveFails, server, screen, ListsInv
<1>4. Idle.at = "idle" /\ Idle.guild = None
  BY IdleOK
<1>5. \A h \in Guilds : Untouched(h) => Untouched(h)'
  BY <1>1, <1>2, <1>3, <1>4, UntouchedStay
<1>6. \A c \in Moving : c \in Here(g)
  <2>1. /\ t.at \in {"asked", "done"} /\ t.todo \in Seq(AnyRow)
        /\ \A i \in DOMAIN t.todo : t.todo[i].id \in Here(g)
    BY <1>1 DEF MoveFails, TaskFails, Typed, TasksT, TaskOK, TaskSet
  <2>2. \A c \in MovingOf(t) : \E i \in DOMAIN t.todo : t.todo[i].id = c
    BY <2>1, MovingAsked, MovingDone
  <2> QED
    BY <2>1, <2>2 DEF Moving
<1>7. TasksMade'
  <2>1. CreateMade(task'["create"], place, wire) /\ DeleteMade(task'["delete"], place)
    BY <1>1, <1>2, <1>3 DEF ChannelsInv, TasksMade
  <2> QED
    BY <1>3, <2>1 DEF TasksMade
<1>8. ASSUME NEW h \in Guilds
      PROVE  ListFits(query'["channels"][h], h, Untouched(h)', place', wire', Moving')
  <2> PICK q : q = query["channels"][h]
    OBVIOUS
  <2> PICK r : r = query'["channels"][h]
    OBVIOUS
  <2>1. "channels" \in Lists /\ "not rolled back" \in Causes
    BY DEF Lists, Causes
  <2>2. EntryOK("channels", h, q) /\ ListFits(q, h, Untouched(h), place, wire, Moving)
    BY <1>3, <2>1 DEF Typed, QueryT, ChannelsInv, ListsFit
  <2>3. CASE h = route.guild
    <3>1. r = Refetched(q)
      BY <1>2, <2>3
    <3>2. r.fetch # "none" /\ (r.fetch = "read" => r.since # {})
      BY ONLY <2>1, <2>2, <3>1, h \in Guilds, RefetchedOK
    <3> QED
      BY <3>2, BlamedFit
  <2>4. CASE h # route.guild /\ h = g
    <3>1. r = Blame(q, "not rolled back")
      BY <1>2, <2>4
    <3>2. r.causes # {} /\ r.since # {}
      BY ONLY <2>1, <2>2, <3>1, h \in Guilds, BlameOK
    <3> QED
      BY <3>2, BlamedFit
  <2>5. CASE h # route.guild /\ h # g
    <3>1. r = q
      BY <1>2, <2>5
    <3>2. \A c \in Here(h) : c \notin Moving
      BY <1>6, <2>5 DEF Here
    <3> PICK m : m = Moving'
      OBVIOUS
    <3> PICK u : u = Untouched(h)'
      OBVIOUS
    <3>3. ~q.loaded /\ Untouched(h) => u
      BY <1>5
    <3>4. \A c \in Here(h) : c \in Moving => c \in m
      BY <3>2
    <3>5. ListFits(q, h, u, place, wire, m)
      BY <2>2, <3>3, <3>4, ListFitsGrow
    <3> QED
      BY <1>3, <3>1, <3>5
  <2> QED
    BY <2>3, <2>4, <2>5
<1>9. ListsFit'
  BY <1>8 DEF ListsFit
<1>10. Ordered(wire', place')
  BY <1>3 DEF ChannelsInv
<1>11. MembersFit'
  BY <1>2, <1>3, MembersStill
<1> QED
  BY <1>7, <1>9, <1>10, <1>11 DEF ListsInv, ChannelsInv

-----------------------------------------------------------------------------
(* The user, the start, and every step.                                      *)

\* The clicks touch no list.
LEMMA ClicksFit ==
    ASSUME ListsInv,
           \/ \E g \in Guilds \cup {Home} : SelectRail(g)
           \/ \E c \in Channels : SelectChannel(c)
           \/ HangUp \/ JoinFromPlaceholder
    PROVE  ListsInv'
<1>1. UNCHANGED <<place, roster, wire, query, timer, task, route>>
  BY DEF SelectRail, SelectChannel, HangUp, JoinFromPlaceholder, Clicks, server
<1>2. ChannelsInv'
  BY <1>1, ChannelsSame DEF ListsInv
<1>3. MembersFit'
  BY <1>1, MembersStill DEF ListsInv
<1> QED
  BY <1>2, <1>3 DEF ListsInv

\* A page comes on screen: the lists that are missing are asked for.
LEMMA NavigationFit ==
    ASSUME GuildsAssumption, Typed, ListsInv, RenderNavigation
    PROVE  ListsInv'
<1>1. \A l \in Lists, g \in Guilds :
         query'[l][g] = IF g = nav.guild /\ g # route.guild THEN Mounted(query[l][g]) ELSE query[l][g]
  BY RenderNavigationIs
<1>2. UNCHANGED <<place, roster, wire, timer, task>> /\ route' = nav /\ ChannelsInv /\ MembersFit
  BY DEF RenderNavigation, server, ListsInv
<1>3. "channels" \in Lists /\ "members" \in Lists
  BY DEF Lists
<1>4. Ordered(wire', place') /\ TasksMade' /\ Moving' = Moving
  BY <1>2 DEF ChannelsInv, TasksMade, Moving
<1>5. ASSUME NEW l \in Lists, NEW g \in Guilds
      PROVE  \/ query'[l][g] = query[l][g] /\ (g = nav.guild => g = route.guild)
             \/ query'[l][g].fetch = "asked"
             \/ query'[l][g] = query[l][g] /\ (query[l][g].fetch = "none" => query[l][g].loaded)
  <2> PICK q : q = query[l][g]
    OBVIOUS
  <2>1. EntryOK(l, g, q)
    BY DEF Typed, QueryT
  <2>2. /\ Mounted(q) = q \/ Mounted(q).fetch = "asked"
        /\ Mounted(q).fetch = "none" => q.loaded
    BY <2>1, MountedOK
  <2> QED
    BY <1>1, <2>2
<1>6. ASSUME NEW g \in Guilds
      PROVE  ListFits(query'["channels"][g], g, Untouched(g)', place', wire', Moving')
  <2> PICK q : q = query["channels"][g]
    OBVIOUS
  <2> PICK r : r = query'["channels"][g]
    OBVIOUS
  <2>1. ListFits(q, g, Untouched(g), place, wire, Moving)
    BY <1>2 DEF ChannelsInv, ListsFit
  <2>2. \/ r = q /\ (g = nav.guild => g = route.guild)
        \/ r.fetch = "asked"
        \/ r = q /\ (q.fetch = "none" => q.loaded)
    BY <1>3, <1>5
  <2>3. CASE r = q /\ (g = nav.guild => g = route.guild)
    <3>1. Untouched(g) => Untouched(g)'
      BY <1>2, <2>3 DEF Untouched
    <3> QED
      BY <1>2, <1>4, <2>1, <2>3, <3>1 DEF ListFits
  <2>4. CASE r.fetch = "asked"
    BY <2>4 DEF ListFits
  <2>5. CASE r = q /\ (q.fetch = "none" => q.loaded)
    BY <1>2, <1>4, <2>1, <2>5 DEF ListFits
  <2> QED
    BY <2>2, <2>3, <2>4, <2>5
<1>7. ASSUME NEW g \in Guilds
      PROVE  MembersFits(query'["members"][g], route'.guild # g, roster'[g], BehindIn(wire', timer', g))
  <2> PICK q : q = query["members"][g]
    OBVIOUS
  <2> PICK r : r = query'["members"][g]
    OBVIOUS
  <2>1. MembersFits(q, route.guild # g, roster[g], BehindIn(wire, timer, g))
    BY <1>2 DEF MembersFit
  <2>2. \/ r = q /\ (g = nav.guild => g = route.guild)
        \/ r.fetch = "asked"
        \/ r = q /\ (q.fetch = "none" => q.loaded)
    BY <1>3, <1>5
  <2> QED
    BY <1>2, <2>1, <2>2 DEF MembersFits
<1>8. ListsFit' /\ MembersFit'
  BY <1>6, <1>7 DEF ListsFit, MembersFit
<1> QED
  BY <1>4, <1>8 DEF ListsInv, ChannelsInv

\* At the start the lists are those of the server, or asked for, or not looked at.
LEMMA InitFit ==
    ASSUME GuildsAssumption, StoriesAssumption, Init
    PROVE  ListsInv
<1>1. PICK s \in Stories :
         /\ route = s.route
         /\ query = [l \in Lists |-> [g \in Guilds |->
               IF l \notin s.unloaded THEN Loaded(Truth(l, g))
               ELSE IF g = s.route.guild THEN Asked(Unloaded) ELSE Unloaded]]
  BY DEF Init
<1>2. wire = <<>> /\ timer = {} /\ task = [k \in {"create", "delete", "drag"} |-> Idle]
  BY DEF Init
<1>3. Typed
  BY InitTyped
<1>4. Idle.at = "idle" /\ Idle.guild = None
  BY IdleOK
<1>5. \A k \in Kinds : task[k] = Idle
  BY <1>2 DEF Kinds
<1>6. Ordered(wire, place)
  BY <1>2 DEF Ordered
<1>7. TasksMade
  BY <1>4, <1>5 DEF TasksMade, CreateMade, DeleteMade, Kinds
<1>8. ASSUME NEW l \in Lists, NEW g \in Guilds
      PROVE  LET q == query[l][g]
             IN  \/ q.loaded /\ q.fetch = "none" /\ q.data = Truth(l, g)
                 \/ q.fetch = "asked"
                 \/ ~q.loaded /\ q.fetch = "none" /\ g # route.guild
  <2>1. query[l][g] = IF l \notin s.unloaded THEN Loaded(Truth(l, g))
                      ELSE IF g = s.route.guild THEN Asked(Unloaded) ELSE Unloaded
    BY <1>1
  <2>2. Truth(l, g) \in Data(l, g)
    BY <1>3, TruthIsData DEF Typed
  <2>3. Loaded(Truth(l, g)).loaded /\ Loaded(Truth(l, g)).data = Truth(l, g) /\ Loaded(Truth(l, g)).fetch = "none"
    BY <2>2, LoadedOK
  <2>4. Asked(Unloaded).fetch = "asked" /\ ~Unloaded.loaded /\ Unloaded.fetch = "none"
    BY DEF Asked, Unloaded
  <2> HIDE DEF Unloaded
  <2> QED
    BY <1>1, <2>1, <2>3, <2>4
<1>9. "channels" \in Lists /\ "members" \in Lists
  BY DEF Lists
<1>10. ASSUME NEW g \in Guilds
       PROVE  ListFits(query["channels"][g], g, Untouched(g), place, wire, Moving)
  <2> PICK q : q = query["channels"][g]
    OBVIOUS
  <2>1. \/ q.loaded /\ q.fetch = "none" /\ q.data = Truth("channels", g)
        \/ q.fetch = "asked"
        \/ ~q.loaded /\ q.fetch = "none" /\ g # route.guild
    BY <1>8, <1>9
  <2>2. Fits(Truth("channels", g), g, place, wire, Moving)
    BY TruthFits
  <2>3. g # route.guild => Untouched(g)
    BY <1>4, <1>5 DEF Untouched, GuildsAssumption
  <2> QED
    BY <2>1, <2>2, <2>3 DEF ListFits
<1>11. ASSUME NEW g \in Guilds
       PROVE  MembersFits(query["members"][g], route.guild # g, roster[g], BehindIn(wire, timer, g))
  <2> PICK q : q = query["members"][g]
    OBVIOUS
  <2>1. \/ q.loaded /\ q.fetch = "none" /\ q.data = Truth("members", g)
        \/ q.fetch = "asked"
        \/ ~q.loaded /\ q.fetch = "none" /\ g # route.guild
    BY <1>8, <1>9
  <2>2. Truth("members", g) = roster[g]
    BY DEF Truth
  <2> QED
    BY <2>1, <2>2 DEF MembersFits
<1> QED
  BY <1>6, <1>7, <1>10, <1>11 DEF ListsInv, ChannelsInv, ListsFit, MembersFit

\* Every step keeps the lists as far from the server as the frames, the requests
\* and the causes on record say.
LEMMA ListsStep ==
    ASSUME GuildsAssumption, Typed, ListsInv, [Next]_vars
    PROVE  ListsInv'
<1>1. CASE Server
  <2>1. ASSUME NEW c \in Channels, NEW p \in 0..(Count(GuildOf[c]) - 1), OtherMoves(c, p)
        PROVE  ListsInv'
    <3>1. p \in Nat
      OBVIOUS
    <3> QED
      BY <2>1, <3>1, OthersFit
  <2>2. ASSUME NEW c \in Channels, OtherCreates(c) \/ OtherDeletes(c)
        PROVE  ListsInv'
    <3>1. 0 \in Nat
      OBVIOUS
    <3> QED
      BY <2>2, <3>1, OthersFit
  <2> QED
    BY <1>1, <2>1, <2>2, MembersChangeFit, DropFit DEF Server
<1>2. CASE Cache
  BY <1>2, CacheFit, AnswersFit DEF Cache
<1>3. CASE Frames
  <2>1. \E g \in Guilds : g = g
    BY <1>3, HeadIs DEF Frames, OnModeration, OnMemberJoined, OnSelfRemoved, OnChannelFrame, Typed, FrameT
  <2>2. CASE \E type \in FramesOf.channels : OnChannelFrame(type)
    <3>1. FramesOf.channels = ListTypes
      BY DEF FramesOf, ListTypes
    <3> QED
      BY <2>2, <3>1, ChannelFrameFit
  <2>3. CASE OnModeration \/ OnMemberJoined \/ OnSelfRemoved
    BY <2>1, <2>3, MemberFramesFit
  <2>4. CASE \E g \in Guilds : TimerFires(g) \/ SelfRemovalEnds(g)
    BY <2>4, MemberFramesFit
  <2> QED
    BY <1>3, <2>2, <2>3, <2>4 DEF Frames
<1>4. CASE Tasks
  <2>1. DOMAIN task = Kinds
    BY DEF Typed, TasksT
  <2> QED
    BY <1>4, <2>1, AskFit, DragFit, TaskEffectFit, AskFailsFit, CreateAnsweredFit, DeleteAnsweredFit,
       MoveAnsweredFit, MoveFailsFit DEF Tasks
<1>5. CASE User
  BY <1>5, ClicksFit, NavigationFit DEF User
<1>6. CASE UNCHANGED vars
  <2>1. UNCHANGED <<place, roster, wire, query, timer, task, route>>
    BY <1>6 DEF vars, server, screen
  <2>2. ChannelsInv'
    BY <2>1, ChannelsSame DEF ListsInv
  <2>3. MembersFit'
    BY <2>1, MembersStill DEF ListsInv
  <2> QED
    BY <2>2, <2>3 DEF ListsInv
<1> QED
  BY <1>1, <1>2, <1>3, <1>4, <1>5, <1>6 DEF Next

-----------------------------------------------------------------------------
(* The lists of a guild at which nothing is under way.                       *)

\* Rows that agree with the server about every channel, with nothing to come,
\* are the server's.
LEMMA FitsIsTruth ==
    ASSUME NEW g \in Guilds, NEW rows \in RowsOf(g), NEW w, NEW moving,
           Fits(rows, g, place, w, moving),
           \A c \in Here(g) : c \notin moving /\ \A type \in ListTypes : ~SaidIn(w, type, c)
    PROVE  rows = Truth("channels", g)
<1> DEFINE there == {Row(c, place[c]) : c \in {d \in Channels : GuildOf[d] = g /\ Exists(d)}}
<1>1. ASSUME NEW c \in Here(g)
      PROVE  /\ place[c] \in Nat <=> c \in Ids(rows)
             /\ place[c] \in Nat => \A r \in rows : r.id = c => r.position = place[c]
  BY <1>1 DEF Fits, Agrees, ListTypes
<1>2. ASSUME NEW r \in rows
      PROVE  r \in there
  <2>1. r \in [id : Here(g), position : Nat] /\ r.id \in Ids(rows)
    BY <1>2 DEF RowsOf, Ids
  <2>2. r.id \in Here(g) /\ r = [id |-> r.id, position |-> r.position]
    BY <2>1
  <2>3. place[r.id] \in Nat /\ r.position = place[r.id]
    BY <1>1, <1>2, <2>1, <2>2
  <2>4. r = Row(r.id, place[r.id])
    BY <2>2, <2>3 DEF Row
  <2> QED
    BY <2>2, <2>3, <2>4 DEF Here, Exists
<1>3. ASSUME NEW r \in there
      PROVE  r \in rows
  <2>1. PICK c \in Here(g) : place[c] \in Nat /\ r = Row(c, place[c])
    BY <1>3 DEF Here, Exists
  <2>2. PICK s \in rows : s.id = c /\ s.position = place[c]
    BY <1>1, <2>1 DEF Ids
  <2>3. s \in [id : Here(g), position : Nat]
    BY <2>2 DEF RowsOf
  <2>4. s = [id |-> c, position |-> place[c]]
    BY <2>2, <2>3
  <2> QED
    BY <2>1, <2>2, <2>4 DEF Row
<1>4. rows = there
  BY <1>2, <1>3
<1> QED
  BY <1>4 DEF Truth

\* A drag in another guild moves no channel of this one.
LEMMA MovesElsewhere ==
    ASSUME Typed, NEW g \in Guilds, task["drag"].guild # g
    PROVE  \A c \in Here(g) : c \notin Moving
<1> PICK t : t = task["drag"]
  OBVIOUS
<1>1. "drag" \in Kinds /\ t \in TaskSet /\ TaskOK("drag", t)
  BY DEF Kinds, Typed, TasksT
<1>2. CASE t.at = "idle"
  BY <1>2 DEF Moving, MovingOf
<1>3. CASE t.at # "idle"
  <2>1. /\ t.at \in {"asked", "done"} /\ t.todo \in Seq(AnyRow)
        /\ \A i \in DOMAIN t.todo : t.todo[i].id \in Here(t.guild)
    BY <1>1, <1>3 DEF TaskOK, TaskSet
  <2>2. \A c \in MovingOf(t) : \E i \in DOMAIN t.todo : t.todo[i].id = c
    BY <2>1, MovingAsked, MovingDone
  <2> QED
    BY <2>1, <2>2 DEF Moving, Here
<1> QED
  BY <1>2, <1>3

\* A list of the open guild, with nothing under way, is the server's or has a
\* cause on record.
LEMMA SettledConverges ==
    ASSUME Typed, ListsInv, NEW list \in Lists, NEW g \in Guilds, Settled(list, g),
           query[list][g].causes = {}
    PROVE  query[list][g].data = Truth(list, g)
<1> PICK q : q = query[list][g]
  OBVIOUS
<1>1. /\ route.guild = g /\ q.fetch = "none" /\ q.causes = {} /\ g \notin timer
      /\ \A i \in DOMAIN wire : wire[i].guild # g
      /\ \A k \in DOMAIN task : task[k].guild # g
  BY DEF Settled
<1>2. EntryOK(list, g, q)
  BY DEF Typed, QueryT
<1>3. CASE list = "members"
  <2>1. MembersFits(q, route.guild # g, roster[g], BehindIn(wire, timer, g))
    BY <1>3 DEF ListsInv, MembersFit
  <2>2. ~BehindIn(wire, timer, g)
    BY <1>1 DEF BehindIn
  <2>3. q.data = roster[g]
    BY <1>1, <2>1, <2>2 DEF MembersFits
  <2> QED
    BY <1>3, <2>3 DEF Truth
<1>4. CASE list = "channels"
  <2>1. ListFits(q, g, Untouched(g), place, wire, Moving)
    BY <1>4 DEF ListsInv, ChannelsInv, ListsFit
  <2>2. ~Untouched(g)
    BY <1>1 DEF Untouched
  <2>3. q.loaded /\ Fits(q.data, g, place, wire, Moving)
    BY <1>1, <2>1, <2>2 DEF ListFits
  <2>4. q.data \in RowsOf(g)
    BY <1>2, <1>4, <2>3 DEF EntryOK, Data
  <2>5. \A c \in Here(g) : c \notin Moving
    <3>1. task["drag"].guild # g
      BY <1>1 DEF Typed, TasksT, Kinds
    <3> QED
      BY <3>1, MovesElsewhere
  <2>6. ASSUME NEW c \in Here(g), NEW type \in ListTypes, SaidIn(wire, type, c)
        PROVE  FALSE
    <3>1. PICK i \in DOMAIN wire : wire[i].type = type /\ wire[i].channel = c
      BY <2>6 DEF SaidIn
    <3>2. FrameOK(wire[i])
      BY DEF Typed, WireT
    <3>3. wire[i].guild = g
      BY <2>6, <3>1, <3>2 DEF FrameOK, Here
    <3> QED
      BY <1>1, <3>3
  <2>7. \A c \in Here(g) : c \notin Moving /\ \A type \in ListTypes : ~SaidIn(wire, type, c)
    BY <2>5, <2>6
  <2>8. q.data = Truth("channels", g)
    BY ONLY <2>3, <2>4, <2>7, g \in Guilds, FitsIsTruth
  <2> QED
    BY <1>4, <2>8
<1> QED
  BY <1>3, <1>4 DEF Lists

\* When nothing is under way in the open guild, its channels and its members are
\* the server's, or one of the causes the program has no remedy for is on record
\* (the query cache, the frame handlers and the user's own requests of
\* authenticated-app.tsx, overlapping in every order).
THEOREM ListsConverged == Spec => []ListsConverge
<1>1. Init => Inv /\ ListsInv
  BY InitInv, InitFit, GuildsAssumption, StoriesAssumption
<1>2. Inv /\ ListsInv /\ [Next]_vars => Inv' /\ ListsInv'
  <2>1. Inv => Typed
    BY DEF Inv
  <2> QED
    BY <2>1, InvStep, ListsStep, GuildsAssumption
<1>3. Inv /\ ListsInv => ListsConverge
  <2>1. Inv => Typed
    BY DEF Inv
  <2> QED
    BY <2>1, SettledConverges DEF ListsConverge
<1> QED
  BY <1>1, <1>2, <1>3, PTL DEF Spec

-----------------------------------------------------------------------------
(* The connection of one instance, for any number of boots, clients,         *)
(* timers, sessions and faults: where its WebSocket clients are.             *)

BootSet == [pc : {"idle", "handshake", "auth", "save", "guilds"}, kind : {"boot", "local"},
            gen : Nat, client : Client \cup {NoClient}]

ClientType ==
    /\ entry \in Entry \cup {NoEntry}
    /\ generation \in Nat
    /\ boot \in [Boot -> BootSet]
    /\ client \in [Client -> {"none", "down", "up", "stopped"}]
    /\ pending \in SUBSET Timer
    /\ dropped \in SUBSET Client

\* Every client that still connects has exactly one holder: the entry, one boot,
\* or nobody any more.
OneHolder ==
    /\ \A b \in Boot :
        IF boot[b].pc = "guilds"
          THEN /\ boot[b].client \in Client /\ Live(boot[b].client)
               /\ boot[b].client # EntryClient
               /\ \A d \in Boot : d # b => boot[d].client # boot[b].client
          ELSE boot[b].client = NoClient
    /\ \A c \in dropped :
        Live(c) /\ c # EntryClient /\ \A b \in Boot : boot[b].client # c

\* While the entry's own client is closed, a boot of the same session brings the
\* next one, or one was lost that still connects.
EntryServed ==
    (EntryClient # NoClient /\ ~removing) =>
        \/ Live(EntryClient)
        \/ \E b \in Boot : boot[b].pc = "guilds" /\ ~Stale(b)
        \/ dropped # {}

ClientInv == ClientType /\ OneHolder /\ LiveIsKnown /\ EntryServed

\* The entry's client is a client or none.
LEMMA EntryClientType == ClientType => EntryClient \in Client \cup {NoClient}
    BY DEF ClientType, EntryClient, Entry

\* Stopping a client touches no other.
LEMMA StopOK ==
    ASSUME ClientType, NEW c \in Client \cup {NoClient}
    PROVE  /\ Stop(c) \in [Client -> {"none", "down", "up", "stopped"}]
           /\ \A d \in Client : d # c => Stop(c)[d] = client[d]
           /\ c \in Client => Stop(c)[c] = "stopped"
    BY InstancesAssumption DEF Stop, ClientType

\* A step that starts, advances or ends boots without a client, and moves no
\* client between its holders.
Calm ==
    /\ ClientType'
    /\ \A c \in Client : Live(c)' <=> Live(c)
    /\ EntryClient' = EntryClient
    /\ UNCHANGED <<dropped, removing, generation>>
    /\ \A b \in Boot :
        \/ boot'[b] = boot[b]
        \/ /\ boot[b].pc # "guilds" /\ boot'[b].pc # "guilds"
           /\ boot'[b].client = NoClient

\* Such a step keeps the invariant.
LEMMA CalmOK == ClientInv /\ Calm => ClientInv'
<1> SUFFICES ASSUME ClientInv, Calm PROVE ClientInv'
    OBVIOUS
<1>1. \A b \in Boot : boot'[b].client = boot[b].client
    BY DEF ClientInv, OneHolder, Calm
<1>2. \A b \in Boot : boot'[b].pc = "guilds" <=> boot[b].pc = "guilds"
    BY DEF Calm
<1>3. \A b \in Boot : boot[b].pc = "guilds" => (Stale(b)' <=> Stale(b))
    BY DEF Calm, Stale
<1>4. OneHolder'
    BY <1>1, <1>2 DEF ClientInv, OneHolder, Calm, ClientType
<1>5. LiveIsKnown'
    BY <1>1 DEF ClientInv, LiveIsKnown, Calm
<1>6. EntryServed'
  <2> SUFFICES ASSUME EntryClient # NoClient, ~removing
               PROVE  \/ Live(EntryClient)'
                      \/ \E b \in Boot : boot'[b].pc = "guilds" /\ ~Stale(b)'
                      \/ dropped' # {}
      BY DEF EntryServed, Calm
  <2>1. CASE Live(EntryClient)
    <3>1. EntryClient \in Client
        BY EntryClientType DEF ClientInv
    <3> QED
        BY <2>1, <3>1 DEF Calm
  <2>2. CASE \E b \in Boot : boot[b].pc = "guilds" /\ ~Stale(b)
      BY <2>2, <1>2, <1>3
  <2>3. CASE dropped # {}
      BY <2>3 DEF Calm
  <2> QED
      BY <2>1, <2>2, <2>3 DEF ClientInv, EntryServed
<1> QED
    BY <1>4, <1>5, <1>6 DEF ClientInv, Calm

\* A boot that begins has no client yet and leaves the entry's.
LEMMA BeginsOK ==
    ASSUME ClientInv, NEW b \in Boot, NEW kind \in {"boot", "local"}, Begins(b, kind),
           UNCHANGED <<dropped, removing, generation, client, pending>>
    PROVE  ClientInv'
<1>1. entry' \in Entry \cup {NoEntry} /\ EntryClient' = EntryClient
  <2>1. CASE kind = "boot"
    <3> DEFINE e == [state |-> "connecting", client |-> EntryClient, timer |-> EntryTimer]
    <3>1. entry' = e
        BY <2>1 DEF Begins
    <3>2. e \in Entry
        BY EntryClientType DEF ClientInv, ClientType, Entry, EntryTimer
    <3>3. e # NoEntry /\ e.client = EntryClient
        BY <3>2, InstancesAssumption
    <3> QED
        BY <3>1, <3>2, <3>3 DEF EntryClient
  <2>2. CASE kind # "boot"
      BY <2>2 DEF Begins, EntryClient, ClientInv, ClientType
  <2> QED
      BY <2>1, <2>2
<1>2. /\ boot' = [boot EXCEPT ![b] = [pc |-> "handshake", kind |-> kind,
                                      gen |-> generation, client |-> NoClient]]
      /\ boot[b].pc = "idle"
    BY DEF Begins, Running
<1>3. ClientType' /\ \A c \in Client : Live(c)' <=> Live(c)
    BY <1>1, <1>2 DEF ClientInv, ClientType, BootSet, Live
<1> QED
    BY <1>1, <1>2, <1>3, CalmOK DEF Calm, ClientInv, ClientType

\* A boot without a client that ends leaves everything.
LEMMA EndsOK ==
    ASSUME ClientInv, NEW b \in Boot, Ends(b), boot[b].pc # "guilds",
           UNCHANGED <<dropped, removing, generation, client, pending>>,
           entry' \in Entry \cup {NoEntry}, EntryClient' = EntryClient
    PROVE  ClientInv'
<1>1. boot' = [boot EXCEPT ![b] = IdleBoot] /\ IdleBoot \in BootSet
      /\ IdleBoot.pc = "idle" /\ IdleBoot.client = NoClient
    BY DEF Ends, IdleBoot, BootSet
<1>2. ClientType' /\ \A c \in Client : Live(c)' <=> Live(c)
    BY <1>1 DEF ClientInv, ClientType, Live
<1> QED
    BY <1>1, <1>2, CalmOK DEF Calm, ClientInv, ClientType

\* An answered request moves a boot that has no client yet, or ends a stale
\* one.
LEMMA AnsweredOK == \A b \in Boot : ClientInv /\ Answered(b) => ClientInv'
<1> SUFFICES ASSUME NEW b \in Boot, ClientInv, Answered(b) PROVE ClientInv'
    OBVIOUS
<1>1. /\ boot[b].pc \in {"handshake", "auth"}
      /\ UNCHANGED <<dropped, removing, generation, client, pending, entry>>
    BY DEF Answered
<1>2. EntryClient' = EntryClient /\ entry' \in Entry \cup {NoEntry}
    BY <1>1 DEF EntryClient, ClientInv, ClientType
<1>3. CASE Stale(b)
    BY <1>1, <1>2, <1>3, EndsOK DEF Answered
<1>4. CASE ~Stale(b)
  <2>1. PICK p \in {"auth", "save"} : boot' = [boot EXCEPT ![b].pc = p]
      BY <1>1, <1>4 DEF Answered
  <2>2. boot[b].client = NoClient
      BY <1>1 DEF ClientInv, OneHolder
  <2>3. ClientType' /\ \A c \in Client : Live(c)' <=> Live(c)
      BY <1>1, <2>1 DEF ClientInv, ClientType, BootSet, Live
  <2> QED
      BY <1>1, <1>2, <2>1, <2>2, <2>3, CalmOK DEF Calm, ClientInv, ClientType, BootSet
<1> QED
    BY <1>3, <1>4

\* A boot takes a client nobody holds, after it stopped the entry's own.
LEMMA SavedOK == \A b \in Boot : ClientInv /\ Saved(b) => ClientInv'
<1> SUFFICES ASSUME NEW b \in Boot, ClientInv, Saved(b) PROVE ClientInv'
    OBVIOUS
<1>1. /\ boot[b].pc = "save"
      /\ UNCHANGED <<dropped, removing, generation, pending, entry>>
    BY DEF Saved
<1>2. EntryClient' = EntryClient /\ EntryClient \in Client \cup {NoClient}
    BY <1>1, EntryClientType DEF EntryClient, ClientInv
<1>3. CASE Stale(b)
    BY <1>1, <1>2, <1>3, EndsOK DEF Saved, ClientInv, ClientType
<1>4. CASE ~Stale(b)
  <2>1. PICK c \in Client :
          /\ Free(c)
          /\ client' = [Stop(EntryClient) EXCEPT ![c] = "down"]
          /\ boot' = [boot EXCEPT ![b].pc = "guilds", ![b].client = c]
    <3>1. FirstOf({d \in Client : Free(d)}) \subseteq {d \in Client : Free(d)}
        BY DEF FirstOf
    <3> QED
        BY <1>4, <3>1 DEF Saved
  <2>2. ~Live(c) /\ c # EntryClient /\ \A d \in Boot : boot[d].client # c
      BY <2>1 DEF Free
  <2>3. /\ client' \in [Client -> {"none", "down", "up", "stopped"}]
        /\ client'[c] = "down"
        /\ EntryClient \in Client => client'[EntryClient] = "stopped"
        /\ \A d \in Client : d # c /\ d # EntryClient => client'[d] = client[d]
      BY <1>2, <2>1, <2>2, StopOK DEF ClientInv
  <2>4. /\ boot' \in [Boot -> BootSet] /\ boot'[b].pc = "guilds" /\ boot'[b].client = c
        /\ boot'[b].gen = boot[b].gen
        /\ \A d \in Boot : d # b => boot'[d] = boot[d]
      BY <2>1 DEF ClientInv, ClientType, BootSet
  <2>5. ClientType'
      BY <1>1, <2>3, <2>4 DEF ClientInv, ClientType
  <2>6. /\ Live(c)' /\ (EntryClient \in Client => ~Live(EntryClient)')
        /\ \A d \in Client : d # c /\ d # EntryClient => (Live(d)' <=> Live(d))
      BY <1>2, <2>3 DEF Live
  <2>7. OneHolder'
    <3>1. ASSUME NEW d \in Boot, d # b, boot[d].pc = "guilds"
          PROVE  /\ boot'[d].client \in Client /\ Live(boot[d].client)'
                 /\ boot'[d].client # EntryClient
                 /\ \A g \in Boot : g # d => boot'[g].client # boot'[d].client
        BY <2>2, <2>4, <2>6, <3>1 DEF ClientInv, OneHolder
    <3>2. ASSUME NEW d \in Boot, d # b, boot[d].pc # "guilds"
          PROVE  boot'[d].client = NoClient
        BY <2>4, <3>2 DEF ClientInv, OneHolder
    <3>3. ASSUME NEW k \in dropped
          PROVE  Live(k)' /\ k # EntryClient /\ \A d \in Boot : boot'[d].client # k
        BY <2>2, <2>4, <2>6, <3>3 DEF ClientInv, ClientType, OneHolder
    <3> QED
        BY <1>1, <1>2, <2>2, <2>4, <2>6, <3>1, <3>2, <3>3 DEF OneHolder
  <2>8. LiveIsKnown'
    <3> SUFFICES ASSUME NEW d \in Client, Live(d)'
                 PROVE  d = EntryClient' \/ d \in dropped' \/ \E g \in Boot : boot'[g].client = d
        BY DEF LiveIsKnown
    <3>1. CASE d = c
        BY <2>4, <3>1
    <3>2. CASE d # c
      <4>1. Live(d) /\ d # EntryClient
          BY <1>2, <2>3, <3>2 DEF Live
      <4>2. d \in dropped \/ \E g \in Boot : boot[g].client = d
          BY <4>1 DEF ClientInv, LiveIsKnown
      <4>3. boot[b].client # d
          BY <1>1, InstancesAssumption DEF ClientInv, OneHolder
      <4> QED
          BY <1>1, <2>4, <4>2, <4>3
    <3> QED
        BY <3>1, <3>2
  <2>9. EntryServed'
    <3>1. ~Stale(b)'
        BY <1>1, <1>4, <2>4 DEF Stale
    <3> QED
        BY <2>4, <3>1 DEF EntryServed
  <2> QED
      BY <2>5, <2>7, <2>8, <2>9 DEF ClientInv
<1> QED
    BY <1>3, <1>4

\* The boot hands its client over to the entry, or closes it when its session
\* is over.
LEMMA GotGuildsOK == \A b \in Boot : ClientInv /\ GotGuilds(b) => ClientInv'
<1> SUFFICES ASSUME NEW b \in Boot, ClientInv, GotGuilds(b) PROVE ClientInv'
    OBVIOUS
<1>1. /\ boot[b].pc = "guilds" /\ boot' = [boot EXCEPT ![b] = IdleBoot]
      /\ UNCHANGED <<removing, generation, pending>>
    BY DEF GotGuilds, Ends
<1>0. PICK c \in Client : c = boot[b].client
    BY <1>1 DEF ClientInv, OneHolder
<1>2. /\ c \in Client /\ Live(c) /\ c # EntryClient /\ c \notin dropped
      /\ \A d \in Boot : d # b => boot[d].client # c
    BY <1>0, <1>1 DEF ClientInv, OneHolder
<1>3. /\ boot' \in [Boot -> BootSet] /\ boot'[b].pc = "idle" /\ boot'[b].client = NoClient
      /\ \A d \in Boot : d # b => boot'[d] = boot[d]
    BY <1>1 DEF ClientInv, ClientType, BootSet, IdleBoot
<1>4. EntryClient \in Client \cup {NoClient} /\ c # NoClient
    BY <1>2, EntryClientType, InstancesAssumption DEF ClientInv
<1>5. CASE Stale(b)
  <2>1. client' = Stop(c) /\ entry' = entry /\ dropped' = dropped /\ EntryClient' = EntryClient
      BY <1>0, <1>5 DEF GotGuilds, EntryClient
  <2>2. /\ client' \in [Client -> {"none", "down", "up", "stopped"}]
        /\ ~Live(c)' /\ \A d \in Client : d # c => (Live(d)' <=> Live(d))
      BY <1>2, <2>1, StopOK DEF ClientInv, Live
  <2>3. ClientType'
      BY <1>1, <1>3, <2>1, <2>2 DEF ClientInv, ClientType
  <2>4. OneHolder'
    <3>1. ASSUME NEW d \in Boot, d # b, boot[d].pc = "guilds"
          PROVE  /\ boot'[d].client \in Client /\ Live(boot[d].client)'
                 /\ boot'[d].client # EntryClient
                 /\ \A g \in Boot : g # d => boot'[g].client # boot'[d].client
        BY <1>2, <1>3, <1>4, <2>2, <3>1, InstancesAssumption DEF ClientInv, OneHolder
    <3>2. ASSUME NEW d \in Boot, d # b, boot[d].pc # "guilds"
          PROVE  boot'[d].client = NoClient
        BY <1>3, <3>2 DEF ClientInv, OneHolder
    <3>3. ASSUME NEW k \in dropped
          PROVE  Live(k)' /\ k # EntryClient /\ \A d \in Boot : boot'[d].client # k
        BY <1>2, <1>3, <2>2, <3>3, InstancesAssumption DEF ClientInv, ClientType, OneHolder
    <3> QED
        BY <1>3, <2>1, <3>1, <3>2, <3>3 DEF OneHolder
  <2>5. LiveIsKnown'
      BY <1>0, <1>2, <1>3, <2>1, <2>2 DEF ClientInv, LiveIsKnown
  <2>6. EntryServed'
    <3> SUFFICES ASSUME EntryClient # NoClient, ~removing
                 PROVE  \/ Live(EntryClient)'
                        \/ \E d \in Boot : boot'[d].pc = "guilds" /\ ~Stale(d)'
                        \/ dropped # {}
        BY <1>1, <2>1 DEF EntryServed
    <3>1. ASSUME NEW d \in Boot, boot[d].pc = "guilds", ~Stale(d)
          PROVE  boot'[d].pc = "guilds" /\ ~Stale(d)'
        BY <1>1, <1>3, <1>5, <3>1 DEF Stale
    <3>2. Live(EntryClient) => Live(EntryClient)'
        BY <1>2, <1>4, <2>1, <2>2
    <3> QED
        BY <3>1, <3>2 DEF ClientInv, EntryServed
  <2> QED
      BY <2>3, <2>4, <2>5, <2>6 DEF ClientInv
<1>6. CASE ~Stale(b)
  <2> DEFINE e == [state |-> "connected", client |-> c, timer |-> NoTimer]
  <2>1. entry' = e /\ client' = client
        /\ dropped' = IF EntryClient \in Client /\ Live(EntryClient)
                        THEN dropped \cup {EntryClient} ELSE dropped
      BY <1>0, <1>6 DEF GotGuilds, Drops
  <2>2. e \in Entry /\ e # NoEntry /\ e.client = c
      BY <1>2, InstancesAssumption DEF Entry
  <2>3. EntryClient' = c
      BY <2>1, <2>2 DEF EntryClient
  <2> HIDE DEF e
  <2>4. ClientType'
      BY <1>1, <1>3, <2>1, <2>2 DEF ClientInv, ClientType
  <2>5. \A d \in Client : Live(d)' <=> Live(d)
      BY <2>1 DEF Live
  <2>6. OneHolder'
    <3>1. ASSUME NEW d \in Boot, d # b, boot[d].pc = "guilds"
          PROVE  /\ boot'[d].client \in Client /\ Live(boot[d].client)'
                 /\ boot'[d].client # c
                 /\ \A g \in Boot : g # d => boot'[g].client # boot'[d].client
        BY <1>2, <1>3, <2>5, <3>1, InstancesAssumption DEF ClientInv, OneHolder
    <3>2. ASSUME NEW d \in Boot, d # b, boot[d].pc # "guilds"
          PROVE  boot'[d].client = NoClient
        BY <1>3, <3>2 DEF ClientInv, OneHolder
    <3>3. ASSUME NEW k \in dropped'
          PROVE  Live(k)' /\ k # c /\ \A d \in Boot : boot'[d].client # k
      <4>1. CASE k \in dropped
          BY <1>2, <1>3, <2>5, <4>1, InstancesAssumption DEF ClientInv, ClientType, OneHolder
      <4>2. CASE k \notin dropped
        <5>1. k = EntryClient /\ k \in Client /\ Live(k)
            BY <2>1, <3>3, <4>2
        <5> QED
            BY <1>2, <1>3, <2>5, <5>1, InstancesAssumption DEF ClientInv, OneHolder
      <4> QED
          BY <4>1, <4>2
    <3> QED
        BY <1>3, <2>3, <3>1, <3>2, <3>3 DEF OneHolder
  <2>7. LiveIsKnown'
    <3> SUFFICES ASSUME NEW d \in Client, Live(d)
                 PROVE  d = c \/ d \in dropped' \/ \E g \in Boot : boot'[g].client = d
        BY <2>3, <2>5 DEF LiveIsKnown
    <3> QED
        BY <1>0, <1>3, <2>1 DEF ClientInv, LiveIsKnown
  <2>8. EntryServed'
      BY <1>2, <2>3, <2>5 DEF EntryServed
  <2> QED
      BY <2>4, <2>6, <2>7, <2>8 DEF ClientInv
<1> QED
    BY <1>5, <1>6

\* A boot that fails with a client loses it: it is counted under dropped.
LEMMA FailsOK == \A b \in Boot : ClientInv /\ Fails(b) => ClientInv'
<1> SUFFICES ASSUME NEW b \in Boot, ClientInv, Fails(b) PROVE ClientInv'
    OBVIOUS
<1>1. /\ boot' = [boot EXCEPT ![b] = IdleBoot]
      /\ UNCHANGED <<client, removing, generation, pending>>
      /\ dropped' = IF boot[b].client \in Client /\ Live(boot[b].client)
                      THEN dropped \cup {boot[b].client} ELSE dropped
    BY DEF Fails, Ends, Drops
<1>2. /\ boot' \in [Boot -> BootSet] /\ boot'[b].pc = "idle" /\ boot'[b].client = NoClient
      /\ \A d \in Boot : d # b => boot'[d] = boot[d]
    BY <1>1 DEF ClientInv, ClientType, BootSet, IdleBoot
<1>3. entry' \in Entry \cup {NoEntry} /\ EntryClient' = EntryClient
  <2>1. CASE entry # NoEntry /\ entry' = [entry EXCEPT !.state = "offline"]
    <3>1. entry' \in Entry /\ entry'.client = entry.client
        BY <2>1 DEF ClientInv, ClientType, Entry
    <3> QED
        BY <2>1, <3>1, InstancesAssumption DEF EntryClient
  <2>2. CASE entry' = entry
      BY <2>2 DEF ClientInv, ClientType, EntryClient
  <2> QED
      BY <2>1, <2>2 DEF Fails
<1>4. CASE boot[b].pc # "guilds"
  <2>1. dropped' = dropped
      BY <1>1, <1>4, InstancesAssumption DEF ClientInv, OneHolder
  <2>2. ClientType' /\ \A c \in Client : Live(c)' <=> Live(c)
      BY <1>1, <1>2, <1>3, <2>1 DEF ClientInv, ClientType, Live
  <2> QED
      BY <1>1, <1>2, <1>3, <1>4, <2>1, <2>2, CalmOK DEF Calm
<1>5. CASE boot[b].pc = "guilds"
  <2>1. PICK c \in Client : c = boot[b].client
      BY <1>5 DEF ClientInv, OneHolder
  <2>2. /\ Live(c) /\ c # EntryClient /\ c \notin dropped
        /\ \A d \in Boot : d # b => boot[d].client # c
      BY <1>5, <2>1 DEF ClientInv, OneHolder
  <2>3. dropped' = dropped \cup {c}
      BY <1>1, <2>1, <2>2
  <2>4. ClientType' /\ \A d \in Client : Live(d)' <=> Live(d)
      BY <1>1, <1>2, <1>3, <2>3 DEF ClientInv, ClientType, Live
  <2>5. OneHolder'
    <3>1. ASSUME NEW d \in Boot, d # b, boot[d].pc = "guilds"
          PROVE  /\ boot'[d].client \in Client /\ Live(boot[d].client)'
                 /\ boot'[d].client # EntryClient
                 /\ \A g \in Boot : g # d => boot'[g].client # boot'[d].client
        BY <1>2, <2>4, <3>1, InstancesAssumption DEF ClientInv, OneHolder
    <3>2. ASSUME NEW d \in Boot, d # b, boot[d].pc # "guilds"
          PROVE  boot'[d].client = NoClient
        BY <1>2, <3>2 DEF ClientInv, OneHolder
    <3>3. ASSUME NEW k \in dropped'
          PROVE  Live(k)' /\ k # EntryClient /\ \A d \in Boot : boot'[d].client # k
        BY <1>2, <2>2, <2>3, <2>4, <3>3, InstancesAssumption DEF ClientInv, ClientType, OneHolder
    <3> QED
        BY <1>2, <1>3, <3>1, <3>2, <3>3 DEF OneHolder
  <2>6. LiveIsKnown'
      BY <1>2, <1>3, <2>1, <2>3, <2>4 DEF ClientInv, LiveIsKnown
  <2>7. EntryServed'
      BY <2>3 DEF EntryServed
  <2> QED
      BY <2>4, <2>5, <2>6, <2>7 DEF ClientInv
<1> QED
    BY <1>4, <1>5

\* A socket that opens or drops, and the timer it sets, leave every client
\* with its holder.
LEMMA WsOK == \A c \in Client : ClientInv /\ (WsOpens(c) \/ WsCloses(c)) => ClientInv'
<1> SUFFICES ASSUME NEW c \in Client, ClientInv, WsOpens(c) \/ WsCloses(c) PROVE ClientInv'
    OBVIOUS
<1>1. PICK st \in {"up", "down"} : client' = [client EXCEPT ![c] = st]
    BY DEF WsOpens, WsCloses
<1>2. Live(c) /\ UNCHANGED <<dropped, removing, generation, boot>>
    BY DEF WsOpens, WsCloses, Live
<1>3. /\ entry' \in Entry \cup {NoEntry} /\ EntryClient' = EntryClient
      /\ pending' \in SUBSET Timer
  <2>1. CASE entry' = entry /\ pending' = pending
      BY <2>1 DEF ClientInv, ClientType, EntryClient
  <2>2. ASSUME NEW t \in Timer, entry # NoEntry, pending' = (pending \ {entry.timer}) \cup {t},
               entry' = [entry EXCEPT !.state = "reconnecting", !.timer = t]
        PROVE  /\ entry' \in Entry \cup {NoEntry} /\ EntryClient' = EntryClient
               /\ pending' \in SUBSET Timer
    <3>1. entry' \in Entry /\ entry'.client = entry.client
        BY <2>2 DEF ClientInv, ClientType, Entry
    <3> QED
        BY <2>2, <3>1, InstancesAssumption DEF EntryClient, ClientInv, ClientType
  <2>3. ASSUME WsCloses(c), entry # NoEntry
        PROVE  \E t \in Timer :
                 /\ pending' = (pending \ {entry.timer}) \cup {t}
                 /\ entry' = [entry EXCEPT !.state = "reconnecting", !.timer = t]
    <3>1. FirstOf(Timer \ (pending \ {entry.timer})) \subseteq Timer
        BY DEF FirstOf
    <3> QED
        BY <2>3, <3>1 DEF WsCloses
  <2> QED
      BY <2>1, <2>2, <2>3 DEF WsOpens, WsCloses
<1>4. ClientType' /\ \A d \in Client : Live(d)' <=> Live(d)
    BY <1>1, <1>2, <1>3 DEF ClientInv, ClientType, Live
<1> QED
    BY <1>2, <1>3, <1>4, CalmOK DEF Calm

\* The timer starts at most a boot without a client.
LEMMA TimerOK == \A t \in Timer : ClientInv /\ RetryFires(t) => ClientInv'
<1> SUFFICES ASSUME NEW t \in Timer, ClientInv, RetryFires(t) PROVE ClientInv'
    OBVIOUS
<1> DEFINE e == IF EntryTimer = t THEN [entry EXCEPT !.timer = NoTimer] ELSE entry
<1>1. /\ pending' = pending \ {t}
      /\ UNCHANGED <<client, dropped, removing, generation>>
    BY DEF RetryFires
<1>2. \/ e = NoEntry /\ entry = NoEntry
      \/ e \in Entry /\ e # NoEntry /\ entry # NoEntry /\ e.client = entry.client
  <2>1. entry = NoEntry => EntryTimer = NoTimer
      BY DEF EntryTimer
  <2>2. entry = NoEntry => e = NoEntry
      BY <2>1, InstancesAssumption
  <2>3. entry # NoEntry => e \in Entry /\ e.client = entry.client
      BY DEF ClientInv, ClientType, Entry
  <2> QED
      BY <2>2, <2>3, InstancesAssumption
<1>3. \/ entry' = e /\ boot' = boot
      \/ \E b \in Boot :
           /\ boot[b].pc = "idle"
           /\ boot' = [boot EXCEPT ![b] = [pc |-> "handshake", kind |-> "boot",
                                           gen |-> generation, client |-> NoClient]]
           /\ entry' = IF e = NoEntry
                         THEN [state |-> "connecting", client |-> NoClient, timer |-> NoTimer]
                         ELSE [e EXCEPT !.state = "connecting"]
  <2>1. FirstOf(IdleBoots) \subseteq IdleBoots /\ IdleBoots = {b \in Boot : boot[b].pc = "idle"}
      BY DEF FirstOf, IdleBoots, Running
  <2> QED
      BY <2>1 DEF RetryFires
<1> HIDE DEF e
<1>4. entry' \in Entry \cup {NoEntry} /\ EntryClient' = EntryClient
  <2>1. CASE entry' = e
      BY <1>2, <2>1 DEF EntryClient
  <2>2. CASE e = NoEntry /\ entry' = [state |-> "connecting", client |-> NoClient, timer |-> NoTimer]
    <3>1. entry' \in Entry /\ entry'.client = NoClient
        BY <2>2 DEF Entry
    <3> QED
        BY <1>2, <2>2, <3>1, InstancesAssumption DEF EntryClient
  <2>3. CASE e # NoEntry /\ entry' = [e EXCEPT !.state = "connecting"]
    <3>1. entry' \in Entry /\ entry'.client = e.client
        BY <1>2, <2>3 DEF Entry
    <3> QED
        BY <1>2, <2>3, <3>1, InstancesAssumption DEF EntryClient
  <2> QED
      BY <1>3, <2>1, <2>2, <2>3
<1>5. /\ boot' \in [Boot -> BootSet]
      /\ \A b \in Boot :
           \/ boot'[b] = boot[b]
           \/ boot[b].pc # "guilds" /\ boot'[b].pc # "guilds" /\ boot'[b].client = NoClient
    BY <1>3 DEF ClientInv, ClientType, BootSet
<1>6. ClientType' /\ \A c \in Client : Live(c)' <=> Live(c)
    BY <1>1, <1>4, <1>5 DEF ClientInv, ClientType, Live
<1> QED
    BY <1>1, <1>4, <1>5, <1>6, CalmOK DEF Calm

\* The entry's client is stopped and taken away with the entry, or a removal
\* is on its way.
LEMMA StopEntryOK ==
    ASSUME ClientInv, client' = Stop(EntryClient), UNCHANGED <<boot, dropped>>,
           entry' \in Entry \cup {NoEntry}, generation' \in Nat, pending' \in SUBSET Timer,
           EntryClient' = NoClient \/ (EntryClient' = EntryClient /\ removing')
    PROVE  ClientInv'
<1>1. EntryClient \in Client \cup {NoClient}
    BY EntryClientType DEF ClientInv
<1>2. /\ client' \in [Client -> {"none", "down", "up", "stopped"}]
      /\ EntryClient \in Client => client'[EntryClient] = "stopped"
      /\ \A d \in Client : d # EntryClient => client'[d] = client[d]
    BY <1>1, StopOK DEF ClientInv
<1>3. ClientType'
    BY <1>2 DEF ClientInv, ClientType
<1>4. \A d \in Client : Live(d)' <=> (Live(d) /\ d # EntryClient)
    BY <1>1, <1>2 DEF Live
<1>5. OneHolder'
  <2>1. EntryClient' = NoClient \/ EntryClient' = EntryClient
      OBVIOUS
  <2>2. ASSUME NEW b \in Boot, boot[b].pc = "guilds"
        PROVE  /\ boot[b].client \in Client /\ Live(boot[b].client)'
               /\ boot[b].client # EntryClient'
               /\ \A d \in Boot : d # b => boot[d].client # boot[b].client
    <3>1. PICK c \in Client : c = boot[b].client
        BY <2>2 DEF ClientInv, OneHolder
    <3>2. Live(c) /\ c # EntryClient /\ c # NoClient
        BY <2>2, <3>1, InstancesAssumption DEF ClientInv, OneHolder
    <3>3. Live(c)'
        BY <1>4, <3>2
    <3>4. \A d \in Boot : d # b => boot[d].client # c
        BY <2>2, <3>1 DEF ClientInv, OneHolder
    <3> QED
        BY <2>1, <3>1, <3>2, <3>3, <3>4
  <2>3. ASSUME NEW k \in dropped
        PROVE  Live(k)' /\ k # EntryClient' /\ \A d \in Boot : boot[d].client # k
      BY <1>4, <2>1, <2>3, InstancesAssumption DEF ClientInv, ClientType, OneHolder
  <2> QED
      BY <2>2, <2>3 DEF ClientInv, OneHolder
<1>6. LiveIsKnown'
    BY <1>4 DEF ClientInv, LiveIsKnown
<1>7. EntryServed'
    BY DEF EntryServed
<1> QED
    BY <1>3, <1>5, <1>6, <1>7 DEF ClientInv

\* The entry is deleted; a client that a boot gave it meanwhile is counted
\* under dropped.
LEMMA DisconnectedOK == ClientInv /\ Disconnected => ClientInv'
<1> SUFFICES ASSUME ClientInv, Disconnected PROVE ClientInv'
    OBVIOUS
<1>1. /\ entry' = NoEntry /\ EntryClient' = NoClient
      /\ UNCHANGED <<boot, client, generation, pending>>
      /\ dropped' = IF EntryClient \in Client /\ Live(EntryClient)
                      THEN dropped \cup {EntryClient} ELSE dropped
    BY DEF Disconnected, Drops, EntryClient
<1>2. ClientType' /\ \A d \in Client : Live(d)' <=> Live(d)
    BY <1>1 DEF ClientInv, ClientType, Live
<1>3. OneHolder'
  <2>1. ASSUME NEW k \in dropped'
        PROVE  Live(k)' /\ k # NoClient /\ \A d \in Boot : boot[d].client # k
    <3>1. CASE k \in dropped
        BY <1>2, <3>1, InstancesAssumption DEF ClientInv, ClientType, OneHolder
    <3>2. CASE k \notin dropped
      <4>1. k = EntryClient /\ k \in Client /\ Live(k)
          BY <1>1, <2>1, <3>2
      <4> QED
          BY <1>2, <4>1, InstancesAssumption DEF ClientInv, OneHolder
    <3> QED
        BY <3>1, <3>2
  <2>2. ASSUME NEW b \in Boot, boot[b].pc = "guilds"
        PROVE  boot[b].client \in Client /\ Live(boot[b].client)' /\ boot[b].client # NoClient
    <3>1. PICK c \in Client : c = boot[b].client /\ Live(c)
        BY <2>2 DEF ClientInv, OneHolder
    <3> QED
        BY <1>1, <1>2, <3>1, InstancesAssumption
  <2> QED
      BY <1>1, <2>1, <2>2 DEF ClientInv, OneHolder
<1>4. LiveIsKnown' /\ EntryServed'
    BY <1>1, <1>2 DEF ClientInv, LiveIsKnown, EntryServed
<1> QED
    BY <1>2, <1>3, <1>4 DEF ClientInv

\* The invariant is inductive.
LEMMA ClientNext == ClientInv /\ [InstancesNext]_instanceVars => ClientInv'
<1> SUFFICES ASSUME ClientInv, [InstancesNext]_instanceVars PROVE ClientInv'
    OBVIOUS
<1> USE DEF envVars
<1>0. \A b \in FirstOf(IdleBoots) : b \in Boot
    BY DEF FirstOf, IdleBoots
<1>1. CASE SessionChanges
  <2>1. /\ client' = Stop(EntryClient) /\ entry' = NoEntry /\ UNCHANGED <<boot, dropped>>
        /\ generation' \in Nat /\ pending' \in SUBSET Timer /\ EntryClient' = NoClient
      BY <1>1 DEF SessionChanges, EntryClient, ClientInv, ClientType
  <2> QED
      BY <2>1, StopEntryOK
<1>2. CASE Disconnects
  <2>1. entry # NoEntry /\ entry \in Entry
      BY <1>2 DEF Disconnects, ClientInv, ClientType
  <2>2. entry' \in Entry /\ entry'.client = entry.client
      BY <1>2, <2>1 DEF Disconnects, Entry
  <2>3. EntryClient' = EntryClient /\ EntryClient = entry.client
      BY <2>1, <2>2, InstancesAssumption DEF EntryClient
  <2>4. /\ client' = Stop(EntryClient) /\ UNCHANGED <<boot, dropped>> /\ removing'
        /\ generation' \in Nat /\ pending' \in SUBSET Timer
      BY <1>2, <2>3 DEF Disconnects, ClientInv, ClientType
  <2> QED
      BY <2>2, <2>3, <2>4, StopEntryOK
<1>3. CASE Loads \/ Settles \/ FallsBack \/ UserBoots
  <2>1. UNCHANGED <<dropped, removing, generation, client, pending>>
      BY <1>3 DEF Loads, Settles, FallsBack, UserBoots
  <2>2. \/ UNCHANGED <<boot, entry>>
        \/ \E b \in Boot, kind \in {"boot", "local"} : Begins(b, kind)
      BY <1>0, <1>3 DEF Loads, Settles, FallsBack, UserBoots
  <2>3. CASE UNCHANGED <<boot, entry>>
      BY <2>1, <2>3, CalmOK DEF Calm, ClientInv, ClientType, Live, EntryClient
  <2> QED
      BY <2>1, <2>2, <2>3, BeginsOK
<1>4. CASE UNCHANGED instanceVars
    BY <1>4, CalmOK DEF instanceVars, Calm, ClientInv, ClientType, Live, EntryClient
<1> QED
    BY <1>1, <1>2, <1>3, <1>4, AnsweredOK, SavedOK, GotGuildsOK, FailsOK, WsOK, TimerOK,
       DisconnectedOK DEF InstancesNext

\* No client exists at the start.
LEMMA ClientInit == InstancesInit => ClientInv
<1> SUFFICES ASSUME InstancesInit PROVE ClientInv
    OBVIOUS
<1>1. IdleBoot \in BootSet /\ IdleBoot.pc = "idle" /\ IdleBoot.client = NoClient
    BY DEF IdleBoot, BootSet
<1> QED
    BY <1>1 DEF InstancesInit, ClientInv, ClientType, OneHolder, LiveIsKnown, EntryServed, EntryClient, Live

\* Every client that still connects is the one of the entry or of a boot, or one
\* lost in one of the three named ways.
THEOREM KnownHolds == InstancesSpec => []LiveIsKnown
<1>1. ClientInv => LiveIsKnown
    BY DEF ClientInv
<1> QED
    BY <1>1, ClientInit, ClientNext, PTL DEF InstancesSpec

\* While the entry has a client and is not being removed, some client still
\* connects whose close handler will boot the instance again.
THEOREM ReconnectsHolds == InstancesSpec => []ReconnectsThroughClose
<1>1. ClientInv => ReconnectsThroughClose
  <2> SUFFICES ASSUME ClientInv, EntryClient # NoClient, ~removing
               PROVE  \E c \in Client : Live(c)
      BY DEF ReconnectsThroughClose
  <2>1. EntryClient \in Client
      BY EntryClientType DEF ClientInv
  <2> QED
      BY <2>1 DEF ClientInv, ClientType, EntryServed, OneHolder
<1> QED
    BY <1>1, ClientInit, ClientNext, PTL DEF InstancesSpec

\* A boot of an earlier session that goes on or ends does nothing else.
Inert(b) ==
    (Running(b) /\ Stale(b) /\ boot'[b] # boot[b])
        => entry' = entry /\ \A c \in Client : client'[c] = "down" => Live(c)

\* Its own steps end it and may close its client; the steps of other boots, of
\* clients, timers and the user leave it where it is.
LEMMA InertOK ==
    ASSUME ClientType, [InstancesNext]_instanceVars, NEW b \in Boot
    PROVE  Inert(b)
<1> SUFFICES ASSUME Running(b), Stale(b), boot'[b] # boot[b]
             PROVE  entry' = entry /\ \A c \in Client : client'[c] = "down" => Live(c)
    BY DEF Inert
<1>1. boot \in [Boot -> BootSet] /\ client \in [Client -> {"none", "down", "up", "stopped"}]
    BY DEF ClientType
<1>2. \A d \in Boot : Begins(d, "boot") \/ Begins(d, "local") => d # b /\ boot'[b] = boot[b]
    BY <1>1 DEF Begins
<1>3. \A d \in FirstOf(IdleBoots) : d \in Boot /\ d # b
    BY DEF FirstOf, IdleBoots
<1>4. \A d \in Boot : d # b /\ Ends(d) => boot'[b] = boot[b]
    BY <1>1 DEF Ends
<1>5. ASSUME NEW d \in Boot, Answered(d)
      PROVE  entry' = entry /\ client' = client
    BY <1>5 DEF Answered
<1>6. ASSUME NEW d \in Boot, Saved(d)
      PROVE  d = b /\ entry' = entry /\ client' = client
  <2>1. d = b
      BY <1>1, <1>4, <1>6 DEF Saved
  <2> QED
      BY <1>6, <2>1 DEF Saved
<1>7. ASSUME NEW d \in Boot, GotGuilds(d)
      PROVE  entry' = entry /\ \A c \in Client : client'[c] = "down" => client[c] = "down"
  <2>1. d = b
      BY <1>4, <1>7 DEF GotGuilds
  <2>2. entry' = entry /\ client' = Stop(boot[b].client)
      BY <1>7, <2>1 DEF GotGuilds
  <2> QED
      BY <1>1, <2>2 DEF Stop
<1>8. ASSUME NEW d \in Boot, Fails(d)
      PROVE  entry' = entry /\ client' = client
  <2>1. d = b
      BY <1>4, <1>8 DEF Fails
  <2> QED
      BY <1>8, <2>1 DEF Fails
<1>9. ASSUME NEW t \in Timer, RetryFires(t)
      PROVE  FALSE
    BY <1>1, <1>3, <1>9 DEF RetryFires
<1>10. CASE Loads \/ Settles \/ FallsBack \/ UserBoots
    BY <1>2, <1>3, <1>10 DEF Loads, Settles, FallsBack, UserBoots
<1>11. CASE (\E c \in Client : WsOpens(c) \/ WsCloses(c)) \/ SessionChanges \/ Disconnects \/ Disconnected \/ UNCHANGED instanceVars
    BY <1>11 DEF WsOpens, WsCloses, SessionChanges, Disconnects, Disconnected, instanceVars
<1> QED
    BY <1>1, <1>5, <1>6, <1>7, <1>8, <1>9, <1>10, <1>11 DEF InstancesNext, Live

\* However many boots, sessions and faults: a call in flight that outlives its
\* session changes no entry and opens no connection (the generation checks
\* after each await of bootInstance and registerLocalInstance).
THEOREM StaleBootsAreInert == InstancesSpec => StaleBootIsInert
<1>1. ClientInv /\ [InstancesNext]_instanceVars
        => [\A b \in Boot :
              (Running(b) /\ Stale(b) /\ boot'[b] # boot[b])
                  => /\ entry' = entry
                     /\ \A c \in Client : client'[c] = "down" => Live(c)]_instanceVars
    BY InertOK DEF ClientInv, Inert
<1> QED
    BY <1>1, ClientInit, ClientNext, PTL DEF InstancesSpec, StaleBootIsInert
=============================================================================

---------------------------- MODULE MCGuildView -----------------------------
EXTENDS GuildView, TLC

CONSTANTS gg, hh, ta, tb, vv, vw, tx

MCGuildOf == [c \in Channels |-> IF c = tx THEN hh ELSE gg]
MCRank == [c \in Channels |-> CASE c = ta -> 1 [] c = tb -> 2 [] c = vv -> 2 [] c = vw -> 3 [] c = tx -> 1]

Story(r, exist, unloaded, may) ==
    [route |-> r, exist |-> exist, rank |-> MCRank, unloaded |-> unloaded,
     left |-> may @@ [t \in Things |-> 0]]

\* Frames and answers of one list.
ListStories ==
    {Story(At(gg, Log), {ta, tb}, {"channels"}, m) : m \in {
        [creates |-> 1, deletes |-> 1, moves |-> 1, failures |-> 1],
        [creates |-> 1, deletes |-> 2, drops |-> 1],
        [drags |-> 1, moves |-> 1, failures |-> 1],
        [drags |-> 1, creates |-> 1, deletes |-> 1],
        ("own creates" :> 1) @@ [deletes |-> 1, moves |-> 1],
        ("own creates" :> 1) @@ ("own deletes" :> 1) @@ [failures |-> 1]}}
\* Two guilds.
AwayStories ==
    {Story(At(gg, Log), {ta, tb, tx}, {}, m) : m \in {
        [creates |-> 1, moves |-> 1, clicks |-> 2, ages |-> 2],
        [drags |-> 1, failures |-> 1, clicks |-> 2, ages |-> 1],
        ("own creates" :> 1) @@ [clicks |-> 2, deletes |-> 1, ages |-> 1],
        ("own deletes" :> 1) @@ [clicks |-> 2, ages |-> 1]}}
    \cup {Story(At(gg, Log), {ta, tx}, {"channels"}, [clicks |-> 2, creates |-> 1, failures |-> 1])}
MemberStories ==
    {Story(At(gg, Log), {ta, tx}, {"members"}, m) : m \in {
        [joins |-> 2, failures |-> 1],
        [joins |-> 2, drops |-> 1],
        [joins |-> 2, clicks |-> 2, ages |-> 1]}}
CallStories ==
    {Story(At(gg, c), {ta, vv, vw}, {}, m) : c \in {Log, vv}, m \in {
        ("hang-ups" :> 1) @@ [clicks |-> 3],
        ("hang-ups" :> 2) @@ [clicks |-> 2, moves |-> 1],
        ("hang-ups" :> 1) @@ ("own deletes" :> 1) @@ [clicks |-> 2]}}
    \cup {Story(At(gg, c), {ta, vv, tx}, {}, m) : c \in {ta, vv}, m \in {
        ("hang-ups" :> 1) @@ [clicks |-> 2, kicks |-> 1],
        [clicks |-> 3, kicks |-> 1]}}
    \cup {Story(At(gg, vv), {ta}, {"channels"}, ("own creates" :> 1) @@ ("hang-ups" :> 1) @@ [clicks |-> 1])}
\* The races in which the effect goes against the user.
RaceStories ==
    {Story(At(gg, vv), {ta, vv, tx}, {"channels"}, [kicks |-> 1, clicks |-> 1]),
     Story(At(gg, Log), {ta}, {"channels"}, ("own deletes" :> 1) @@ [creates |-> 1, clicks |-> 1]),
     Story(At(gg, vv), {ta, vv, vw}, {}, ("hang-ups" :> 1) @@ [clicks |-> 3, kicks |-> 1])}
MCStories == ListStories \cup AwayStories \cup MemberStories \cup CallStories \cup RaceStories
=============================================================================

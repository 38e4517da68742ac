-------------------------- MODULE ChannelMessages --------------------------
(***************************************************************************)
(* The message list of the open channel on one device:                     *)
(* hooks/useChannelMessages.ts.  The history load, older pages, messages   *)
(* received live, the catch-up after a reconnection and the user's own     *)
(* sends (optimistic row, acknowledgement, watchdog, retry) all write the  *)
(* same list, and each waits for requests or decryptions in between.       *)
(*                                                                         *)
(* A message is its position in the log of the server; its timestamp is    *)
(* twice that, and a row not yet confirmed has an odd one.  A text is a    *)
(* number, 0 is the placeholder of a failed decryption; the own send k has *)
(* text k and the local id k.  Sends of a behaviour happen within the ten  *)
(* seconds in which the registry of pending sends matches, and the         *)
(* messages of the initial log are older than that.                        *)
(*                                                                         *)
(* External: the server stores what it takes, then writes the              *)
(* acknowledgement and the message on the socket, in that order; what is   *)
(* on a socket that drops is lost; MLS opens a message once, and never for *)
(* the device that sent it.                                                *)
(***************************************************************************)
EXTENDS Naturals, Sequences, FiniteSets, SequencesExt, FiniteSetsExt

CONSTANTS
  Channels,
  Senders,       \* who else posts: "peer", "sibling" (another device of the user)
  Page,          \* CHANNEL_MESSAGES_PAGE_LIMIT
  Starts,        \* logs at the start
  MaxSends,      \* bound: own sends
  Budgets        \* bounds: posts of others, own sends, retries, older pages, channels
                 \* opened, and mishaps (sockets lost, requests and sends refused)

ASSUME ConstantsOK ==
  /\ MaxSends \in Nat
  /\ Budgets \subseteq [posts : Nat, sends : 0..MaxSends, retries : Nat,
                       olders : Nat, moves : Nat, mishaps : Nat]
  /\ Senders \subseteq {"peer", "sibling"}
  /\ Page \in Nat \ {0}
  /\ Starts \subseteq Seq([ch : Channels, from : Senders, text : Nat])

VARIABLES
  log,       \* server: the messages
  sent,      \* own messages on their way to the server
  feed,      \* frames on their way to the device
  socket,    \* "down", "open", or "live": the server has the subscription
  chan,      \* channelId
  loaded,    \* loadedChannelRef: the channel the list was last loaded for
  rows,      \* messages
  known,     \* knownMessageIdsRef
  cursor,    \* latestBackendTsRef (0: null)
  more,      \* hasMoreOlder
  reg,       \* _pendingSends, which survives the view
  held,      \* pendingEnvelopeByLocalIdRef
  timers,    \* the running watchdogs of each send
  mapped,    \* pendingWatchdogsRef: the sends whose last watchdog can be cleared
  cached,    \* the transcript cache: message -> text
  used,      \* messages whose MLS key is spent
  tasks,     \* the asynchronous functions under way
  hurt,      \* (history) what may have made this list miss a message
  strays,    \* (history) messages whose view changed between ack and echo
  left       \* what is left of the bounds

world == <<log, sent, feed, socket>>
view == <<chan, loaded, more>>
sends == <<reg, held, timers, mapped>>
crypto == <<cached, used>>
history == <<hurt, strays>>
vars == <<world, view, rows, known, cursor, sends, crypto, tasks, history, left>>

Lids == 1..MaxSends
Ids == DOMAIN log
Old == CHOOSE n \in {Len(s) : s \in Starts} : \A s \in Starts : Len(s) = n
Ts(id) == 2 * id
Now == 2 * Len(log) + 1
Own(id) == log[id].from \in {"me", "sibling"}
Of(ch) == {id \in Ids : log[id].ch = ch}

Spend(what) == left[what] > 0 /\ left' = [left EXCEPT ![what] = @ - 1]
Mishap == Spend("mishaps")

Row(id, text) == [id |-> id, lid |-> 0, text |-> text, ts |-> Ts(id), st |-> "ok"]
Optimistic(k) == [id |-> 0, lid |-> k, text |-> k, ts |-> Now, st |-> "pending"]
ShownIds == {rows[i].id : i \in DOMAIN rows} \ {0}
IsPending(r) == r.st = "pending"
PendingLids == {r.lid : r \in {x \in Range(rows) : IsPending(x)}}
MapRows(F(_)) == [i \in DOMAIN rows |-> F(rows[i])]
Failed(r) == [r EXCEPT !.st = "failed"]
Confirmed(r, id) == [r EXCEPT !.id = id, !.ts = Ts(id), !.st = "ok"]
FailLids(ks) == MapRows(LAMBDA r : IF r.id = 0 /\ r.lid \in ks THEN Failed(r) ELSE r)

\* An asynchronous function: what it still has to decrypt and what it has; "on"
\* while it works for the list that is open, "off" when the channel was changed
\* under it (which cancels a load only), "gone" when the view is.
Task(kind, ch, at) ==
  [kind |-> kind, ch |-> ch, at |-> at, run |-> "on", todo |-> {}, got |-> <<>>,
   from |-> 0, full |-> FALSE, tag |-> <<left.retries, left.mishaps>>]
Kind(kind) == {t \in tasks : t.kind = kind}
Replace(t, u) == tasks' = (tasks \ {t}) \cup {u}
Ends(t) == tasks' = tasks \ {t}
GotIds(t) == {t.got[i].id : i \in DOMAIN t.got}
IdsOf(t) == t.todo \cup GotIds(t)

\* The server's answers: the first, or the last, of the messages asked for.
FirstPage(ids) == {id \in ids : Cardinality({j \in ids : j < id}) < Page}
LastPage(ids) == {id \in ids : Cardinality({j \in ids : j > id}) < Page}
IsFull(page) == Cardinality(page) >= Page

Init ==
  /\ log \in Starts
  /\ sent = {} /\ feed = <<>> /\ socket = "live"
  /\ chan \in Channels /\ loaded = chan
  /\ rows = <<>> /\ known = {} /\ cursor = 0 /\ more = TRUE
  /\ reg = [c \in Channels |-> <<>>] /\ held = {}
  /\ timers = [k \in Lids |-> 0] /\ mapped = {}
  /\ cached = <<>> /\ used = {}
  /\ hurt = {} /\ strays = {}
  /\ left \in Budgets
  /\ tasks = {Task("load", chan, "ask")}

-----------------------------------------------------------------------------
(* Reading a message of the server's list: the cache, then the pending     *)
(* sends if the user sent it, then MLS, with the group of the channel that *)
(* is open when the row's turn comes.                                       *)

Recent(id) == id > Old
Opens(id) == log[id].from # "me" /\ id \notin used
IsCached(id) == id \in DOMAIN cached
Cache(id, text) ==
  cached' = IF text = 0 THEN cached
            ELSE [i \in DOMAIN cached \cup {id} |-> IF i = id THEN text ELSE cached[i]]
consumePendingSend(id) ==
  ~IsCached(id) /\ Own(id) /\ Recent(id) /\ reg[log[id].ch] # <<>>
TextOf(id) ==
  IF IsCached(id) THEN cached[id]
  ELSE IF consumePendingSend(id) THEN Head(reg[log[id].ch])
  ELSE IF Opens(id) /\ log[id].ch = chan THEN log[id].text ELSE 0
decryptMessageRow(id) ==
  /\ reg' = IF consumePendingSend(id) THEN [reg EXCEPT ![log[id].ch] = Tail(@)] ELSE reg
  /\ Cache(id, TextOf(id))
  /\ used' = IF ~IsCached(id) /\ ~consumePendingSend(id) /\ log[id].ch = chan
             THEN used \cup {id} ELSE used

-----------------------------------------------------------------------------
(* The server, the socket, and what other devices post.                     *)

Broadcast(frames) == IF socket = "live" THEN feed \o frames ELSE feed
NewFrame(id) == [kind |-> "new", id |-> id, lid |-> 0]
AckFrame(id, k) == [kind |-> "ack", id |-> id, lid |-> k]
ErrorFrame == [kind |-> "error", id |-> 0, lid |-> 0]

\* A message that arrives between a reconnection and its subscription may
\* reach neither the catch-up nor the socket.
Post(ch, from) ==
  /\ Spend("posts")
  /\ log' = Append(log, [ch |-> ch, from |-> from, text |-> MaxSends + Len(log) + 1])
  /\ feed' = Broadcast(<<NewFrame(Len(log) + 1)>>)
  /\ hurt' = IF socket = "open" /\ ch = chan THEN hurt \cup {"unsubscribed"} ELSE hurt
  /\ UNCHANGED <<sent, socket, view, rows, known, cursor, sends, crypto, tasks, strays>>

ServerTakes(m) ==
  /\ m \in sent /\ sent' = sent \ {m}
  /\ log' = Append(log, [ch |-> m.ch, from |-> "me", text |-> m.lid])
  /\ LET id == Len(log) + 1
     IN  feed' = feed \o <<AckFrame(id, m.lid)>>
                      \o (IF socket = "live" THEN <<NewFrame(id)>> ELSE <<>>)
  /\ UNCHANGED <<socket, view, rows, known, cursor, sends, crypto, tasks, history, left>>

ServerRejects(m) ==
  /\ m \in sent /\ sent' = sent \ {m}
  /\ Mishap
  /\ feed' = Append(feed, ErrorFrame)
  /\ UNCHANGED <<log, socket, view, rows, known, cursor, sends, crypto, tasks, history>>

Drop ==
  /\ socket # "down"
  /\ Mishap
  /\ socket' = "down" /\ sent' = {} /\ feed' = <<>>
  /\ UNCHANGED <<log, view, rows, known, cursor, sends, crypto, tasks, history>>

\* The transport replays the subscription.
Subscribe ==
  /\ socket = "open" /\ socket' = "live"
  /\ UNCHANGED <<log, sent, feed, view, rows, known, cursor, sends, crypto, tasks, history, left>>

\* onReconnected: rows that have been pending for eight seconds have failed; the
\* catch-up starts at the last timestamp of the server, if there is one.
Reconnected ==
  /\ socket = "down" /\ socket' = "open"
  /\ \E late \in SUBSET PendingLids : rows' = FailLids(late)
  /\ tasks' = tasks \cup (IF cursor = 0 THEN {}
                          ELSE {[Task("catch", chan, "ask") EXCEPT !.from = cursor]})
  /\ hurt' = hurt \cup
       (IF cursor # 0 \/ \E t \in Kind("load") : t.run = "on" /\ t.at = "ask" THEN {}
        ELSE {"nocursor"})
  /\ UNCHANGED <<log, sent, feed, view, known, cursor, sends, crypto, strays, left>>

\* The instance gets a new client, whose first connection is no reconnection; a
\* send under way still holds the old one.
NewClient ==
  /\ socket = "down" /\ socket' = "open"
  /\ tasks' = {IF t.kind = "send" THEN [t EXCEPT !.at = "closed"] ELSE t : t \in tasks}
  /\ hurt' = hurt \cup {"renewed"}
  /\ UNCHANGED <<log, sent, feed, view, rows, known, cursor, sends, crypto, strays, left>>

-----------------------------------------------------------------------------
(* Frames.  Those of another channel are ignored.                           *)

Frame(kind) == feed # <<>> /\ Head(feed).kind = kind /\ feed' = Tail(feed)
Elsewhere(id) == log[id].ch # chan
Bump(id) == IF Ts(id) > cursor THEN Ts(id) ELSE cursor
ClearTimer(k) ==
  /\ timers' = IF k \in mapped THEN [timers EXCEPT ![k] = @ - 1] ELSE timers
  /\ mapped' = mapped \ {k}

IgnoreFrame ==
  /\ Frame("new") \/ Frame("ack")
  /\ LET f == Head(feed)
     IN  Elsewhere(f.id) \/ (f.kind = "new" /\ f.id \in known)
  /\ UNCHANGED <<log, sent, socket, view, rows, known, cursor, sends, crypto, tasks, history, left>>

\* A message of another device: known at once, shown when it is decrypted.
onMessageNew ==
  /\ Frame("new")
  /\ LET id == Head(feed).id
     IN  /\ ~Elsewhere(id) /\ id \notin known /\ log[id].from # "me"
         /\ known' = known \cup {id} /\ cursor' = Bump(id)
         /\ tasks' = tasks \cup {[Task("live", chan, "rows") EXCEPT !.todo = {id}]}
  /\ UNCHANGED <<log, sent, socket, view, rows, sends, crypto, history, left>>

LiveDone(t) ==
  /\ t \in Kind("live")
  /\ LET id == Min(t.todo)
         text == IF Opens(id) THEN log[id].text ELSE 0
     IN  /\ used' = used \cup {id}
         /\ Cache(id, text)
         /\ rows' = IF t.run = "on" THEN Append(rows, Row(id, text)) ELSE rows
  /\ Ends(t)
  /\ UNCHANGED <<world, view, known, cursor, sends, history, left>>

\* The echo of an own send whose acknowledgement this view has not seen goes to
\* the first pending row.
OwnEcho ==
  /\ Frame("new")
  /\ LET id == Head(feed).id
         first == {i \in DOMAIN rows : IsPending(rows[i])
                                       /\ \A j \in 1..(i - 1) : ~IsPending(rows[j])}
         ks == {rows[i].lid : i \in first}
     IN  /\ ~Elsewhere(id) /\ id \notin known /\ log[id].from = "me"
         /\ known' = known \cup {id} /\ cursor' = Bump(id)
         /\ rows' = [i \in DOMAIN rows |-> IF i \in first THEN Confirmed(rows[i], id) ELSE rows[i]]
         /\ IF ks = {} THEN UNCHANGED <<timers, mapped>> ELSE ClearTimer(CHOOSE k \in ks : TRUE)
         /\ held' = held \ ks
         /\ hurt' = hurt \cup (IF ks = {} THEN {"norow"} ELSE {})
         /\ IF reg[chan] = <<>> THEN UNCHANGED <<reg, cached>>
            ELSE /\ reg' = [reg EXCEPT ![chan] = Tail(@)]
                 /\ Cache(id, Head(reg[chan]))
  /\ UNCHANGED <<log, sent, socket, view, used, tasks, strays, left>>

onSendAck_KnowsNothing ==
  /\ Frame("ack")
  /\ LET id == Head(feed).id
         k == Head(feed).lid
     IN  /\ ~Elsewhere(id)
         /\ ClearTimer(k)
         /\ cursor' = Bump(id)
         /\ rows' = MapRows(LAMBDA r : IF r.id = 0 /\ r.lid = k THEN Confirmed(r, id) ELSE r)
         /\ held' = held \ {k}
         /\ Cache(id, IF k \in held THEN k ELSE 0)
  /\ UNCHANGED <<log, sent, socket, view, known, reg, used, tasks, history, left>>
onSendAck ==
  /\ Frame("ack")
  /\ LET id == Head(feed).id
         k == Head(feed).lid
     IN  /\ ~Elsewhere(id)
         /\ ClearTimer(k)
         /\ known' = known \cup {id} /\ cursor' = Bump(id)
         /\ rows' = MapRows(LAMBDA r : IF r.id = 0 /\ r.lid = k THEN Confirmed(r, id) ELSE r)
         /\ held' = held \ {k}
         /\ hurt' = hurt \cup (IF \E r \in Range(rows) : r.id = 0 /\ r.lid = k THEN {} ELSE {"norow"})
         /\ Cache(id, IF k \in held THEN k ELSE 0)
  /\ UNCHANGED <<log, sent, socket, view, reg, used, tasks, strays, left>>

\* `forbidden' or `internal': every pending row has failed.
onError ==
  /\ Frame("error")
  /\ rows' = FailLids(PendingLids)
  /\ UNCHANGED <<log, sent, socket, view, known, cursor, sends, crypto, tasks, history, left>>

-----------------------------------------------------------------------------
(* Sending.                                                                 *)

\* A send or a retry is remembered, then encrypted.
Remember(k) ==
  /\ reg' = [reg EXCEPT ![chan] = Append(@, k)]
  /\ held' = held \cup {k}
  /\ tasks' = tasks \cup {[Task("send", chan, "encrypt") EXCEPT !.from = k]}

send ==
  /\ Spend("sends")
  /\ LET k == left.sends
     IN  rows' = Append(rows, Optimistic(k)) /\ Remember(k)
  /\ UNCHANGED <<world, view, known, cursor, timers, mapped, crypto, history>>

retry(k) ==
  /\ \E i \in DOMAIN rows : rows[i].id = 0 /\ rows[i].lid = k /\ rows[i].st = "failed"
  /\ Spend("retries")
  /\ rows' = MapRows(LAMBDA r : IF r.id = 0 /\ r.lid = k THEN [r EXCEPT !.st = "pending"] ELSE r)
  /\ Remember(k)
  /\ UNCHANGED <<world, view, known, cursor, timers, mapped, crypto, history>>

Sent_Unwatched(t) ==
  /\ t \in Kind("send") /\ t.at = "encrypt" /\ socket # "down"
  /\ sent' = sent \cup {[ch |-> t.ch, lid |-> t.from]}
  /\ UNCHANGED <<timers, mapped>>
  /\ Ends(t)
  /\ UNCHANGED <<log, feed, socket, view, rows, known, cursor, reg, held, crypto, history, left>>
\* The frame goes out and the watchdog is armed; it replaces, but does not
\* stop, one of an earlier try.
Sent(t) ==
  /\ t \in Kind("send") /\ t.at = "encrypt" /\ socket # "down"
  /\ sent' = sent \cup {[ch |-> t.ch, lid |-> t.from]}
  /\ IF t.run = "on"
     THEN timers' = [timers EXCEPT ![t.from] = @ + 1] /\ mapped' = mapped \cup {t.from}
     ELSE UNCHANGED <<timers, mapped>>
  /\ Ends(t)
  /\ UNCHANGED <<log, feed, socket, view, rows, known, cursor, reg, held, crypto, history, left>>

SendFails_Logs(t) ==
  /\ t \in Kind("send")
  /\ (t.at = "closed" \/ socket = "down") /\ UNCHANGED left
  /\ UNCHANGED <<rows, held>>
  /\ Ends(t)
  /\ UNCHANGED <<world, view, known, cursor, reg, timers, mapped, crypto, history>>
\* The socket is down or replaced, or the encryption fails.
SendFails(t) ==
  /\ t \in Kind("send")
  /\ \/ (t.at = "closed" \/ socket = "down") /\ UNCHANGED left
     \/ Mishap
  /\ IF t.run = "on" THEN rows' = FailLids({t.from}) /\ held' = held \ {t.from}
     ELSE UNCHANGED <<rows, held>>
  /\ Ends(t)
  /\ UNCHANGED <<world, view, known, cursor, reg, timers, mapped, crypto, history>>

Watchdog(k) ==
  /\ timers[k] > 0
  /\ timers' = [timers EXCEPT ![k] = @ - 1] /\ mapped' = mapped \ {k}
  /\ held' = held \ {k}
  /\ rows' = FailLids(PendingLids \cap {k})
  /\ UNCHANGED <<world, view, known, cursor, reg, crypto, tasks, history, left>>

-----------------------------------------------------------------------------
(* The history load.  It reads the list of known messages only to add to    *)
(* it, and replaces the rows.                                               *)

\* The oldest row is decrypted; a task of a view that is gone has no rows.
Oldest(t) == Min(t.todo)
DecryptNext(t) ==
  /\ t \in tasks /\ t.at = "rows" /\ t.todo # {}
  /\ decryptMessageRow(Oldest(t))
  /\ Replace(t, [t EXCEPT !.todo = @ \ {Oldest(t)},
                          !.got = Append(@, Row(Oldest(t), TextOf(Oldest(t))))])

\* The row is known from now on.  History: it may be one that nobody will show,
\* when the function began before the channel was opened.
LoadAsks == \E t \in Kind("load") : t.run = "on" /\ t.at = "ask"
Listed ==
  ShownIds \cup UNION {GotIds(t) \cup (IF t.kind \in {"live", "load"} THEN t.todo ELSE {}) :
                      t \in {u \in tasks : u.run = "on"}}
Knows(t, id) ==
  /\ known' = IF t.run = "gone" THEN known ELSE known \cup {id}
  /\ hurt' = IF t.run = "off" /\ ~LoadAsks /\ id \in Of(chan) \ Listed
             THEN hurt \cup {"marked"} ELSE hurt

\* History: more than a page has arrived since the load was asked for.
Arrived ==
  known \cup {feed[i].id : i \in DOMAIN feed}
        \cup UNION {IdsOf(t) : t \in {u \in tasks : u.run = "on"}}
LoadAnswer(t) ==
  /\ t \in Kind("load") /\ t.at = "ask"
  /\ LET page == LastPage(Of(t.ch))
     IN  /\ Replace(t, [t EXCEPT !.at = "rows", !.todo = page])
         /\ hurt' = IF t.run = "on" /\ (Arrived \cap Of(chan)) \ page # {}
                    THEN hurt \cup {"burst"} ELSE hurt
  /\ UNCHANGED <<world, view, rows, known, cursor, sends, crypto, strays, left>>

LoadRow(t) ==
  /\ t \in Kind("load") /\ DecryptNext(t) /\ Knows(t, Oldest(t))
  /\ UNCHANGED <<world, view, rows, cursor, held, timers, mapped, strays, left>>

ListReplaced(new) ==
  LET kept == {new[i].id : i \in DOMAIN new}
  IN  IF \A r \in Range(rows) : r.id \in kept \/ (r.id # 0 /\ Elsewhere(r.id)) THEN {}
      ELSE {"replaced"}

LoadDone(t) ==
  /\ t \in Kind("load") /\ t.at = "rows" /\ t.todo = {}
  /\ IF t.run # "on" THEN UNCHANGED <<loaded, rows, cursor, more, hurt>>
     ELSE /\ loaded' = t.ch /\ rows' = t.got
          /\ more' = (Len(t.got) >= Page)
          /\ cursor' = IF t.got = <<>> THEN cursor ELSE Last(t.got).ts
          /\ hurt' = hurt \cup ListReplaced(t.got)
                          \cup (IF \E u \in Kind("older") : u.run # "gone" THEN {"stray"} ELSE {})
  /\ Ends(t)
  /\ UNCHANGED <<world, chan, known, sends, crypto, strays, left>>

LoadFails(t) ==
  /\ t \in Kind("load") /\ t.at = "ask"
  /\ Mishap
  /\ IF t.run # "on" THEN UNCHANGED <<loaded, rows, hurt>>
     ELSE loaded' = t.ch /\ rows' = <<>> /\ hurt' = hurt \cup {"failed"}
  /\ Ends(t)
  /\ UNCHANGED <<world, chan, more, known, cursor, sends, crypto, strays>>

-----------------------------------------------------------------------------
(* Older pages.  The page goes by the first row, which is one of the channel *)
(* that was left before the history is loaded, and when a message of it that *)
(* was decrypted late has been sorted to the front.                          *)

loadOlder ==
  /\ more /\ rows # <<>>
  /\ Spend("olders")
  /\ ~\E t \in Kind("older") : t.run # "gone"
  /\ LET page == LastPage({id \in Of(chan) : Ts(id) < rows[1].ts})
         now == IF \E t \in Kind("load") : t.run = "on" THEN "off" ELSE "on"
         other == rows[1].id # 0 /\ Elsewhere(rows[1].id)
     IN  /\ more' = IsFull(page)
         /\ tasks' = tasks \cup
              (IF page = {} THEN {}
               ELSE {[Task("older", chan, "rows") EXCEPT !.todo = page, !.run = now]})
         /\ hurt' = IF now = "on" /\ other THEN hurt \cup {"other"} ELSE hurt
  /\ UNCHANGED <<world, chan, loaded, rows, known, cursor, sends, crypto, strays>>

\* A known message is passed over.
Skip(t) ==
  /\ t \in Kind("older") \cup Kind("catch") /\ t.at = "rows" /\ t.todo # {}
  /\ t.run # "gone" /\ Oldest(t) \in known
  /\ Replace(t, [t EXCEPT !.todo = @ \ {Oldest(t)}])
  /\ UNCHANGED <<world, view, rows, known, cursor, sends, crypto, history, left>>

NextRow(t) ==
  /\ t \in Kind("older") \cup Kind("catch")
  /\ DecryptNext(t) /\ Knows(t, Oldest(t))
  /\ t.run = "gone" \/ Oldest(t) \notin known
  /\ UNCHANGED <<world, view, rows, cursor, held, timers, mapped, strays, left>>

OlderDone(t) ==
  /\ t \in Kind("older") /\ t.todo = {}
  /\ rows' = IF t.run = "gone" THEN rows ELSE t.got \o rows
  /\ Ends(t)
  /\ UNCHANGED <<world, view, known, cursor, sends, crypto, history, left>>

-----------------------------------------------------------------------------
(* The catch-up after a reconnection, page by page.  Its rows appear, and   *)
(* the cursor moves, only when the last page is done.                       *)

CatchAnswer(t) ==
  /\ t \in Kind("catch") /\ t.at = "ask"
  /\ LET page == FirstPage({id \in Of(t.ch) : Ts(id) > t.from})
     IN  Replace(t, [t EXCEPT !.at = IF page = {} THEN "done" ELSE "rows", !.todo = page,
                             !.from = IF page = {} THEN @ ELSE Ts(Max(page)),
                             !.full = IsFull(page)])
  /\ UNCHANGED <<world, view, rows, known, cursor, sends, crypto, history, left>>

CatchPage_OnePage(t) ==
  /\ t \in Kind("catch") /\ t.at = "rows" /\ t.todo = {}
  /\ Replace(t, [t EXCEPT !.at = "done"])
  /\ UNCHANGED <<world, view, rows, known, cursor, sends, crypto, history, left>>
CatchPage(t) ==
  /\ t \in Kind("catch") /\ t.at = "rows" /\ t.todo = {}
  /\ Replace(t, [t EXCEPT !.at = IF t.full THEN "ask" ELSE "done"])
  /\ UNCHANGED <<world, view, rows, known, cursor, sends, crypto, history, left>>

\* A stable sort: a row's place is the number of rows before it.
Before(s, j, i) == s[j].ts < s[i].ts \/ (s[j].ts = s[i].ts /\ j < i)
Rank(s, i) == Cardinality({j \in DOMAIN s : Before(s, j, i)}) + 1
Sorted(s) == [n \in DOMAIN s |-> s[CHOOSE i \in DOMAIN s : Rank(s, i) = n]]
mergeCatchupMessages(prev, appended) ==
  IF prev = <<>> \/ appended[1].ts >= Last(prev).ts THEN prev \o appended
  ELSE Sorted(prev \o appended)

CatchDone(t) ==
  /\ t \in Kind("catch") /\ t.at = "done"
  /\ IF t.run = "gone" \/ t.got = <<>> THEN UNCHANGED <<rows, cursor, hurt>>
     ELSE /\ rows' = mergeCatchupMessages(rows, t.got)
          /\ cursor' = Last(t.got).ts
          /\ hurt' = IF t.run = "on" THEN hurt ELSE hurt \cup {"stray"}
  /\ Ends(t)
  /\ UNCHANGED <<world, view, known, sends, crypto, strays, left>>

CatchFails(t) ==
  /\ t \in Kind("catch") /\ t.at = "ask"
  /\ Mishap
  /\ hurt' = IF t.run = "gone" THEN hurt ELSE hurt \cup {"failed"}
  /\ Ends(t)
  /\ UNCHANGED <<world, view, rows, known, cursor, sends, crypto, strays>>

-----------------------------------------------------------------------------
(* Opening a channel.  The rows stay, hidden, until its history is loaded;  *)
(* what is under way for the channel that is left goes on.                  *)

\* Own messages acknowledged to the view that is left, with the echo to come.
Unechoed ==
  LET frames == Range(feed)
  IN  {f.id : f \in {g \in frames : g.kind = "new" /\ log[g.id].from = "me"
                                    /\ ~\E h \in frames : h.kind = "ack" /\ h.id = g.id}}
FreshList ==
  /\ known' = {} /\ cursor' = 0
  /\ hurt' = {} /\ strays' = strays \cup Unechoed

Switch(ch) ==
  /\ ch # chan /\ chan' = ch
  /\ Spend("moves")
  /\ FreshList
  /\ tasks' = {IF t.kind \in {"load", "older", "catch"} /\ t.run = "on"
               THEN [t EXCEPT !.run = "off"] ELSE t : t \in tasks}
              \cup {Task("load", ch, "ask")}
  /\ UNCHANGED <<world, loaded, more, rows, sends, crypto>>

\* The view is closed and opened again.
Reopen(ch) ==
  /\ chan' = ch /\ loaded' = ch
  /\ Spend("moves")
  /\ FreshList
  /\ rows' = <<>> /\ more' = TRUE
  /\ held' = {} /\ timers' = [k \in Lids |-> 0] /\ mapped' = {}
  /\ tasks' = {[t EXCEPT !.run = "gone"] : t \in tasks} \cup {Task("load", ch, "ask")}
  /\ UNCHANGED <<world, reg, crypto>>

-----------------------------------------------------------------------------
Deliver == IgnoreFrame \/ onMessageNew \/ OwnEcho \/ onSendAck \/ onError

Handles(t) ==
  \/ LiveDone(t) \/ Sent(t) \/ SendFails(t)
  \/ LoadAnswer(t) \/ LoadRow(t) \/ LoadDone(t) \/ LoadFails(t)
  \/ Skip(t) \/ NextRow(t) \/ OlderDone(t)
  \/ CatchAnswer(t) \/ CatchPage(t) \/ CatchDone(t) \/ CatchFails(t)

Next ==
  \/ \E ch \in Channels, from \in Senders : Post(ch, from)
  \/ \E m \in sent : ServerTakes(m) \/ ServerRejects(m)
  \/ Drop \/ Subscribe \/ Reconnected \/ NewClient
  \/ Deliver
  \/ send
  \/ \E k \in Lids : retry(k) \/ Watchdog(k)
  \/ loadOlder
  \/ \E t \in tasks : Handles(t)
  \/ \E ch \in Channels : Switch(ch) \/ Reopen(ch)

\* Timers fire and encryptions end.
Fairness ==
  /\ \A k \in Lids : WF_vars(Watchdog(k))
  /\ WF_vars(\E t \in tasks : Sent(t) \/ SendFails(t))

Spec == Init /\ [][Next]_vars /\ Fairness

-----------------------------------------------------------------------------
TypeOK ==
  /\ socket \in {"down", "open", "live"}
  /\ chan \in Channels /\ loaded \in Channels /\ more \in BOOLEAN
  /\ known \subseteq Ids /\ cursor \in {0} \cup {Ts(i) : i \in Ids}
  /\ held \subseteq Lids /\ mapped \subseteq {k \in Lids : timers[k] > 0}
  /\ ShownIds \subseteq Ids /\ used \subseteq Ids

\* A row that is still pending has a send under way or a watchdog running: none
\* can stay pending for ever, however sends, retries, echoes, errors and
\* reconnections interleave (send, retry, armSendWatchdog, onSendAck).
PendingIsWatched ==
  \A k \in PendingLids :
    timers[k] > 0 \/ \E t \in Kind("send") : t.from = k /\ t.run = "on"

\* Every send ends: its row is confirmed, has failed, or is off the list.
PendingEnds == \A k \in Lids : k \in PendingLids ~> k \notin PendingLids

\* An optimistic row is confirmed as the message it was sent as, although the
\* echo goes to the first pending row: unless the view changed between the
\* acknowledgement and the echo, the acknowledgement has settled it (onSendAck).
ConfirmedIsMine ==
  \A i \in DOMAIN rows :
    LET r == rows[i]
    IN  r.lid # 0 /\ r.id # 0 /\ r.id \notin strays => log[r.id].from = "me" /\ log[r.id].text = r.lid

\* Once nothing is under way, the list has every message of its channel from
\* the first it shows on, unless since the channel was opened
\*   - "failed", "renewed": a request for messages failed, or the client was replaced;
\*   - "nocursor": the socket was back before there was a cursor to ask from;
\*   - "unsubscribed": a message came before the subscription was sent again;
\*   - "burst": the load was answered without a message that had come on the socket;
\*   - "replaced": the load replaced rows it did not have;
\*   - "norow": an own message was confirmed to a view without its row;
\*   - "stray": the load found an older page under way, or a catch-up of another
\*     channel moved the cursor;
\*   - "other": an older page was asked for by a row of another channel;
\*   - "marked": a load that was cancelled made a message known that is not listed.
Quiet == tasks = {} /\ feed = <<>> /\ socket = "live"
NothingIsMissed ==
  Quiet /\ hurt = {} =>
    \A id \in Of(chan), first \in ShownIds \cap Of(chan) : first <= id => id \in ShownIds

\* A row with a text has the text its message was sent with.
RightText ==
  \A i \in DOMAIN rows :
    LET r == rows[i] IN r.id # 0 /\ r.text # 0 => r.text = log[r.id].text
==============================================================================

------------------------ MODULE ChannelMessagesProofs ------------------------
(***************************************************************************)
(* The safety of module ChannelMessages for any channels, senders, bounds  *)
(* and page size.  Typed is the shape of the state; each of the three      *)
(* theorems has its own invariant on top of it:                            *)
(*                                                                         *)
(* PendingRowsAreWatched: Watch, that no two rows are of the same send and *)
(* a pending one has a watchdog, or an encryption under way.               *)
(*                                                                         *)
(* ConfirmedRowsAreMine: Mine, that the frame left of an own message is    *)
(* announced by an acknowledgement before it, or finds nothing to confirm. *)
(*                                                                         *)
(* NothingMissed: Shape, Knowing and Order, that what the list will have   *)
(* when nothing more is asked for is an end of the channel, that known     *)
(* messages are on the list or on their way to it, and that one load at    *)
(* most is under way, for the open channel.                                *)
(***************************************************************************)
EXTENDS ChannelMessages, FiniteSetTheorems, TLAPS

\* A set of numbers has a least one, and a bounded one a greatest.
LEMMA LeastNumber ==
  ASSUME NEW S \in SUBSET Nat, S # {}
  PROVE  \E m \in S : \A x \in S : m <= x
<1>1. \E m \in S : \A x \in S : <<x, m>> \notin OpToRel(<, Nat)
  BY WFMin, NatLessThanWellFounded
<1>2. OpToRel(<, Nat) = {ss \in Nat \X Nat : ss[1] < ss[2]}
  BY DEF OpToRel
<1>3. PICK m \in S : \A x \in S : <<x, m>> \notin {ss \in Nat \X Nat : ss[1] < ss[2]}
  BY <1>1, <1>2
<1>4. \A x \in S : ~(x < m)
  BY <1>3
<1> QED
  BY <1>4

\* Min and Max, of ChannelMessages, are what they are called.
LEMMA MinOK ==
  ASSUME NEW S \in SUBSET Nat, S # {}
  PROVE  Min(S) \in S /\ \A x \in S : Min(S) <= x
<1>1. PICK m \in S : \A x \in S : m <= x
  BY LeastNumber
<1> QED
  BY <1>1 DEF Min

\* The greatest of a set of numbers up to n.
LEMMA MaxOK ==
  ASSUME NEW n \in Nat, NEW S \in SUBSET (1..n), S # {}
  PROVE  Max(S) \in S /\ \A x \in S : x <= Max(S)
<1> DEFINE B == {b \in Nat : \A x \in S : x <= b}
<1>1. n \in B
  OBVIOUS
<1>2. PICK m \in B : \A b \in B : m <= b
  BY <1>1, LeastNumber
<1>3. m \in S
  <2> SUFFICES ASSUME m \notin S PROVE FALSE
    OBVIOUS
  <2>1. PICK x \in S : TRUE
    OBVIOUS
  <2>2. m - 1 \in B
    BY <2>1
  <2> QED
    BY <1>2, <2>2
<1> QED
  BY <1>2, <1>3 DEF Max

-----------------------------------------------------------------------------
(* The server's pages.                                                      *)

\* The first page is a beginning of the set; when it is not full it is all of it.
LEMMA FirstPageOK ==
  ASSUME ConstantsOK, NEW n \in Nat, NEW S \in SUBSET (1..n)
  PROVE  /\ FirstPage(S) \subseteq S
         /\ \A i \in FirstPage(S), j \in S : j < i => j \in FirstPage(S)
         /\ S # {} => FirstPage(S) # {}
         /\ ~IsFull(FirstPage(S)) => FirstPage(S) = S
<1> DEFINE P == FirstPage(S)
           Below(i) == {j \in S : j < i}
<1>1. IsFiniteSet(S) /\ \A T \in SUBSET S : IsFiniteSet(T) /\ Cardinality(T) \in Nat
  BY FS_Interval, FS_Subset, FS_CardinalityType, 1 \in Int, n \in Int
<1>0. \A x \in S : x \in Nat
  OBVIOUS
<1>2. P = {i \in S : Cardinality(Below(i)) < Page} /\ Page \in Nat \ {0}
  BY DEF FirstPage, ConstantsOK
<1>3. \A i \in S : Below(i) \in SUBSET S
  OBVIOUS
<1>4. \A i \in P, j \in S : j < i => j \in P
  <2> SUFFICES ASSUME NEW i \in P, NEW j \in S, j < i PROVE j \in P
    OBVIOUS
  <2>0. i \in S /\ i \in Nat /\ j \in Nat
    BY <1>0, <1>2
  <2>9. \A x \in S : x < j => x < i
    BY <1>0, <2>0
  <2>1. Below(j) \in SUBSET Below(i)
    BY <2>9
  <2>2. Cardinality(Below(j)) <= Cardinality(Below(i))
    BY <1>1, <2>0, <2>1, <1>3, FS_Subset
  <2> HIDE DEF Below
  <2> QED
    BY <2>0, <2>2, <1>1, <1>2, <1>3
<1>5. S # {} => P # {}
  <2> SUFFICES ASSUME S # {} PROVE P # {}
    OBVIOUS
  <2>1. PICK m \in S : \A x \in S : m <= x
    BY LeastNumber
  <2>9. \A x \in S : ~(x < m)
    BY <1>0, <2>1
  <2>2. Below(m) = {}
    BY <2>9
  <2>3. Cardinality(Below(m)) = 0
    BY <2>2, FS_EmptySet
  <2> HIDE DEF Below
  <2> QED
    BY <2>3, <1>2
<1>6. ~IsFull(P) => P = S
  <2> SUFFICES ASSUME ~IsFull(P), P # S PROVE FALSE
    OBVIOUS
  <2>0. S \in SUBSET Nat /\ P \subseteq S
    BY <1>2
  <2>1. S \ P \in SUBSET Nat /\ S \ P # {}
    BY <2>0
  <2>2. PICK x \in S \ P : \A y \in S \ P : x <= y
    BY <2>1, LeastNumber
  <2>9. \A y \in S : y < x => y \in P
    BY <1>0, <2>0, <2>2
  <2>3. Below(x) \in SUBSET P
    BY <2>9
  <2>4. P \in SUBSET S
    BY <1>2
  <2>5. Cardinality(Below(x)) <= Cardinality(P)
    BY <1>1, <2>3, <2>4, FS_Subset
  <2>6. Cardinality(P) \in Nat /\ Cardinality(Below(x)) \in Nat
    BY <1>1, <1>3, <2>4
  <2>7. ~(Cardinality(P) >= Page)
    BY DEF IsFull
  <2>8. ~(Cardinality(Below(x)) < Page)
    BY <2>2, <1>2
  <2> HIDE DEF Below, P
  <2> QED
    BY <2>5, <2>6, <2>7, <2>8, <1>2
<1> QED
  BY <1>2, <1>4, <1>5, <1>6

\* The last page is an end of the set.
LEMMA LastPageOK ==
  ASSUME ConstantsOK, NEW n \in Nat, NEW S \in SUBSET (1..n)
  PROVE  /\ LastPage(S) \subseteq S
         /\ \A i \in LastPage(S), j \in S : i < j => j \in LastPage(S)
         /\ S # {} => LastPage(S) # {}
<1> DEFINE P == LastPage(S)
           Above(i) == {j \in S : j > i}
<1>1. IsFiniteSet(S) /\ \A T \in SUBSET S : IsFiniteSet(T) /\ Cardinality(T) \in Nat
  BY FS_Interval, FS_Subset, FS_CardinalityType, 1 \in Int, n \in Int
<1>0. \A x \in S : x \in Nat
  OBVIOUS
<1>2. P = {i \in S : Cardinality(Above(i)) < Page} /\ Page \in Nat \ {0}
  BY DEF LastPage, ConstantsOK
<1>3. \A i \in S : Above(i) \in SUBSET S
  OBVIOUS
<1>4. \A i \in P, j \in S : i < j => j \in P
  <2> SUFFICES ASSUME NEW i \in P, NEW j \in S, i < j PROVE j \in P
    OBVIOUS
  <2>0. i \in S /\ i \in Nat /\ j \in Nat
    BY <1>0, <1>2
  <2>9. \A x \in S : x > j => x > i
    BY <1>0, <2>0
  <2>1. Above(j) \in SUBSET Above(i)
    BY <2>9
  <2>2. Cardinality(Above(j)) <= Cardinality(Above(i))
    BY <1>1, <2>0, <2>1, <1>3, FS_Subset
  <2> HIDE DEF Above
  <2> QED
    BY <2>0, <2>2, <1>1, <1>2, <1>3
<1>5. S # {} => P # {}
  <2> SUFFICES ASSUME S # {} PROVE P # {}
    OBVIOUS
  <2>1. PICK m \in S : \A x \in S : x <= m
    BY MaxOK
  <2>9. \A x \in S : ~(x > m)
    BY <1>0, <2>1
  <2>2. Above(m) = {}
    BY <2>9
  <2>3. Cardinality(Above(m)) = 0
    BY <2>2, FS_EmptySet
  <2> HIDE DEF Above
  <2> QED
    BY <2>1, <2>3, <1>2
<1> QED
  BY <1>2, <1>4, <1>5

-----------------------------------------------------------------------------
(* The sort of the rows.                                                    *)

\* Sorting puts the rows in another order.
LEMMA SortPermutes ==
  ASSUME NEW R, NEW s \in Seq(R), \A r \in R : r.ts \in Nat
  PROVE  \E p \in [DOMAIN s -> DOMAIN s] :
           /\ \A i, j \in DOMAIN s : p[i] = p[j] => i = j
           /\ \A j \in DOMAIN s : \E i \in DOMAIN s : p[i] = j
           /\ Sorted(s) = [i \in DOMAIN s |-> s[p[i]]]
<1> DEFINE n == Len(s)
           D == 1..n
           Prior(i) == {j \in D : Before(s, j, i)}
<1>1. n \in Nat /\ DOMAIN s = D /\ \A i \in D : s[i] \in R /\ s[i].ts \in Nat
  OBVIOUS
<1>2. IsFiniteSet(D) /\ Cardinality(D) = n
  BY <1>1, FS_Interval, 1 \in Int, n \in Int
<1>3. \A T \in SUBSET D : IsFiniteSet(T) /\ Cardinality(T) \in Nat /\ Cardinality(T) <= n
  <2> HIDE DEF D, n
  <2> QED
    BY <1>2, <1>1, FS_Subset, FS_CardinalityType
<1>4. \A i \in D : Rank(s, i) = Cardinality(Prior(i)) + 1
  BY <1>1 DEF Rank
<1>5. \A i, j \in D : Before(s, i, j) => Cardinality(Prior(i)) < Cardinality(Prior(j))
  <2> SUFFICES ASSUME NEW i \in D, NEW j \in D, Before(s, i, j)
               PROVE  Cardinality(Prior(i)) < Cardinality(Prior(j))
    OBVIOUS
  <2>1. Prior(i) \in SUBSET Prior(j) /\ i \in Prior(j) /\ i \notin Prior(i)
    BY <1>1 DEF Before
  <2>2. Prior(i) \in SUBSET D /\ Prior(j) \in SUBSET D
    OBVIOUS
  <2> HIDE DEF Prior, D, n
  <2>3. Prior(i) # Prior(j)
    BY <2>1
  <2>4. IsFiniteSet(Prior(j)) /\ Cardinality(Prior(i)) \in Nat /\ Cardinality(Prior(j)) \in Nat
    BY <2>2, <1>3
  <2>5. Cardinality(Prior(i)) <= Cardinality(Prior(j)) /\ Cardinality(Prior(j)) # Cardinality(Prior(i))
    BY <2>1, <2>3, <2>4, FS_Subset
  <2> QED
    BY <2>4, <2>5
<1>6. \A i \in D : Cardinality(Prior(i)) \in 0..(n - 1)
  <2> SUFFICES ASSUME NEW i \in D PROVE Cardinality(Prior(i)) \in 0..(n - 1)
    OBVIOUS
  <2>1. Prior(i) \in SUBSET D /\ i \notin Prior(i)
    BY <1>1 DEF Before
  <2> HIDE DEF Prior, D
  <2>2. Prior(i) # D
    BY <2>1
  <2>3. Cardinality(Prior(i)) \in Nat /\ Cardinality(Prior(i)) <= n /\ Cardinality(Prior(i)) # n
    BY <2>1, <2>2, <1>2, <1>3, FS_Subset
  <2> QED
    BY <2>3, <1>1
<1>7. \A i, j \in D : i = j \/ Before(s, i, j) \/ Before(s, j, i)
  BY <1>1 DEF Before
<1> DEFINE f == [i \in D |-> Rank(s, i)]
<1>8. f \in Injection(D, D)
  <2>1. \A i \in D : Rank(s, i) \in D
    <3> TAKE i \in D
    <3> HIDE DEF Prior
    <3> QED
      BY <1>4, <1>6, <1>1
  <2>3. f \in [D -> D]
    BY <2>1
  <2>2. \A i, j \in D : f[i] = f[j] => i = j
    <3> SUFFICES ASSUME NEW i \in D, NEW j \in D, f[i] = f[j] PROVE i = j
      OBVIOUS
    <3>1. Cardinality(Prior(i)) = Cardinality(Prior(j)) /\ Cardinality(Prior(i)) \in Nat
      BY <1>4, <1>6
    <3> HIDE DEF Prior
    <3> QED
      BY <3>1, <1>5, <1>7
  <2> QED
    BY <2>3, <2>2 DEF Injection, IsInjective
<1>9. f \in Surjection(D, D)
  BY <1>2, <1>8, FS_Injection
<1>10. \A i \in D : \E j \in D : Rank(s, j) = i
  BY <1>9 DEF Surjection
<1>11. \A i, j \in D : Rank(s, i) = Rank(s, j) => i = j
  BY <1>8 DEF Injection, IsInjective
<1>12. \A i \in D : Rank(s, i) \in D
  BY <1>8 DEF Injection
<1> DEFINE p == [i \in D |-> CHOOSE j \in D : Rank(s, j) = i]
<1> HIDE DEF D, f, n
<1>13. \A i \in D : p[i] \in D /\ Rank(s, p[i]) = i
  BY <1>10
<1>14. p \in [D -> D]
  BY <1>13
<1>15. \A i, j \in D : p[i] = p[j] => i = j
  BY <1>13
<1>16. \A j \in D : \E i \in D : p[i] = j
  <2> TAKE j \in D
  <2>1. p[Rank(s, j)] = j
    BY <1>11, <1>12, <1>13
  <2> QED
    BY <2>1, <1>12
<1>17. Sorted(s) = [i \in D |-> s[p[i]]]
  BY <1>1 DEF Sorted
<1> HIDE DEF p
<1> QED
  BY <1>1, <1>14, <1>15, <1>16, <1>17

-----------------------------------------------------------------------------
(* The shape of the state.                                                   *)

\* What the log, the rows, the frames and the functions under way are.
Msg == [ch : Channels, from : {"me"} \cup Senders, text : Nat]
RowT == [id : Nat, lid : Nat, text : Nat, ts : Nat, st : {"ok", "pending", "failed"}]
FrameT == [kind : {"new", "ack", "error"}, id : Nat, lid : Nat]
TaskT ==
  [kind : {"load", "live", "send", "older", "catch"}, ch : Channels,
   at : {"ask", "rows", "done", "encrypt", "closed"}, run : {"on", "off", "gone"},
   todo : SUBSET Nat, got : Seq(RowT), from : Nat, full : BOOLEAN, tag : Nat \X Nat]
Left == [posts : Nat, sends : 0..MaxSends, retries : Nat, olders : Nat, moves : Nat, mishaps : Nat]

\* The server, the socket, the view, the sends and the texts, part by part.
ServerT ==
  /\ log \in Seq(Msg) /\ sent \subseteq [ch : Channels, lid : Lids]
  /\ socket \in {"down", "open", "live"}
  /\ socket = "down" => sent = {} /\ feed = <<>>
FeedT ==
  /\ feed \in Seq(FrameT)
  /\ \A i \in DOMAIN feed : feed[i].kind # "error" => feed[i].id \in Ids
  /\ \A i \in DOMAIN feed : feed[i].kind = "error" => feed[i].id = 0
  /\ \A i, j \in DOMAIN feed : i < j /\ feed[i].kind # "error" /\ feed[j].kind # "error" =>
       \/ feed[i].id < feed[j].id
       \/ feed[i].id = feed[j].id /\ feed[i].kind = "ack" /\ log[feed[i].id].from = "me"
ViewT ==
  /\ chan \in Channels /\ loaded \in Channels /\ more \in BOOLEAN
  /\ known \subseteq Ids /\ cursor \in Nat /\ cursor <= 2 * Len(log)
SendsT ==
  /\ reg \in [Channels -> Seq(Lids)] /\ held \subseteq Lids
  /\ timers \in [Lids -> Nat] /\ mapped \subseteq {k \in Lids : timers[k] > 0}
CryptoT == cached \in [DOMAIN cached -> Nat]
\* A row is of a message, of an own send, or of both; a confirmed one has the
\* stamp of its message.
RowOK(r) ==
  /\ r.id # 0 => r.id \in Ids /\ r.ts = Ts(r.id) /\ r.st = "ok"
  /\ r.id = 0 => r.lid # 0
  /\ r.lid # 0 => r.lid \in Lids /\ r.lid > left.sends
RowsT == rows \in Seq(RowT) /\ \A i \in DOMAIN rows : RowOK(rows[i])

\* What a function under way has, by its kind.
GotOK(t) ==
  /\ \A i \in DOMAIN t.got :
       t.got[i].id # 0 /\ t.got[i].lid = 0 /\ t.got[i].ts = Ts(t.got[i].id) /\ t.got[i].st = "ok"
  /\ \A i, j \in DOMAIN t.got : i < j => t.got[i].id < t.got[j].id
  /\ \A i \in DOMAIN t.got, j \in t.todo : t.got[i].id < j
\* What a function has still to do is of its channel, after what it has done.
TaskOK(t) ==
  /\ t.kind = "live" => /\ t.at = "rows" /\ t.got = <<>> /\ t.run # "off"
                        /\ \E id \in Ids : t.todo = {id}
  /\ t.kind = "send" => /\ t.at \in {"encrypt", "closed"} /\ t.run # "off"
                        /\ t.todo = {} /\ t.got = <<>> /\ t.from \in Lids
  /\ t.kind = "load" => t.at \in {"ask", "rows"} /\ (t.at = "ask" => t.todo = {} /\ t.got = <<>>)
  /\ t.kind = "older" => t.at = "rows"
  /\ t.kind = "catch" => /\ t.at \in {"ask", "rows", "done"} /\ (t.at # "rows" => t.todo = {})
                         /\ t.from <= 2 * Len(log)
                         /\ \A id \in IdsOf(t) : Ts(id) <= t.from
  /\ t.kind \in {"load", "older", "catch"} => IdsOf(t) \subseteq Of(t.ch)
  /\ GotOK(t)
TasksT == tasks \subseteq TaskT /\ \A t \in tasks : TaskOK(t)

\* The type invariant: the shape of the whole state.
Typed ==
  /\ ServerT /\ FeedT /\ ViewT /\ SendsT /\ CryptoT /\ RowsT /\ TasksT
  /\ left \in Left

\* The log only grows.
LogGrows == log' = log \/ \E m \in Msg : log' = Append(log, m)

\* A message of the log keeps its place when the log grows.
LEMMA LogOK ==
  ASSUME log \in Seq(Msg), LogGrows
  PROVE  /\ log' \in Seq(Msg) /\ Len(log) \in Nat /\ Len(log') \in Nat /\ Len(log) <= Len(log')
         /\ Ids = 1..Len(log) /\ Ids' = 1..Len(log') /\ Ids \subseteq Ids'
         /\ \A i \in Ids : log'[i] = log[i]
         /\ \A ch : Of(ch) \subseteq Of(ch)'
  BY DEF LogGrows, Ids, Of

\* A task keeps its shape when the log grows.
LEMMA TaskStays ==
  ASSUME log \in Seq(Msg), LogGrows, NEW t \in TaskT, TaskOK(t)
  PROVE  TaskOK(t)'
<1>1. GotOK(t)'
  BY DEF TaskOK, GotOK, Ts
<1>2. Ids \subseteq Ids' /\ Of(t.ch) \subseteq Of(t.ch)' /\ Len(log) <= Len(log') /\ Len(log) \in Nat /\ Len(log') \in Nat
  BY LogOK
<1>3. t.from \in Nat
  BY DEF TaskT
<1>4. (IdsOf(t))' = IdsOf(t) /\ \A id : Ts(id)' = Ts(id)
  BY DEF IdsOf, GotIds, Ts
<1>5. (t.kind = "catch" => t.from <= 2 * Len(log))'
  BY <1>2, <1>3 DEF TaskOK
<1>6. (Lids)' = Lids
  BY DEF Lids
<1> QED
  BY <1>1, <1>2, <1>4, <1>5, <1>6 DEF TaskOK

\* So do all of them.
LEMMA TasksStay ==
  ASSUME TasksT, log \in Seq(Msg), LogGrows, tasks' \subseteq tasks
  PROVE  TasksT'
  BY TaskStays DEF TasksT

\* A row keeps its shape when the log grows and sends are used up.
LEMMA RowStays ==
  ASSUME log \in Seq(Msg), LogGrows, NEW r, RowOK(r), left.sends \in Nat, left'.sends \in Nat, left'.sends <= left.sends
  PROVE  RowOK(r)'
<1>1. Ids \subseteq Ids'
  BY LogOK
<1> QED
  BY <1>1 DEF RowOK, Ts, Lids

\* So do all of them.
LEMMA RowsStay ==
  ASSUME log \in Seq(Msg), LogGrows, RowsT, left \in Left, left' \in Left, left'.sends <= left.sends,
         rows' = rows
  PROVE  RowsT'
  BY RowStays DEF RowsT, Left

\* The frames, the view and the sends keep theirs.
LEMMA FeedStays ==
  ASSUME FeedT, log \in Seq(Msg), LogGrows, feed' = feed
  PROVE  FeedT'
<1>1. Ids \subseteq Ids' /\ \A i \in Ids : log'[i] = log[i]
  BY LogOK
<1> QED
  BY <1>1 DEF FeedT

\* The cursor is still a time of a message.
LEMMA ViewStays ==
  ASSUME ViewT, log \in Seq(Msg), LogGrows, chan' = chan, loaded' = loaded, more' = more,
         known' = known, cursor' = cursor
  PROVE  ViewT'
<1>1. Ids \subseteq Ids' /\ Len(log) \in Nat /\ Len(log') \in Nat /\ Len(log) <= Len(log')
  BY LogOK
<1> QED
  BY <1>1 DEF ViewT

\* The sends keep their shape.
LEMMA SendsStay ==
  ASSUME SendsT, UNCHANGED sends PROVE SendsT'
  BY DEF SendsT, sends, Lids

\* A bound is spent down to zero.
LEMMA Spending ==
  ASSUME ConstantsOK, left \in Left
  PROVE  /\ \A what \in {"posts", "retries", "olders", "moves", "mishaps"} :
              Spend(what) => left' \in Left /\ left'.sends = left.sends
         /\ Spend("sends") => /\ left' \in Left /\ left'.sends = left.sends - 1
                              /\ left.sends \in Lids
<1>2. /\ Spend("posts") => left' \in Left /\ left'.sends = left.sends
      /\ Spend("retries") => left' \in Left /\ left'.sends = left.sends
      /\ Spend("olders") => left' \in Left /\ left'.sends = left.sends
      /\ Spend("moves") => left' \in Left /\ left'.sends = left.sends
      /\ Spend("mishaps") => left' \in Left /\ left'.sends = left.sends
  BY DEF Left, Spend
<1>3. Spend("sends") => /\ left' \in Left /\ left'.sends = left.sends - 1
                        /\ left.sends \in Lids
  BY DEF Left, Spend, Lids, ConstantsOK
<1> QED
  BY <1>2, <1>3

\* A frame that is added comes after the others.
LEMMA FeedGrows ==
  ASSUME FeedT, log \in Seq(Msg), NEW m \in Msg, log' = Append(log, m), NEW f \in FrameT,
         f.kind # "error", f.id = Len(log) + 1, feed' = Append(feed, f)
  PROVE  FeedT'
<1>1. /\ Ids \subseteq Ids' /\ (\A i \in Ids : log'[i] = log[i]) /\ Len(log) \in Nat
      /\ Ids = 1..Len(log) /\ Ids' = 1..(Len(log) + 1)
  BY DEF Ids
<1>2. /\ feed' \in Seq(FrameT) /\ Len(feed') = Len(feed) + 1 /\ Len(feed) \in Nat
      /\ \A i \in 1..Len(feed) : feed'[i] = feed[i]
      /\ feed'[Len(feed) + 1] = f
      /\ DOMAIN feed = 1..Len(feed) /\ DOMAIN feed' = 1..(Len(feed) + 1)
  BY DEF FeedT
<1>3. \A i \in DOMAIN feed' : feed'[i].kind # "error" => feed'[i].id \in Ids'
  BY <1>1, <1>2 DEF FeedT
<1>4. \A i \in DOMAIN feed' : feed'[i].kind = "error" => feed'[i].id = 0
  BY <1>2 DEF FeedT
<1>5. \A i, j \in DOMAIN feed' : i < j /\ feed'[i].kind # "error" /\ feed'[j].kind # "error" =>
       \/ feed'[i].id < feed'[j].id
       \/ feed'[i].id = feed'[j].id /\ feed'[i].kind = "ack" /\ log'[feed'[i].id].from = "me"
  <2> SUFFICES ASSUME NEW i \in DOMAIN feed', NEW j \in DOMAIN feed', i < j,
                      feed'[i].kind # "error", feed'[j].kind # "error"
               PROVE  \/ feed'[i].id < feed'[j].id
                      \/ feed'[i].id = feed'[j].id /\ feed'[i].kind = "ack" /\ log'[feed'[i].id].from = "me"
    OBVIOUS
  <2>1. i \in DOMAIN feed /\ feed'[i] = feed[i] /\ feed[i].id \in Ids
    BY <1>2 DEF FeedT
  <2>2. CASE j \in DOMAIN feed
    BY <2>1, <2>2, <1>1, <1>2 DEF FeedT
  <2>3. CASE j \notin DOMAIN feed
    BY <2>1, <2>3, <1>1, <1>2
  <2> QED
    BY <2>2, <2>3
<1> QED
  BY <1>2, <1>3, <1>4, <1>5 DEF FeedT

\* Somebody else posts a message: it is framed when the socket is live.
LEMMA PostTyped ==
  ASSUME ConstantsOK, Typed, NEW ch \in Channels, NEW from \in Senders, Post(ch, from)
  PROVE  Typed' /\ LogGrows
<1> DEFINE m == [ch |-> ch, from |-> from, text |-> MaxSends + Len(log) + 1]
<1>1. log \in Seq(Msg) /\ left \in Left
  BY DEF Typed, ServerT
<1>2. m \in Msg /\ log' = Append(log, m)
  BY <1>1 DEF Post, Msg, ConstantsOK
<1>3. LogGrows
  BY <1>2 DEF LogGrows
<1>4. left' \in Left /\ left'.sends = left.sends
  BY <1>1, Spending DEF Post
<1>5. ServerT'
  BY <1>1, <1>3, LogOK DEF Post, Typed, ServerT, Lids, Broadcast
<1>6. FeedT'
  <2>1. CASE socket = "live"
    <3>1. feed' = Append(feed, NewFrame(Len(log) + 1)) /\ feed \in Seq(FrameT)
      BY <2>1 DEF Post, Broadcast, Typed, FeedT
    <3>2. NewFrame(Len(log) + 1) \in FrameT
      BY <1>1 DEF NewFrame, FrameT
    <3> QED
      BY <3>1, <3>2, <1>1, <1>2, FeedGrows DEF NewFrame, Typed
  <2>2. CASE socket # "live"
    BY <2>2, <1>1, <1>3, FeedStays DEF Post, Broadcast, Typed
  <2> QED
    BY <2>1, <2>2
<1>7. ViewT'
  BY <1>1, <1>3, ViewStays DEF Post, Typed, view
<1>8. SendsT' /\ CryptoT'
  BY SendsStay DEF Post, Typed, crypto, CryptoT
<1>9. RowsT'
  BY <1>1, <1>3, <1>4, RowsStay DEF Post, Typed, Left
<1>10. TasksT'
  BY <1>1, <1>3, TasksStay DEF Post, Typed
<1> QED
  BY <1>3, <1>4, <1>5, <1>6, <1>7, <1>8, <1>9, <1>10 DEF Typed

\* The server takes a send: the log, the acknowledgement and the echo.
LEMMA ServerTakesTyped ==
  ASSUME ConstantsOK, Typed, NEW m \in sent, ServerTakes(m)
  PROVE  Typed' /\ LogGrows
<1> DEFINE r == [ch |-> m.ch, from |-> "me", text |-> m.lid]
           id == Len(log) + 1
<1>1. log \in Seq(Msg) /\ left \in Left /\ m \in [ch : Channels, lid : Lids] /\ socket # "down"
  BY DEF Typed, ServerT
<1>2. r \in Msg /\ log' = Append(log, r)
  BY <1>1 DEF ServerTakes, Msg, Lids
<1>3. LogGrows
  BY <1>2 DEF LogGrows
<1>4. left' = left
  BY DEF ServerTakes
<1>5. ServerT'
  BY <1>1, <1>3, LogOK DEF ServerTakes, Typed, ServerT, Lids
<1>6. FeedT'
  <2> DEFINE a == AckFrame(id, m.lid)
             n == NewFrame(id)
             mid == Append(feed, a)
  <2>1. a \in FrameT /\ n \in FrameT /\ feed \in Seq(FrameT)
    BY <1>1 DEF AckFrame, NewFrame, FrameT, Lids, Typed, FeedT
  <2>2. feed' = mid \/ feed' = Append(mid, n)
    BY <2>1 DEF ServerTakes
  <2>3. /\ Ids \subseteq Ids' /\ (\A i \in Ids : log'[i] = log[i]) /\ Len(log) \in Nat
        /\ Ids = 1..Len(log) /\ Ids' = 1..(Len(log) + 1) /\ log'[id] = r
    BY <1>1, <1>2 DEF Ids
  <2>4. CASE feed' = mid
    BY <2>1, <2>4, <1>1, <1>2, FeedGrows DEF AckFrame, Typed
  <2>5. CASE feed' = Append(mid, n)
    <3> DEFINE k == Len(feed)
    <3>1. /\ feed' \in Seq(FrameT) /\ k \in Nat
          /\ DOMAIN feed = 1..k /\ DOMAIN feed' = 1..(k + 2)
          /\ \A i \in 1..k : feed'[i] = feed[i]
          /\ feed'[k + 1] = a /\ feed'[k + 2] = n
      BY <2>1, <2>5
    <3>2. a.kind = "ack" /\ a.id = id /\ n.kind = "new" /\ n.id = id
      BY DEF AckFrame, NewFrame
    <3>3. \A i \in 1..k : feed[i].kind # "error" => feed[i].id \in Ids
      BY <3>1 DEF Typed, FeedT
    <3> HIDE DEF a, n, id, r, mid, k
    <3>9. \A i \in DOMAIN feed' : i \in 1..k \/ i = k + 1 \/ i = k + 2
      BY <3>1
    <3>10. id \in Ids' /\ \A i \in Ids : i \in Nat /\ i < id
      BY <2>3 DEF id
    <3>4. (\A i \in DOMAIN feed : feed[i].kind # "error" => feed[i].id \in Ids)'
      <4> SUFFICES ASSUME NEW i \in DOMAIN feed', feed'[i].kind # "error"
                   PROVE  feed'[i].id \in Ids'
        OBVIOUS
      <4>1. CASE i \in 1..k
        BY <4>1, <3>1, <3>3, <2>3
      <4>2. CASE i = k + 1 \/ i = k + 2
        BY <4>2, <3>1, <3>2, <3>10
      <4> QED
        BY <4>1, <4>2, <3>9
    <3>5. (\A i \in DOMAIN feed : feed[i].kind = "error" => feed[i].id = 0)'
      <4> SUFFICES ASSUME NEW i \in DOMAIN feed', feed'[i].kind = "error"
                   PROVE  feed'[i].id = 0
        OBVIOUS
      <4>1. i \in 1..k
        BY <3>1, <3>2, <3>9
      <4> QED
        BY <4>1, <3>1 DEF Typed, FeedT
    <3>6. ASSUME NEW i \in DOMAIN feed', NEW j \in DOMAIN feed', i < j,
                      feed'[i].kind # "error", feed'[j].kind # "error"
               PROVE  \/ feed'[i].id < feed'[j].id
                      \/ feed'[i].id = feed'[j].id /\ feed'[i].kind = "ack" /\ log'[feed'[i].id].from = "me"
      <4>1. CASE j \in 1..k
        <5>1. i \in 1..k
          BY <4>1, <3>1, <3>6
        <5> QED
          BY <5>1, <4>1, <3>1, <3>3, <3>6, <2>3 DEF Typed, FeedT
      <4>2. CASE j \notin 1..k /\ i \in 1..k
        <5>1. feed'[j].id = id
          BY <4>2, <3>1, <3>2, <3>9
        <5> QED
          BY <5>1, <4>2, <3>1, <3>3, <3>6, <3>10
      <4>3. CASE j \notin 1..k /\ i \notin 1..k
        <5>1. i = k + 1 /\ j = k + 2
          BY <4>3, <3>1, <3>6, <3>9
        <5>2. r.from = "me"
          BY DEF r
        <5> QED
          BY <5>1, <5>2, <3>1, <3>2, <2>3
      <4> QED
        BY <4>1, <4>2, <4>3
    <3> QED
      BY <3>1, <3>4, <3>5, <3>6 DEF FeedT
  <2> QED
    BY <2>2, <2>4, <2>5
<1>7. ViewT'
  BY <1>1, <1>3, ViewStays DEF ServerTakes, Typed, view
<1>8. SendsT' /\ CryptoT'
  BY SendsStay DEF ServerTakes, Typed, crypto, CryptoT
<1>9. RowsT'
  BY <1>1, <1>3, <1>4, RowsStay DEF ServerTakes, Typed, Left
<1>10. TasksT'
  BY <1>1, <1>3, TasksStay DEF ServerTakes, Typed
<1> QED
  BY <1>1, <1>3, <1>4, <1>5, <1>6, <1>7, <1>8, <1>9, <1>10 DEF Typed

\* The rest is about steps that leave the log alone.
LEMMA RejectsTyped ==
  ASSUME ConstantsOK, Typed, NEW m \in sent, ServerRejects(m)
  PROVE  Typed' /\ log' = log
<1>1. log \in Seq(Msg) /\ left \in Left /\ log' = log /\ LogGrows
  BY DEF Typed, ServerT, LogGrows, ServerRejects
<1>2. left' \in Left /\ left'.sends = left.sends
  BY <1>1, Spending DEF ServerRejects, Mishap
<1>3. ServerT'
  BY <1>1 DEF ServerRejects, Typed, ServerT, Lids
<1>4. FeedT'
  <2>1. ErrorFrame \in FrameT /\ ErrorFrame.kind = "error" /\ ErrorFrame.id = 0
    BY DEF ErrorFrame, FrameT
  <2>2. /\ feed \in Seq(FrameT) /\ feed' = Append(feed, ErrorFrame) /\ log' = log
    BY DEF Typed, FeedT, ServerRejects
  <2>3. /\ feed' \in Seq(FrameT) /\ Len(feed) \in Nat /\ DOMAIN feed = 1..Len(feed)
        /\ DOMAIN feed' = 1..(Len(feed) + 1)
        /\ \A i \in 1..Len(feed) : feed'[i] = feed[i]
        /\ feed'[Len(feed) + 1] = ErrorFrame
    BY <2>1, <2>2
  <2>4. \A i \in DOMAIN feed' : feed'[i].kind # "error" => i \in DOMAIN feed
    BY <2>1, <2>3
  <2>5. (\A i \in DOMAIN feed : feed[i].kind # "error" => feed[i].id \in Ids)'
    BY <2>2, <2>3, <2>4 DEF Typed, FeedT, Ids
  <2>6. (\A i \in DOMAIN feed : feed[i].kind = "error" => feed[i].id = 0)'
    BY <2>1, <2>3 DEF Typed, FeedT
  <2>7. (\A i, j \in DOMAIN feed : i < j /\ feed[i].kind # "error" /\ feed[j].kind # "error" =>
       \/ feed[i].id < feed[j].id
       \/ feed[i].id = feed[j].id /\ feed[i].kind = "ack" /\ log[feed[i].id].from = "me")'
    BY <2>2, <2>3, <2>4 DEF Typed, FeedT
  <2> QED
    BY <2>3, <2>5, <2>6, <2>7 DEF FeedT
<1>5. ViewT'
  BY <1>1, ViewStays DEF ServerRejects, Typed, view
<1>6. SendsT' /\ CryptoT'
  BY SendsStay DEF ServerRejects, Typed, crypto, CryptoT
<1>7. RowsT'
  BY <1>1, <1>2, RowsStay DEF ServerRejects, Typed, Left
<1>8. TasksT'
  BY <1>1, TasksStay DEF ServerRejects, Typed
<1> QED
  BY <1>1, <1>2, <1>3, <1>4, <1>5, <1>6, <1>7, <1>8 DEF Typed

\* The socket is down: its frames are gone.
LEMMA NoFrames ==
  ASSUME feed' = <<>>
  PROVE  FeedT'
<1>1. <<>> \in Seq(FrameT) /\ DOMAIN feed' = {}
  OBVIOUS
<1> QED
  BY <1>1 DEF FeedT

\* The connection is lost.
LEMMA DropTyped ==
  ASSUME ConstantsOK, Typed, Drop
  PROVE  Typed' /\ log' = log
<1>1. log \in Seq(Msg) /\ left \in Left /\ log' = log /\ LogGrows
  BY DEF Typed, ServerT, LogGrows, Drop
<1>2. left' \in Left /\ left'.sends = left.sends
  BY <1>1, Spending DEF Drop, Mishap
<1>3. ServerT'
  BY <1>1 DEF Drop, Typed, ServerT, Lids
<1>4. FeedT'
  BY NoFrames DEF Drop
<1>5. ViewT'
  BY <1>1, ViewStays DEF Drop, Typed, view
<1>6. SendsT' /\ CryptoT'
  BY SendsStay DEF Drop, Typed, crypto, CryptoT
<1>7. RowsT'
  BY <1>1, <1>2, RowsStay DEF Drop, Typed, Left
<1>8. TasksT'
  BY <1>1, TasksStay DEF Drop, Typed
<1> QED
  BY <1>1, <1>2, <1>3, <1>4, <1>5, <1>6, <1>7, <1>8 DEF Typed

\* The subscription is sent again.
LEMMA SubscribeTyped ==
  ASSUME Typed, Subscribe
  PROVE  Typed' /\ log' = log
<1>1. log \in Seq(Msg) /\ left \in Left /\ log' = log /\ LogGrows /\ left' = left
  BY DEF Typed, ServerT, LogGrows, Subscribe
<1>2. ServerT'
  BY <1>1 DEF Subscribe, Typed, ServerT, Lids
<1>3. FeedT'
  BY <1>1, FeedStays DEF Subscribe, Typed
<1>4. ViewT'
  BY <1>1, ViewStays DEF Subscribe, Typed, view
<1>5. SendsT' /\ CryptoT'
  BY SendsStay DEF Subscribe, Typed, crypto, CryptoT
<1>6. RowsT'
  BY <1>1, RowsStay DEF Subscribe, Typed, Left
<1>7. TasksT'
  BY <1>1, TasksStay DEF Subscribe, Typed
<1> QED
  BY <1>1, <1>2, <1>3, <1>4, <1>5, <1>6, <1>7 DEF Typed

\* Rows whose state changes: confirmed rows stay as they are.
Restamped ==
  /\ DOMAIN rows' = DOMAIN rows
  /\ \A i \in DOMAIN rows :
       /\ rows'[i].id = rows[i].id /\ rows'[i].lid = rows[i].lid /\ rows'[i].ts = rows[i].ts
       /\ rows[i].id # 0 => rows'[i] = rows[i]

\* The pending rows fail.
LEMMA FailsOK ==
  ASSUME RowsT, NEW ks, rows' = FailLids(ks), Ids' = Ids, left'.sends = left.sends
  PROVE  /\ RowsT' /\ Restamped
         /\ \A i \in DOMAIN rows :
              rows'[i].st = "pending" =>
                rows[i].st = "pending" /\ rows[i].lid \notin ks
<1>1. rows' = [i \in DOMAIN rows |->
        IF rows[i].id = 0 /\ rows[i].lid \in ks THEN [rows[i] EXCEPT !.st = "failed"] ELSE rows[i]]
  BY DEF FailLids, MapRows, Failed
<1>2. rows \in Seq(RowT) /\ \A i \in DOMAIN rows : rows[i] \in RowT /\ RowOK(rows[i])
  BY DEF RowsT
<1>3. \A i \in DOMAIN rows :
        /\ rows'[i] \in RowT
        /\ rows'[i].id = rows[i].id /\ rows'[i].lid = rows[i].lid /\ rows'[i].ts = rows[i].ts
        /\ rows[i].id # 0 => rows'[i] = rows[i]
        /\ rows'[i].st = "pending" => rows[i].st = "pending" /\ (rows[i].id = 0 => rows[i].lid \notin ks)
  <2> TAKE i \in DOMAIN rows
  <2> DEFINE r == rows[i]
             c == r.id = 0 /\ r.lid \in ks
  <2>1. r \in RowT /\ rows'[i] = IF c THEN [r EXCEPT !.st = "failed"] ELSE r
    BY <1>1, <1>2
  <2> HIDE DEF r
  <2>2. CASE c
    BY <2>1, <2>2 DEF RowT, r
  <2>3. CASE ~c
    BY <2>1, <2>3 DEF RowT, r
  <2> QED
    BY <2>2, <2>3
<1>4. \A i \in DOMAIN rows : LET r == rows'[i] IN
        /\ r.id # 0 => r.id \in Ids' /\ r.ts = Ts(r.id) /\ r.st = "ok"
        /\ r.id = 0 => r.lid # 0
        /\ r.lid # 0 => r.lid \in Lids /\ r.lid > left'.sends
  <2> TAKE i \in DOMAIN rows
  <2>1. RowOK(rows[i]) /\ rows'[i].id = rows[i].id /\ rows'[i].lid = rows[i].lid /\ rows'[i].ts = rows[i].ts
        /\ (rows[i].id # 0 => rows'[i] = rows[i])
    BY <1>2, <1>3
  <2> QED
    BY <2>1 DEF RowOK, Ts, Lids
<1>5. \A i \in DOMAIN rows : rows'[i].st = "pending" => rows[i].id = 0
  BY <1>2, <1>3 DEF RowOK
<1>6. rows' \in Seq(RowT) /\ DOMAIN rows' = DOMAIN rows
  BY <1>1, <1>2, <1>3
<1>7. RowsT' /\ Restamped
  BY <1>3, <1>4, <1>6 DEF RowsT, RowOK, Ts, Lids, Restamped
<1> QED
  BY <1>3, <1>5, <1>7

\* A task begins with nothing.
LEMMA TaskBegins ==
  ASSUME left \in Left, NEW kind \in {"load", "live", "send", "older", "catch"}, NEW ch \in Channels,
         NEW at \in {"ask", "rows", "done", "encrypt", "closed"}
  PROVE  Task(kind, ch, at) \in TaskT
  BY DEF Task, TaskT, Left

\* A function is begun beside the others.
LEMMA NewTask ==
  ASSUME TasksT, log' = log, NEW t \in TaskT, TaskOK(t), tasks' \subseteq tasks \cup {t}, log \in Seq(Msg)
  PROVE  TasksT'
<1>1. LogGrows
  BY DEF LogGrows
<1> QED
  BY <1>1, TaskStays DEF TasksT

\* The reconnection begins the catch-up.
LEMMA ReconnectedTyped ==
  ASSUME Typed, Reconnected
  PROVE  Typed' /\ log' = log /\ Restamped
<1>1. log \in Seq(Msg) /\ left \in Left /\ log' = log /\ LogGrows /\ left' = left /\ Ids' = Ids
  BY DEF Typed, ServerT, LogGrows, Reconnected, Ids
<1>2. ServerT'
  BY <1>1 DEF Reconnected, Typed, ServerT, Lids
<1>3. FeedT'
  BY <1>1, FeedStays DEF Reconnected, Typed
<1>4. ViewT'
  BY <1>1, ViewStays DEF Reconnected, Typed, view
<1>5. SendsT' /\ CryptoT'
  BY SendsStay DEF Reconnected, Typed, crypto, CryptoT
<1>6. RowsT' /\ Restamped
  BY <1>1, FailsOK DEF Reconnected, Typed
<1>7. TasksT'
  <2> DEFINE t == [Task("catch", chan, "ask") EXCEPT !.from = cursor]
  <2>1. chan \in Channels /\ cursor \in Nat /\ cursor <= 2 * Len(log)
    BY DEF Typed, ViewT
  <2>2. Task("catch", chan, "ask") \in TaskT
    BY <1>1, <2>1, TaskBegins
  <2>3. t \in TaskT
    BY <2>1, <2>2 DEF TaskT
  <2>4. /\ t.kind = "catch" /\ t.at = "ask" /\ t.from = cursor /\ t.todo = {} /\ t.got = <<>>
    BY DEF Task
  <2>5. TaskOK(t)
    BY <2>1, <2>4 DEF TaskOK, GotOK, IdsOf, GotIds
  <2>6. tasks' \subseteq tasks \cup {t}
    BY DEF Reconnected
  <2> QED
    BY <1>1, <2>3, <2>5, <2>6, NewTask DEF Typed
<1> QED
  BY <1>1, <1>2, <1>3, <1>4, <1>5, <1>6, <1>7 DEF Typed

\* The client is replaced: the list begins anew.
LEMMA NewClientTyped ==
  ASSUME Typed, NewClient
  PROVE  Typed' /\ log' = log
<1>1. log \in Seq(Msg) /\ left \in Left /\ log' = log /\ LogGrows /\ left' = left
  BY DEF Typed, ServerT, LogGrows, NewClient
<1>2. ServerT'
  BY <1>1 DEF NewClient, Typed, ServerT, Lids
<1>3. FeedT'
  BY <1>1, FeedStays DEF NewClient, Typed
<1>4. ViewT'
  BY <1>1, ViewStays DEF NewClient, Typed, view
<1>5. SendsT' /\ CryptoT'
  BY SendsStay DEF NewClient, Typed, crypto, CryptoT
<1>6. RowsT'
  BY <1>1, RowsStay DEF NewClient, Typed, Left
<1>7. TasksT'
  <2> SUFFICES ASSUME NEW u \in tasks' PROVE u \in TaskT /\ TaskOK(u)'
    BY DEF TasksT
  <2>1. PICK t \in tasks : u = IF t.kind = "send" THEN [t EXCEPT !.at = "closed"] ELSE t
    BY DEF NewClient
  <2>2. t \in TaskT /\ TaskOK(t)
    BY DEF Typed, TasksT
  <2>3. u \in TaskT /\ TaskOK(u)
    <3>1. CASE t.kind # "send"
      BY <2>1, <2>2, <3>1
    <3>2. CASE t.kind = "send"
      <4>1. /\ u \in TaskT /\ u.kind = "send" /\ u.at = "closed" /\ u.run = t.run /\ u.todo = t.todo
            /\ u.got = t.got /\ u.from = t.from /\ u.ch = t.ch
        BY <2>1, <2>2, <3>2 DEF TaskT
      <4>2. TaskOK(u)
        BY <2>2, <4>1, <3>2 DEF TaskOK, GotOK
      <4> QED
        BY <4>1, <4>2
    <3> QED
      BY <3>1, <3>2
  <2> QED
    BY <2>3, <1>1, TaskStays
<1> QED
  BY <1>1, <1>2, <1>3, <1>4, <1>5, <1>6, <1>7 DEF Typed

-----------------------------------------------------------------------------
(* Frames.                                                                   *)

\* The first frame of its kind, and the frames that are left.
LEMMA FrameOK ==
  ASSUME Typed, NEW kind \in {"new", "ack", "error"}, Frame(kind)
  PROVE  /\ feed # <<>> /\ feed \in Seq(FrameT) /\ Len(feed) \in Nat /\ 1 \in DOMAIN feed
         /\ Head(feed) = feed[1] /\ feed[1] \in FrameT /\ feed[1].kind = kind
         /\ kind # "error" => feed[1].id \in Ids
         /\ feed' \in Seq(FrameT) /\ DOMAIN feed = 1..Len(feed) /\ DOMAIN feed' = 1..(Len(feed) - 1)
         /\ \A i \in DOMAIN feed' : i + 1 \in DOMAIN feed /\ feed'[i] = feed[i + 1]
         /\ socket # "down"
<1>1. feed # <<>> /\ feed \in Seq(FrameT) /\ socket # "down" /\ feed' = Tail(feed) /\ Head(feed).kind = kind
  BY DEF Typed, ServerT, FeedT, Frame
<1>2. Len(feed) \in Nat /\ Len(feed) > 0 /\ DOMAIN feed = 1..Len(feed) /\ Head(feed) = feed[1] /\ 1 \in DOMAIN feed
  BY <1>1
<1>3. feed[1] \in FrameT /\ (kind # "error" => feed[1].id \in Ids)
  BY <1>1, <1>2 DEF Typed, FeedT
<1>4. feed' \in Seq(FrameT) /\ DOMAIN feed' = 1..(Len(feed) - 1)
  BY <1>1, <1>2
<1>5. \A i \in DOMAIN feed' : i + 1 \in DOMAIN feed /\ feed'[i] = feed[i + 1]
  BY <1>1, <1>2, <1>4
<1> QED
  BY <1>1, <1>2, <1>3, <1>4, <1>5

\* A frame is taken.
LEMMA FrameTyped ==
  ASSUME Typed, NEW kind \in {"new", "ack", "error"}, Frame(kind), log' = log, sent' = sent, socket' = socket
  PROVE  FeedT' /\ ServerT'
<1>1. FeedT'
  BY FrameOK DEF FeedT, Typed, Ids
<1>2. ServerT'
  BY FrameOK DEF ServerT, Typed, Lids
<1> QED
  BY <1>1, <1>2

\* A frame for a message that is known, or for another channel, does nothing.
LEMMA IgnoreTyped ==
  ASSUME Typed, IgnoreFrame
  PROVE  Typed' /\ log' = log
<1>1. log \in Seq(Msg) /\ left \in Left /\ log' = log /\ LogGrows /\ left' = left
  BY DEF Typed, ServerT, LogGrows, IgnoreFrame
<1>2. ServerT' /\ FeedT'
  BY <1>1, FrameTyped DEF IgnoreFrame
<1>4. ViewT'
  BY <1>1, ViewStays DEF IgnoreFrame, Typed, view
<1>5. SendsT' /\ CryptoT'
  BY SendsStay DEF IgnoreFrame, Typed, crypto, CryptoT
<1>6. RowsT'
  BY <1>1, RowsStay DEF IgnoreFrame, Typed, Left
<1>7. TasksT'
  BY <1>1, TasksStay DEF IgnoreFrame, Typed
<1> QED
  BY <1>1, <1>2, <1>4, <1>5, <1>6, <1>7 DEF Typed

\* A message that becomes known.
LEMMA BumpOK ==
  ASSUME ViewT, log \in Seq(Msg), log' = log, NEW id \in Ids, known' \subseteq known \cup {id}, cursor' = Bump(id),
         chan' = chan, loaded' = loaded, more' = more
  PROVE  /\ ViewT' /\ cursor' >= Ts(id) /\ cursor' >= cursor /\ cursor' # 0
         /\ cursor' = cursor \/ cursor' = Ts(id)
<1>1. Len(log) \in Nat /\ id \in 1..Len(log) /\ Ids' = Ids /\ cursor \in Nat /\ cursor <= 2 * Len(log)
  BY DEF Ids, ViewT
<1>2. cursor' = (IF 2 * id > cursor THEN 2 * id ELSE cursor)
  BY DEF Bump, Ts
<1>3. cursor' \in Nat /\ cursor' <= 2 * Len(log) /\ cursor' >= 2 * id /\ cursor' >= cursor /\ cursor' # 0
  BY <1>1, <1>2
<1> QED
  BY <1>1, <1>2, <1>3 DEF ViewT, Ts

\* The text of a message is remembered.
LEMMA CacheOK ==
  ASSUME CryptoT, NEW id, NEW text \in Nat, Cache(id, text)
  PROVE  CryptoT'
<1>1. CASE text = 0
  BY <1>1 DEF Cache, CryptoT
<1>2. CASE text # 0
  BY <1>2 DEF Cache, CryptoT
<1> QED
  BY <1>1, <1>2

\* A watchdog is cleared.
LEMMA ClearOK ==
  ASSUME SendsT, NEW k, ClearTimer(k), reg' \in [Channels -> Seq(Lids)], held' \subseteq held
  PROVE  SendsT'
<1>1. timers \in [Lids -> Nat] /\ mapped \subseteq Lids /\ \A i \in mapped : timers[i] > 0
  BY DEF SendsT
<1>2. timers' \in [Lids -> Nat] /\ \A i \in Lids : i # k => timers'[i] = timers[i]
  <2>1. CASE k \in mapped
    BY <1>1, <2>1 DEF ClearTimer
  <2>2. CASE k \notin mapped
    BY <1>1, <2>2 DEF ClearTimer
  <2> QED
    BY <2>1, <2>2
<1>3. mapped' \subseteq mapped /\ k \notin mapped'
  BY DEF ClearTimer
<1>4. (Lids)' = Lids
  BY DEF Lids
<1>5. \A i \in mapped' : i \in Lids /\ timers'[i] > 0
  BY <1>1, <1>2, <1>3
<1> QED
  BY <1>2, <1>4, <1>5 DEF SendsT

\* A new message begins a decryption.
LEMMA onMessageNewTyped ==
  ASSUME Typed, onMessageNew
  PROVE  Typed' /\ log' = log
<1> DEFINE id == Head(feed).id
           t == [Task("live", chan, "rows") EXCEPT !.todo = {id}]
<1>1. log \in Seq(Msg) /\ left \in Left /\ log' = log /\ LogGrows /\ left' = left
  BY DEF Typed, ServerT, LogGrows, onMessageNew
<1>2. ServerT' /\ FeedT' /\ id \in Ids
  BY <1>1, FrameTyped, FrameOK DEF onMessageNew
<1>4. ViewT'
  BY <1>1, <1>2, BumpOK DEF onMessageNew, Typed, view
<1>5. SendsT' /\ CryptoT'
  BY SendsStay DEF onMessageNew, Typed, crypto, CryptoT
<1>6. RowsT'
  BY <1>1, RowsStay DEF onMessageNew, Typed, Left
<1>7. TasksT'
  <2> HIDE DEF id
  <2>1. chan \in Channels /\ id \in Nat
    BY <1>1, <1>2 DEF Typed, ViewT, Ids
  <2>2. Task("live", chan, "rows") \in TaskT
    BY <1>1, <2>1, TaskBegins
  <2>3. t \in TaskT
    BY <2>1, <2>2 DEF TaskT
  <2>4. t.kind = "live" /\ t.at = "rows" /\ t.todo = {id} /\ t.got = <<>> /\ t.run = "on"
    BY DEF Task
  <2>5. TaskOK(t)
    BY <2>1, <2>4, <1>2 DEF TaskOK, GotOK
  <2>6. tasks' \subseteq tasks \cup {t}
    BY DEF onMessageNew, id
  <2> QED
    BY <1>1, <2>3, <2>5, <2>6, NewTask DEF Typed
<1> QED
  BY <1>1, <1>2, <1>4, <1>5, <1>6, <1>7 DEF Typed

\* A row of a message of the server.
LEMMA PlainRow ==
  ASSUME NEW id \in Nat \ {0}, NEW text \in Nat
  PROVE  /\ Row(id, text) \in RowT /\ Row(id, text).id = id /\ Row(id, text).lid = 0
         /\ Row(id, text).ts = Ts(id) /\ Row(id, text).st = "ok" /\ Row(id, text).text = text
  BY DEF Row, RowT, Ts

\* The decryption ends: its row joins the list, which is sorted.
LEMMA LiveDoneTyped ==
  ASSUME Typed, NEW t \in tasks, LiveDone(t)
  PROVE  /\ Typed' /\ log' = log
         /\ \E id \in Ids : /\ t.todo = {id} /\ t.got = <<>>
                            /\ IF t.run = "on" THEN \E text \in Nat : rows' = Append(rows, Row(id, text)) ELSE rows' = rows
<1> DEFINE id == Min(t.todo)
           text == IF Opens(id) THEN log[id].text ELSE 0
<1>1. log \in Seq(Msg) /\ left \in Left /\ log' = log /\ LogGrows /\ left' = left /\ Ids' = Ids
  BY DEF Typed, ServerT, LogGrows, LiveDone, world, Ids
<1>2. t \in TaskT /\ TaskOK(t) /\ t.kind = "live"
  BY DEF Typed, TasksT, LiveDone, Kind
<1>3. PICK i \in Ids : t.todo = {i} /\ t.got = <<>>
  BY <1>2 DEF TaskOK
<1>4. i \in Nat \ {0}
  BY <1>1, <1>3 DEF Ids
<1>5. id = i
  BY <1>3, <1>4, MinOK
<1>6. text \in Nat
  <2>1. log[i] \in Msg
    BY <1>1, <1>3 DEF Ids
  <2> QED
    BY <2>1, <1>5 DEF Msg
<1>7. ServerT' /\ FeedT'
  BY <1>1, FeedStays DEF LiveDone, world, Typed, ServerT, Lids
<1>8. ViewT' /\ SendsT'
  BY <1>1, ViewStays, SendsStay DEF LiveDone, Typed, view
<1>9. CryptoT'
  BY <1>6, CacheOK DEF LiveDone, Typed
<1>10. TasksT'
  BY <1>1, TasksStay DEF LiveDone, Ends, Typed
<1>11. rows' = IF t.run = "on" THEN Append(rows, Row(i, text)) ELSE rows
  BY <1>5 DEF LiveDone
<1>12. RowsT'
  <2> HIDE DEF text, id
  <2>1. CASE t.run # "on"
    BY <1>1, <1>11, <2>1, RowsStay DEF Typed, Left
  <2>2. CASE t.run = "on"
    <3> DEFINE r == Row(i, text)
    <3>1. /\ r \in RowT /\ r.id = i /\ r.lid = 0 /\ r.ts = Ts(i) /\ r.st = "ok"
      BY <1>4, <1>6, PlainRow
    <3> HIDE DEF r
    <3>2. rows \in Seq(RowT) /\ rows' = Append(rows, r)
      BY <1>11, <2>2 DEF Typed, RowsT, r
    <3>3. rows' \in Seq(RowT) /\ Len(rows) \in Nat /\ DOMAIN rows' = 1..(Len(rows) + 1)
          /\ DOMAIN rows = 1..Len(rows)
          /\ (\A j \in 1..Len(rows) : rows'[j] = rows[j]) /\ rows'[Len(rows) + 1] = r
      BY <3>1, <3>2
    <3>4. ASSUME NEW j \in DOMAIN rows', NEW q, q = rows'[j] PROVE RowOK(q)'
      <4>1. CASE j \in 1..Len(rows)
        <5>1. RowOK(q)
          BY <3>3, <3>4, <4>1 DEF Typed, RowsT
        <5> QED
          BY <5>1, <1>1 DEF RowOK, Ts, Lids
      <4>2. CASE j = Len(rows) + 1
        <5>1. q = r /\ i # 0 /\ i \in Ids'
          BY <3>3, <3>4, <4>2, <1>3, <1>4, <1>1
        <5> QED
          BY <5>1, <3>1 DEF RowOK, Ts
      <4> QED
        BY <4>1, <4>2, <3>3
    <3> QED
      BY <3>3, <3>4 DEF RowsT
  <2> QED
    BY <2>1, <2>2
<1> HIDE DEF text, id
<1> QED
  BY <1>1, <1>3, <1>6, <1>7, <1>8, <1>9, <1>10, <1>11, <1>12 DEF Typed

\* Rows confirmed as message id.
ConfirmedAt(hits, id) ==
  /\ DOMAIN rows' = DOMAIN rows
  /\ \A i \in hits : /\ rows'[i].id = id /\ rows'[i].lid = rows[i].lid /\ rows'[i].ts = Ts(id)
                     /\ rows'[i].st = "ok"
  /\ \A i \in DOMAIN rows \ hits : rows'[i] = rows[i]

\* The rows of a send become those of its message.
LEMMA ConfirmOK ==
  ASSUME RowsT, Ids' = Ids, left' = left, NEW id \in Ids, id \in Nat \ {0}, NEW hits \in SUBSET (DOMAIN rows),
         \A i \in hits : rows[i].id = 0,
         rows' = [i \in DOMAIN rows |-> IF i \in hits THEN Confirmed(rows[i], id) ELSE rows[i]]
  PROVE  RowsT' /\ ConfirmedAt(hits, id)
<1>1. rows \in Seq(RowT) /\ \A i \in DOMAIN rows : rows[i] \in RowT /\ RowOK(rows[i])
  BY DEF RowsT
<1>2. ASSUME NEW r \in RowT
      PROVE  /\ Confirmed(r, id) \in RowT /\ Confirmed(r, id).id = id /\ Confirmed(r, id).lid = r.lid
             /\ Confirmed(r, id).ts = Ts(id) /\ Confirmed(r, id).st = "ok"
  <2>1. id \in Nat /\ Ts(id) \in Nat
    BY DEF Ts
  <2> HIDE DEF Ts
  <2>2. Confirmed(r, id) = [r EXCEPT !.id = id, !.ts = Ts(id), !.st = "ok"]
    BY DEF Confirmed
  <2> QED
    BY <2>1, <2>2 DEF RowT
<1>3. ConfirmedAt(hits, id)
  BY <1>1, <1>2 DEF ConfirmedAt
<1>4. rows' \in Seq(RowT) /\ DOMAIN rows' = DOMAIN rows
  <2>1. \A i \in DOMAIN rows : rows'[i] \in RowT
    BY <1>1, <1>2
  <2> QED
    BY <1>1, <2>1
<1>5. ASSUME NEW i \in DOMAIN rows', NEW q, q = rows'[i] PROVE RowOK(q)'
  <2>1. RowOK(rows[i])
    BY <1>1, <1>4
  <2>2. CASE i \in hits
    <3>1. q.id = id /\ q.lid = rows[i].lid /\ q.ts = Ts(id) /\ q.st = "ok"
      BY <1>3, <2>2, <1>5 DEF ConfirmedAt
    <3> QED
      BY <3>1, <2>1 DEF RowOK, Ts, Lids
  <2>3. CASE i \notin hits
    <3>1. q = rows[i]
      BY <1>3, <2>3, <1>5, <1>4 DEF ConfirmedAt
    <3> QED
      BY <3>1, <2>1 DEF RowOK, Ts, Lids
  <2> QED
    BY <2>2, <2>3
<1> QED
  BY <1>3, <1>4, <1>5 DEF RowsT

\* The first pending row.
FirstPending ==
  {i \in DOMAIN rows : IsPending(rows[i]) /\ \A j \in 1..(i - 1) : ~IsPending(rows[j])}

\* It is pending, and no row before it is.
LEMMA FirstPendingOK ==
  ASSUME RowsT
  PROVE  /\ \A i \in FirstPending : rows[i].st = "pending" /\ rows[i].id = 0 /\ rows[i].lid \in Lids
         /\ \A i, j \in FirstPending : i = j
<1>1. rows \in Seq(RowT) /\ \A i \in DOMAIN rows : rows[i] \in RowT /\ RowOK(rows[i])
  BY DEF RowsT
<1>2. \A i \in FirstPending : i \in DOMAIN rows /\ IsPending(rows[i]) /\ \A j \in 1..(i - 1) : ~IsPending(rows[j])
  BY DEF FirstPending
<1>3. \A i \in FirstPending : rows[i].st = "pending" /\ rows[i].id = 0 /\ rows[i].lid \in Lids
  BY <1>1, <1>2 DEF IsPending, RowOK
<1>4. ASSUME NEW i \in FirstPending, NEW j \in FirstPending PROVE ~(i < j)
  <2> SUFFICES ASSUME i < j PROVE FALSE
    OBVIOUS
  <2>1. i \in 1..(j - 1)
    BY <1>1, <1>2
  <2> QED
    BY <1>2, <2>1
<1>5. \A i \in FirstPending : i \in Nat
  BY <1>1, <1>2
<1>6. \A i, j \in FirstPending : i = j
  BY <1>4, <1>5
<1> QED
  BY <1>3, <1>6

\* The echo of an own message confirms the first pending row.
LEMMA OwnEchoTyped ==
  ASSUME Typed, OwnEcho
  PROVE  /\ Typed' /\ log' = log
         /\ feed[1].kind = "new" /\ feed[1].id \in Ids
         /\ FirstPending \subseteq DOMAIN rows
         /\ ConfirmedAt(FirstPending, feed[1].id)
         /\ FirstPending = {} => timers' = timers /\ "norow" \in hurt'
         /\ \A i \in FirstPending : ClearTimer(rows[i].lid)
<1> DEFINE id == Head(feed).id
           ks == {rows[i].lid : i \in FirstPending}
<1>1. log \in Seq(Msg) /\ left \in Left /\ log' = log /\ LogGrows /\ left' = left /\ Ids' = Ids /\ RowsT
  BY DEF Typed, ServerT, LogGrows, OwnEcho, Ids
<1>2. ServerT' /\ FeedT' /\ id \in Ids /\ id = feed[1].id /\ feed[1].kind = "new"
  BY <1>1, FrameTyped, FrameOK DEF OwnEcho
<1>3. id \in Nat \ {0}
  BY <1>1, <1>2 DEF Ids
<1>4. ViewT'
  <2> HIDE DEF id
  <2>1. known' = known \cup {id} /\ cursor' = Bump(id)
    BY DEF OwnEcho, id
  <2> QED
    BY <1>1, <1>2, <2>1, BumpOK DEF OwnEcho, Typed, view
<1>5. FirstPending \in SUBSET (DOMAIN rows) /\ (\A i \in FirstPending : rows[i].id = 0)
  BY <1>1, FirstPendingOK DEF FirstPending
<1>6. /\ rows' = [i \in DOMAIN rows |-> IF i \in FirstPending THEN Confirmed(rows[i], id) ELSE rows[i]]
      /\ IF ks = {} THEN UNCHANGED <<timers, mapped>> ELSE ClearTimer(CHOOSE k \in ks : TRUE)
      /\ held' = held \ ks
      /\ hurt' = hurt \cup (IF ks = {} THEN {"norow"} ELSE {})
      /\ IF reg[chan] = <<>> THEN UNCHANGED <<reg, cached>>
            ELSE /\ reg' = [reg EXCEPT ![chan] = Tail(@)]
                 /\ Cache(id, Head(reg[chan]))
  BY DEF OwnEcho, FirstPending
<1>7. RowsT' /\ ConfirmedAt(FirstPending, id)
  <2> HIDE DEF id
  <2> QED
    BY <1>1, <1>2, <1>3, <1>5, <1>6, ConfirmOK
<1>8. chan \in Channels /\ reg \in [Channels -> Seq(Lids)] /\ reg[chan] \in Seq(Lids)
  BY DEF Typed, ViewT, SendsT
<1>9. reg' \in [Channels -> Seq(Lids)] /\ CryptoT'
  <2>1. CASE reg[chan] = <<>>
    BY <1>6, <1>8, <2>1 DEF Typed, CryptoT
  <2>2. CASE reg[chan] # <<>>
    <3>1. Tail(reg[chan]) \in Seq(Lids) /\ Head(reg[chan]) \in Lids
      BY <1>8, <2>2
    <3>2. Head(reg[chan]) \in Nat
      BY <3>1 DEF Lids
    <3> QED
      BY <1>6, <1>8, <2>2, <3>1, <3>2, CacheOK DEF Typed
  <2> QED
    BY <2>1, <2>2
<1>10. \A i \in FirstPending : ks = {rows[i].lid} /\ (CHOOSE k \in ks : TRUE) = rows[i].lid
  <2> TAKE i \in FirstPending
  <2>1. ks = {rows[i].lid}
    BY <1>1, FirstPendingOK
  <2> QED
    BY <2>1
<1>11. FirstPending = {} <=> ks = {}
  OBVIOUS
<1>12. \A i \in FirstPending : ClearTimer(rows[i].lid)
  BY <1>6, <1>10
<1>13. FirstPending = {} => timers' = timers /\ mapped' = mapped /\ "norow" \in hurt'
  BY <1>6, <1>11
<1>14. SendsT'
  <2>1. held' \subseteq held
    BY <1>6
  <2>2. CASE FirstPending = {}
    BY <2>2, <1>9, <1>13, <2>1 DEF SendsT, Typed, Lids
  <2>3. CASE FirstPending # {}
    <3> HIDE DEF ks
    <3>1. PICK i \in FirstPending : TRUE
      BY <2>3
    <3> QED
      BY <1>9, <1>12, <2>1, <3>1, ClearOK DEF Typed
  <2> QED
    BY <2>2, <2>3
<1>15. TasksT'
  BY <1>1, TasksStay DEF OwnEcho, Typed
<1> HIDE DEF id, ks
<1> QED
  BY <1>1, <1>2, <1>4, <1>5, <1>7, <1>9, <1>12, <1>13, <1>14, <1>15 DEF Typed

\* The rows of send k that are not confirmed.
Unconfirmed(k) == {i \in DOMAIN rows : rows[i].id = 0 /\ rows[i].lid = k}

\* An acknowledgement confirms the row of its send.
LEMMA onSendAckTyped ==
  ASSUME Typed, onSendAck
  PROVE  /\ Typed' /\ log' = log
         /\ feed[1].kind = "ack" /\ feed[1].id \in Ids
         /\ ConfirmedAt(Unconfirmed(feed[1].lid), feed[1].id)
         /\ ClearTimer(feed[1].lid)
         /\ Unconfirmed(feed[1].lid) = {} => "norow" \in hurt'
<1> DEFINE id == Head(feed).id
           k == Head(feed).lid
<1>1. log \in Seq(Msg) /\ left \in Left /\ log' = log /\ LogGrows /\ left' = left /\ Ids' = Ids /\ RowsT
  BY DEF Typed, ServerT, LogGrows, onSendAck, Ids
<1>2. ServerT' /\ FeedT' /\ id \in Ids /\ id = feed[1].id /\ feed[1].kind = "ack" /\ k = feed[1].lid
  BY <1>1, FrameTyped, FrameOK DEF onSendAck
<1>3. id \in Nat \ {0}
  BY <1>1, <1>2 DEF Ids
<1>4. ViewT'
  <2> HIDE DEF id
  <2>1. known' = known \cup {id} /\ cursor' = Bump(id)
    BY DEF onSendAck, id
  <2> QED
    BY <1>1, <1>2, <2>1, BumpOK DEF onSendAck, Typed, view
<1>5. /\ rows' = [i \in DOMAIN rows |-> IF i \in Unconfirmed(k) THEN Confirmed(rows[i], id) ELSE rows[i]]
      /\ ClearTimer(k) /\ held' = held \ {k} /\ reg' = reg
      /\ Cache(id, IF k \in held THEN k ELSE 0)
  BY DEF onSendAck, MapRows, Unconfirmed
<1>6. Unconfirmed(k) \in SUBSET (DOMAIN rows) /\ \A i \in Unconfirmed(k) : rows[i].id = 0
  BY DEF Unconfirmed
<1>7. RowsT' /\ ConfirmedAt(Unconfirmed(k), id)
  <2> HIDE DEF id, k
  <2> QED
    BY <1>1, <1>2, <1>3, <1>5, <1>6, ConfirmOK
<1>8. SendsT' /\ CryptoT'
  <2> HIDE DEF id, k
  <2>1. (IF k \in held THEN k ELSE 0) \in Nat
    <3>1. k \in held => k \in Lids
      BY DEF Typed, SendsT
    <3>2. \A i \in Lids : i \in Nat
      BY DEF Lids
    <3> QED
      BY <3>1, <3>2
  <2>2. reg' \in [Channels -> Seq(Lids)] /\ held' \subseteq held
    BY <1>5 DEF Typed, SendsT
  <2> QED
    BY <1>5, <2>1, <2>2, CacheOK, ClearOK DEF Typed
<1>9. TasksT'
  BY <1>1, TasksStay DEF onSendAck, Typed
<1>10. Unconfirmed(k) = {} => "norow" \in hurt'
  <2> SUFFICES ASSUME Unconfirmed(k) = {} PROVE "norow" \in hurt'
    OBVIOUS
  <2>1. ~ \E r \in Range(rows) : r.id = 0 /\ r.lid = k
    BY DEF Range, Unconfirmed
  <2>2. hurt' = hurt \cup (IF \E r \in Range(rows) : r.id = 0 /\ r.lid = k THEN {} ELSE {"norow"})
    BY DEF onSendAck
  <2> QED
    BY <2>1, <2>2
<1> HIDE DEF id, k
<1> QED
  BY <1>1, <1>2, <1>4, <1>5, <1>7, <1>8, <1>9, <1>10 DEF Typed

\* An error for a send fails the pending rows of the newest.
LEMMA onErrorTyped ==
  ASSUME Typed, onError
  PROVE  /\ Typed' /\ log' = log /\ Restamped
         /\ \A i \in DOMAIN rows : rows'[i].st # "pending"
<1>1. log \in Seq(Msg) /\ left \in Left /\ log' = log /\ LogGrows /\ left' = left /\ Ids' = Ids /\ RowsT
  BY DEF Typed, ServerT, LogGrows, onError, Ids
<1>2. ServerT' /\ FeedT'
  BY <1>1, FrameTyped DEF onError
<1>4. ViewT'
  BY <1>1, ViewStays DEF onError, Typed, view
<1>5. SendsT' /\ CryptoT'
  BY SendsStay DEF onError, Typed, crypto, CryptoT
<1>6. /\ RowsT' /\ Restamped
      /\ \A i \in DOMAIN rows : rows'[i].st = "pending" => rows[i].st = "pending" /\ rows[i].lid \notin PendingLids
  BY <1>1, FailsOK DEF onError
<1>7. \A i \in DOMAIN rows : rows[i].st = "pending" => rows[i].lid \in PendingLids
  BY DEF PendingLids, IsPending, Range
<1>8. TasksT'
  BY <1>1, TasksStay DEF onError, Typed
<1> QED
  BY <1>1, <1>2, <1>4, <1>5, <1>6, <1>7, <1>8 DEF Typed

-----------------------------------------------------------------------------
(* Sending.                                                                  *)

\* The text of an own send is remembered.
LEMMA RememberOK ==
  ASSUME Typed, NEW k \in Lids, Remember(k), UNCHANGED <<log, timers, mapped>>
  PROVE  /\ SendsT' /\ TasksT'
         /\ \E t \in TaskT : /\ t.kind = "send" /\ t.run = "on" /\ t.from = k /\ t.at = "encrypt"
                             /\ t.todo = {} /\ t.got = <<>> /\ tasks' = tasks \cup {t}
<1> DEFINE t == [Task("send", chan, "encrypt") EXCEPT !.from = k]
<1>1. log \in Seq(Msg) /\ left \in Left /\ chan \in Channels /\ k \in Nat
  BY DEF Typed, ServerT, ViewT, Lids
<1>2. SendsT'
  <2>1. reg \in [Channels -> Seq(Lids)] /\ reg[chan] \in Seq(Lids) /\ reg' = [reg EXCEPT ![chan] = Append(@, k)]
    BY <1>1 DEF Typed, SendsT, Remember
  <2>2. reg' \in [Channels -> Seq(Lids)]
    BY <2>1, <1>1
  <2>3. held' = held \cup {k} /\ held \subseteq Lids
    BY DEF Remember, Typed, SendsT
  <2> QED
    BY <2>2, <2>3 DEF SendsT, Typed, Lids
<1>3. Task("send", chan, "encrypt") \in TaskT
  BY <1>1, TaskBegins
<1>4. t \in TaskT
  BY <1>1, <1>3 DEF TaskT
<1>5. /\ t.kind = "send" /\ t.run = "on" /\ t.from = k /\ t.at = "encrypt" /\ t.todo = {} /\ t.got = <<>>
  BY DEF Task
<1>6. TaskOK(t)
  BY <1>5 DEF TaskOK, GotOK
<1>7. tasks' = tasks \cup {t}
  BY DEF Remember
<1> HIDE DEF t
<1>8. TasksT'
  BY <1>1, <1>4, <1>6, <1>7, NewTask DEF Typed
<1> QED
  BY <1>2, <1>4, <1>5, <1>7, <1>8

\* A send puts a pending row at the end.
LEMMA sendTyped ==
  ASSUME ConstantsOK, Typed, send
  PROVE  /\ Typed' /\ log' = log /\ left.sends \in Lids /\ left'.sends = left.sends - 1
         /\ rows' = Append(rows, Optimistic(left.sends))
         /\ Optimistic(left.sends) \in RowT
         /\ \E t \in TaskT : /\ t.kind = "send" /\ t.run = "on" /\ t.from = left.sends /\ t.at = "encrypt"
                             /\ t.todo = {} /\ t.got = <<>> /\ tasks' = tasks \cup {t}
<1> DEFINE k == left.sends
           o == Optimistic(k)
<1>1. log \in Seq(Msg) /\ left \in Left /\ log' = log /\ LogGrows /\ Ids' = Ids /\ RowsT
  BY DEF Typed, ServerT, LogGrows, send, world, Ids
<1>2. k \in Lids /\ left' \in Left /\ left'.sends = k - 1 /\ Remember(k)
  BY <1>1, Spending DEF send
<1>3. k \in Nat \ {0}
  BY <1>2 DEF Lids
<1>4. SendsT' /\ TasksT'
  BY <1>2, RememberOK DEF send, world, sends
<1>5. ServerT' /\ FeedT'
  BY <1>1, FeedStays DEF send, world, Typed, ServerT, Lids
<1>6. ViewT' /\ CryptoT'
  BY <1>1, ViewStays DEF send, Typed, view, crypto, CryptoT
<1>7. rows' = Append(rows, o)
  BY DEF send
<1>8. o \in RowT /\ o.id = 0 /\ o.lid = k /\ o.st = "pending"
  BY <1>1, <1>3 DEF Optimistic, RowT, Now
<1>9. RowsT'
  <2> HIDE DEF o
  <2>1. rows \in Seq(RowT)
    BY <1>1 DEF RowsT
  <2>2. rows' \in Seq(RowT) /\ Len(rows) \in Nat /\ DOMAIN rows' = 1..(Len(rows) + 1)
        /\ DOMAIN rows = 1..Len(rows)
        /\ (\A j \in 1..Len(rows) : rows'[j] = rows[j]) /\ rows'[Len(rows) + 1] = o
    BY <1>7, <1>8, <2>1
  <2>3. ASSUME NEW j \in DOMAIN rows', NEW q, q = rows'[j] PROVE RowOK(q)'
    <3>1. CASE j \in 1..Len(rows)
      <4>1. RowOK(q)
        BY <2>2, <2>3, <3>1 DEF Typed, RowsT
      <4> QED
        BY <4>1, <1>1, <1>2, <1>3 DEF RowOK, Ts, Lids
    <3>2. CASE j = Len(rows) + 1
      <4>1. q = o
        BY <2>2, <2>3, <3>2
      <4> QED
        BY <4>1, <1>8, <1>2, <1>3 DEF RowOK, Lids
    <3> QED
      BY <3>1, <3>2, <2>2
  <2> QED
    BY <2>2, <2>3 DEF RowsT
<1>10. \E t \in TaskT : /\ t.kind = "send" /\ t.run = "on" /\ t.from = k /\ t.at = "encrypt"
                        /\ t.todo = {} /\ t.got = <<>> /\ tasks' = tasks \cup {t}
  BY <1>2, RememberOK DEF send, world, sends
<1> HIDE DEF o
<1> QED
  BY <1>1, <1>2, <1>4, <1>5, <1>6, <1>7, <1>8, <1>9, <1>10 DEF Typed, o

\* A failed row is sent again.
LEMMA retryTyped ==
  ASSUME ConstantsOK, Typed, NEW k \in Lids, retry(k)
  PROVE  /\ Typed' /\ log' = log /\ left'.sends = left.sends /\ Restamped
         /\ \A i \in DOMAIN rows : rows'[i].st = "pending" => rows[i].st = "pending" \/ rows[i].lid = k
         /\ \E t \in TaskT : /\ t.kind = "send" /\ t.run = "on" /\ t.from = k /\ t.at = "encrypt"
                             /\ t.todo = {} /\ t.got = <<>> /\ tasks' = tasks \cup {t}
<1>1. log \in Seq(Msg) /\ left \in Left /\ log' = log /\ LogGrows /\ Ids' = Ids /\ RowsT
  BY DEF Typed, ServerT, LogGrows, retry, world, Ids
<1>2. left' \in Left /\ left'.sends = left.sends /\ Remember(k)
  BY <1>1, Spending DEF retry
<1>3. SendsT' /\ TasksT'
  BY <1>2, RememberOK DEF retry, world, sends
<1>4. ServerT' /\ FeedT'
  BY <1>1, FeedStays DEF retry, world, Typed, ServerT, Lids
<1>5. ViewT' /\ CryptoT'
  BY <1>1, ViewStays DEF retry, Typed, view, crypto, CryptoT
<1>6. rows' = [i \in DOMAIN rows |->
        IF rows[i].id = 0 /\ rows[i].lid = k THEN [rows[i] EXCEPT !.st = "pending"] ELSE rows[i]]
  BY DEF retry, MapRows
<1>7. rows \in Seq(RowT) /\ \A i \in DOMAIN rows : rows[i] \in RowT /\ RowOK(rows[i])
  BY <1>1 DEF RowsT
<1>8. ASSUME NEW i \in DOMAIN rows
      PROVE  /\ rows'[i] \in RowT
             /\ rows'[i].id = rows[i].id /\ rows'[i].lid = rows[i].lid /\ rows'[i].ts = rows[i].ts
             /\ rows[i].id # 0 => rows'[i] = rows[i]
             /\ rows'[i].st = "pending" => rows[i].st = "pending" \/ rows[i].lid = k
  <2> DEFINE r == rows[i]
             c == r.id = 0 /\ r.lid = k
  <2>1. r \in RowT /\ rows'[i] = IF c THEN [r EXCEPT !.st = "pending"] ELSE r
    BY <1>6, <1>7
  <2> HIDE DEF r
  <2>2. CASE c
    BY <2>1, <2>2 DEF RowT, r
  <2>3. CASE ~c
    BY <2>1, <2>3 DEF RowT, r
  <2> QED
    BY <2>2, <2>3
<1>9. rows' \in Seq(RowT) /\ DOMAIN rows' = DOMAIN rows
  BY <1>6, <1>7, <1>8
<1>10. ASSUME NEW i \in DOMAIN rows', NEW q, q = rows'[i] PROVE RowOK(q)'
  <2>1. RowOK(rows[i]) /\ q.id = rows[i].id /\ q.lid = rows[i].lid /\ q.ts = rows[i].ts
        /\ (rows[i].id # 0 => q = rows[i])
    BY <1>7, <1>8, <1>9, <1>10
  <2> QED
    BY <2>1, <1>1, <1>2 DEF RowOK, Ts, Lids
<1>11. RowsT' /\ Restamped
  BY <1>8, <1>9, <1>10 DEF RowsT, Restamped
<1>12. \E t \in TaskT : /\ t.kind = "send" /\ t.run = "on" /\ t.from = k /\ t.at = "encrypt"
                        /\ t.todo = {} /\ t.got = <<>> /\ tasks' = tasks \cup {t}
  BY <1>2, RememberOK DEF retry, world, sends
<1> QED
  BY <1>1, <1>2, <1>3, <1>4, <1>5, <1>8, <1>11, <1>12 DEF Typed

\* The encrypted message goes to the socket and the watchdog is armed.
LEMMA SentTyped ==
  ASSUME Typed, NEW t \in tasks, Sent(t)
  PROVE  /\ Typed' /\ log' = log /\ t.kind = "send" /\ t.todo = {} /\ t.got = <<>> /\ t.from \in Lids
         /\ \A k \in Lids : timers'[k] >= timers[k]
         /\ t.run = "on" => timers'[t.from] > 0
<1>1. log \in Seq(Msg) /\ left \in Left /\ log' = log /\ LogGrows /\ left' = left
  BY DEF Typed, ServerT, LogGrows, Sent
<1>2. t \in TaskT /\ TaskOK(t) /\ t.kind = "send"
  BY DEF Typed, TasksT, Sent, Kind
<1>3. t.todo = {} /\ t.got = <<>> /\ t.from \in Lids /\ t.ch \in Channels
  BY <1>2 DEF TaskOK, TaskT
<1>4. ServerT' /\ FeedT'
  <2>1. sent' \subseteq [ch : Channels, lid : Lids]
    BY <1>3 DEF Sent, Typed, ServerT
  <2> QED
    BY <1>1, <2>1, FeedStays DEF Sent, Typed, ServerT, Lids
<1>5. ViewT' /\ CryptoT'
  BY <1>1, ViewStays DEF Sent, Typed, view, crypto, CryptoT
<1>6. RowsT'
  BY <1>1, RowsStay DEF Sent, Typed, Left
<1>7. TasksT'
  BY <1>1, TasksStay DEF Sent, Ends, Typed
<1>8. timers \in [Lids -> Nat] /\ mapped \subseteq {k \in Lids : timers[k] > 0}
  BY DEF Typed, SendsT
<1>9. /\ SendsT' /\ (\A k \in Lids : timers'[k] >= timers[k])
      /\ t.run = "on" => timers'[t.from] > 0
  <2>1. CASE t.run = "on"
    <3>1. timers' = [timers EXCEPT ![t.from] = @ + 1] /\ mapped' = mapped \cup {t.from}
      BY <2>1 DEF Sent
    <3>2. /\ timers' \in [Lids -> Nat] /\ (\A k \in Lids : timers'[k] >= timers[k])
          /\ timers'[t.from] > 0
      BY <1>3, <1>8, <3>1
    <3>3. \A k \in mapped' : k \in Lids /\ timers'[k] > 0
      BY <1>3, <1>8, <3>1, <3>2
    <3>4. reg' = reg /\ held' = held
      BY DEF Sent
    <3> QED
      BY <3>2, <3>3, <3>4 DEF Typed, SendsT, Lids
  <2>2. CASE t.run # "on"
    <3>1. timers' = timers /\ mapped' = mapped /\ reg' = reg /\ held' = held
      BY <2>2 DEF Sent
    <3> QED
      BY <2>2, <3>1, <1>8 DEF Typed, SendsT, Lids
  <2> QED
    BY <2>1, <2>2
<1> QED
  BY <1>1, <1>2, <1>3, <1>4, <1>5, <1>6, <1>7, <1>9 DEF Typed

\* The encryption fails, or there is no socket: the row fails.
LEMMA SendFailsTyped ==
  ASSUME ConstantsOK, Typed, NEW t \in tasks, SendFails(t)
  PROVE  /\ Typed' /\ log' = log /\ left'.sends = left.sends
         /\ t.kind = "send" /\ t.todo = {} /\ t.got = <<>> /\ t.from \in Lids
         /\ Restamped
         /\ \A i \in DOMAIN rows :
              rows'[i].st = "pending" => rows[i].st = "pending" /\ (t.run = "on" => rows[i].lid # t.from)
<1>1. log \in Seq(Msg) /\ left \in Left /\ log' = log /\ LogGrows /\ Ids' = Ids /\ RowsT
  BY DEF Typed, ServerT, LogGrows, SendFails, world, Ids
<1>2. t \in TaskT /\ TaskOK(t) /\ t.kind = "send"
  BY DEF Typed, TasksT, SendFails, Kind
<1>3. t.todo = {} /\ t.got = <<>> /\ t.from \in Lids /\ t.ch \in Channels
  BY <1>2 DEF TaskOK, TaskT
<1>4. left' \in Left /\ left'.sends = left.sends
  BY <1>1, Spending DEF SendFails, Mishap
<1>5. ServerT' /\ FeedT'
  BY <1>1, FeedStays DEF SendFails, world, Typed, ServerT, Lids
<1>6. ViewT' /\ CryptoT'
  BY <1>1, ViewStays DEF SendFails, Typed, view, crypto, CryptoT
<1>7. TasksT'
  BY <1>1, TasksStay DEF SendFails, Ends, Typed
<1>8. SendsT'
  BY DEF SendFails, Typed, SendsT, Lids
<1>9. /\ RowsT' /\ Restamped
      /\ \A i \in DOMAIN rows :
           rows'[i].st = "pending" => rows[i].st = "pending" /\ (t.run = "on" => rows[i].lid # t.from)
  <2>1. CASE t.run = "on"
    <3>1. rows' = FailLids({t.from})
      BY <2>1 DEF SendFails
    <3> QED
      BY <3>1, <1>1, <1>4, FailsOK
  <2>2. CASE t.run # "on"
    <3>1. rows' = rows
      BY <2>2 DEF SendFails
    <3> QED
      BY <2>2, <3>1, <1>1, <1>4, RowsStay DEF Restamped, Left
  <2> QED
    BY <2>1, <2>2
<1> QED
  BY <1>1, <1>2, <1>3, <1>4, <1>5, <1>6, <1>7, <1>8, <1>9 DEF Typed

\* A watchdog fires: the row fails.
LEMMA WatchdogTyped ==
  ASSUME Typed, NEW k \in Lids, Watchdog(k)
  PROVE  /\ Typed' /\ log' = log /\ Restamped
         /\ \A i \in DOMAIN rows : rows'[i].st = "pending" => rows[i].st = "pending" /\ rows[i].lid # k
         /\ \A j \in Lids : j # k => timers'[j] = timers[j]
<1>1. log \in Seq(Msg) /\ left \in Left /\ log' = log /\ LogGrows /\ left' = left /\ Ids' = Ids /\ RowsT
  BY DEF Typed, ServerT, LogGrows, Watchdog, world, Ids
<1>2. ServerT' /\ FeedT'
  BY <1>1, FeedStays DEF Watchdog, world, Typed, ServerT, Lids
<1>3. ViewT' /\ CryptoT'
  BY <1>1, ViewStays DEF Watchdog, Typed, view, crypto, CryptoT
<1>4. TasksT'
  BY <1>1, TasksStay DEF Watchdog, Typed
<1>5. timers \in [Lids -> Nat] /\ mapped \subseteq {j \in Lids : timers[j] > 0} /\ timers[k] > 0
  BY DEF Typed, SendsT, Watchdog
<1>6. timers' = [timers EXCEPT ![k] = @ - 1] /\ mapped' = mapped \ {k}
  BY DEF Watchdog
<1>7. timers' \in [Lids -> Nat] /\ \A j \in Lids : j # k => timers'[j] = timers[j]
  BY <1>5, <1>6
<1>8. \A j \in mapped' : j \in Lids /\ timers'[j] > 0
  BY <1>5, <1>6, <1>7
<1>9. SendsT'
  BY <1>7, <1>8 DEF Watchdog, Typed, SendsT, Lids
<1>10. /\ RowsT' /\ Restamped
       /\ \A i \in DOMAIN rows : rows'[i].st = "pending" => rows[i].st = "pending" /\ rows[i].lid \notin PendingLids \cap {k}
  BY <1>1, FailsOK DEF Watchdog
<1>11. \A i \in DOMAIN rows : rows[i].st = "pending" => rows[i].lid \in PendingLids
  BY DEF PendingLids, IsPending, Range
<1> QED
  BY <1>1, <1>2, <1>3, <1>4, <1>7, <1>9, <1>10, <1>11 DEF Typed

-----------------------------------------------------------------------------
(* Reading the server's lists.                                               *)

\* The functions that read the lists of the server.
Fetches == {"load", "older", "catch"}

\* What is decrypted is a text.
LEMMA TextType ==
  ASSUME Typed, NEW id \in Ids PROVE TextOf(id) \in Nat /\ log[id].ch \in Channels
<1>1. log[id] \in Msg
  BY DEF Typed, ServerT, Ids
<1>2. log[id].text \in Nat /\ log[id].ch \in Channels
  BY <1>1 DEF Msg
<1>3. IsCached(id) => cached[id] \in Nat
  BY DEF IsCached, Typed, CryptoT
<1>4. reg[log[id].ch] # <<>> => Head(reg[log[id].ch]) \in Nat
  <2>1. reg[log[id].ch] \in Seq(Lids)
    BY <1>2 DEF Typed, SendsT
  <2>2. \A k \in Lids : k \in Nat
    BY DEF Lids
  <2> QED
    BY <2>1, <2>2
<1> QED
  BY <1>2, <1>3, <1>4 DEF TextOf, consumePendingSend

\* Reading a message: its row, its text, and what is left.
LEMMA DecryptRead ==
  ASSUME Typed, NEW id \in Ids, decryptMessageRow(id), UNCHANGED <<held, timers, mapped>>
  PROVE  SendsT' /\ CryptoT'
<1>1. CryptoT'
  BY TextType, CacheOK DEF decryptMessageRow, Typed
<1>2. log[id].ch \in Channels
  BY TextType
<1>3. reg' \in [Channels -> Seq(Lids)]
  <2>1. CASE consumePendingSend(id)
    <3>1. reg[log[id].ch] \in Seq(Lids) /\ reg[log[id].ch] # <<>>
      BY <1>2, <2>1 DEF Typed, SendsT, consumePendingSend
    <3>2. Tail(reg[log[id].ch]) \in Seq(Lids)
      BY <3>1
    <3>3. reg' = [reg EXCEPT ![log[id].ch] = Tail(@)]
      BY <2>1 DEF decryptMessageRow
    <3> QED
      BY <3>2, <3>3, <1>2 DEF Typed, SendsT
  <2>2. CASE ~consumePendingSend(id)
    BY <2>2 DEF decryptMessageRow, Typed, SendsT
  <2> QED
    BY <2>1, <2>2
<1> QED
  BY <1>1, <1>3 DEF Typed, SendsT, Lids

\* The oldest message a function has still to read.
LEMMA OldestOK ==
  ASSUME Typed, NEW t \in tasks, t.kind \in Fetches, t.todo # {}
  PROVE  /\ Oldest(t) \in t.todo /\ \A j \in t.todo : Oldest(t) <= j
         /\ t.todo \subseteq Of(t.ch) /\ Of(t.ch) \subseteq Ids /\ Oldest(t) \in Ids /\ Oldest(t) \in Nat \ {0}
<1>1. t.todo \subseteq Of(t.ch)
  BY DEF Typed, TasksT, TaskOK, Fetches, IdsOf
<1>2. Of(t.ch) \subseteq Ids /\ \A i \in Ids : i \in Nat \ {0}
  BY DEF Of, Ids, Typed, ServerT
<1>3. t.todo \in SUBSET Nat
  BY <1>1, <1>2
<1>4. Oldest(t) \in t.todo /\ \A j \in t.todo : Oldest(t) <= j
  BY <1>3, MinOK DEF Oldest
<1> QED
  BY <1>1, <1>2, <1>4

\* What is left of a function when its oldest message is read, or passed over.
Rest(t, u) ==
  /\ u \in TaskT /\ u.kind = t.kind /\ u.ch = t.ch /\ u.at = t.at /\ u.run = t.run
  /\ u.from = t.from /\ u.full = t.full /\ u.todo = t.todo \ {Oldest(t)}
  /\ TaskOK(u)

\* It keeps its shape.
LEMMA NextOK ==
  ASSUME Typed, NEW t \in tasks, t.kind \in Fetches, DecryptNext(t), log' = log
  PROVE  \E u : /\ Rest(t, u) /\ GotIds(u) = GotIds(t) \cup {Oldest(t)} /\ IdsOf(u) = IdsOf(t)
                /\ Replace(t, u)
<1> DEFINE o == Oldest(t)
           r == Row(o, TextOf(o))
           u == [t EXCEPT !.todo = @ \ {o}, !.got = Append(@, r)]
<1>1. t \in TaskT /\ TaskOK(t) /\ t.at = "rows" /\ t.todo # {}
  BY DEF Typed, TasksT, DecryptNext
<1>2. o \in t.todo /\ (\A j \in t.todo : o <= j) /\ o \in Ids /\ o \in Nat \ {0}
  BY <1>1, OldestOK
<1>3. TextOf(o) \in Nat
  BY <1>2, TextType
<1>4. /\ r \in RowT /\ r.id = o /\ r.lid = 0 /\ r.ts = Ts(o) /\ r.st = "ok"
  BY <1>2, <1>3, PlainRow
<1>5. Replace(t, u)
  BY DEF DecryptNext
<1> HIDE DEF r, o
<1>6. t.got \in Seq(RowT) /\ t.todo \in SUBSET Nat
  BY <1>1 DEF TaskT
<1>7. Append(t.got, r) \in Seq(RowT) /\ t.todo \ {o} \in SUBSET Nat
  BY <1>4, <1>6
<1>8. /\ u \in TaskT /\ u.kind = t.kind /\ u.ch = t.ch /\ u.at = t.at /\ u.run = t.run
      /\ u.from = t.from /\ u.full = t.full /\ u.todo = t.todo \ {o} /\ u.got = Append(t.got, r)
  BY <1>1, <1>7 DEF TaskT
<1> HIDE DEF u
<1> DEFINE n == Len(t.got)
<1>9. /\ n \in Nat /\ DOMAIN t.got = 1..n /\ DOMAIN u.got = 1..(n + 1)
      /\ (\A i \in 1..n : u.got[i] = t.got[i]) /\ u.got[n + 1] = r
  BY <1>4, <1>6, <1>8
<1>10. GotIds(u) = GotIds(t) \cup {o}
  <2>1. \A x : x \in GotIds(u) <=> \E i \in 1..(n + 1) : x = u.got[i].id
    BY <1>9 DEF GotIds
  <2>2. \A x : x \in GotIds(t) <=> \E i \in 1..n : x = t.got[i].id
    BY <1>9 DEF GotIds
  <2>3. \A i \in 1..(n + 1) : i \in 1..n \/ i = n + 1
    BY <1>9
  <2>4. \A i \in 1..n : i \in 1..(n + 1)
    BY <1>9
  <2>5. n + 1 \in 1..(n + 1)
    BY <1>9
  <2> HIDE DEF n
  <2>6. \A x : x \in GotIds(u) => x \in GotIds(t) \cup {o}
    BY <2>1, <2>2, <2>3, <1>9, <1>4
  <2>7. \A x : x \in GotIds(t) \cup {o} => x \in GotIds(u)
    BY <2>1, <2>2, <2>4, <2>5, <1>9, <1>4
  <2> QED
    BY <2>6, <2>7
<1>11. IdsOf(u) = IdsOf(t)
  BY <1>8, <1>10, <1>2 DEF IdsOf
<1>12. GotOK(u)
  <2>1. GotOK(t)
    BY <1>1 DEF TaskOK
  <2>2. \A i \in DOMAIN u.got : i \in DOMAIN t.got \/ i = n + 1
    BY <1>9
  <2>3. \A i \in DOMAIN t.got : t.got[i].id < o
    BY <2>1, <1>2 DEF GotOK
  <2>4. \A i \in DOMAIN u.got :
          u.got[i].id # 0 /\ u.got[i].lid = 0 /\ u.got[i].ts = Ts(u.got[i].id) /\ u.got[i].st = "ok"
    BY <2>1, <2>2, <1>9, <1>4, <1>2 DEF GotOK
  <2>5. \A i, j \in DOMAIN u.got : i < j => u.got[i].id < u.got[j].id
    <3> SUFFICES ASSUME NEW i \in DOMAIN u.got, NEW j \in DOMAIN u.got, i < j
                 PROVE  u.got[i].id < u.got[j].id
      OBVIOUS
    <3>1. i \in DOMAIN t.got
      BY <1>9
    <3>2. CASE j \in DOMAIN t.got
      BY <3>1, <3>2, <2>1, <1>9 DEF GotOK
    <3>3. CASE j = n + 1
      BY <3>1, <3>3, <2>3, <1>9, <1>4
    <3> QED
      BY <3>2, <3>3, <2>2
  <2>6. \A i \in DOMAIN u.got, j \in u.todo : u.got[i].id < j
    <3> SUFFICES ASSUME NEW i \in DOMAIN u.got, NEW j \in u.todo PROVE u.got[i].id < j
      OBVIOUS
    <3>1. j \in t.todo /\ j # o /\ j \in Nat
      BY <1>8, <1>6
    <3>2. CASE i \in DOMAIN t.got
      BY <3>1, <3>2, <2>1, <1>9 DEF GotOK
    <3>3. CASE i = n + 1
      BY <3>1, <3>3, <1>2, <1>9, <1>4
    <3> QED
      BY <3>2, <3>3, <2>2
  <2> QED
    BY <2>4, <2>5, <2>6 DEF GotOK
<1>13. TaskOK(u)
  BY <1>1, <1>8, <1>11, <1>12 DEF TaskOK, Fetches
<1> QED
  BY <1>5, <1>8, <1>10, <1>11, <1>13 DEF Rest, o

\* Passing over the oldest message.
LEMMA SkipOK ==
  ASSUME Typed, NEW t \in tasks, t.kind \in Fetches, t.at = "rows", t.todo # {}
  PROVE  LET u == [t EXCEPT !.todo = @ \ {Oldest(t)}]
         IN  Rest(t, u) /\ GotIds(u) = GotIds(t) /\ IdsOf(u) \subseteq IdsOf(t)
<1> DEFINE o == Oldest(t)
           u == [t EXCEPT !.todo = @ \ {o}]
<1>1. t \in TaskT /\ TaskOK(t) /\ t.todo \in SUBSET Nat
  BY DEF Typed, TasksT, TaskT
<1>2. o \in t.todo
  BY OldestOK
<1> HIDE DEF o
<1>3. t.todo \ {o} \in SUBSET Nat
  BY <1>1
<1>4. /\ u \in TaskT /\ u.kind = t.kind /\ u.ch = t.ch /\ u.at = t.at /\ u.run = t.run
      /\ u.from = t.from /\ u.full = t.full /\ u.todo = t.todo \ {o} /\ u.got = t.got
  BY <1>1, <1>3 DEF TaskT
<1> HIDE DEF u
<1>5. GotIds(u) = GotIds(t) /\ IdsOf(u) \subseteq IdsOf(t)
  BY <1>4 DEF GotIds, IdsOf
<1>6. GotOK(u)
  BY <1>1, <1>4 DEF TaskOK, GotOK
<1>7. TaskOK(u)
  BY <1>1, <1>4, <1>5, <1>6 DEF TaskOK, Fetches
<1> QED
  BY <1>4, <1>5, <1>7 DEF Rest, o, u

\* Two lists have the same rows.
SameRows(s, new) ==
  /\ \A i \in DOMAIN new : \E j \in DOMAIN s : new[i] = s[j]
  /\ \A j \in DOMAIN s : \E i \in DOMAIN new : new[i] = s[j]

\* No two rows are of the same send.
Distinct(s) == \A i, j \in DOMAIN s : s[i].lid # 0 /\ s[i].lid = s[j].lid => i = j

\* Sorting keeps the rows.
LEMMA SortRows ==
  ASSUME NEW s \in Seq(RowT)
  PROVE  /\ Sorted(s) \in Seq(RowT) /\ SameRows(s, Sorted(s))
         /\ Distinct(s) => Distinct(Sorted(s))
<1>1. \A r \in RowT : r.ts \in Nat
  BY DEF RowT
<1>2. PICK p \in [DOMAIN s -> DOMAIN s] :
           /\ \A i, j \in DOMAIN s : p[i] = p[j] => i = j
           /\ \A j \in DOMAIN s : \E i \in DOMAIN s : p[i] = j
           /\ Sorted(s) = [i \in DOMAIN s |-> s[p[i]]]
  BY <1>1, SortPermutes
<1>3. DOMAIN Sorted(s) = DOMAIN s /\ \A i \in DOMAIN s : Sorted(s)[i] = s[p[i]] /\ p[i] \in DOMAIN s
  BY <1>2
<1>4. Sorted(s) \in Seq(RowT)
  <2>1. \A i \in DOMAIN s : s[i] \in RowT
    OBVIOUS
  <2>2. \A i \in DOMAIN s : s[p[i]] \in RowT
    BY <2>1, <1>3
  <2>3. Sorted(s) = [i \in 1..Len(s) |-> s[p[i]]] /\ Len(s) \in Nat /\ DOMAIN s = 1..Len(s)
    BY <1>2
  <2> QED
    BY <2>2, <2>3
<1>5. SameRows(s, Sorted(s))
  BY <1>2, <1>3 DEF SameRows
<1>6. Distinct(s) => Distinct(Sorted(s))
  BY <1>2, <1>3 DEF Distinct
<1> QED
  BY <1>4, <1>5, <1>6

\* The rows of two lists.
Joins(a, b, new) ==
  /\ new \in Seq(RowT)
  /\ \A i \in DOMAIN new : (\E j \in DOMAIN a : new[i] = a[j]) \/ (\E j \in DOMAIN b : new[i] = b[j])
  /\ \A j \in DOMAIN a : \E i \in DOMAIN new : new[i] = a[j]
  /\ \A j \in DOMAIN b : \E i \in DOMAIN new : new[i] = b[j]

\* Joined good rows are good rows.
LEMMA JoinRows ==
  ASSUME NEW a \in Seq(RowT), NEW b \in Seq(RowT)
  PROVE  /\ Joins(a, b, a \o b)
         /\ Distinct(a) /\ (\A j \in DOMAIN b : b[j].lid = 0) => Distinct(a \o b)
         /\ Distinct(b) /\ (\A j \in DOMAIN a : a[j].lid = 0) => Distinct(a \o b)
<1> DEFINE m == Len(a)
           n == Len(b)
           c == a \o b
<1>1. /\ m \in Nat /\ n \in Nat /\ DOMAIN a = 1..m /\ DOMAIN b = 1..n /\ DOMAIN c = 1..(m + n)
      /\ c \in Seq(RowT)
      /\ \A i \in 1..m : c[i] = a[i]
      /\ \A i \in (m + 1)..(m + n) : c[i] = b[i - m]
  OBVIOUS
<1> HIDE DEF m, n, c
<1>2. \A i \in DOMAIN c : (i \in DOMAIN a /\ c[i] = a[i]) \/ (i - m \in DOMAIN b /\ c[i] = b[i - m])
  <2> TAKE i \in DOMAIN c
  <2>1. CASE i <= m
    BY <1>1, <2>1
  <2>2. CASE i > m
    <3>1. i \in (m + 1)..(m + n) /\ i - m \in 1..n
      BY <1>1, <2>2
    <3> QED
      BY <1>1, <3>1
  <2> QED
    BY <1>1, <2>1, <2>2
<1>3. \A j \in DOMAIN a : j \in DOMAIN c /\ c[j] = a[j]
  BY <1>1
<1>4. \A j \in DOMAIN b : j + m \in DOMAIN c /\ c[j + m] = b[j]
  <2> TAKE j \in DOMAIN b
  <2>1. j + m \in (m + 1)..(m + n) /\ j + m \in 1..(m + n) /\ (j + m) - m = j
    BY <1>1
  <2> QED
    BY <1>1, <2>1
<1>5. Joins(a, b, c)
  BY <1>1, <1>2, <1>3, <1>4 DEF Joins
<1>6. \A i, j \in DOMAIN c : i - m = j - m => i = j
  BY <1>1
<1>7. Distinct(a) /\ (\A j \in DOMAIN b : b[j].lid = 0) => Distinct(c)
  BY <1>2 DEF Distinct
<1>8. Distinct(b) /\ (\A j \in DOMAIN a : a[j].lid = 0) => Distinct(c)
  BY <1>2, <1>6 DEF Distinct
<1> QED
  BY <1>5, <1>7, <1>8 DEF c

\* The rows that a function has read.
LEMMA GotRows ==
  ASSUME Typed, NEW t \in tasks, t.kind \in Fetches
  PROVE  /\ t.got \in Seq(RowT)
         /\ \A i \in DOMAIN t.got : /\ RowOK(t.got[i]) /\ t.got[i].id # 0 /\ t.got[i].lid = 0
                                    /\ t.got[i].st = "ok" /\ t.got[i].ts = Ts(t.got[i].id)
                                    /\ t.got[i].id \in GotIds(t)
         /\ GotIds(t) \subseteq Of(t.ch) /\ Of(t.ch) \subseteq Ids
<1>1. t \in TaskT /\ TaskOK(t)
  BY DEF Typed, TasksT
<1>2. t.got \in Seq(RowT) /\ GotOK(t) /\ IdsOf(t) \subseteq Of(t.ch)
  BY <1>1 DEF TaskT, TaskOK, Fetches
<1>3. GotIds(t) \subseteq Of(t.ch) /\ Of(t.ch) \subseteq Ids
  BY <1>2 DEF IdsOf, Of
<1>4. \A i \in DOMAIN t.got : t.got[i].id \in GotIds(t)
  BY DEF GotIds
<1>5. \A i \in DOMAIN t.got : RowOK(t.got[i])
  BY <1>2, <1>3, <1>4 DEF GotOK, RowOK
<1> QED
  BY <1>2, <1>3, <1>4, <1>5 DEF GotOK

\* Rows that all come from good lists are good.
LEMMA RowsFrom ==
  ASSUME Typed, Ids' = Ids, left'.sends = left.sends, rows' \in Seq(RowT),
         \A i \in DOMAIN rows' : \E r : r = rows'[i] /\ RowOK(r)
  PROVE  RowsT'
<1>1. ASSUME NEW i \in DOMAIN rows', NEW q, q = rows'[i] PROVE RowOK(q)'
  <2>1. RowOK(q)
    BY <1>1
  <2> QED
    BY <2>1 DEF RowOK, Ts, Lids
<1> QED
  BY <1>1 DEF RowsT

\* The rows of a function, merged into the list by time.
LEMMA MergeOK ==
  ASSUME Typed, NEW t \in tasks, t.kind = "catch", t.got # <<>>, Ids' = Ids, left'.sends = left.sends,
         rows' = mergeCatchupMessages(rows, t.got)
  PROVE  /\ RowsT' /\ Joins(rows, t.got, rows')
         /\ Distinct(rows) => Distinct(rows')
<1> DEFINE c == rows \o t.got
<1>1. rows \in Seq(RowT) /\ t.got \in Seq(RowT) /\ (\A i \in DOMAIN t.got : t.got[i].lid = 0)
      /\ (\A i \in DOMAIN rows : RowOK(rows[i])) /\ (\A i \in DOMAIN t.got : RowOK(t.got[i]))
  BY GotRows DEF Typed, RowsT, Fetches
<1>2. Joins(rows, t.got, c) /\ (Distinct(rows) => Distinct(c))
  BY <1>1, JoinRows
<1>3. c \in Seq(RowT)
  BY <1>2 DEF Joins
<1> HIDE DEF c
<1>4. rows' = c \/ rows' = Sorted(c)
  BY DEF mergeCatchupMessages, c
<1>5. Joins(rows, t.got, rows') /\ (Distinct(rows) => Distinct(rows'))
  <2>1. CASE rows' = c
    BY <1>2, <2>1
  <2>2. CASE rows' = Sorted(c)
    <3>1. Sorted(c) \in Seq(RowT) /\ SameRows(c, Sorted(c)) /\ (Distinct(c) => Distinct(Sorted(c)))
      BY <1>3, SortRows
    <3> DEFINE g == t.got
               z == Sorted(c)
    <3>2. /\ \A i \in DOMAIN z : \E j \in DOMAIN c : z[i] = c[j]
          /\ \A j \in DOMAIN c : \E i \in DOMAIN z : z[i] = c[j]
      BY <3>1 DEF SameRows
    <3>3. /\ \A i \in DOMAIN c : (\E j \in DOMAIN rows : c[i] = rows[j]) \/ (\E j \in DOMAIN g : c[i] = g[j])
          /\ \A j \in DOMAIN rows : \E i \in DOMAIN c : c[i] = rows[j]
          /\ \A j \in DOMAIN g : \E i \in DOMAIN c : c[i] = g[j]
      BY <1>2 DEF Joins
    <3> HIDE DEF z, g
    <3>4. /\ \A i \in DOMAIN z : (\E j \in DOMAIN rows : z[i] = rows[j]) \/ (\E j \in DOMAIN g : z[i] = g[j])
          /\ \A j \in DOMAIN rows : \E i \in DOMAIN z : z[i] = rows[j]
          /\ \A j \in DOMAIN g : \E i \in DOMAIN z : z[i] = g[j]
      BY <3>2, <3>3
    <3>5. Joins(rows, t.got, z)
      BY <3>1, <3>4 DEF Joins, z, g
    <3> QED
      BY <1>2, <2>2, <3>1, <3>5 DEF z
  <2> QED
    BY <1>4, <2>1, <2>2
<1>6. \A i \in DOMAIN rows' : \E r : r = rows'[i] /\ RowOK(r)
  BY <1>1, <1>5 DEF Joins
<1>7. RowsT'
  BY <1>5, <1>6, RowsFrom DEF Joins
<1> QED
  BY <1>5, <1>7

-----------------------------------------------------------------------------
(* The functions that read the server's lists.                               *)

\* A step of a function that leaves the rest of the view alone.
LEMMA OnlyTasks ==
  ASSUME Typed, UNCHANGED <<world, view, rows, known, cursor, sends, crypto>>,
         left' \in Left, left'.sends = left.sends, TasksT'
  PROVE  Typed'
<1>1. log \in Seq(Msg) /\ left \in Left /\ log' = log /\ LogGrows
  BY DEF Typed, ServerT, LogGrows, world
<1>2. ServerT' /\ FeedT'
  BY <1>1, FeedStays DEF world, Typed, ServerT, Lids
<1>3. ViewT' /\ CryptoT' /\ SendsT'
  BY <1>1, ViewStays, SendsStay DEF Typed, view, crypto, CryptoT
<1>4. RowsT'
  BY <1>1, RowsStay DEF Typed, Left
<1> QED
  BY <1>2, <1>3, <1>4 DEF Typed

\* A function goes on as another of good shape.
LEMMA Replaced ==
  ASSUME Typed, log' = log, NEW t, NEW u \in TaskT, TaskOK(u), Replace(t, u)
  PROVE  TasksT'
<1>1. tasks' \subseteq tasks \cup {u} /\ log \in Seq(Msg)
  BY DEF Replace, Typed, ServerT
<1> QED
  BY <1>1, NewTask DEF Typed

\* A function ends.
LEMMA Ended ==
  ASSUME Typed, log' = log, NEW t, Ends(t)
  PROVE  TasksT'
<1>1. log \in Seq(Msg) /\ LogGrows
  BY DEF Typed, ServerT, LogGrows
<1> QED
  BY <1>1, TasksStay DEF Typed, Ends

\* A page is of messages of the channel.
LEMMA PageIds ==
  ASSUME Typed, NEW ch
  PROVE  Of(ch) \in SUBSET (1..Len(log)) /\ Len(log) \in Nat /\ Of(ch) \subseteq Nat \ {0} /\ Ids = 1..Len(log)
  BY DEF Typed, ServerT, Of, Ids

\* The first page is there.
LEMMA LoadAnswerTyped ==
  ASSUME ConstantsOK, Typed, NEW t \in tasks, LoadAnswer(t)
  PROVE  /\ Typed' /\ log' = log
         /\ \E u \in TaskT :
              /\ TaskOK(u) /\ u.kind = "load" /\ u.ch = t.ch /\ u.at = "rows" /\ u.run = t.run
              /\ u.todo = LastPage(Of(t.ch)) /\ u.got = <<>> /\ Replace(t, u)
<1> DEFINE u == [t EXCEPT !.at = "rows", !.todo = LastPage(Of(t.ch))]
<1>1. t \in TaskT /\ TaskOK(t) /\ t.kind = "load" /\ t.at = "ask" /\ log' = log /\ left' = left
  BY DEF Typed, TasksT, LoadAnswer, Kind, world
<1>2. LastPage(Of(t.ch)) \subseteq Of(t.ch) /\ Of(t.ch) \subseteq Nat
  BY PageIds, LastPageOK
<1>3. Replace(t, u)
  BY DEF LoadAnswer
<1>4. /\ u \in TaskT /\ u.kind = "load" /\ u.ch = t.ch /\ u.at = "rows" /\ u.run = t.run
      /\ u.todo = LastPage(Of(t.ch)) /\ u.got = t.got
  BY <1>1, <1>2 DEF TaskT
<1> HIDE DEF u
<1>5. t.got = <<>>
  BY <1>1 DEF TaskOK
<1>6. IdsOf(u) \subseteq Of(u.ch) /\ GotOK(u)
  BY <1>2, <1>4, <1>5 DEF IdsOf, GotIds, GotOK
<1>7. TaskOK(u)
  BY <1>4, <1>6 DEF TaskOK
<1>8. TasksT'
  BY <1>1, <1>3, <1>4, <1>7, Replaced
<1>9. Typed'
  BY <1>1, <1>8, OnlyTasks DEF LoadAnswer, Typed
<1> QED
  BY <1>1, <1>3, <1>4, <1>5, <1>7, <1>9

\* A known message is passed over.
LEMMA SkipTyped ==
  ASSUME Typed, NEW t \in tasks, Skip(t)
  PROVE  /\ Typed' /\ log' = log /\ t.kind \in {"older", "catch"} /\ Oldest(t) \in t.todo
         /\ \E u : /\ Rest(t, u) /\ GotIds(u) = GotIds(t) /\ IdsOf(u) \subseteq IdsOf(t) /\ Replace(t, u)
<1> DEFINE u == [t EXCEPT !.todo = @ \ {Oldest(t)}]
<1>1. t.kind \in {"older", "catch"} /\ t.at = "rows" /\ t.todo # {} /\ Replace(t, u) /\ log' = log /\ left' = left
  BY DEF Skip, Kind, world
<1>2. Rest(t, u) /\ GotIds(u) = GotIds(t) /\ IdsOf(u) \subseteq IdsOf(t) /\ Oldest(t) \in t.todo
  BY <1>1, SkipOK, OldestOK DEF Fetches
<1> HIDE DEF u
<1>3. TasksT'
  BY <1>1, <1>2, Replaced DEF Rest
<1>4. Typed'
  BY <1>1, <1>3, OnlyTasks DEF Skip, Typed
<1> QED
  BY <1>1, <1>2, <1>4

\* A row of a page is read.
LEMMA ReadTyped ==
  ASSUME Typed, NEW t \in tasks, t.kind \in Fetches, DecryptNext(t), Knows(t, Oldest(t)),
         UNCHANGED <<world, view, rows, cursor, held, timers, mapped, left>>
  PROVE  /\ Typed' /\ log' = log /\ Oldest(t) \in t.todo /\ t.todo \subseteq Of(t.ch)
         /\ \E u : /\ Rest(t, u) /\ GotIds(u) = GotIds(t) \cup {Oldest(t)} /\ IdsOf(u) = IdsOf(t)
                   /\ Replace(t, u)
<1>1. log \in Seq(Msg) /\ left \in Left /\ log' = log /\ LogGrows /\ left' = left /\ Ids' = Ids
  BY DEF Typed, ServerT, LogGrows, world, Ids
<1>2. t.todo # {}
  BY DEF DecryptNext
<1>3. Oldest(t) \in Ids /\ Oldest(t) \in t.todo /\ t.todo \subseteq Of(t.ch)
  BY <1>2, OldestOK
<1>4. \E u : /\ Rest(t, u) /\ GotIds(u) = GotIds(t) \cup {Oldest(t)} /\ IdsOf(u) = IdsOf(t)
             /\ Replace(t, u)
  BY <1>1, NextOK
<1>5. TasksT'
  BY <1>1, <1>4, Replaced DEF Rest
<1>6. SendsT' /\ CryptoT'
  BY <1>3, DecryptRead DEF DecryptNext
<1>7. ServerT' /\ FeedT'
  BY <1>1, FeedStays DEF world, Typed, ServerT, Lids
<1>8. RowsT'
  BY <1>1, RowsStay DEF Typed, Left
<1>9. ViewT'
  <2>1. known' \subseteq Ids
    BY <1>3 DEF Knows, Typed, ViewT
  <2> QED
    BY <1>1, <2>1 DEF Typed, ViewT, view
<1> QED
  BY <1>1, <1>3, <1>4, <1>5, <1>6, <1>7, <1>8, <1>9 DEF Typed

\* A row of the first page.
LEMMA LoadRowTyped ==
  ASSUME Typed, NEW t \in tasks, LoadRow(t)
  PROVE  /\ Typed' /\ log' = log /\ t.kind = "load" /\ Oldest(t) \in t.todo /\ t.todo \subseteq Of(t.ch)
         /\ \E u : /\ Rest(t, u) /\ GotIds(u) = GotIds(t) \cup {Oldest(t)} /\ IdsOf(u) = IdsOf(t)
                   /\ Replace(t, u)
<1>1. t.kind = "load"
  BY DEF LoadRow, Kind
<1> QED
  BY <1>1, ReadTyped DEF LoadRow, Fetches

\* A row of an older page or of a catch-up.
LEMMA NextRowTyped ==
  ASSUME Typed, NEW t \in tasks, NextRow(t)
  PROVE  /\ Typed' /\ log' = log /\ t.kind \in {"older", "catch"} /\ Oldest(t) \in t.todo /\ t.todo \subseteq Of(t.ch)
         /\ \E u : /\ Rest(t, u) /\ GotIds(u) = GotIds(t) \cup {Oldest(t)} /\ IdsOf(u) = IdsOf(t)
                   /\ Replace(t, u)
<1>1. t.kind \in {"older", "catch"}
  BY DEF NextRow, Kind
<1> QED
  BY <1>1, ReadTyped DEF NextRow, Fetches

\* The last row that a function has read is the newest.
LEMMA LastGot ==
  ASSUME Typed, NEW t \in tasks, t.kind \in Fetches, t.got # <<>>
  PROVE  /\ Last(t.got).id \in GotIds(t) /\ Last(t.got).ts = Ts(Last(t.got).id)
         /\ \A id \in GotIds(t) : id <= Last(t.got).id
         /\ Last(t.got).id \in Nat \ {0} /\ Last(t.got).id \in Of(t.ch) /\ Last(t.got).id \in Ids
         /\ Last(t.got).ts \in Nat /\ Last(t.got).ts <= 2 * Len(log) /\ Last(t.got).ts # 0
<1> DEFINE n == Len(t.got)
<1>1. t.got \in Seq(RowT) /\ GotIds(t) \subseteq Of(t.ch)
  BY GotRows
<1>2. n \in Nat /\ n \in DOMAIN t.got /\ Last(t.got) = t.got[n] /\ DOMAIN t.got = 1..n
  BY <1>1 DEF Last
<1>3. Last(t.got).id \in GotIds(t) /\ Last(t.got).ts = Ts(Last(t.got).id)
  BY <1>2, GotRows
<1>4. Last(t.got).id \in Of(t.ch) /\ Last(t.got).id \in Nat \ {0} /\ Last(t.got).id <= Len(log) /\ Len(log) \in Nat
  BY <1>1, <1>3, PageIds
<1>5. GotOK(t)
  BY DEF Typed, TasksT, TaskOK
<1>6. ASSUME NEW i \in DOMAIN t.got PROVE t.got[i].id <= Last(t.got).id
  <2>1. t.got[i].id \in Nat
    BY <1>1, PageIds, GotRows
  <2>2. CASE i = n
    BY <1>2, <2>1, <2>2, <1>4
  <2>3. CASE i # n
    <3>1. i < n
      BY <1>2, <2>3
    <3> QED
      BY <3>1, <1>2, <1>5, <2>1, <1>4 DEF GotOK
  <2> QED
    BY <2>2, <2>3
<1>7. \A id \in GotIds(t) : id <= Last(t.got).id
  BY <1>6 DEF GotIds
<1>8. Ts(Last(t.got).id) \in Nat /\ Ts(Last(t.got).id) <= 2 * Len(log) /\ Ts(Last(t.got).id) # 0
  BY <1>4 DEF Ts
<1>9. Last(t.got).id \in Ids
  BY <1>4 DEF Of
<1> QED
  BY <1>3, <1>4, <1>7, <1>8, <1>9

\* The load replaces the rows, and the cursor is at the newest.
LEMMA LoadDoneTyped ==
  ASSUME Typed, NEW t \in tasks, LoadDone(t)
  PROVE  /\ Typed' /\ log' = log /\ t.kind = "load"
         /\ rows' = rows \/ rows' = t.got
<1>1. log \in Seq(Msg) /\ left \in Left /\ log' = log /\ LogGrows /\ left' = left /\ Ids' = Ids
  BY DEF Typed, ServerT, LogGrows, LoadDone, world, Ids
<1>2. t.kind = "load" /\ t \in TaskT
  BY DEF LoadDone, Kind, Typed, TasksT
<1>3. ServerT' /\ FeedT'
  BY <1>1, FeedStays DEF LoadDone, world, Typed, ServerT, Lids
<1>4. SendsT' /\ CryptoT'
  BY SendsStay DEF LoadDone, Typed, crypto, CryptoT
<1>5. TasksT'
  BY <1>1, Ended DEF LoadDone
<1>6. CASE t.run # "on"
  <2>1. ViewT'
    BY <1>1, <1>6, ViewStays DEF LoadDone, Typed
  <2>2. RowsT' /\ rows' = rows
    BY <1>1, <1>6, RowsStay DEF LoadDone, Typed, Left
  <2> QED
    BY <1>1, <1>2, <1>3, <1>4, <1>5, <2>1, <2>2 DEF Typed
<1>7. CASE t.run = "on"
  <2>1. /\ loaded' = t.ch /\ rows' = t.got /\ more' = (Len(t.got) >= Page)
        /\ cursor' = IF t.got = <<>> THEN cursor ELSE Last(t.got).ts
        /\ chan' = chan /\ known' = known
    BY <1>7 DEF LoadDone
  <2>2. cursor' \in Nat /\ cursor' <= 2 * Len(log)
    BY <1>2, <2>1, LastGot DEF Typed, ViewT, Fetches
  <2>3. ViewT'
    BY <1>1, <1>2, <2>1, <2>2 DEF Typed, ViewT, TaskT
  <2>4. RowsT'
    BY <1>1, <1>2, <2>1, GotRows, RowsFrom DEF Fetches
  <2> QED
    BY <1>1, <1>2, <1>3, <1>4, <1>5, <2>1, <2>3, <2>4 DEF Typed
<1> QED
  BY <1>6, <1>7

\* The load fails: the list is empty.
LEMMA LoadFailsTyped ==
  ASSUME ConstantsOK, Typed, NEW t \in tasks, LoadFails(t)
  PROVE  /\ Typed' /\ log' = log /\ t.kind = "load" /\ left'.sends = left.sends
         /\ rows' = rows \/ rows' = <<>>
<1>1. log \in Seq(Msg) /\ left \in Left /\ log' = log /\ LogGrows /\ Ids' = Ids
  BY DEF Typed, ServerT, LogGrows, LoadFails, world, Ids
<1>2. t.kind = "load" /\ t \in TaskT
  BY DEF LoadFails, Kind, Typed, TasksT
<1>3. ServerT' /\ FeedT'
  BY <1>1, FeedStays DEF LoadFails, world, Typed, ServerT, Lids
<1>4. SendsT' /\ CryptoT'
  BY SendsStay DEF LoadFails, Typed, crypto, CryptoT
<1>5. TasksT'
  BY <1>1, Ended DEF LoadFails
<1>6. left' \in Left /\ left'.sends = left.sends
  BY <1>1, Spending DEF LoadFails, Mishap
<1>7. ViewT'
  BY <1>1, <1>2 DEF LoadFails, Typed, ViewT, TaskT
<1>8. RowsT' /\ (rows' = rows \/ rows' = <<>>)
  <2>1. CASE t.run # "on"
    BY <1>1, <1>6, <2>1, RowsStay DEF LoadFails, Typed, Left
  <2>2. CASE t.run = "on"
    <3>1. rows' = <<>>
      BY <2>2 DEF LoadFails
    <3>2. <<>> \in Seq(RowT) /\ DOMAIN rows' = {}
      BY <3>1
    <3> QED
      BY <3>1, <3>2 DEF RowsT
  <2> QED
    BY <2>1, <2>2
<1> QED
  BY <1>1, <1>2, <1>3, <1>4, <1>5, <1>6, <1>7, <1>8 DEF Typed

\* An older page is asked for.
LEMMA loadOlderTyped ==
  ASSUME ConstantsOK, Typed, loadOlder
  PROVE  /\ Typed' /\ log' = log /\ left'.sends = left.sends
         /\ rows # <<>> /\ 1 \in DOMAIN rows
         /\ LET page == LastPage({id \in Of(chan) : Ts(id) < rows[1].ts})
                now == IF \E t \in Kind("load") : t.run = "on" THEN "off" ELSE "on"
            IN  IF page = {} THEN tasks' = tasks
                ELSE \E u \in TaskT : /\ TaskOK(u) /\ u.kind = "older" /\ u.ch = chan /\ u.at = "rows"
                                      /\ u.run = now /\ u.todo = page /\ u.got = <<>>
                                      /\ tasks' = tasks \cup {u}
<1> DEFINE S == {id \in Of(chan) : Ts(id) < rows[1].ts}
           page == LastPage(S)
           now == IF \E t \in Kind("load") : t.run = "on" THEN "off" ELSE "on"
           u == [Task("older", chan, "rows") EXCEPT !.todo = page, !.run = now]
<1>1. log \in Seq(Msg) /\ left \in Left /\ log' = log /\ LogGrows /\ Ids' = Ids
  BY DEF Typed, ServerT, LogGrows, loadOlder, world, Ids
<1>2. left' \in Left /\ left'.sends = left.sends
  BY <1>1, Spending DEF loadOlder
<1>3. rows # <<>> /\ 1 \in DOMAIN rows /\ chan \in Channels
  <2>1. rows # <<>> /\ rows \in Seq(RowT) /\ chan \in Channels
    BY DEF loadOlder, Typed, RowsT, ViewT
  <2> QED
    BY <2>1
<1>4. page \subseteq Of(chan) /\ page \subseteq Nat
  <2>1. S \in SUBSET (1..Len(log)) /\ Len(log) \in Nat /\ S \subseteq Of(chan) /\ Of(chan) \subseteq Nat
    BY PageIds
  <2> HIDE DEF S
  <2> QED
    BY <2>1, LastPageOK
<1>5. tasks' = tasks \cup (IF page = {} THEN {} ELSE {u}) /\ more' = IsFull(page)
  BY DEF loadOlder
<1>6. now \in {"on", "off"}
  OBVIOUS
<1> HIDE DEF page, now
<1>7. Task("older", chan, "rows") \in TaskT
  BY <1>1, <1>3, TaskBegins
<1>8. /\ u \in TaskT /\ u.kind = "older" /\ u.ch = chan /\ u.at = "rows" /\ u.run = now
      /\ u.todo = page /\ u.got = <<>>
  <2>1. Task("older", chan, "rows").kind = "older" /\ Task("older", chan, "rows").ch = chan
        /\ Task("older", chan, "rows").at = "rows" /\ Task("older", chan, "rows").got = <<>>
    BY DEF Task
  <2> QED
    BY <1>4, <1>6, <1>7, <2>1 DEF TaskT
<1> HIDE DEF u
<1>9. TaskOK(u)
  <2>1. u.got = <<>> /\ DOMAIN u.got = {}
    BY <1>8
  <2>2. GotIds(u) = {}
    BY <2>1 DEF GotIds
  <2>3. IdsOf(u) \subseteq Of(u.ch)
    BY <1>4, <1>8, <2>2 DEF IdsOf
  <2>4. GotOK(u)
    BY <2>1 DEF GotOK
  <2> QED
    BY <1>8, <2>3, <2>4 DEF TaskOK
<1>10. TasksT'
  BY <1>1, <1>5, <1>8, <1>9, NewTask DEF Typed
<1>11. ServerT' /\ FeedT'
  BY <1>1, FeedStays DEF loadOlder, world, Typed, ServerT, Lids
<1>12. SendsT' /\ CryptoT'
  BY SendsStay DEF loadOlder, Typed, crypto, CryptoT
<1>13. RowsT'
  <2>1. rows' = rows
    BY DEF loadOlder
  <2> QED
    BY <1>1, <1>2, <2>1, RowsStay DEF Typed, Left
<1>14. ViewT'
  <2>1. more' \in BOOLEAN
    BY <1>5 DEF IsFull
  <2> QED
    BY <1>1, <2>1 DEF loadOlder, Typed, ViewT
<1>15. Typed'
  BY <1>2, <1>10, <1>11, <1>12, <1>13, <1>14 DEF Typed
<1>16. IF page = {} THEN tasks' = tasks
       ELSE u \in TaskT /\ TaskOK(u) /\ tasks' = tasks \cup {u}
  BY <1>5, <1>8, <1>9
<1>17. IF page = {} THEN tasks' = tasks
       ELSE \E v \in TaskT : /\ TaskOK(v) /\ v.kind = "older" /\ v.ch = chan /\ v.at = "rows"
                             /\ v.run = now /\ v.todo = page /\ v.got = <<>>
                             /\ tasks' = tasks \cup {v}
  BY <1>8, <1>16
<1> QED
  BY <1>1, <1>2, <1>3, <1>15, <1>17 DEF page, now

\* The older page is put in front of the rows.
LEMMA OlderDoneTyped ==
  ASSUME Typed, NEW t \in tasks, OlderDone(t)
  PROVE  /\ Typed' /\ log' = log /\ t.kind = "older" /\ t.todo = {}
         /\ IF t.run = "gone" THEN rows' = rows ELSE Joins(t.got, rows, rows')
         /\ Distinct(rows) => Distinct(rows')
<1>1. log \in Seq(Msg) /\ left \in Left /\ log' = log /\ LogGrows /\ left' = left /\ Ids' = Ids
  BY DEF Typed, ServerT, LogGrows, OlderDone, world, Ids
<1>2. t.kind = "older" /\ t.todo = {} /\ rows' = IF t.run = "gone" THEN rows ELSE t.got \o rows
  BY DEF OlderDone, Kind
<1>3. ServerT' /\ FeedT'
  BY <1>1, FeedStays DEF OlderDone, world, Typed, ServerT, Lids
<1>4. ViewT' /\ SendsT' /\ CryptoT'
  BY <1>1, ViewStays, SendsStay DEF OlderDone, Typed, view, crypto, CryptoT
<1>5. TasksT'
  BY <1>1, Ended DEF OlderDone
<1>6. /\ RowsT' /\ (IF t.run = "gone" THEN rows' = rows ELSE Joins(t.got, rows, rows'))
      /\ Distinct(rows) => Distinct(rows')
  <2>1. CASE t.run = "gone"
    BY <1>1, <1>2, <2>1, RowsStay DEF Typed, Left
  <2>2. CASE t.run # "gone"
    <3>1. rows \in Seq(RowT) /\ t.got \in Seq(RowT) /\ (\A i \in DOMAIN t.got : t.got[i].lid = 0)
          /\ (\A i \in DOMAIN rows : RowOK(rows[i])) /\ (\A i \in DOMAIN t.got : RowOK(t.got[i]))
      BY <1>2, GotRows DEF Typed, RowsT, Fetches
    <3>2. Joins(t.got, rows, rows') /\ (Distinct(rows) => Distinct(rows'))
      BY <1>2, <2>2, <3>1, JoinRows
    <3>3. \A i \in DOMAIN rows' : \E r : r = rows'[i] /\ RowOK(r)
      BY <3>1, <3>2 DEF Joins
    <3>4. RowsT'
      BY <1>1, <3>2, <3>3, RowsFrom DEF Joins
    <3> QED
      BY <2>2, <3>2, <3>4
  <2> QED
    BY <2>1, <2>2
<1> QED
  BY <1>1, <1>2, <1>3, <1>4, <1>5, <1>6 DEF Typed

\* A page of the catch-up is there.
LEMMA CatchAnswerTyped ==
  ASSUME ConstantsOK, Typed, NEW t \in tasks, CatchAnswer(t)
  PROVE  /\ Typed' /\ log' = log /\ t.kind = "catch" /\ t.at = "ask" /\ t.todo = {}
         /\ LET asked == {id \in Of(t.ch) : Ts(id) > t.from}
                page == FirstPage(asked)
            IN  \E u \in TaskT :
                  /\ TaskOK(u) /\ u.kind = "catch" /\ u.ch = t.ch /\ u.run = t.run
                  /\ u.todo = page /\ u.got = t.got /\ u.full = IsFull(page)
                  /\ u.at = (IF page = {} THEN "done" ELSE "rows")
                  /\ page = {} => u.from = t.from
                  /\ page # {} => Max(page) \in page /\ u.from = Ts(Max(page)) /\ \A x \in page : x <= Max(page)
                  /\ Replace(t, u)
<1> DEFINE asked == {id \in Of(t.ch) : Ts(id) > t.from}
           page == FirstPage(asked)
           from == IF page = {} THEN t.from ELSE Ts(Max(page))
           at == IF page = {} THEN "done" ELSE "rows"
           full == IsFull(page)
           u == [t EXCEPT !.at = at, !.todo = page, !.from = from, !.full = full]
<1>1. /\ t \in TaskT /\ TaskOK(t) /\ t.kind = "catch" /\ t.at = "ask" /\ log' = log /\ left' = left
      /\ t.todo = {} /\ t.from \in Nat
  BY DEF Typed, TasksT, CatchAnswer, Kind, world, TaskOK, TaskT
<1>2. Len(log) \in Nat /\ asked \in SUBSET (1..Len(log)) /\ asked \subseteq Of(t.ch) /\ Of(t.ch) \subseteq Nat \ {0}
  BY PageIds
<1>3. page \subseteq asked
  <2> HIDE DEF asked
  <2> QED
    BY <1>2, FirstPageOK
<1>4. page # {} => Max(page) \in page /\ \A x \in page : x <= Max(page)
  <2>1. page \in SUBSET (1..Len(log))
    BY <1>2, <1>3
  <2> HIDE DEF page
  <2> QED
    BY <1>2, <2>1, MaxOK
<1>5. Replace(t, u)
  BY DEF CatchAnswer
<1>6. at \in {"done", "rows"} /\ full \in BOOLEAN
  BY DEF IsFull
<1>7. page \subseteq Of(t.ch) /\ \A x \in page : x \in Nat /\ x <= Len(log) /\ 2 * x > t.from
  BY <1>2, <1>3 DEF Ts
<1> HIDE DEF page
<1>8. from \in Nat /\ from >= t.from /\ from <= 2 * Len(log) /\ (\A x \in page : Ts(x) <= from)
  <2>1. CASE page = {}
    BY <1>1, <2>1 DEF TaskOK
  <2>2. CASE page # {}
    <3>1. Max(page) \in Nat /\ Max(page) <= Len(log) /\ 2 * Max(page) > t.from /\ from = 2 * Max(page)
      BY <1>4, <1>7, <2>2 DEF Ts
    <3>2. \A x \in page : x \in Nat /\ x <= Max(page)
      BY <1>4, <1>7
    <3> QED
      BY <1>1, <1>2, <3>1, <3>2 DEF Ts
  <2> QED
    BY <2>1, <2>2
<1>13. (page = {} => from = t.from) /\ (page # {} => from = Ts(Max(page)))
  OBVIOUS
<1> HIDE DEF from, at, full
<1>9. /\ u \in TaskT /\ u.kind = "catch" /\ u.ch = t.ch /\ u.at = at /\ u.run = t.run
      /\ u.todo = page /\ u.got = t.got /\ u.from = from /\ u.full = full
  <2>1. page \in SUBSET Nat
    BY <1>7
  <2> QED
    BY <1>1, <1>6, <1>8, <2>1 DEF TaskT
<1> HIDE DEF u
<1>10. GotOK(u)
  <2>1. GotOK(t) /\ \A i \in DOMAIN t.got : Ts(t.got[i].id) <= t.from /\ t.got[i].id \in Nat
    <3>1. GotOK(t) /\ \A id \in GotIds(t) : Ts(id) <= t.from /\ id \in Of(t.ch)
      BY <1>1 DEF TaskOK, IdsOf
    <3> QED
      BY <3>1, <1>2 DEF GotIds
  <2>2. \A i \in DOMAIN t.got, x \in page : t.got[i].id < x
    BY <2>1, <1>1, <1>7 DEF Ts
  <2> QED
    BY <2>1, <2>2, <1>9 DEF GotOK
<1>11. TaskOK(u)
  <2>1. IdsOf(u) = page \cup GotIds(t) /\ GotIds(t) \subseteq IdsOf(t)
    BY <1>9 DEF IdsOf, GotIds
  <2>2. \A id \in IdsOf(u) : Ts(id) <= from
    <3>1. \A id \in GotIds(t) : Ts(id) <= t.from /\ id \in Nat
      BY <2>1, <1>1, <1>2 DEF TaskOK
    <3>2. \A id \in GotIds(t) : Ts(id) <= from
      BY <3>1, <1>1, <1>8 DEF Ts
    <3> QED
      BY <3>2, <2>1, <1>8
  <2>3. IdsOf(u) \subseteq Of(u.ch)
    BY <2>1, <1>1, <1>7, <1>9 DEF TaskOK
  <2>4. at # "rows" => page = {}
    BY DEF at
  <2> QED
    BY <2>2, <2>3, <2>4, <1>6, <1>8, <1>9, <1>10 DEF TaskOK
<1>12. TasksT'
  BY <1>1, <1>5, <1>9, <1>11, Replaced
<1>14. Typed'
  BY <1>1, <1>12, OnlyTasks DEF CatchAnswer, Typed
<1>15. \E v \in TaskT :
                  /\ TaskOK(v) /\ v.kind = "catch" /\ v.ch = t.ch /\ v.run = t.run
                  /\ v.todo = page /\ v.got = t.got /\ v.full = full
                  /\ v.at = at
                  /\ page = {} => v.from = t.from
                  /\ page # {} => Max(page) \in page /\ v.from = Ts(Max(page)) /\ \A x \in page : x <= Max(page)
                  /\ Replace(t, v)
  BY <1>4, <1>5, <1>9, <1>11, <1>13
<1> HIDE DEF asked
<1> QED
  BY <1>1, <1>14, <1>15 DEF page, at, full, asked

\* The catch-up goes on to the next page.
LEMMA CatchPageTyped ==
  ASSUME Typed, NEW t \in tasks, CatchPage(t)
  PROVE  /\ Typed' /\ log' = log /\ t.kind = "catch" /\ t.at = "rows" /\ t.todo = {}
         /\ \E u \in TaskT :
              /\ TaskOK(u) /\ u.kind = "catch" /\ u.ch = t.ch /\ u.run = t.run /\ u.from = t.from
              /\ u.todo = {} /\ u.got = t.got /\ u.full = t.full
              /\ u.at = (IF t.full THEN "ask" ELSE "done")
              /\ Replace(t, u)
<1> DEFINE at == IF t.full THEN "ask" ELSE "done"
           u == [t EXCEPT !.at = at]
<1>1. /\ t \in TaskT /\ TaskOK(t) /\ t.kind = "catch" /\ t.at = "rows" /\ t.todo = {} /\ log' = log /\ left' = left
      /\ Replace(t, u)
  BY DEF Typed, TasksT, CatchPage, Kind, world
<1>2. at \in {"ask", "done"}
  OBVIOUS
<1> HIDE DEF at
<1>3. /\ u \in TaskT /\ u.kind = "catch" /\ u.ch = t.ch /\ u.at = at /\ u.run = t.run
      /\ u.todo = {} /\ u.got = t.got /\ u.from = t.from /\ u.full = t.full
  BY <1>1, <1>2 DEF TaskT
<1> HIDE DEF u
<1>4. IdsOf(u) = IdsOf(t) /\ GotOK(u)
  BY <1>1, <1>3 DEF IdsOf, GotIds, GotOK, TaskOK
<1>5. TaskOK(u)
  BY <1>1, <1>2, <1>3, <1>4 DEF TaskOK
<1>6. TasksT'
  BY <1>1, <1>3, <1>5, Replaced
<1>7. Typed'
  BY <1>1, <1>6, OnlyTasks DEF CatchPage, Typed
<1> QED
  BY <1>1, <1>3, <1>5, <1>7 DEF at

\* The catch-up is merged into the rows, and moves the cursor.
LEMMA CatchDoneTyped ==
  ASSUME Typed, NEW t \in tasks, CatchDone(t)
  PROVE  /\ Typed' /\ log' = log /\ t.kind = "catch" /\ t.at = "done" /\ t.todo = {}
         /\ IF t.run = "gone" \/ t.got = <<>> THEN rows' = rows /\ cursor' = cursor /\ hurt' = hurt
            ELSE Joins(rows, t.got, rows') /\ cursor' = Last(t.got).ts
         /\ Distinct(rows) => Distinct(rows')
<1>1. log \in Seq(Msg) /\ left \in Left /\ log' = log /\ LogGrows /\ left' = left /\ Ids' = Ids
  BY DEF Typed, ServerT, LogGrows, CatchDone, world, Ids
<1>2. t.kind = "catch" /\ t.at = "done" /\ t.todo = {}
  BY DEF CatchDone, Kind, Typed, TasksT, TaskOK
<1>3. ServerT' /\ FeedT'
  BY <1>1, FeedStays DEF CatchDone, world, Typed, ServerT, Lids
<1>4. SendsT' /\ CryptoT'
  BY SendsStay DEF CatchDone, Typed, crypto, CryptoT
<1>5. TasksT'
  BY <1>1, Ended DEF CatchDone
<1>6. CASE t.run = "gone" \/ t.got = <<>>
  <2>1. rows' = rows /\ cursor' = cursor /\ hurt' = hurt
    BY <1>6 DEF CatchDone
  <2>2. ViewT'
    BY <1>1, <2>1, ViewStays DEF CatchDone, Typed, view
  <2>3. RowsT'
    BY <1>1, <2>1, RowsStay DEF Typed, Left
  <2>4. Distinct(rows) => Distinct(rows')
    BY <2>1
  <2> QED
    BY <1>1, <1>2, <1>3, <1>4, <1>5, <1>6, <2>1, <2>2, <2>3, <2>4 DEF Typed
<1>7. CASE ~(t.run = "gone" \/ t.got = <<>>)
  <2>1. rows' = mergeCatchupMessages(rows, t.got) /\ cursor' = Last(t.got).ts
    BY <1>7 DEF CatchDone
  <2>2. RowsT' /\ Joins(rows, t.got, rows') /\ (Distinct(rows) => Distinct(rows'))
    BY <1>1, <1>2, <1>7, <2>1, MergeOK
  <2>3. cursor' \in Nat /\ cursor' <= 2 * Len(log)
    BY <1>2, <1>7, <2>1, LastGot DEF Fetches
  <2>4. ViewT'
    BY <1>1, <2>3 DEF CatchDone, view, Typed, ViewT
  <2> QED
    BY <1>1, <1>2, <1>3, <1>4, <1>5, <1>7, <2>1, <2>2, <2>4 DEF Typed
<1> QED
  BY <1>6, <1>7

\* The catch-up fails: its rows are dropped.
LEMMA CatchFailsTyped ==
  ASSUME ConstantsOK, Typed, NEW t \in tasks, CatchFails(t)
  PROVE  Typed' /\ log' = log /\ t.kind = "catch" /\ left'.sends = left.sends
<1>1. log \in Seq(Msg) /\ left \in Left /\ log' = log /\ t.kind = "catch"
  BY DEF Typed, ServerT, CatchFails, world, Kind
<1>2. left' \in Left /\ left'.sends = left.sends
  BY <1>1, Spending DEF CatchFails, Mishap
<1>3. TasksT'
  BY <1>1, Ended DEF CatchFails
<1>4. Typed'
  BY <1>2, <1>3, OnlyTasks DEF CatchFails
<1> QED
  BY <1>1, <1>2, <1>4

-----------------------------------------------------------------------------
(* Opening a channel.                                                        *)

\* A function keeps its shape when the view is closed, or, if it reads a list,
\* when the channel is changed.
LEMMA RunChanges ==
  ASSUME Typed, NEW t \in tasks, NEW run \in {"on", "off", "gone"},
         run = "gone" \/ run = t.run \/ t.kind \in Fetches
  PROVE  LET u == [t EXCEPT !.run = run]
         IN  /\ u \in TaskT /\ TaskOK(u) /\ u.kind = t.kind /\ u.ch = t.ch /\ u.at = t.at /\ u.run = run
             /\ u.todo = t.todo /\ u.got = t.got /\ u.from = t.from /\ u.full = t.full
<1> DEFINE u == [t EXCEPT !.run = run]
<1>1. t \in TaskT /\ TaskOK(t)
  BY DEF Typed, TasksT
<1>2. /\ u \in TaskT /\ u.kind = t.kind /\ u.ch = t.ch /\ u.at = t.at /\ u.run = run
      /\ u.todo = t.todo /\ u.got = t.got /\ u.from = t.from /\ u.full = t.full
  BY <1>1 DEF TaskT
<1> HIDE DEF u
<1>3. IdsOf(u) = IdsOf(t) /\ GotOK(u)
  BY <1>1, <1>2 DEF IdsOf, GotIds, GotOK, TaskOK
<1>4. TaskOK(u)
  <2>1. CASE t.kind \in Fetches
    BY <1>1, <1>2, <1>3, <2>1 DEF TaskOK, Fetches
  <2>2. CASE t.kind \notin Fetches
    <3>1. u.run # "off"
      <4>1. run # "off" \/ run = t.run
        BY <2>2
      <4>2. t.kind \in {"live", "send"}
        BY <1>1, <2>2 DEF TaskT, Fetches
      <4> QED
        BY <4>1, <4>2, <1>1, <1>2 DEF TaskOK
    <3> QED
      BY <1>1, <1>2, <1>3, <2>2, <3>1 DEF TaskOK, Fetches
  <2> QED
    BY <2>1, <2>2
<1> QED
  BY <1>2, <1>4 DEF u

\* The load that opening a channel begins.
LEMMA LoadBegins ==
  ASSUME left \in Left, NEW ch \in Channels
  PROVE  LET u == Task("load", ch, "ask")
         IN  /\ u \in TaskT /\ TaskOK(u) /\ u.kind = "load" /\ u.ch = ch /\ u.at = "ask" /\ u.run = "on"
             /\ u.todo = {} /\ u.got = <<>>
<1> DEFINE u == Task("load", ch, "ask")
<1>1. u \in TaskT
  BY TaskBegins
<1>2. u.kind = "load" /\ u.ch = ch /\ u.at = "ask" /\ u.run = "on" /\ u.todo = {} /\ u.got = <<>>
  BY DEF Task
<1> HIDE DEF u
<1>3. TaskOK(u)
  BY <1>2 DEF TaskOK, GotOK, IdsOf, GotIds
<1> QED
  BY <1>1, <1>2, <1>3 DEF u

\* A function of the channel that is left.
LeftBehind(t) ==
  IF t.kind \in Fetches /\ t.run = "on" THEN [t EXCEPT !.run = "off"] ELSE t

\* Another channel is opened.
LEMMA SwitchTyped ==
  ASSUME ConstantsOK, Typed, NEW ch \in Channels, Switch(ch)
  PROVE  /\ Typed' /\ log' = log /\ left'.sends = left.sends
         /\ tasks' = {LeftBehind(t) : t \in tasks} \cup {Task("load", ch, "ask")}
         /\ \A t \in tasks : LET u == LeftBehind(t)
              IN  /\ u.kind = t.kind /\ u.ch = t.ch /\ u.at = t.at
                  /\ u.run = (IF t.kind \in Fetches /\ t.run = "on" THEN "off" ELSE t.run)
                  /\ u.todo = t.todo /\ u.got = t.got /\ u.from = t.from /\ u.full = t.full
<1>1. log \in Seq(Msg) /\ left \in Left /\ log' = log /\ LogGrows /\ Ids' = Ids
  BY DEF Typed, ServerT, LogGrows, Switch, world, Ids
<1>2. left' \in Left /\ left'.sends = left.sends
  BY <1>1, Spending DEF Switch
<1>3. tasks' = {LeftBehind(t) : t \in tasks} \cup {Task("load", ch, "ask")}
  BY DEF Switch, LeftBehind, Fetches
<1>4. \A t \in tasks : LET u == LeftBehind(t)
              IN  /\ u \in TaskT /\ TaskOK(u) /\ u.kind = t.kind /\ u.ch = t.ch /\ u.at = t.at
                  /\ u.run = (IF t.kind \in Fetches /\ t.run = "on" THEN "off" ELSE t.run)
                  /\ u.todo = t.todo /\ u.got = t.got /\ u.from = t.from /\ u.full = t.full
  <2> TAKE t \in tasks
  <2>1. CASE t.kind \in Fetches /\ t.run = "on"
    <3> DEFINE u == [t EXCEPT !.run = "off"]
    <3>1. LeftBehind(t) = u
      BY <2>1 DEF LeftBehind
    <3>2. /\ u \in TaskT /\ TaskOK(u) /\ u.kind = t.kind /\ u.ch = t.ch /\ u.at = t.at /\ u.run = "off"
          /\ u.todo = t.todo /\ u.got = t.got /\ u.from = t.from /\ u.full = t.full
      BY <2>1, RunChanges
    <3> HIDE DEF u
    <3> QED
      BY <2>1, <3>1, <3>2
  <2>2. CASE ~(t.kind \in Fetches /\ t.run = "on")
    <3>1. LeftBehind(t) = t /\ t \in TaskT /\ TaskOK(t)
      BY <2>2 DEF LeftBehind, Typed, TasksT
    <3> QED
      BY <2>2, <3>1
  <2> QED
    BY <2>1, <2>2
<1>5. TasksT'
  <2> DEFINE n == Task("load", ch, "ask")
  <2>1. n \in TaskT /\ TaskOK(n)
    BY <1>1, LoadBegins
  <2> HIDE DEF n
  <2>2. \A u \in tasks' : u \in TaskT /\ TaskOK(u)
    BY <1>3, <1>4, <2>1 DEF n
  <2>3. \A u \in tasks' : TaskOK(u)'
    BY <1>1, <2>2, TaskStays
  <2> QED
    BY <2>2, <2>3 DEF TasksT
<1>6. ServerT' /\ FeedT'
  BY <1>1, FeedStays DEF Switch, world, Typed, ServerT, Lids
<1>7. SendsT' /\ CryptoT'
  BY SendsStay DEF Switch, Typed, crypto, CryptoT
<1>8. RowsT'
  BY <1>1, <1>2, RowsStay DEF Switch, Typed, Left
<1>9. ViewT'
  BY <1>1, PageIds DEF Switch, FreshList, Typed, ViewT
<1> QED
  BY <1>1, <1>2, <1>3, <1>4, <1>5, <1>6, <1>7, <1>8, <1>9 DEF Typed

\* The view is closed and opened again.
LEMMA ReopenTyped ==
  ASSUME ConstantsOK, Typed, NEW ch \in Channels, Reopen(ch)
  PROVE  /\ Typed' /\ log' = log /\ rows' = <<>>
         /\ tasks' = {[t EXCEPT !.run = "gone"] : t \in tasks} \cup {Task("load", ch, "ask")}
<1>1. log \in Seq(Msg) /\ left \in Left /\ log' = log /\ LogGrows /\ Ids' = Ids
  BY DEF Typed, ServerT, LogGrows, Reopen, world, Ids
<1>2. left' \in Left
  BY <1>1, Spending DEF Reopen
<1>3. tasks' = {[t EXCEPT !.run = "gone"] : t \in tasks} \cup {Task("load", ch, "ask")}
  BY DEF Reopen
<1>4. \A t \in tasks : LET u == [t EXCEPT !.run = "gone"] IN u \in TaskT /\ TaskOK(u)
  BY RunChanges
<1>5. TasksT'
  <2> DEFINE n == Task("load", ch, "ask")
  <2>1. n \in TaskT /\ TaskOK(n)
    BY <1>1, LoadBegins
  <2> HIDE DEF n
  <2>2. \A u \in tasks' : u \in TaskT /\ TaskOK(u)
    BY <1>3, <1>4, <2>1 DEF n
  <2>3. \A u \in tasks' : TaskOK(u)'
    BY <1>1, <2>2, TaskStays
  <2> QED
    BY <2>2, <2>3 DEF TasksT
<1>6. ServerT' /\ FeedT'
  BY <1>1, FeedStays DEF Reopen, world, Typed, ServerT, Lids
<1>7. CryptoT'
  BY DEF Reopen, Typed, crypto, CryptoT
<1>8. SendsT'
  <2>1. timers' = [k \in Lids |-> 0] /\ held' = {} /\ mapped' = {} /\ reg' = reg
    BY DEF Reopen
  <2> QED
    BY <2>1 DEF Typed, SendsT, Lids
<1>9. RowsT' /\ rows' = <<>>
  <2>1. rows' = <<>>
    BY DEF Reopen
  <2>2. <<>> \in Seq(RowT) /\ DOMAIN rows' = {}
    BY <2>1
  <2> QED
    BY <2>1, <2>2 DEF RowsT
<1>10. ViewT'
  BY <1>1, PageIds DEF Reopen, FreshList, Typed, ViewT
<1> QED
  BY <1>1, <1>2, <1>3, <1>5, <1>6, <1>7, <1>8, <1>9, <1>10 DEF Typed

\* The first state is well shaped.
LEMMA InitTyped ==
  ASSUME ConstantsOK, Init
  PROVE  Typed
<1>1. log \in Seq([ch : Channels, from : Senders, text : Nat])
  BY DEF Init, ConstantsOK
<1>2. log \in Seq(Msg) /\ Len(log) \in Nat
  <2> DEFINE M == [ch : Channels, from : Senders, text : Nat]
  <2>1. M \subseteq Msg
    BY DEF Msg
  <2> HIDE DEF M
  <2>2. log \in Seq(M)
    BY <1>1 DEF M
  <2>3. Len(log) \in Nat /\ DOMAIN log = 1..Len(log) /\ log = [i \in 1..Len(log) |-> log[i]]
    BY <2>2
  <2>4. \A i \in 1..Len(log) : log[i] \in Msg
    BY <2>1, <2>2, <2>3
  <2> QED
    BY <2>3, <2>4
<1>3. left \in Left
  BY DEF Init, ConstantsOK, Left
<1>4. ServerT /\ FeedT /\ ViewT
  BY <1>2 DEF Init, ServerT, FeedT, ViewT, Ids
<1>5. SendsT /\ RowsT
  BY DEF Init, SendsT, RowsT
<1>6. CryptoT
  BY DEF Init, CryptoT
<1>7. TasksT
  <2> DEFINE n == Task("load", chan, "ask")
  <2>1. n \in TaskT /\ TaskOK(n)
    BY <1>3, <1>4, LoadBegins DEF ViewT
  <2>2. tasks = {n}
    BY DEF Init
  <2> HIDE DEF n
  <2> QED
    BY <2>1, <2>2 DEF TasksT
<1> QED
  BY <1>2, <1>3, <1>4, <1>5, <1>6, <1>7 DEF Typed

-----------------------------------------------------------------------------
(* Every step keeps the shape.                                               *)

\* A step that changes nothing.
LEMMA StutterTyped ==
  ASSUME Typed, UNCHANGED vars
  PROVE  Typed' /\ log' = log
<1>1. UNCHANGED <<world, view, rows, known, cursor, sends, crypto, tasks>> /\ left' = left
  BY DEF vars
<1>2. log \in Seq(Msg) /\ log' = log /\ LogGrows /\ left \in Left
  BY <1>1 DEF Typed, ServerT, LogGrows, world
<1>3. TasksT'
  BY <1>1, <1>2, TasksStay DEF Typed
<1> QED
  BY <1>1, <1>2, <1>3, OnlyTasks

\* The steps of the functions under way.
LEMMA HandlesTyped ==
  ASSUME ConstantsOK, Typed, NEW t \in tasks, Handles(t)
  PROVE  Typed' /\ log' = log
BY LiveDoneTyped, SentTyped, SendFailsTyped, LoadAnswerTyped, LoadRowTyped, LoadDoneTyped, LoadFailsTyped,
   SkipTyped, NextRowTyped, OlderDoneTyped, CatchAnswerTyped, CatchPageTyped, CatchDoneTyped, CatchFailsTyped
   DEF Handles

\* The steps that take a frame.
LEMMA DeliverTyped ==
  ASSUME Typed, Deliver
  PROVE  Typed' /\ log' = log
BY IgnoreTyped, onMessageNewTyped, OwnEchoTyped, onSendAckTyped, onErrorTyped DEF Deliver

\* Every step keeps the shape.
LEMMA NextTyped ==
  ASSUME ConstantsOK, Typed, [Next]_vars
  PROVE  Typed' /\ LogGrows
<1>1. CASE \E ch \in Channels, from \in Senders : Post(ch, from)
  BY <1>1, PostTyped
<1>2. CASE \E m \in sent : ServerTakes(m) \/ ServerRejects(m)
  BY <1>2, ServerTakesTyped, RejectsTyped DEF LogGrows
<1>3. CASE Drop \/ Subscribe \/ Reconnected \/ NewClient
  BY <1>3, DropTyped, SubscribeTyped, ReconnectedTyped, NewClientTyped DEF LogGrows
<1>4. CASE Deliver
  BY <1>4, DeliverTyped DEF LogGrows
<1>5. CASE send
  BY <1>5, sendTyped DEF LogGrows
<1>6. CASE \E k \in Lids : retry(k) \/ Watchdog(k)
  BY <1>6, retryTyped, WatchdogTyped DEF LogGrows
<1>7. CASE loadOlder
  BY <1>7, loadOlderTyped DEF LogGrows
<1>8. CASE \E t \in tasks : Handles(t)
  BY <1>8, HandlesTyped DEF LogGrows
<1>9. CASE \E ch \in Channels : Switch(ch) \/ Reopen(ch)
  BY <1>9, SwitchTyped, ReopenTyped DEF LogGrows
<1>10. CASE UNCHANGED vars
  BY <1>10, StutterTyped DEF LogGrows
<1> QED
  BY <1>1, <1>2, <1>3, <1>4, <1>5, <1>6, <1>7, <1>8, <1>9, <1>10 DEF Next

-----------------------------------------------------------------------------
(* A pending row has a send under way or a watchdog.                         *)

\* A watchdog runs for send k, or its encryption is under way.
Watched(k) == timers[k] > 0 \/ \E t \in tasks : t.kind = "send" /\ t.from = k /\ t.run = "on"
Pends(i) == i \in DOMAIN rows /\ rows[i].st = "pending"
\* The invariant: no two rows are of the same send, and a pending one is watched.
Watch == Distinct(rows) /\ \A i \in DOMAIN rows : rows[i].st = "pending" => Watched(rows[i].lid)

\* The sends under way go on.
SendsGoOn ==
  \A t \in tasks : t.kind = "send" /\ t.run = "on" =>
    \E u \in tasks' : u.kind = "send" /\ u.run = "on" /\ u.from = t.from

\* A send stays watched while its watchdog or its encryption goes on.
LEMMA StillWatched ==
  ASSUME SendsGoOn, NEW k, timers'[k] >= timers[k], timers[k] \in Nat, timers'[k] \in Nat, Watched(k)
  PROVE  Watched(k)'
<1>1. CASE timers[k] > 0
  BY <1>1 DEF Watched
<1>2. CASE \E t \in tasks : t.kind = "send" /\ t.from = k /\ t.run = "on"
  BY <1>2 DEF Watched, SendsGoOn
<1> QED
  BY <1>1, <1>2 DEF Watched

\* A pending row is of an own send that is not confirmed.
LEMMA PendingRow ==
  ASSUME Typed, NEW i \in DOMAIN rows, rows[i].st = "pending"
  PROVE  rows[i].id = 0 /\ rows[i].lid \in Lids /\ timers[rows[i].lid] \in Nat
<1>1. RowOK(rows[i])
  BY DEF Typed, RowsT
<1>2. rows[i].id = 0 /\ rows[i].lid \in Lids
  BY <1>1 DEF RowOK
<1> QED
  BY <1>2 DEF Typed, SendsT

\* The pending rows are among those of before.
LEMMA WatchKept ==
  ASSUME Watch, Typed', Distinct(rows'),
         \A k \in Lids, i \in DOMAIN rows' : rows'[i].st = "pending" /\ rows'[i].lid = k =>
           /\ \E j \in DOMAIN rows : rows[j].st = "pending" /\ rows[j].lid = k
           /\ Watched(k) => Watched(k)'
  PROVE  Watch'
<1>1. ASSUME NEW i \in DOMAIN rows', rows'[i].st = "pending", NEW k, k = rows'[i].lid PROVE Watched(k)'
  <2>0. k \in Lids
    <3>1. (RowsT)'
      BY DEF Typed
    <3>2. \A q : q = rows'[i] => RowOK(q)'
      BY <3>1, <1>1 DEF RowsT
    <3> QED
      BY <3>2, <1>1 DEF RowOK, Lids
  <2>1. PICK j \in DOMAIN rows : rows[j].st = "pending" /\ rows[j].lid = k
    BY <2>0, <1>1
  <2>2. Watched(k)
    BY <2>1 DEF Watch
  <2> QED
    BY <2>0, <2>2, <1>1
<1> QED
  BY <1>1 DEF Watch

\* A step that changes neither the rows nor the watchdogs.
LEMMA WatchStays ==
  ASSUME Typed, Typed', Watch, SendsGoOn, rows' = rows, timers' = timers
  PROVE  Watch'
<1>1. ASSUME NEW k \in Lids PROVE Watched(k) => Watched(k)'
  BY StillWatched DEF Typed, SendsT
<1>2. Distinct(rows')
  BY DEF Watch
<1> QED
  BY <1>1, <1>2, WatchKept

\* A step that keeps the sends and the watchdogs, and adds no pending row.
LEMMA WatchShrinks ==
  ASSUME Typed, Typed', Watch, SendsGoOn, timers' = timers, Distinct(rows'),
         \A i \in DOMAIN rows' : rows'[i].st = "pending" =>
           \E j \in DOMAIN rows : rows[j].st = "pending" /\ rows[j].lid = rows'[i].lid
  PROVE  Watch'
<1>1. ASSUME NEW k \in Lids PROVE Watched(k) => Watched(k)'
  BY StillWatched DEF Typed, SendsT
<1> QED
  BY <1>1, WatchKept

\* The end of a function that is no send leaves the sends alone.
LEMMA OthersGoOn ==
  ASSUME NEW t, t.kind # "send", tasks \ {t} \subseteq tasks'
  PROVE  SendsGoOn
BY DEF SendsGoOn

\* So does a step that only begins functions.
LEMMA AllGoOn ==
  ASSUME tasks \subseteq tasks'
  PROVE  SendsGoOn
BY DEF SendsGoOn

\* Rows that are restamped, or confirmed, are of the same sends.
LEMMA StillDistinct ==
  ASSUME Distinct(rows), Restamped \/ \E hits, id : ConfirmedAt(hits, id)
  PROVE  Distinct(rows')
<1>1. CASE Restamped
  BY <1>1 DEF Restamped, Distinct
<1>2. ASSUME NEW hits, NEW id, ConfirmedAt(hits, id) PROVE Distinct(rows')
  <2>1. DOMAIN rows' = DOMAIN rows /\ \A i \in DOMAIN rows : rows'[i].lid = rows[i].lid
    BY <1>2 DEF ConfirmedAt
  <2> QED
    BY <2>1 DEF Distinct
<1> QED
  BY <1>1, <1>2

\* The watchdog that is cleared is that of the row that is confirmed.
LEMMA WatchConfirmed ==
  ASSUME Typed, Typed', Watch, NEW hits, NEW id, ConfirmedAt(hits, id), NEW k, ClearTimer(k),
         \A i \in DOMAIN rows : rows[i].st = "pending" /\ rows[i].lid = k => i \in hits,
         tasks' = tasks
  PROVE  Watch'
<1>1. Distinct(rows')
  BY StillDistinct DEF Watch
<1>2. \A i \in DOMAIN rows' : rows'[i].st = "pending" => rows'[i] = rows[i] /\ rows'[i].lid # k /\ i \in DOMAIN rows
  BY DEF ConfirmedAt
<1>3. ASSUME NEW j \in Lids, j # k PROVE Watched(j) => Watched(j)'
  <2>1. timers'[j] = timers[j] /\ timers[j] \in Nat
    <3>1. timers \in [Lids -> Nat]
      BY DEF Typed, SendsT
    <3> QED
      BY <3>1, <1>3 DEF ClearTimer
  <2> QED
    BY <2>1 DEF Watched
<1> QED
  BY <1>1, <1>2, <1>3, WatchKept

\* The reconnection fails what is pending.
LEMMA WatchReconnected ==
  ASSUME Typed, Watch, Reconnected
  PROVE  Watch'
<1>1. Typed' /\ Restamped
  BY ReconnectedTyped
<1>2. PICK late : rows' = FailLids(late)
  BY DEF Reconnected
<1>3. RowsT /\ Ids' = Ids /\ left'.sends = left.sends
  BY DEF Typed, Reconnected, Ids
<1>4. \A i \in DOMAIN rows : rows'[i].st = "pending" => rows[i].st = "pending"
  BY <1>2, <1>3, FailsOK
<1>5. SendsGoOn /\ timers' = timers
  BY AllGoOn DEF Reconnected, sends
<1>6. \A i \in DOMAIN rows' : rows'[i].st = "pending" =>
           \E j \in DOMAIN rows : rows[j].st = "pending" /\ rows[j].lid = rows'[i].lid
  BY <1>1, <1>4 DEF Restamped
<1> QED
  BY <1>1, <1>5, <1>6, StillDistinct, WatchShrinks DEF Watch

\* The echo confirms the row whose watchdog it clears.
LEMMA WatchEcho ==
  ASSUME Typed, Watch, OwnEcho
  PROVE  Watch'
<1>1. /\ Typed' /\ ConfirmedAt(FirstPending, feed[1].id) /\ FirstPending \subseteq DOMAIN rows
      /\ FirstPending = {} => timers' = timers
      /\ \A i \in FirstPending : ClearTimer(rows[i].lid)
  BY OwnEchoTyped
<1>2. tasks' = tasks
  BY DEF OwnEcho
<1>3. CASE FirstPending = {}
  <2>1. \A i \in DOMAIN rows' : rows'[i] = rows[i] /\ i \in DOMAIN rows
    BY <1>1, <1>3 DEF ConfirmedAt
  <2> QED
    BY <1>1, <1>2, <1>3, <2>1, AllGoOn, StillDistinct, WatchShrinks DEF Watch
<1>4. CASE FirstPending # {}
  <2>1. PICK i \in FirstPending : ClearTimer(rows[i].lid)
    BY <1>1, <1>4
  <2>2. i \in DOMAIN rows /\ rows[i].lid \in Lids /\ rows[i].lid # 0
    BY <1>1, FirstPendingOK DEF Typed, Lids
  <2>3. \A j \in DOMAIN rows : rows[j].lid = rows[i].lid => j = i
    BY <2>2 DEF Watch, Distinct
  <2>4. \A j \in DOMAIN rows : rows[j].st = "pending" /\ rows[j].lid = rows[i].lid => j \in FirstPending
    BY <2>3
  <2> HIDE DEF FirstPending
  <2> QED
    BY <1>1, <1>2, <2>1, <2>4, WatchConfirmed
<1> QED
  BY <1>3, <1>4

\* So does the acknowledgement.
LEMMA WatchAck ==
  ASSUME Typed, Watch, onSendAck
  PROVE  Watch'
<1>1. /\ Typed' /\ ConfirmedAt(Unconfirmed(feed[1].lid), feed[1].id)
      /\ ClearTimer(feed[1].lid)
  BY onSendAckTyped
<1>2. tasks' = tasks
  BY DEF onSendAck
<1>3. \A i \in DOMAIN rows : rows[i].st = "pending" /\ rows[i].lid = feed[1].lid => i \in Unconfirmed(feed[1].lid)
  BY PendingRow DEF Unconfirmed
<1> QED
  BY <1>1, <1>2, <1>3, WatchConfirmed

\* Taking a frame.
LEMMA WatchDeliver ==
  ASSUME Typed, Watch, Deliver
  PROVE  Watch'
<1>1. CASE IgnoreFrame
  BY <1>1, IgnoreTyped, AllGoOn, WatchStays DEF IgnoreFrame, sends
<1>2. CASE onMessageNew
  BY <1>2, onMessageNewTyped, AllGoOn, WatchStays DEF onMessageNew, sends
<1>3. CASE onError
  <2>1. Typed' /\ Restamped /\ \A i \in DOMAIN rows : rows'[i].st # "pending"
    BY <1>3, onErrorTyped
  <2>2. SendsGoOn /\ timers' = timers
    BY <1>3, AllGoOn DEF onError, sends
  <2>3. \A i \in DOMAIN rows' : rows'[i].st # "pending"
    BY <2>1 DEF Restamped
  <2> QED
    BY <2>1, <2>2, <2>3, StillDistinct, WatchShrinks DEF Watch
<1> QED
  BY <1>1, <1>2, <1>3, WatchEcho, WatchAck DEF Deliver

\* The new row is of a new send, and its encryption begins.
LEMMA WatchSend ==
  ASSUME ConstantsOK, Typed, Watch, send
  PROVE  Watch'
<1> DEFINE k == left.sends
           o == Optimistic(k)
           n == Len(rows)
<1>1. /\ Typed' /\ k \in Lids /\ rows' = Append(rows, o) /\ o \in RowT
      /\ \E t \in TaskT : t.kind = "send" /\ t.run = "on" /\ t.from = k /\ tasks' = tasks \cup {t}
  BY sendTyped
<1>2. o.lid = k
  BY DEF Optimistic
<1>3. rows \in Seq(RowT) /\ \A i \in DOMAIN rows : rows[i].lid # k
  <2>1. rows \in Seq(RowT) /\ \A i \in DOMAIN rows : RowOK(rows[i])
    BY DEF Typed, RowsT
  <2>2. k \in Nat /\ k # 0
    BY <1>1 DEF Lids
  <2>3. \A i \in DOMAIN rows : rows[i].lid # 0 => rows[i].lid \in Nat /\ rows[i].lid > k
    BY <2>1 DEF RowOK, Lids
  <2> QED
    BY <2>1, <2>2, <2>3
<1> HIDE DEF o
<1>4. /\ n \in Nat /\ DOMAIN rows = 1..n /\ DOMAIN rows' = 1..(n + 1)
      /\ (\A i \in 1..n : rows'[i] = rows[i]) /\ rows'[n + 1] = o
  BY <1>1, <1>3
<1>9. \A i \in 1..(n + 1) : i \in 1..n \/ i = n + 1
  BY <1>4
<1> HIDE DEF n
<1>5. Distinct(rows')
  BY <1>2, <1>3, <1>4, <1>9 DEF Distinct, Watch
<1>6. tasks \subseteq tasks' /\ timers' = timers
  BY <1>1 DEF send
<1>7. ASSUME NEW i \in DOMAIN rows', rows'[i].st = "pending", NEW j, j = rows'[i].lid PROVE Watched(j)'
  <2>1. CASE i = n + 1
    <3>1. j = k
      BY <2>1, <1>2, <1>4, <1>7
    <3>2. \E t \in tasks' : t.kind = "send" /\ t.run = "on" /\ t.from = j
      BY <1>1, <3>1
    <3> QED
      BY <3>2 DEF Watched
  <2>2. CASE i \in 1..n
    <3>1. i \in DOMAIN rows /\ rows[i].st = "pending" /\ j = rows[i].lid
      BY <2>2, <1>4, <1>7
    <3>2. Watched(j)
      BY <3>1 DEF Watch
    <3>3. timers[j] \in Nat
      BY <3>1, PendingRow
    <3> QED
      BY <3>2, <3>3, <1>6, AllGoOn, StillWatched
  <2> QED
    BY <2>1, <2>2, <1>4, <1>9, <1>7
<1> QED
  BY <1>5, <1>7 DEF Watch

\* So does the encryption of a row that is tried again.
LEMMA WatchRetry ==
  ASSUME ConstantsOK, Typed, Watch, NEW k \in Lids, retry(k)
  PROVE  Watch'
<1>1. /\ Typed' /\ Restamped
      /\ \A i \in DOMAIN rows : rows'[i].st = "pending" => rows[i].st = "pending" \/ rows[i].lid = k
      /\ \E t \in TaskT : t.kind = "send" /\ t.run = "on" /\ t.from = k /\ tasks' = tasks \cup {t}
  BY retryTyped
<1>2. Distinct(rows')
  BY <1>1, StillDistinct DEF Watch
<1>3. tasks \subseteq tasks' /\ timers' = timers
  BY <1>1 DEF retry
<1>4. ASSUME NEW i \in DOMAIN rows', rows'[i].st = "pending", NEW j, j = rows'[i].lid PROVE Watched(j)'
  <2>0. i \in DOMAIN rows /\ j = rows[i].lid
    BY <1>1, <1>4 DEF Restamped
  <2>1. CASE j = k
    <3>1. \E t \in tasks' : t.kind = "send" /\ t.run = "on" /\ t.from = j
      BY <1>1, <2>1
    <3> QED
      BY <3>1 DEF Watched
  <2>2. CASE j # k
    <3>1. rows[i].st = "pending"
      BY <2>0, <2>2, <1>1, <1>4
    <3>2. Watched(j) /\ timers[j] \in Nat
      BY <2>0, <3>1, PendingRow DEF Watch
    <3> QED
      BY <3>2, <1>3, AllGoOn, StillWatched
  <2> QED
    BY <2>1, <2>2
<1> QED
  BY <1>2, <1>4 DEF Watch

\* The encryption ends and the watchdog is armed.
LEMMA WatchSent ==
  ASSUME Typed, Watch, NEW t \in tasks, Sent(t)
  PROVE  Watch'
<1>1. /\ Typed' /\ t.from \in Lids /\ (\A k \in Lids : timers'[k] >= timers[k])
      /\ t.run = "on" => timers'[t.from] > 0
  BY SentTyped
<1>2. rows' = rows /\ tasks' = tasks \ {t}
  BY DEF Sent, Ends
<1>3. ASSUME NEW k \in Lids, Watched(k) PROVE Watched(k)'
  <2>1. timers[k] \in Nat /\ timers'[k] \in Nat /\ timers'[k] >= timers[k]
    BY <1>1 DEF Typed, SendsT, Lids
  <2>2. CASE timers[k] > 0
    BY <2>1, <2>2 DEF Watched
  <2>3. ASSUME NEW u \in tasks, u.kind = "send", u.from = k, u.run = "on" PROVE Watched(k)'
    <3>1. CASE u = t
      BY <1>1, <2>3, <3>1 DEF Watched
    <3>2. CASE u # t
      BY <1>2, <2>3, <3>2 DEF Watched
    <3> QED
      BY <3>1, <3>2
  <2> QED
    BY <1>3, <2>2, <2>3 DEF Watched
<1>4. Distinct(rows')
  BY <1>2 DEF Watch
<1> QED
  BY <1>1, <1>2, <1>3, <1>4, WatchKept

\* The encryption ends and the row has failed.
LEMMA WatchSendFails ==
  ASSUME ConstantsOK, Typed, Watch, NEW t \in tasks, SendFails(t)
  PROVE  Watch'
<1>1. /\ Typed' /\ Restamped
      /\ \A i \in DOMAIN rows :
           rows'[i].st = "pending" => rows[i].st = "pending" /\ (t.run = "on" => rows[i].lid # t.from)
  BY SendFailsTyped
<1>2. timers' = timers /\ tasks' = tasks \ {t}
  BY DEF SendFails, Ends
<1>3. Distinct(rows')
  BY <1>1, StillDistinct DEF Watch
<1>4. ASSUME NEW k \in Lids, ~(t.run = "on" /\ t.from = k), Watched(k) PROVE Watched(k)'
  BY <1>2, <1>4 DEF Watched
<1>5. \A i \in DOMAIN rows' : rows'[i].st = "pending" =>
        i \in DOMAIN rows /\ rows[i].st = "pending" /\ rows[i].lid = rows'[i].lid
        /\ ~(t.run = "on" /\ t.from = rows'[i].lid)
  BY <1>1 DEF Restamped
<1> QED
  BY <1>1, <1>3, <1>4, <1>5, WatchKept

\* The watchdog ends and the row has failed.
LEMMA WatchWatchdog ==
  ASSUME Typed, Watch, NEW k \in Lids, Watchdog(k)
  PROVE  Watch'
<1>1. /\ Typed' /\ Restamped
      /\ \A i \in DOMAIN rows : rows'[i].st = "pending" => rows[i].st = "pending" /\ rows[i].lid # k
      /\ \A j \in Lids : j # k => timers'[j] = timers[j]
  BY WatchdogTyped
<1>2. tasks' = tasks
  BY DEF Watchdog
<1>3. Distinct(rows')
  BY <1>1, StillDistinct DEF Watch
<1>4. ASSUME NEW j \in Lids, j # k, Watched(j) PROVE Watched(j)'
  <2>1. timers'[j] = timers[j]
    BY <1>1, <1>4
  <2> QED
    BY <1>2, <1>4, <2>1 DEF Watched
<1>5. \A i \in DOMAIN rows' : rows'[i].st = "pending" =>
        i \in DOMAIN rows /\ rows[i].st = "pending" /\ rows[i].lid = rows'[i].lid /\ rows'[i].lid # k
  BY <1>1 DEF Restamped
<1> QED
  BY <1>1, <1>3, <1>4, <1>5, WatchKept

\* A step of another function, which may add rows that are confirmed.
LEMMA WatchReads ==
  ASSUME Typed, Typed', Watch, NEW t \in tasks, t.kind # "send", tasks \ {t} \subseteq tasks', timers' = timers,
         Distinct(rows'),
         \A i \in DOMAIN rows' : (\E j \in DOMAIN rows : rows'[i] = rows[j]) \/ rows'[i].st = "ok"
  PROVE  Watch'
<1>1. SendsGoOn
  BY OthersGoOn
<1>2. \A i \in DOMAIN rows' : rows'[i].st = "pending" =>
           \E j \in DOMAIN rows : rows[j].st = "pending" /\ rows[j].lid = rows'[i].lid
  OBVIOUS
<1> QED
  BY <1>1, <1>2, WatchShrinks

\* The row that is sorted into the list is confirmed.
LEMMA WatchLiveDone ==
  ASSUME Typed, Watch, NEW t \in tasks, LiveDone(t)
  PROVE  Watch'
<1>1. Typed' /\ t.kind = "live" /\ tasks' = tasks \ {t} /\ timers' = timers
  BY LiveDoneTyped DEF LiveDone, Kind, Ends, sends
<1>2. PICK id \in Ids : IF t.run = "on" THEN \E text \in Nat : rows' = Append(rows, Row(id, text)) ELSE rows' = rows
  BY LiveDoneTyped
<1>3. rows \in Seq(RowT) /\ id \in Nat \ {0}
  BY PageIds DEF Typed, RowsT
<1>4. CASE rows' = rows
  BY <1>1, <1>4, WatchReads DEF Watch
<1>5. ASSUME NEW text \in Nat, rows' = Append(rows, Row(id, text)) PROVE Watch'
  <2> DEFINE r == Row(id, text)
  <2>1. r \in RowT /\ r.lid = 0 /\ r.st = "ok"
    BY <1>3, PlainRow
  <2> HIDE DEF r
  <2>2. rows' = Append(rows, r)
    BY <1>5 DEF r
  <2>3. /\ Len(rows) \in Nat /\ DOMAIN rows = 1..Len(rows) /\ DOMAIN rows' = 1..(Len(rows) + 1)
        /\ (\A i \in 1..Len(rows) : rows'[i] = rows[i]) /\ rows'[Len(rows) + 1] = r
    BY <1>3, <2>1, <2>2
  <2>4. \A i \in DOMAIN rows' : (i \in DOMAIN rows /\ rows'[i] = rows[i]) \/ rows'[i] = r
    BY <2>3
  <2>5. Distinct(rows')
    BY <2>1, <2>4 DEF Distinct, Watch
  <2> QED
    BY <1>1, <2>1, <2>4, <2>5, WatchReads
<1> QED
  BY <1>2, <1>4, <1>5

\* So are the rows that a page brings.
LEMMA WatchFetches ==
  ASSUME ConstantsOK, Typed, Watch, NEW t \in tasks,
         \/ LoadAnswer(t) \/ LoadRow(t) \/ LoadDone(t) \/ LoadFails(t)
         \/ Skip(t) \/ NextRow(t) \/ OlderDone(t)
         \/ CatchAnswer(t) \/ CatchPage(t) \/ CatchDone(t) \/ CatchFails(t)
  PROVE  Watch'
<1>1. Typed'
  BY HandlesTyped DEF Handles
<1>2. t.kind \in Fetches
  BY DEF LoadAnswer, LoadRow, LoadDone, LoadFails, Skip, NextRow, OlderDone,
         CatchAnswer, CatchPage, CatchDone, CatchFails, Kind, Fetches
<1>3. tasks \ {t} \subseteq tasks'
  BY DEF LoadAnswer, LoadRow, LoadDone, LoadFails, Skip, NextRow, OlderDone,
         CatchAnswer, CatchPage, CatchDone, CatchFails, Replace, Ends, DecryptNext
<1>4. timers' = timers
  BY DEF LoadAnswer, LoadRow, LoadDone, LoadFails, Skip, NextRow, OlderDone,
         CatchAnswer, CatchPage, CatchDone, CatchFails, sends
<1>5. \A i \in DOMAIN t.got : t.got[i].lid = 0 /\ t.got[i].st = "ok"
  BY <1>2, GotRows
<1>6. \/ rows' = rows
      \/ rows' = t.got
      \/ rows' = <<>>
      \/ (Joins(rows, t.got, rows') \/ Joins(t.got, rows, rows')) /\ (Distinct(rows) => Distinct(rows'))
  <2>1. CASE LoadAnswer(t) \/ LoadRow(t) \/ Skip(t) \/ NextRow(t) \/ CatchAnswer(t) \/ CatchPage(t) \/ CatchFails(t)
    <3>1. rows' = rows
      BY <2>1 DEF LoadAnswer, LoadRow, Skip, NextRow, CatchAnswer, CatchPage, CatchFails
    <3> QED
      BY <3>1
  <2>2. CASE LoadDone(t) \/ LoadFails(t)
    BY <2>2, LoadDoneTyped, LoadFailsTyped
  <2>3. CASE OlderDone(t)
    BY <2>3, OlderDoneTyped
  <2>4. CASE CatchDone(t)
    BY <2>4, CatchDoneTyped
  <2> QED
    BY <2>1, <2>2, <2>3, <2>4
<1>7. \A i \in DOMAIN rows' : (\E j \in DOMAIN rows : rows'[i] = rows[j]) \/ rows'[i].st = "ok"
  BY <1>5, <1>6 DEF Joins
<1>8. Distinct(rows')
  BY <1>5, <1>6 DEF Watch, Distinct
<1> QED
  BY <1>1, <1>2, <1>3, <1>4, <1>7, <1>8, WatchReads DEF Fetches

\* Every step keeps it.
LEMMA WatchNext ==
  ASSUME ConstantsOK, Typed, Watch, [Next]_vars
  PROVE  Watch'
<1>0. Typed'
  BY NextTyped
<1>1. CASE \E ch \in Channels, from \in Senders : Post(ch, from)
  BY <1>0, <1>1, AllGoOn, WatchStays DEF Post, sends
<1>2. CASE \E m \in sent : ServerTakes(m) \/ ServerRejects(m)
  BY <1>0, <1>2, AllGoOn, WatchStays DEF ServerTakes, ServerRejects, sends
<1>3. CASE Drop \/ Subscribe
  BY <1>0, <1>3, AllGoOn, WatchStays DEF Drop, Subscribe, sends
<1>4. CASE NewClient
  <2>1. rows' = rows /\ timers' = timers
    BY <1>4 DEF NewClient, sends
  <2>2. SendsGoOn
    <3> SUFFICES ASSUME NEW t \in tasks, t.kind = "send", t.run = "on"
                 PROVE  \E u \in tasks' : u.kind = "send" /\ u.run = "on" /\ u.from = t.from
      BY DEF SendsGoOn
    <3> DEFINE u == [t EXCEPT !.at = "closed"]
    <3>1. u \in tasks'
      BY <1>4 DEF NewClient
    <3>2. t \in TaskT
      BY DEF Typed, TasksT
    <3>3. u.kind = "send" /\ u.run = "on" /\ u.from = t.from
      BY <3>2 DEF TaskT
    <3> QED
      BY <3>1, <3>3
  <2> QED
    BY <1>0, <2>1, <2>2, WatchStays
<1>5. CASE Reconnected
  BY <1>5, WatchReconnected
<1>6. CASE Deliver
  BY <1>6, WatchDeliver
<1>7. CASE send
  BY <1>7, WatchSend
<1>8. CASE \E k \in Lids : retry(k) \/ Watchdog(k)
  BY <1>8, WatchRetry, WatchWatchdog
<1>9. CASE loadOlder
  BY <1>0, <1>9, AllGoOn, WatchStays DEF loadOlder, sends
<1>10. CASE \E t \in tasks : Handles(t)
  BY <1>10, WatchLiveDone, WatchSent, WatchSendFails, WatchFetches DEF Handles
<1>11. ASSUME NEW ch \in Channels, Switch(ch) PROVE Watch'
  <2>1. /\ tasks' = {LeftBehind(t) : t \in tasks} \cup {Task("load", ch, "ask")}
        /\ rows' = rows /\ timers' = timers
    BY <1>11, SwitchTyped DEF Switch, sends
  <2>2. \A t \in tasks : t.kind = "send" => LeftBehind(t) = t
    BY DEF LeftBehind, Fetches
  <2>3. SendsGoOn
    BY <2>1, <2>2 DEF SendsGoOn
  <2> QED
    BY <1>0, <2>1, <2>3, WatchStays
<1>12. ASSUME NEW ch \in Channels, Reopen(ch) PROVE Watch'
  <2>1. rows' = <<>>
    BY <1>12 DEF Reopen
  <2> QED
    BY <2>1 DEF Watch, Distinct
<1>13. CASE UNCHANGED vars
  BY <1>0, <1>13, AllGoOn, WatchStays DEF vars, sends
<1> QED
  BY <1>1, <1>2, <1>3, <1>4, <1>5, <1>6, <1>7, <1>8, <1>9, <1>10, <1>11, <1>12, <1>13 DEF Next

\* A row that is still pending has a send under way or a watchdog running, for
\* any sends, retries, echoes, errors and reconnections (useChannelMessages.ts).
THEOREM PendingRowsAreWatched == Spec => []PendingIsWatched
<1>1. Init => Typed /\ Watch
  <2> SUFFICES ASSUME Init PROVE Typed /\ Watch
    OBVIOUS
  <2>1. Typed
    BY ConstantsOK, InitTyped
  <2>2. rows = <<>>
    BY DEF Init
  <2>3. DOMAIN rows = {}
    BY <2>2
  <2> QED
    BY <2>1, <2>3 DEF Watch, Distinct
<1>2. Typed /\ Watch /\ [Next]_vars => Typed' /\ Watch'
  BY ConstantsOK, NextTyped, WatchNext
<1>3. Watch => PendingIsWatched
  BY DEF Watch, PendingIsWatched, PendingLids, IsPending, Range, Watched, Kind
<1> QED
  BY <1>1, <1>2, <1>3, PTL DEF Spec

-----------------------------------------------------------------------------
(* A row is confirmed as the message it was sent as.                         *)

\* An acknowledgement is of a message of its send.
AckMine ==
  \A i \in DOMAIN feed : feed[i].kind = "ack" =>
    log[feed[i].id].from = "me" /\ log[feed[i].id].text = feed[i].lid
\* The echo of an own message comes after its acknowledgement, if not it is known
\* or the view changed in between.
Announced(j) ==
  \/ \E i \in DOMAIN feed : i < j /\ feed[i].kind = "ack" /\ feed[i].id = feed[j].id
  \/ feed[j].id \in known \cup strays
  \/ log[feed[j].id].ch # chan
\* Of an own message, the frame left is announced by an acknowledgement before
\* it, or has nothing to confirm.
EchoKnown ==
  \A j \in DOMAIN feed : feed[j].kind = "new" /\ log[feed[j].id].from = "me" => Announced(j)
\* The property, of the rows.
RowsMine ==
  \A i \in DOMAIN rows : rows[i].lid # 0 /\ rows[i].id # 0 /\ rows[i].id \notin strays =>
    log[rows[i].id].from = "me" /\ log[rows[i].id].text = rows[i].lid
\* The invariant: the rows, and the frames that will confirm them.
Mine == AckMine /\ EchoKnown /\ RowsMine

\* Rows of own sends that are confirmed are among those of before.
LEMMA RowsStayMine ==
  ASSUME Typed, LogGrows, RowsMine, strays \subseteq strays',
         \A i \in DOMAIN rows' : rows'[i].lid # 0 /\ rows'[i].id # 0 =>
           \E j \in DOMAIN rows : rows[j].lid = rows'[i].lid /\ rows[j].id = rows'[i].id
  PROVE  RowsMine'
<1> SUFFICES ASSUME NEW i \in DOMAIN rows', rows'[i].lid # 0, rows'[i].id # 0, rows'[i].id \notin strays'
             PROVE  log'[rows'[i].id].from = "me" /\ log'[rows'[i].id].text = rows'[i].lid
  BY DEF RowsMine
<1>1. PICK j \in DOMAIN rows : rows[j].lid = rows'[i].lid /\ rows[j].id = rows'[i].id
  OBVIOUS
<1>2. rows[j].id \in Ids
  <2>1. RowOK(rows[j])
    BY DEF Typed, RowsT
  <2> QED
    BY <1>1, <2>1 DEF RowOK
<1>3. log'[rows[j].id] = log[rows[j].id]
  BY <1>2, LogOK DEF Typed, ServerT
<1> QED
  BY <1>1, <1>3 DEF RowsMine

\* A step that leaves the socket alone.
LEMMA FeedStaysMine ==
  ASSUME Typed, LogGrows, AckMine, EchoKnown, feed' = feed, chan' = chan,
         known \subseteq known', strays \subseteq strays'
  PROVE  AckMine' /\ EchoKnown'
<1>1. \A i \in DOMAIN feed : feed[i].kind # "error" => log'[feed[i].id] = log[feed[i].id]
  BY LogOK DEF Typed, ServerT, FeedT
<1>2. AckMine'
  BY <1>1 DEF AckMine
<1>3. EchoKnown'
  BY <1>1 DEF EchoKnown, Announced
<1> QED
  BY <1>2, <1>3

\* A frame that is taken off the socket.
LEMMA FeedTakenMine ==
  ASSUME Typed, AckMine, EchoKnown, NEW kind \in {"new", "ack", "error"}, Frame(kind), log' = log, chan' = chan,
         known \subseteq known', strays \subseteq strays',
         kind = "ack" => feed[1].id \in known' \/ log[feed[1].id].ch # chan
  PROVE  AckMine' /\ EchoKnown'
<1>1. /\ DOMAIN feed = 1..Len(feed) /\ DOMAIN feed' = 1..(Len(feed) - 1) /\ Len(feed) \in Nat
      /\ \A i \in DOMAIN feed' : i + 1 \in DOMAIN feed /\ feed'[i] = feed[i + 1]
      /\ feed[1].kind = kind
  BY FrameOK
<1>2. AckMine'
  BY <1>1 DEF AckMine
<1>3. EchoKnown'
  <2> SUFFICES ASSUME NEW j \in DOMAIN feed', feed'[j].kind = "new", log[feed'[j].id].from = "me"
               PROVE  \/ \E i \in DOMAIN feed' : i < j /\ feed'[i].kind = "ack" /\ feed'[i].id = feed'[j].id
                      \/ feed'[j].id \in known' \cup strays'
                      \/ log'[feed'[j].id].ch # chan'
    BY DEF EchoKnown, Announced
  <2>1. j + 1 \in DOMAIN feed /\ feed'[j] = feed[j + 1] /\ j \in Nat
    BY <1>1
  <2>2. Announced(j + 1)
    BY <2>1 DEF EchoKnown
  <2>3. CASE feed[j + 1].id \in known \cup strays \/ log[feed[j + 1].id].ch # chan
    BY <2>1, <2>3
  <2>4. ASSUME NEW i \in DOMAIN feed, i < j + 1, feed[i].kind = "ack", feed[i].id = feed[j + 1].id
        PROVE  \/ \E k \in DOMAIN feed' : k < j /\ feed'[k].kind = "ack" /\ feed'[k].id = feed'[j].id
               \/ feed'[j].id \in known' \cup strays'
               \/ log'[feed'[j].id].ch # chan'
    <3>1. CASE i = 1
      BY <2>1, <2>4, <3>1, <1>1
    <3>2. CASE i # 1
      <4>1. i - 1 \in DOMAIN feed' /\ i - 1 < j /\ (i - 1) + 1 = i
        BY <1>1, <2>1, <2>4, <3>2
      <4>2. feed'[i - 1] = feed[i]
        BY <1>1, <4>1
      <4> QED
        BY <2>1, <2>4, <4>1, <4>2
    <3> QED
      BY <3>1, <3>2
  <2> QED
    BY <2>2, <2>3, <2>4 DEF Announced
<1> QED
  BY <1>2, <1>3

\* Frames that are added: an error, a message of somebody else, or an
\* acknowledgement.
LEMMA FeedGrowsMine ==
  ASSUME Typed, LogGrows, AckMine, EchoKnown, NEW f, feed' = Append(feed, f), chan' = chan,
         known' = known, strays' = strays,
         f.kind # "error" => f.id \in Ids',
         f.kind = "ack" => log'[f.id].from = "me" /\ log'[f.id].text = f.lid,
         f.kind = "new" => log'[f.id].from # "me"
  PROVE  AckMine' /\ EchoKnown'
<1> DEFINE n == Len(feed)
<1>1. /\ n \in Nat /\ DOMAIN feed = 1..n /\ DOMAIN feed' = 1..(n + 1)
      /\ \A i \in 1..n : i \in 1..(n + 1) /\ feed'[i] = feed[i]
      /\ feed'[n + 1] = f
      /\ \A i \in 1..(n + 1) : i \in 1..n \/ i = n + 1
  <2>1. feed \in Seq(FrameT)
    BY DEF Typed, FeedT
  <2> QED
    BY <2>1
<1>2. \A i \in DOMAIN feed : feed[i].kind # "error" => log'[feed[i].id] = log[feed[i].id]
  BY LogOK DEF Typed, ServerT, FeedT
<1> HIDE DEF n
<1>3. AckMine'
  BY <1>1, <1>2 DEF AckMine
<1>4. EchoKnown'
  <2> SUFFICES ASSUME NEW j \in DOMAIN feed', feed'[j].kind = "new", log'[feed'[j].id].from = "me"
               PROVE  \/ \E i \in DOMAIN feed' : i < j /\ feed'[i].kind = "ack" /\ feed'[i].id = feed'[j].id
                      \/ feed'[j].id \in known' \cup strays'
                      \/ log'[feed'[j].id].ch # chan'
    BY DEF EchoKnown, Announced
  <2>1. j \in DOMAIN feed /\ feed'[j] = feed[j]
    BY <1>1
  <2>2. Announced(j)
    BY <1>2, <2>1 DEF EchoKnown
  <2> QED
    BY <1>1, <1>2, <2>1, <2>2 DEF Announced
<1> QED
  BY <1>3, <1>4

\* A message of somebody else is framed.
LEMMA PostMine ==
  ASSUME ConstantsOK, Typed, Mine, NEW ch \in Channels, NEW from \in Senders, Post(ch, from)
  PROVE  Mine'
<1> DEFINE m == [ch |-> ch, from |-> from, text |-> MaxSends + Len(log) + 1]
<1>1. LogGrows /\ log \in Seq(Msg)
  BY PostTyped DEF Typed, ServerT
<1>2. log' = Append(log, m) /\ rows' = rows /\ known' = known /\ strays' = strays /\ chan' = chan
  BY DEF Post, view
<1>3. RowsMine'
  BY <1>1, <1>2, RowsStayMine DEF Mine
<1>4. Len(log) + 1 \in Ids' /\ log'[Len(log) + 1] = m
  BY <1>1, <1>2 DEF Ids
<1>5. m.from # "me"
  BY DEF ConstantsOK
<1>6. AckMine' /\ EchoKnown'
  <2> DEFINE f == NewFrame(Len(log) + 1)
  <2>1. f.kind = "new" /\ f.id = Len(log) + 1
    BY DEF NewFrame
  <2>2. CASE feed' = Append(feed, f)
    <3> HIDE DEF f, m
    <3> QED
      BY <1>1, <1>2, <1>4, <1>5, <2>1, <2>2, FeedGrowsMine DEF Mine
  <2>3. CASE feed' = feed
    BY <1>1, <1>2, <2>3, FeedStaysMine DEF Mine
  <2>4. feed' = Append(feed, f) \/ feed' = feed
    <3>1. feed \in Seq(FrameT) /\ feed' = IF socket = "live" THEN feed \o <<f>> ELSE feed
      BY DEF Post, Broadcast, Typed, FeedT
    <3> HIDE DEF f
    <3> QED
      BY <3>1
  <2> QED
    BY <2>2, <2>3, <2>4
<1> QED
  BY <1>3, <1>6 DEF Mine

\* An own message is framed after its acknowledgement.
LEMMA ServerTakesMine ==
  ASSUME ConstantsOK, Typed, Mine, NEW m \in sent, ServerTakes(m)
  PROVE  Mine'
<1> DEFINE r == [ch |-> m.ch, from |-> "me", text |-> m.lid]
           id == Len(log) + 1
           a == AckFrame(id, m.lid)
           e == NewFrame(id)
           n == Len(feed)
<1>1. LogGrows /\ log \in Seq(Msg) /\ feed \in Seq(FrameT)
  BY ServerTakesTyped DEF Typed, ServerT, FeedT
<1>2. log' = Append(log, r) /\ rows' = rows /\ known' = known /\ strays' = strays /\ chan' = chan
  BY DEF ServerTakes, view, history
<1>3. RowsMine'
  BY <1>1, <1>2, RowsStayMine DEF Mine
<1>4. id \in Ids' /\ log'[id] = r /\ r.from = "me" /\ r.text = m.lid
  BY <1>1, <1>2 DEF Ids
<1>5. a.kind = "ack" /\ a.id = id /\ a.lid = m.lid /\ e.kind = "new" /\ e.id = id
  BY DEF AckFrame, NewFrame
<1>6. feed' = Append(feed, a) \/ feed' = Append(Append(feed, a), e)
  <2>1. feed' = feed \o <<a>> \o (IF socket = "live" THEN <<e>> ELSE <<>>)
    BY DEF ServerTakes
  <2>2. m.lid \in Nat /\ id \in Nat
    BY <1>1 DEF Typed, ServerT, Lids
  <2>3. a \in FrameT /\ e \in FrameT
    BY <2>2 DEF AckFrame, NewFrame, FrameT
  <2> HIDE DEF a, e
  <2>4. feed \o <<a>> = Append(feed, a) /\ Append(feed, a) \in Seq(FrameT)
    BY <1>1, <2>3
  <2>5. feed \o <<a>> \o <<e>> = Append(Append(feed, a), e) /\ feed \o <<a>> \o <<>> = Append(feed, a)
    BY <2>3, <2>4
  <2> QED
    BY <2>1, <2>4, <2>5
<1> HIDE DEF a, e, r, id
<1>7. CASE feed' = Append(feed, a)
  <2>1. AckMine' /\ EchoKnown'
    BY <1>1, <1>2, <1>4, <1>5, <1>7, FeedGrowsMine DEF Mine
  <2> QED
    BY <1>3, <2>1 DEF Mine
<1>8. CASE feed' = Append(Append(feed, a), e)
  <2>1. /\ n \in Nat /\ DOMAIN feed = 1..n /\ DOMAIN feed' = 1..(n + 2)
        /\ \A i \in 1..n : i \in 1..(n + 2) /\ feed'[i] = feed[i]
        /\ feed'[n + 1] = a /\ feed'[n + 2] = e /\ n + 1 \in 1..(n + 2) /\ n + 1 < n + 2
        /\ \A i \in 1..(n + 2) : i \in 1..n \/ i = n + 1 \/ i = n + 2
    BY <1>1, <1>8
  <2>2. \A i \in DOMAIN feed : feed[i].kind # "error" => log'[feed[i].id] = log[feed[i].id]
    BY <1>1, LogOK DEF Typed, ServerT, FeedT
  <2> HIDE DEF n
  <2>3. AckMine'
    BY <1>4, <1>5, <2>1, <2>2 DEF Mine, AckMine
  <2>4. EchoKnown'
    <3> SUFFICES ASSUME NEW j \in DOMAIN feed', feed'[j].kind = "new", log'[feed'[j].id].from = "me"
                 PROVE  \/ \E i \in DOMAIN feed' : i < j /\ feed'[i].kind = "ack" /\ feed'[i].id = feed'[j].id
                        \/ feed'[j].id \in known' \cup strays'
                        \/ log'[feed'[j].id].ch # chan'
      BY DEF EchoKnown, Announced
    <3>1. CASE j \in 1..n
      <4>1. j \in DOMAIN feed /\ feed'[j] = feed[j]
        BY <2>1, <3>1
      <4>2. Announced(j)
        BY <2>2, <4>1 DEF Mine, EchoKnown
      <4> QED
        BY <1>2, <2>1, <2>2, <4>1, <4>2 DEF Announced
    <3>2. CASE j = n + 2
      BY <1>5, <2>1, <3>2
    <3> QED
      BY <1>5, <2>1, <3>1, <3>2
  <2> QED
    BY <1>3, <2>3, <2>4 DEF Mine
<1> QED
  BY <1>6, <1>7, <1>8

\* The rest of the steps leave the log alone.
LEMMA MineStays ==
  ASSUME Typed, Mine, log' = log, feed' = feed, chan' = chan, known \subseteq known', strays \subseteq strays',
         \A i \in DOMAIN rows' : rows'[i].lid # 0 /\ rows'[i].id # 0 =>
           \E j \in DOMAIN rows : rows[j].lid = rows'[i].lid /\ rows[j].id = rows'[i].id
  PROVE  Mine'
BY RowsStayMine, FeedStaysMine DEF Mine, LogGrows

\* Rows that fail are confirmed by nothing.
LEMMA RestampedMine ==
  ASSUME Typed, Mine, log' = log, feed' = feed, chan' = chan, known' = known, strays' = strays, Restamped
  PROVE  Mine'
BY MineStays DEF Restamped

\* The echo finds its row confirmed, or is a stray.
LEMMA EchoMine ==
  ASSUME Typed, Mine, OwnEcho
  PROVE  Mine'
<1>1. /\ log' = log /\ feed[1].kind = "new" /\ feed[1].id \in Ids
      /\ ConfirmedAt(FirstPending, feed[1].id)
  BY OwnEchoTyped
<1>2. /\ Frame("new") /\ Head(feed) = feed[1] /\ ~Elsewhere(feed[1].id) /\ feed[1].id \notin known
      /\ log[feed[1].id].from = "me" /\ known' = known \cup {feed[1].id} /\ chan' = chan /\ strays' = strays
      /\ 1 \in DOMAIN feed /\ DOMAIN feed = 1..Len(feed) /\ Len(feed) \in Nat
  BY FrameOK DEF OwnEcho, view
<1>3. AckMine' /\ EchoKnown'
  BY <1>1, <1>2, FeedTakenMine DEF Mine
<1>4. feed[1].id \in strays
  <2>1. Announced(1)
    BY <1>1, <1>2 DEF Mine, EchoKnown
  <2>2. ~ \E i \in DOMAIN feed : i < 1
    BY <1>2
  <2> QED
    BY <1>2, <2>1, <2>2 DEF Announced, Elsewhere
<1>5. RowsMine'
  <2> SUFFICES ASSUME NEW i \in DOMAIN rows', rows'[i].lid # 0, rows'[i].id # 0, rows'[i].id \notin strays'
               PROVE  log'[rows'[i].id].from = "me" /\ log'[rows'[i].id].text = rows'[i].lid
    BY DEF RowsMine
  <2>1. i \in DOMAIN rows /\ rows'[i] = rows[i]
    BY <1>1, <1>2, <1>4 DEF ConfirmedAt
  <2> QED
    BY <1>1, <1>2, <2>1 DEF Mine, RowsMine
<1> QED
  BY <1>3, <1>5 DEF Mine

\* The acknowledgement confirms the row of its own send.
LEMMA AckIsMine ==
  ASSUME Typed, Mine, onSendAck
  PROVE  Mine'
<1>1. /\ log' = log /\ feed[1].kind = "ack" /\ feed[1].id \in Ids
      /\ ConfirmedAt(Unconfirmed(feed[1].lid), feed[1].id)
  BY onSendAckTyped
<1>2. /\ Frame("ack") /\ 1 \in DOMAIN feed /\ Head(feed) = feed[1]
      /\ known' = known \cup {feed[1].id} /\ chan' = chan /\ strays' = strays
  BY FrameOK DEF onSendAck, view
<1>3. AckMine' /\ EchoKnown'
  BY <1>1, <1>2, FeedTakenMine DEF Mine
<1>4. log[feed[1].id].from = "me" /\ log[feed[1].id].text = feed[1].lid
  BY <1>1, <1>2 DEF Mine, AckMine
<1>5. RowsMine'
  <2> SUFFICES ASSUME NEW i \in DOMAIN rows', rows'[i].lid # 0, rows'[i].id # 0, rows'[i].id \notin strays'
               PROVE  log'[rows'[i].id].from = "me" /\ log'[rows'[i].id].text = rows'[i].lid
    BY DEF RowsMine
  <2>1. CASE i \in Unconfirmed(feed[1].lid)
    <3>1. rows'[i].id = feed[1].id /\ rows'[i].lid = rows[i].lid /\ rows[i].lid = feed[1].lid
      BY <1>1, <2>1 DEF ConfirmedAt, Unconfirmed
    <3> QED
      BY <1>1, <1>4, <3>1
  <2>2. CASE i \notin Unconfirmed(feed[1].lid)
    <3>1. i \in DOMAIN rows /\ rows'[i] = rows[i]
      BY <1>1, <2>2 DEF ConfirmedAt
    <3> QED
      BY <1>1, <1>2, <3>1 DEF Mine, RowsMine
  <2> QED
    BY <2>1, <2>2
<1> QED
  BY <1>3, <1>5 DEF Mine

\* Taking a frame.
LEMMA DeliverMine ==
  ASSUME Typed, Mine, Deliver
  PROVE  Mine'
<1>1. CASE IgnoreFrame
  <2>1. /\ log' = log /\ chan' = chan /\ known' = known /\ strays' = strays /\ rows' = rows
        /\ Elsewhere(Head(feed).id) \/ (Head(feed).kind = "new" /\ Head(feed).id \in known)
    BY <1>1 DEF IgnoreFrame, view, history
  <2>2. CASE Frame("new")
    <3>1. AckMine' /\ EchoKnown'
      BY <2>1, <2>2, FeedTakenMine DEF Mine
    <3> QED
      BY <2>1, <3>1, RowsStayMine DEF Mine, LogGrows
  <2>3. CASE Frame("ack")
    <3>0. Head(feed) = feed[1] /\ feed[1].kind = "ack"
      BY <2>3, FrameOK
    <3>1. AckMine' /\ EchoKnown'
      BY <2>1, <2>3, <3>0, FeedTakenMine DEF Mine, Elsewhere
    <3> QED
      BY <2>1, <3>1, RowsStayMine DEF Mine, LogGrows
  <2> QED
    BY <1>1, <2>2, <2>3 DEF IgnoreFrame
<1>2. CASE onMessageNew
  <2>1. /\ log' = log /\ chan' = chan /\ known \subseteq known' /\ strays' = strays /\ rows' = rows /\ Frame("new")
    BY <1>2 DEF onMessageNew, view, history
  <2>2. AckMine' /\ EchoKnown'
    BY <2>1, FeedTakenMine DEF Mine
  <2> QED
    BY <2>1, <2>2, RowsStayMine DEF Mine, LogGrows
<1>3. CASE onError
  <2>1. /\ log' = log /\ chan' = chan /\ known' = known /\ strays' = strays /\ Frame("error")
    BY <1>3 DEF onError, view, history
  <2>2. AckMine' /\ EchoKnown'
    BY <2>1, FeedTakenMine DEF Mine
  <2>3. Restamped
    BY <1>3, onErrorTyped
  <2> QED
    BY <2>1, <2>2, <2>3, RowsStayMine DEF Mine, LogGrows, Restamped
<1> QED
  BY <1>1, <1>2, <1>3, EchoMine, AckIsMine DEF Deliver

\* The view changes: the acknowledgements still on the socket are of the echoes
\* that are not strays.
LEMMA FreshMine ==
  ASSUME Typed, Mine, log' = log, feed' = feed, FreshList,
         \A i \in DOMAIN rows' : rows'[i].lid # 0 /\ rows'[i].id # 0 =>
           \E j \in DOMAIN rows : rows[j].lid = rows'[i].lid /\ rows[j].id = rows'[i].id
  PROVE  Mine'
<1>1. strays' = strays \cup Unechoed
  BY DEF FreshList
<1>2. RowsMine'
  BY <1>1, RowsStayMine DEF Mine, LogGrows
<1>3. AckMine'
  BY DEF Mine, AckMine
<1>4. EchoKnown'
  <2> SUFFICES ASSUME NEW j \in DOMAIN feed, feed[j].kind = "new", log[feed[j].id].from = "me",
                      feed[j].id \notin strays'
               PROVE  \E i \in DOMAIN feed : i < j /\ feed[i].kind = "ack" /\ feed[i].id = feed[j].id
    BY DEF EchoKnown, Announced
  <2>1. feed[j] \in Range(feed) /\ feed[j].id \notin Unechoed
    BY <1>1 DEF Range
  <2>2. PICK h \in Range(feed) : h.kind = "ack" /\ h.id = feed[j].id
    BY <2>1 DEF Unechoed
  <2>3. PICK i \in DOMAIN feed : feed[i] = h
    BY <2>2 DEF Range
  <2>4. i \in Nat /\ j \in Nat /\ i # j
    <3>1. feed \in Seq(FrameT)
      BY DEF Typed, FeedT
    <3> QED
      BY <3>1, <2>2, <2>3
  <2>5. ~(j < i)
    <3> SUFFICES ASSUME j < i PROVE FALSE
      OBVIOUS
    <3>1. feed[j].id < feed[i].id \/ feed[j].kind = "ack"
      BY <2>2, <2>3 DEF Typed, FeedT
    <3>2. feed[j].id \in Nat
      BY PageIds DEF Typed, FeedT
    <3> QED
      BY <2>2, <2>3, <3>1, <3>2
  <2> QED
    BY <2>2, <2>3, <2>4, <2>5
<1> QED
  BY <1>2, <1>3, <1>4 DEF Mine

\* A page brings rows of no send.
LEMMA FetchesMine ==
  ASSUME ConstantsOK, Typed, Mine, NEW t \in tasks,
         \/ LoadAnswer(t) \/ LoadRow(t) \/ LoadDone(t) \/ LoadFails(t)
         \/ Skip(t) \/ NextRow(t) \/ OlderDone(t)
         \/ CatchAnswer(t) \/ CatchPage(t) \/ CatchDone(t) \/ CatchFails(t)
  PROVE  Mine'
<1>1. log' = log
  BY HandlesTyped DEF Handles
<1>2. t.kind \in Fetches
  BY DEF LoadAnswer, LoadRow, LoadDone, LoadFails, Skip, NextRow, OlderDone,
         CatchAnswer, CatchPage, CatchDone, CatchFails, Kind, Fetches
<1>3. feed' = feed /\ chan' = chan /\ strays' = strays
  BY DEF LoadAnswer, LoadRow, LoadDone, LoadFails, Skip, NextRow, OlderDone,
         CatchAnswer, CatchPage, CatchDone, CatchFails, world, view, history
<1>4. known \subseteq known'
  BY DEF LoadAnswer, LoadRow, LoadDone, LoadFails, Skip, NextRow, OlderDone,
         CatchAnswer, CatchPage, CatchDone, CatchFails, Knows
<1>5. \A i \in DOMAIN t.got : t.got[i].lid = 0
  BY <1>2, GotRows
<1>6. \/ rows' = rows
      \/ rows' = t.got
      \/ rows' = <<>>
      \/ Joins(rows, t.got, rows') \/ Joins(t.got, rows, rows')
  <2>1. CASE LoadAnswer(t) \/ LoadRow(t) \/ Skip(t) \/ NextRow(t) \/ CatchAnswer(t) \/ CatchPage(t) \/ CatchFails(t)
    <3>1. rows' = rows
      BY <2>1 DEF LoadAnswer, LoadRow, Skip, NextRow, CatchAnswer, CatchPage, CatchFails
    <3> QED
      BY <3>1
  <2>2. CASE LoadDone(t) \/ LoadFails(t)
    BY <2>2, LoadDoneTyped, LoadFailsTyped
  <2>3. CASE OlderDone(t)
    BY <2>3, OlderDoneTyped
  <2>4. CASE CatchDone(t)
    BY <2>4, CatchDoneTyped
  <2> QED
    BY <2>1, <2>2, <2>3, <2>4
<1>7. \A i \in DOMAIN rows' : rows'[i].lid # 0 /\ rows'[i].id # 0 =>
        \E j \in DOMAIN rows : rows[j].lid = rows'[i].lid /\ rows[j].id = rows'[i].id
  BY <1>5, <1>6 DEF Joins
<1> QED
  BY <1>1, <1>3, <1>4, <1>7, MineStays

\* The functions under way.
LEMMA HandlesMine ==
  ASSUME ConstantsOK, Typed, Mine, NEW t \in tasks, Handles(t)
  PROVE  Mine'
<1>1. CASE LiveDone(t)
  <2>1. log' = log /\ feed' = feed /\ chan' = chan /\ known' = known /\ strays' = strays
    BY <1>1 DEF LiveDone, world, view, history
  <2>2. PICK id \in Ids : IF t.run = "on" THEN \E text \in Nat : rows' = Append(rows, Row(id, text)) ELSE rows' = rows
    BY <1>1, LiveDoneTyped
  <2>3. rows \in Seq(RowT) /\ id \in Nat \ {0}
    BY PageIds DEF Typed, RowsT
  <2>4. CASE rows' = rows
    BY <2>1, <2>4, MineStays
  <2>5. ASSUME NEW text \in Nat, rows' = Append(rows, Row(id, text)) PROVE Mine'
    <3> DEFINE r == Row(id, text)
    <3>1. r \in RowT /\ r.lid = 0
      BY <2>3, PlainRow
    <3> HIDE DEF r
    <3>2. rows' = Append(rows, r)
      BY <2>5 DEF r
    <3>3. \A i \in DOMAIN rows' : (i \in DOMAIN rows /\ rows'[i] = rows[i]) \/ rows'[i] = r
      BY <2>3, <3>1, <3>2
    <3>4. \A i \in DOMAIN rows' : rows'[i].lid # 0 /\ rows'[i].id # 0 =>
            \E j \in DOMAIN rows : rows[j].lid = rows'[i].lid /\ rows[j].id = rows'[i].id
      BY <3>1, <3>3
    <3> QED
      BY <2>1, <3>4, MineStays
  <2> QED
    BY <2>2, <2>4, <2>5
<1>2. CASE Sent(t)
  <2>1. log' = log /\ feed' = feed /\ chan' = chan /\ known' = known /\ strays' = strays /\ rows' = rows
    BY <1>2 DEF Sent, view, history
  <2> QED
    BY <2>1, MineStays
<1>3. CASE SendFails(t)
  <2>1. log' = log /\ feed' = feed /\ chan' = chan /\ known' = known /\ strays' = strays
    BY <1>3 DEF SendFails, world, view, history
  <2> QED
    BY <1>3, <2>1, SendFailsTyped, RestampedMine
<1> QED
  BY <1>1, <1>2, <1>3, FetchesMine DEF Handles

\* Every step keeps it.
LEMMA NextMine ==
  ASSUME ConstantsOK, Typed, Mine, [Next]_vars
  PROVE  Mine'
<1>1. CASE \E ch \in Channels, from \in Senders : Post(ch, from)
  BY <1>1, PostMine
<1>2. ASSUME NEW m \in sent, ServerTakes(m) PROVE Mine'
  BY <1>2, ServerTakesMine
<1>3. ASSUME NEW m \in sent, ServerRejects(m) PROVE Mine'
  <2>1. /\ log' = log /\ chan' = chan /\ known' = known /\ strays' = strays /\ rows' = rows
        /\ feed' = Append(feed, ErrorFrame)
    BY <1>3 DEF ServerRejects, view, history
  <2>2. ErrorFrame.kind = "error"
    BY DEF ErrorFrame
  <2>3. AckMine' /\ EchoKnown'
    BY <2>1, <2>2, FeedGrowsMine DEF Mine, LogGrows
  <2> QED
    BY <2>1, <2>3, RowsStayMine DEF Mine, LogGrows
<1>4. CASE Drop
  <2>1. /\ log' = log /\ strays' = strays /\ rows' = rows /\ DOMAIN feed' = {}
    BY <1>4 DEF Drop, history
  <2>2. AckMine' /\ EchoKnown'
    BY <2>1 DEF AckMine, EchoKnown
  <2> QED
    BY <2>1, <2>2, RowsStayMine DEF Mine, LogGrows
<1>5. CASE Subscribe \/ NewClient
  <2>1. log' = log /\ feed' = feed /\ chan' = chan /\ known' = known /\ strays' = strays /\ rows' = rows
    BY <1>5 DEF Subscribe, NewClient, view, history
  <2> QED
    BY <2>1, MineStays
<1>6. CASE Reconnected
  <2>1. log' = log /\ feed' = feed /\ chan' = chan /\ known' = known /\ strays' = strays
    BY <1>6 DEF Reconnected, view
  <2> QED
    BY <1>6, <2>1, ReconnectedTyped, RestampedMine
<1>7. CASE Deliver
  BY <1>7, DeliverMine
<1>8. CASE send
  <2>1. log' = log /\ feed' = feed /\ chan' = chan /\ known' = known /\ strays' = strays
    BY <1>8 DEF send, world, view, history
  <2> DEFINE o == Optimistic(left.sends)
  <2>2. rows' = Append(rows, o) /\ o \in RowT /\ rows \in Seq(RowT)
    BY <1>8, sendTyped DEF Typed, RowsT
  <2>3. o.id = 0
    BY DEF Optimistic
  <2> HIDE DEF o
  <2>4. \A i \in DOMAIN rows' : (i \in DOMAIN rows /\ rows'[i] = rows[i]) \/ rows'[i] = o
    BY <2>2
  <2>5. \A i \in DOMAIN rows' : rows'[i].lid # 0 /\ rows'[i].id # 0 =>
          \E j \in DOMAIN rows : rows[j].lid = rows'[i].lid /\ rows[j].id = rows'[i].id
    BY <2>3, <2>4
  <2> QED
    BY <2>1, <2>5, MineStays
<1>9. ASSUME NEW k \in Lids, retry(k) PROVE Mine'
  <2>1. log' = log /\ feed' = feed /\ chan' = chan /\ known' = known /\ strays' = strays
    BY <1>9 DEF retry, world, view, history
  <2> QED
    BY <1>9, <2>1, retryTyped, RestampedMine
<1>10. ASSUME NEW k \in Lids, Watchdog(k) PROVE Mine'
  <2>1. log' = log /\ feed' = feed /\ chan' = chan /\ known' = known /\ strays' = strays
    BY <1>10 DEF Watchdog, world, view, history
  <2> QED
    BY <1>10, <2>1, WatchdogTyped, RestampedMine
<1>11. CASE loadOlder
  <2>1. log' = log /\ feed' = feed /\ chan' = chan /\ known' = known /\ strays' = strays /\ rows' = rows
    BY <1>11 DEF loadOlder, world
  <2> QED
    BY <2>1, MineStays
<1>12. CASE \E t \in tasks : Handles(t)
  BY <1>12, HandlesMine
<1>13. ASSUME NEW ch \in Channels, Switch(ch) PROVE Mine'
  <2>1. log' = log /\ feed' = feed /\ rows' = rows /\ FreshList
    BY <1>13 DEF Switch, world
  <2> QED
    BY <2>1, FreshMine
<1>14. ASSUME NEW ch \in Channels, Reopen(ch) PROVE Mine'
  <2>1. log' = log /\ feed' = feed /\ rows' = <<>> /\ FreshList
    BY <1>14 DEF Reopen, world
  <2>2. DOMAIN rows' = {}
    BY <2>1
  <2> QED
    BY <2>1, <2>2, FreshMine
<1>15. CASE UNCHANGED vars
  <2>1. log' = log /\ feed' = feed /\ chan' = chan /\ known' = known /\ strays' = strays /\ rows' = rows
    BY <1>15 DEF vars, world, view, history
  <2> QED
    BY <2>1, MineStays
<1> QED
  BY <1>1, <1>2, <1>3, <1>4, <1>5, <1>6, <1>7, <1>8, <1>9, <1>10, <1>11, <1>12, <1>13, <1>14, <1>15 DEF Next

\* An optimistic row is confirmed as the message it was sent as, unless the view
\* changed between the acknowledgement and the echo (onSendAck, onMessageNew).
THEOREM ConfirmedRowsAreMine == Spec => []ConfirmedIsMine
<1>1. Init => Typed /\ Mine
  <2> SUFFICES ASSUME Init PROVE Typed /\ Mine
    OBVIOUS
  <2>1. Typed
    BY ConstantsOK, InitTyped
  <2>2. rows = <<>> /\ feed = <<>>
    BY DEF Init
  <2>3. DOMAIN rows = {} /\ DOMAIN feed = {}
    BY <2>2
  <2> QED
    BY <2>1, <2>3 DEF Mine, AckMine, EchoKnown, RowsMine
<1>2. Typed /\ Mine /\ [Next]_vars => Typed' /\ Mine'
  BY ConstantsOK, NextTyped, NextMine
<1>3. Mine => ConfirmedIsMine
  BY DEF Mine, RowsMine, ConfirmedIsMine
<1> QED
  BY <1>1, <1>2, <1>3, PTL DEF Spec

-----------------------------------------------------------------------------
(* Nothing is missed.  What the list will have when nothing more is asked   *)
(* for is always an end of the channel: what it has, what the functions     *)
(* under way bring, what is on the socket, and, while that is down, what a  *)
(* reconnection asks for.                                                    *)

\* The messages of the open channel.
Here == Of(chan)

\* The functions that work for its list: all of them, the loads, those that have
\* the first page, and the catch-ups.
Working == {t \in tasks : t.run = "on" /\ t.kind # "send"}
Loading == {t \in Working : t.kind = "load"}
Filling == {t \in Loading : t.at = "rows"}
Catching == {t \in Working : t.kind = "catch"}

\* A catch-up that has still to ask for a page.
Asks(t) == t.at = "ask" \/ (t.at = "rows" /\ t.full)

\* The messages they have, those of the first page, and the cursors that the
\* catch-ups are at, and ask from.
HeldIds == UNION {IdsOf(t) : t \in Working}
FillIds == UNION {IdsOf(t) : t \in Filling}
Froms == {t.from : t \in Catching}
Asked == {t.from : t \in {u \in Catching : Asks(u)}}

\* The messages on the socket, and the stamps of the rows not yet confirmed.
Framed == {feed[i].id : i \in DOMAIN feed}
OptTs == {rows[i].ts : i \in {j \in DOMAIN rows : rows[j].id = 0}}

\* The list has it, or will have it without another frame.
Sure == {id \in Here : id \in ShownIds \/ id \in HeldIds \/ \E f \in Asked : Ts(id) > f}
\* The socket is down, and the reconnection will ask for it: for what is newer
\* than the cursor, or, before there is one, than the first page.
Missable ==
  {id \in Here : /\ socket = "down"
                 /\ cursor # 0 => Ts(id) > cursor
                 /\ cursor = 0 => FillIds # {} /\ \A j \in FillIds : j < id}
\* What the list will have when nothing more is asked for.
Due == Sure \cup (Here \cap Framed) \cup Missable

\* What the invariant speaks of: not before the history is there, nor when the
\* load replaces rows it does not have, nor when the reconnection has no cursor.
Kept == Filling # {} => Here \cap ShownIds \subseteq FillIds
Void == socket = "down" /\ cursor = 0 /\ FillIds = {}
Claim == hurt = {} /\ ~LoadAsks /\ Kept /\ ~Void

\* What is due is an end of the channel.
Closed == \A v \in Due, id \in Here : v <= id => id \in Due
\* A message newer than the cursor, or than the first page, is due.
AheadDue ==
  \A id \in Here : Ts(id) > cursor /\ (cursor = 0 => \A j \in FillIds : j < id) => id \in Due
\* What is due and not newer than the cursor, the first page or the place of a
\* catch-up needs no other frame: a frame that is lost is newer than all three.
BehindSure ==
  \A id \in Due :
    Ts(id) <= cursor \/ (\E j \in FillIds : id <= j) \/ (\E f \in Froms : Ts(id) <= f) => id \in Sure
\* What is newer than a row not yet confirmed is due: loadOlder goes by the first
\* row, which may be one.
OptDue == Loading = {} => \A ts \in OptTs, id \in Here : Ts(id) >= ts => id \in Due
Order == Claim => Closed /\ AheadDue /\ BehindSure /\ OptDue

\* One load at most works for the list; whatever does, but what is live, is of the
\* open channel; what a load has read is known; no older page that counts is under
\* way while it loads, and one asked for during the load does not count until
\* the load ends.
OneLoad == \A t, u \in Loading : t = u
OnHere == \A t \in Working : t.kind # "live" => t.ch = chan
LoadKnows == \A t \in Loading : GotIds(t) \subseteq known
OlderAlone == \A t \in Working : t.kind = "older" => Loading = {}
OffOlder == hurt = {} => \A t \in tasks : t.kind = "older" /\ t.run = "off" => Loading # {}
Shape == OneLoad /\ OnHere /\ LoadKnows /\ OlderAlone /\ OffOlder

\* A known message, which Skip and onMessageNew pass over, is on the list or on its
\* way to it.  A cursor, and what a catch-up brings, comes after a known one.
Lists(t) == GotIds(t) \cup (IF t.kind \in {"live", "load"} THEN t.todo ELSE {})
OnList == ShownIds \cup UNION {Lists(t) : t \in Working}
CursorKnown == cursor # 0 => \E i \in known \cap Here : Ts(i) <= cursor
CatchKnown ==
  \A t \in Catching : cursor # 0 /\ \E i \in known \cap Here : Ts(i) <= t.from /\ \A j \in IdsOf(t) : i <= j
KnownListed == ~LoadAsks => known \cap Here \subseteq OnList
Knowing == hurt = {} => CursorKnown /\ CatchKnown /\ KnownListed

\* The messages of the channel are numbers of the log.
LEMMA HereOK ==
  ASSUME Typed
  PROVE  /\ Here \subseteq Ids /\ Here \subseteq Nat \ {0} /\ Len(log) \in Nat
         /\ \A id \in Here : id <= Len(log)
         /\ cursor \in Nat /\ cursor <= 2 * Len(log)
<1>1. Here \in SUBSET (1..Len(log)) /\ Len(log) \in Nat /\ Ids = 1..Len(log)
  BY PageIds DEF Here
<1> QED
  BY <1>1 DEF Typed, ViewT

\* A send has no messages.
LEMMA SendHolds ==
  ASSUME Typed, NEW t \in tasks, t.kind = "send"
  PROVE  IdsOf(t) = {} /\ GotIds(t) = {} /\ Lists(t) = {}
<1>1. t.todo = {} /\ t.got = <<>>
  BY DEF Typed, TasksT, TaskOK
<1>2. GotIds(t) = {}
  BY <1>1 DEF GotIds
<1> QED
  BY <1>1, <1>2 DEF IdsOf, Lists

\* What a function that works for the list has is of the channel.
LEMMA WorkingOK ==
  ASSUME Typed, NEW t \in Working
  PROVE  /\ t \in tasks /\ t \in TaskT /\ TaskOK(t) /\ t.run = "on" /\ t.kind \in {"live", "load", "older", "catch"}
         /\ Lists(t) \subseteq IdsOf(t) /\ IdsOf(t) \subseteq Ids /\ IdsOf(t) \subseteq Nat \ {0}
<1>1. t \in tasks /\ t \in TaskT /\ TaskOK(t) /\ t.run = "on" /\ t.kind \in {"live", "load", "older", "catch"}
  BY DEF Working, Typed, TasksT, TaskT
<1>2. Lists(t) \subseteq IdsOf(t)
  BY DEF Lists, IdsOf
<1>3. IdsOf(t) \subseteq Ids
  <2>1. CASE t.kind = "live"
    <3>1. t.got = <<>> /\ \E id \in Ids : t.todo = {id}
      BY <1>1, <2>1 DEF TaskOK
    <3> QED
      BY <3>1 DEF IdsOf, GotIds
  <2>2. CASE t.kind # "live"
    BY <1>1, <2>2 DEF TaskOK, Of
  <2> QED
    BY <2>1, <2>2
<1>4. Ids \subseteq Nat \ {0}
  BY PageIds
<1> QED
  BY <1>1, <1>2, <1>3, <1>4

\* What is on the list is of the log.
LEMMA OnListIs ==
  ASSUME Typed
  PROVE  OnList = Listed
<1>1. \A id : id \in OnList <=> id \in ShownIds \/ \E t \in tasks : t.run = "on" /\ t.kind # "send" /\ id \in Lists(t)
  BY DEF OnList, Working
<1>2. \A id : id \in Listed <=> id \in ShownIds \/ \E t \in tasks : t.run = "on" /\ id \in Lists(t)
  BY DEF Listed, Lists
<1>3. \A t \in tasks : t.kind = "send" => Lists(t) = {}
  BY SendHolds
<1> QED
  BY <1>1, <1>2, <1>3

\* What is on the list, or on its way to it, is sure.
LEMMA OnListSure ==
  ASSUME Typed, NEW id \in Here, id \in OnList
  PROVE  id \in Sure /\ id \in Due
BY WorkingOK DEF OnList, Sure, Due, HeldIds

\* The history is asked for and not there.
LEMMA LoadAsksIs ==
  /\ LoadAsks <=> \E t \in Loading : t.at = "ask"
  /\ LoadAsks' <=> \E t \in Loading' : t.at = "ask"
BY DEF LoadAsks, Loading, Working, Kind

\* The part of the functions under way in all this.
PartsSame ==
  /\ HeldIds' = HeldIds /\ FillIds' = FillIds /\ Froms' = Froms /\ Asked' = Asked
  /\ Filling = {} <=> Filling' = {}
  /\ Loading = {} <=> Loading' = {}
  /\ LoadAsks <=> LoadAsks'

\* The same functions have the same parts.
LEMMA WorkingSame ==
  ASSUME Working' = Working
  PROVE  PartsSame
BY LoadAsksIs DEF PartsSame, HeldIds, FillIds, Froms, Asked, Filling, Loading, Catching

\* A function goes on with the same messages.
LEMMA PartsGoOn ==
  ASSUME NEW t \in tasks, NEW u, Replace(t, u), u.kind = t.kind, u.run = t.run, IdsOf(u) = IdsOf(t),
         t.kind = "load" => u.at = t.at,
         t.kind = "catch" => u.from = t.from /\ (Asks(u) <=> Asks(t))
  PROVE  PartsSame
<1>1. CASE t \notin Working
  <2>1. Working' = Working
    BY <1>1 DEF Working, Replace
  <2> QED
    BY <2>1, WorkingSame
<1>2. CASE t \in Working
  <2>1. u \in Working' /\ Working' = (Working \ {t}) \cup {u}
    BY <1>2 DEF Working, Replace
  <2>2. HeldIds' = HeldIds
    BY <1>2, <2>1 DEF HeldIds
  <2>3. Loading' = IF t.kind = "load" THEN (Loading \ {t}) \cup {u} ELSE Loading
    BY <1>2, <2>1 DEF Loading
  <2>4. Filling' = IF t.kind = "load" /\ t.at = "rows" THEN (Filling \ {t}) \cup {u} ELSE Filling
    BY <1>2, <2>3 DEF Filling, Loading
  <2>5. Catching' = IF t.kind = "catch" THEN (Catching \ {t}) \cup {u} ELSE Catching
    BY <1>2, <2>1 DEF Catching
  <2>6. FillIds' = FillIds
    <3>1. CASE t.kind = "load" /\ t.at = "rows"
      <4>1. t \in Filling
        BY <1>2, <3>1 DEF Filling, Loading
      <4> QED
        BY <2>4, <3>1, <4>1 DEF FillIds
    <3>2. CASE ~(t.kind = "load" /\ t.at = "rows")
      BY <2>4, <3>2 DEF FillIds
    <3> QED
      BY <3>1, <3>2
  <2>7. Froms' = Froms /\ Asked' = Asked
    <3>1. CASE t.kind = "catch"
      <4>1. t \in Catching
        BY <1>2, <3>1 DEF Catching
      <4>2. Froms' = Froms
        BY <2>5, <3>1, <4>1 DEF Froms
      <4>3. Asked' = Asked
        BY <2>5, <3>1, <4>1 DEF Asked, Asks
      <4> QED
        BY <4>2, <4>3
    <3>2. CASE t.kind # "catch"
      BY <2>5, <3>2 DEF Froms, Asked, Asks
    <3> QED
      BY <3>1, <3>2
  <2>8. (Filling = {} <=> Filling' = {}) /\ (Loading = {} <=> Loading' = {})
    BY <1>2, <2>3, <2>4 DEF Filling, Loading
  <2>9. LoadAsks <=> LoadAsks'
    BY <1>2, <2>3, LoadAsksIs DEF Loading
  <2> QED
    BY <2>2, <2>6, <2>7, <2>8, <2>9 DEF PartsSame
<1> QED
  BY <1>1, <1>2

\* The invariant is kept when what is due stays the same.
LEMMA OrderKept ==
  ASSUME Typed, Order, log' = log, chan' = chan, cursor' = cursor, FillIds' = FillIds,
         Claim' => /\ Claim /\ Due' = Due /\ Sure \subseteq Sure'
                   /\ \A f \in Froms' : f \in Froms \/ \A id \in Due : Ts(id) <= f => id \in Sure
                   /\ Loading' = {} => Loading = {} \/ OptTs' = {}
                   /\ \A ts \in OptTs' : ts \in OptTs \/ \A id \in Here : ~(Ts(id) >= ts)
  PROVE  Order'
<1> SUFFICES ASSUME Claim' PROVE Closed' /\ AheadDue' /\ BehindSure' /\ OptDue'
  BY DEF Order
<1>1. Here' = Here
  BY DEF Here, Of, Ids
<1>2. Closed /\ AheadDue /\ BehindSure /\ OptDue
  BY DEF Order
<1>3. Closed'
  BY <1>1, <1>2 DEF Closed
<1>4. AheadDue'
  BY <1>1, <1>2 DEF AheadDue, Ts
<1>5. BehindSure'
  BY <1>2 DEF BehindSure, Ts
<1>6. OptDue'
  BY <1>1, <1>2 DEF OptDue, Ts
<1> QED
  BY <1>3, <1>4, <1>5, <1>6

\* The same, when the list and the functions have the same messages between them,
\* and the frames that are gone are of messages they have.
LEMMA OrderStays ==
  ASSUME Typed, Order, log' = log, chan' = chan, cursor' = cursor, FillIds' = FillIds,
         socket' = "down" <=> socket = "down",
         Claim' => /\ Claim
                   /\ Here \cap (ShownIds' \cup HeldIds') = Here \cap (ShownIds \cup HeldIds)
                   /\ Here \cap Framed' \subseteq Framed
                   /\ Here \cap Framed \subseteq Framed' \cup Sure
                   /\ Asked' = Asked /\ Froms' \subseteq Froms
                   /\ Loading' = {} => Loading = {} \/ OptTs' = {}
                   /\ \A ts \in OptTs' : ts \in OptTs \/ \A id \in Here : ~(Ts(id) >= ts)
  PROVE  Order'
<1>1. Here' = Here
  BY DEF Here, Of, Ids
<1>2. Claim' => Sure' = Sure
  BY <1>1 DEF Sure, Ts
<1>3. Missable' = Missable
  BY <1>1 DEF Missable, Ts
<1>4. Claim' => Due' = Due
  BY <1>1, <1>2, <1>3 DEF Due
<1> QED
  BY <1>2, <1>4, OrderKept

\* A step that leaves the functions and the messages of the list as they are.
LEMMA OrderSame ==
  ASSUME Typed, Order, log' = log, chan' = chan, cursor' = cursor, socket' = "down" <=> socket = "down",
         PartsSame, hurt' = {} => hurt = {},
         Here \cap ShownIds' = Here \cap ShownIds,
         Here \cap Framed' = Here \cap Framed,
         \A ts \in OptTs' : ts \in OptTs \/ \A id \in Here : ~(Ts(id) >= ts)
  PROVE  Order'
<1>1. Here' = Here
  BY DEF Here, Of, Ids
<1>2. Claim' => Claim
  BY <1>1 DEF Claim, Kept, Void, PartsSame
<1>3. Here \cap (ShownIds' \cup HeldIds') = Here \cap (ShownIds \cup HeldIds)
  BY DEF PartsSame
<1>4. FillIds' = FillIds /\ Asked' = Asked /\ Froms' = Froms /\ (Loading' = {} => Loading = {})
  BY DEF PartsSame
<1>5. Here \cap Framed' \subseteq Framed /\ Here \cap Framed \subseteq Framed' \cup Sure
  OBVIOUS
<1> QED
  BY <1>2, <1>3, <1>4, <1>5, OrderStays

\* The log grows by a message that goes to the socket, or is asked for when the
\* socket is back.
LEMMA OrderGrows ==
  ASSUME ConstantsOK, Typed, Typed', Order, NEW m \in Msg, log' = Append(log, m), chan' = chan, cursor' = cursor,
         socket' = socket, rows' = rows, tasks' = tasks,
         hurt' = {} => hurt = {},
         Framed \subseteq Framed', Framed' \subseteq Framed \cup {Len(log) + 1},
         m.ch = chan /\ hurt' = {} => socket = "down" \/ Len(log) + 1 \in Framed'
  PROVE  Order'
<1> DEFINE n == Len(log) + 1
<1>0. Len(log) \in Nat /\ n \in Nat /\ log \in Seq(Msg) /\ LogGrows
  BY DEF Typed, ServerT, LogGrows
<1>1. /\ Here \subseteq Nat \ {0} /\ (\A id \in Here : id < n) /\ n \notin Here
      /\ cursor \in Nat /\ cursor < Ts(n)
      /\ (\A id \in FillIds \cup HeldIds : id \in Nat /\ id < n)
      /\ \A f \in Froms \cup Asked : f \in Nat /\ f < Ts(n)
  <2>1. Here \subseteq Ids /\ Ids = 1..Len(log) /\ cursor \in Nat /\ cursor <= 2 * Len(log)
    BY HereOK, PageIds
  <2>2. \A t \in Working : IdsOf(t) \subseteq Ids
    BY WorkingOK
  <2>3. FillIds \cup HeldIds \subseteq Ids
    BY <2>2 DEF FillIds, HeldIds, Filling, Loading
  <2>4. \A t \in Catching : t.from \in Nat /\ t.from <= 2 * Len(log)
    BY WorkingOK DEF Catching, TaskOK, TaskT
  <2>5. \A f \in Froms \cup Asked : f \in Nat /\ f <= 2 * Len(log)
    BY <2>4 DEF Froms, Asked
  <2> QED
    BY <1>0, <2>1, <2>3, <2>5 DEF Ts
<1>2. Here' = IF m.ch = chan THEN Here \cup {n} ELSE Here
  <2>1. Ids' = Ids \cup {n} /\ (\A i \in Ids : log'[i] = log[i]) /\ log'[n] = m
    BY <1>0 DEF Ids
  <2> QED
    BY <2>1 DEF Here, Of
<1>3. PartsSame
  BY WorkingSame DEF Working
<1>4. ShownIds' = ShownIds /\ OptTs' = OptTs /\ ShownIds \subseteq Ids
  <2>1. \A i \in DOMAIN rows : rows[i].id # 0 => rows[i].id \in Ids
    BY DEF Typed, RowsT, RowOK
  <2> QED
    BY <2>1 DEF ShownIds, OptTs
<1>14. n \notin ShownIds
  BY <1>0, <1>4, PageIds
<1>13. \A id : Ts(id)' = Ts(id)
  BY DEF Ts
<1> HIDE DEF n
<1> SUFFICES ASSUME Claim' PROVE Closed' /\ AheadDue' /\ BehindSure' /\ OptDue'
  BY DEF Order
<1>5. Claim
  <2>1. Here \subseteq Here'
    BY <1>2
  <2> QED
    BY <1>3, <1>4, <2>1 DEF Claim, Kept, Void, PartsSame
<1>6. Closed /\ AheadDue /\ BehindSure /\ OptDue
  BY <1>5 DEF Order
<1>7. \A id \in Here : id \in Here' /\ (id \in Sure <=> id \in Sure')
  BY <1>2, <1>3, <1>4 DEF Sure, PartsSame, Ts
<1>8. \A id \in Here : id \in Missable <=> id \in Missable'
  BY <1>2, <1>3 DEF Missable, PartsSame, Ts
<1>9. \A id \in Here : id \in Framed <=> id \in Framed'
  BY <1>1 DEF n
<1>10. \A id \in Here : id \in Due <=> id \in Due'
  BY <1>7, <1>8, <1>9, <1>2 DEF Due
<1>11. m.ch = chan => n \in Due'
  <2> SUFFICES ASSUME m.ch = chan PROVE n \in Due'
    OBVIOUS
  <2>1. n \in Here' /\ hurt' = {}
    BY <1>2 DEF Claim
  <2>2. CASE n \in Framed'
    BY <2>1, <2>2 DEF Due
  <2>3. CASE socket = "down"
    <3>1. cursor = 0 => FillIds # {}
      BY <1>5, <2>3 DEF Claim, Void
    <3>2. n \in Missable'
      <4>1. FillIds' = FillIds
        BY <1>3 DEF PartsSame
      <4>2. 2 * n > cursor'
        BY <1>0, <1>1 DEF Ts
      <4>3. cursor' = 0 => FillIds' # {} /\ \A j \in FillIds' : j < n
        BY <1>1, <3>1, <4>1
      <4> QED
        BY <2>1, <2>3, <4>2, <4>3 DEF Missable, Ts
    <3> QED
      BY <3>2 DEF Due
  <2> QED
    BY <2>2, <2>3, <2>1 DEF n
<1>12. \A id \in Here' : id \in Here \/ (id = n /\ m.ch = chan)
  BY <1>2
<1>15. Due \subseteq Here /\ Due' \subseteq Here'
  BY DEF Due, Sure, Missable
<1>16. Closed'
  <2> SUFFICES ASSUME NEW v \in Due', NEW id \in Here', v <= id PROVE id \in Due'
    BY DEF Closed
  <2>1. CASE id = n /\ m.ch = chan
    BY <2>1, <1>11
  <2>2. CASE id \in Here
    <3>1. v \in Here
      BY <2>2, <1>1, <1>12, <1>15
    <3> QED
      BY <2>2, <3>1, <1>6, <1>10 DEF Closed
  <2> QED
    BY <2>1, <2>2, <1>12
<1>17. AheadDue'
  <2> SUFFICES ASSUME NEW id \in Here', Ts(id) > cursor, cursor = 0 => \A j \in FillIds' : j < id
               PROVE  id \in Due'
    BY <1>13 DEF AheadDue
  <2> QED
    BY <1>3, <1>6, <1>10, <1>11, <1>12 DEF AheadDue, PartsSame
<1>18. BehindSure'
  <2> SUFFICES ASSUME NEW id \in Due',
                      Ts(id) <= cursor \/ (\E j \in FillIds : id <= j) \/ (\E f \in Froms : Ts(id) <= f)
               PROVE  id \in Sure'
    BY <1>3, <1>13 DEF BehindSure, PartsSame
  <2>1. CASE id \in Here
    BY <2>1, <1>6, <1>7, <1>10 DEF BehindSure
  <2>2. CASE id = n
    <3>1. Ts(n) \in Nat /\ n \in Nat
      BY <1>0 DEF Ts, n
    <3> QED
      BY <2>2, <3>1, <1>1
  <2> QED
    BY <2>1, <2>2, <1>12, <1>15
<1>19. OptDue'
  <2> SUFFICES ASSUME Loading' = {}, NEW ts \in OptTs, NEW id \in Here', Ts(id) >= ts PROVE id \in Due'
    BY <1>4, <1>13 DEF OptDue
  <2> QED
    BY <1>3, <1>6, <1>10, <1>11, <1>12 DEF OptDue, PartsSame
<1> QED
  BY <1>16, <1>17, <1>18, <1>19

\* The socket drops: what was on it is asked for when it is back.
LEMMA OrderDrops ==
  ASSUME Typed, Order, Drop
  PROVE  Order'
<1>1. /\ log' = log /\ chan' = chan /\ cursor' = cursor /\ rows' = rows /\ tasks' = tasks /\ hurt' = hurt
      /\ socket # "down" /\ socket' = "down" /\ feed' = <<>>
  BY DEF Drop, view, history
<1>2. Here' = Here /\ ShownIds' = ShownIds /\ OptTs' = OptTs /\ \A id : Ts(id)' = Ts(id)
  BY <1>1 DEF Here, Of, Ids, ShownIds, OptTs, Ts
<1>3. PartsSame
  BY <1>1, WorkingSame DEF Working
<1>4. Sure' = Sure
  BY <1>2, <1>3 DEF Sure, PartsSame
<1>5. Claim' => Claim
  BY <1>1, <1>2, <1>3 DEF Claim, Kept, Void, PartsSame
<1>6. ASSUME Claim' PROVE Due' = Due
  <2>0. Claim /\ AheadDue /\ BehindSure
    BY <1>5, <1>6 DEF Order
  <2>1. Framed' = {} /\ Missable = {}
    BY <1>1 DEF Framed, Missable
  <2>2. cursor = 0 => FillIds # {}
    BY <1>1, <1>3, <1>6 DEF Claim, Void, PartsSame
  <2>3. \A id \in Here : id \in Missable' <=> (cursor # 0 => Ts(id) > cursor) /\ (cursor = 0 => FillIds # {} /\ \A j \in FillIds : j < id)
    BY <1>1, <1>2, <1>3 DEF Missable, PartsSame
  <2>4. \A id \in Here : Ts(id) \in Nat /\ id \in Nat /\ Ts(id) > 0 /\ cursor \in Nat
    BY HereOK DEF Ts
  <2>5. \A j \in FillIds : j \in Nat
    BY WorkingOK DEF FillIds, Filling, Loading
  <2>6. ASSUME NEW id \in Here, id \in Missable' PROVE id \in Due
    BY <2>0, <2>3, <2>4, <2>6 DEF AheadDue
  <2>7. ASSUME NEW id \in Here, id \in Due, id \notin Sure PROVE id \in Missable'
    BY <2>0, <2>2, <2>3, <2>4, <2>5, <2>7 DEF BehindSure
  <2>8. Due \subseteq Here /\ Due' \subseteq Here /\ Sure \subseteq Due
    BY <1>2 DEF Due, Sure, Missable
  <2>9. \A id \in Here : id \in Due' <=> id \in Sure \/ id \in Missable'
    BY <1>2, <1>4, <2>1 DEF Due
  <2>10. \A id \in Here : id \in Due' <=> id \in Due
    BY <2>6, <2>7, <2>8, <2>9
  <2> QED
    BY <2>8, <2>10
<1> QED
  BY <1>1, <1>2, <1>3, <1>4, <1>5, <1>6, OrderKept DEF PartsSame

\* The socket is back: all that is due is asked for.
LEMMA OrderReconnects ==
  ASSUME Typed, Order, Reconnected
  PROVE  Order'
<1>1. /\ log' = log /\ chan' = chan /\ cursor' = cursor /\ feed' = feed
      /\ socket = "down" /\ socket' = "open" /\ feed = <<>>
  BY DEF Reconnected, view, Typed, ServerT
<1>2. Restamped
  BY ReconnectedTyped
<1>3. Here' = Here /\ \A id : Ts(id)' = Ts(id)
  BY <1>1 DEF Here, Of, Ids, Ts
<1>4. ShownIds' = ShownIds /\ OptTs' = OptTs
  <2>1. DOMAIN rows' = DOMAIN rows /\ \A i \in DOMAIN rows : rows'[i].id = rows[i].id /\ rows'[i].ts = rows[i].ts
    BY <1>2 DEF Restamped
  <2> QED
    BY <2>1 DEF ShownIds, OptTs
<1> SUFFICES ASSUME Claim' PROVE Closed' /\ AheadDue' /\ BehindSure' /\ OptDue'
  BY DEF Order
<1>5. CASE cursor = 0
  <2>1. tasks' = tasks
    BY <1>5 DEF Reconnected
  <2>2. ~LoadAsks
    BY <2>1 DEF Claim, LoadAsks, Kind
  <2>3. ~ \E t \in Kind("load") : t.run = "on" /\ t.at = "ask"
    BY <2>2 DEF LoadAsks
  <2>4. "nocursor" \in hurt'
    BY <1>5, <2>3 DEF Reconnected
  <2> QED
    BY <2>4 DEF Claim
<1>6. CASE cursor # 0
  <2> DEFINE t == [Task("catch", chan, "ask") EXCEPT !.from = cursor]
  <2>1. tasks' = tasks \cup {t} /\ hurt' = hurt
    BY <1>6 DEF Reconnected
  <2>2. t.kind = "catch" /\ t.at = "ask" /\ t.run = "on" /\ t.from = cursor /\ IdsOf(t) = {}
    BY DEF Task, IdsOf, GotIds
  <2> HIDE DEF t
  <2>3. Working' = Working \cup {t}
    BY <2>1, <2>2 DEF Working
  <2>4. HeldIds' = HeldIds
    BY <2>2, <2>3 DEF HeldIds
  <2>5. Loading' = Loading /\ Filling' = Filling
    BY <2>2, <2>3 DEF Loading, Filling
  <2>6. FillIds' = FillIds /\ (LoadAsks' <=> LoadAsks)
    BY <2>5, LoadAsksIs DEF FillIds
  <2>7. Catching' = Catching \cup {t}
    BY <2>2, <2>3 DEF Catching
  <2>8. Asked' = Asked \cup {cursor}
    BY <2>2, <2>7 DEF Asked, Asks
  <2>9. Claim
    BY <1>3, <1>4, <1>6, <2>1, <2>5, <2>6 DEF Claim, Kept, Void
  <2>10. Closed /\ AheadDue /\ BehindSure /\ OptDue
    BY <2>9 DEF Order
  <2>11. Framed = {} /\ Framed' = {}
    BY <1>1 DEF Framed
  <2>12. Missable = {id \in Here : Ts(id) > cursor} /\ Missable' = {}
    BY <1>1, <1>6 DEF Missable
  <2>13. \A id \in Here : id \in Sure' <=> id \in Sure \/ Ts(id) > cursor
    BY <1>3, <1>4, <2>4, <2>8 DEF Sure
  <2>14. Due' = Due /\ Sure' = Due
    <3>1. \A id \in Here : id \in Due <=> id \in Sure \/ Ts(id) > cursor
      BY <2>11, <2>12 DEF Due
    <3>2. \A id \in Here : id \in Due' <=> id \in Sure'
      BY <2>11, <2>12, <1>3 DEF Due
    <3>3. Due \subseteq Here /\ Due' \subseteq Here /\ Sure' \subseteq Here
      BY <1>3 DEF Due, Sure, Missable
    <3> QED
      BY <3>1, <3>2, <3>3, <2>13
  <2>15. Closed'
    BY <1>3, <2>10, <2>14 DEF Closed
  <2>16. AheadDue'
    BY <1>1, <1>3, <2>6, <2>10, <2>14 DEF AheadDue
  <2>17. BehindSure'
    BY <2>14 DEF BehindSure
  <2>18. OptDue'
    BY <1>3, <1>4, <2>5, <2>10, <2>14 DEF OptDue
  <2> QED
    BY <2>15, <2>16, <2>17, <2>18
<1> QED
  BY <1>5, <1>6

\* The frame that is taken is of the oldest message on the socket.
LEMMA FrameTaken ==
  ASSUME Typed, NEW kind \in {"new", "ack", "error"}, Frame(kind)
  PROVE  /\ Framed = {Head(feed).id} \cup Framed'
         /\ kind = "error" => Head(feed).id = 0
         /\ kind # "error" => \A x \in Framed : x # 0 => Head(feed).id <= x
         /\ Head(feed) = feed[1] /\ socket # "down" /\ (kind # "error" => Head(feed).id \in Ids)
<1>1. /\ feed # <<>> /\ feed \in Seq(FrameT) /\ Len(feed) \in Nat /\ 1 \in DOMAIN feed
      /\ Head(feed) = feed[1] /\ feed[1].kind = kind /\ socket # "down"
      /\ DOMAIN feed = 1..Len(feed) /\ DOMAIN feed' = 1..(Len(feed) - 1)
      /\ \A i \in DOMAIN feed' : feed'[i] = feed[i + 1]
      /\ kind # "error" => feed[1].id \in Ids
  BY FrameOK
<1>2. \A i \in DOMAIN feed : i = 1 \/ (i - 1 \in DOMAIN feed' /\ feed'[i - 1] = feed[i])
  BY <1>1
<1>3. Framed \subseteq {feed[1].id} \cup Framed'
  BY <1>1, <1>2 DEF Framed
<1>4. \A i \in DOMAIN feed' : i + 1 \in DOMAIN feed
  BY <1>1
<1>5. {feed[1].id} \cup Framed' \subseteq Framed
  BY <1>1, <1>4 DEF Framed
<1>6. kind = "error" => feed[1].id = 0
  BY <1>1 DEF Typed, FeedT
<1>7. ASSUME kind # "error", NEW i \in DOMAIN feed, feed[i].id # 0 PROVE feed[1].id <= feed[i].id
  <2>3. feed[1] \in FrameT /\ feed[i] \in FrameT
    <3>1. feed \in Seq(FrameT) /\ 1 \in DOMAIN feed
      BY <1>1
    <3> QED
      BY <3>1
  <2>0. feed[1].id \in Nat /\ feed[i].id \in Nat
    BY <2>3 DEF FrameT
  <2>1. CASE i = 1
    BY <2>0, <2>1
  <2>2. CASE i # 1
    <3>1. 1 < i
      BY <1>1, <2>2
    <3>2. feed[i].kind # "error"
      BY <1>7 DEF Typed, FeedT
    <3>3. feed[1].id < feed[i].id \/ feed[1].id = feed[i].id
      BY <3>1, <3>2, <1>1, <1>7 DEF Typed, FeedT
    <3> QED
      BY <3>3, <2>0
  <2> QED
    BY <2>1, <2>2
<1>8. kind # "error" => \A x \in Framed : x # 0 => feed[1].id <= x
  BY <1>7 DEF Framed
<1>9. Framed = {feed[1].id} \cup Framed'
  BY <1>3, <1>5
<1> QED
  BY <1>1, <1>6, <1>8, <1>9

\* A message is taken from the socket: what is due is the same, and the cursor
\* passes only what the list has.
LEMMA OrderTakes ==
  ASSUME Typed, Typed', Order, NEW kind \in {"new", "ack"}, Frame(kind), NEW id, id = Head(feed).id, id \in Here,
         log' = log, chan' = chan, socket' = socket, cursor' = Bump(id), hurt' = {} => hurt = {},
         FillIds' = FillIds, Froms' = Froms, Asked' = Asked, Filling = {} <=> Filling' = {},
         Loading = {} <=> Loading' = {}, LoadAsks <=> LoadAsks',
         Claim' => Here \cap (ShownIds' \cup HeldIds') = Here \cap (ShownIds \cup HeldIds \cup {id}),
         Here \cap ShownIds \subseteq ShownIds', OptTs' \subseteq OptTs
  PROVE  Order'
<1>1. Here' = Here /\ (\A x : Ts(x)' = Ts(x)) /\ (\A x \in Here : x \in Nat \ {0} /\ Ts(x) \in Nat /\ Ts(x) > 0 /\ Ts(x) = 2 * x)
  BY HereOK DEF Here, Of, Ids, Ts
<1>2. /\ Framed = {id} \cup Framed' /\ socket # "down" /\ \A x \in Framed : x # 0 => id <= x
  BY FrameTaken
<1>3. cursor \in Nat /\ (cursor' = cursor \/ cursor' = Ts(id)) /\ (cursor' = 0 => cursor = 0)
  <2>1. cursor \in Nat
    BY HereOK
  <2> QED
    BY <2>1, <1>1 DEF Bump
<1>4. Missable = {} /\ Missable' = {}
  BY <1>2 DEF Missable
<1> SUFFICES ASSUME Claim' PROVE Closed' /\ AheadDue' /\ BehindSure' /\ OptDue'
  BY DEF Order
<1>5. Claim
  <2>1. ~Void
    BY <1>2 DEF Void
  <2>2. Kept
    BY <1>1 DEF Claim, Kept
  <2> QED
    BY <2>1, <2>2 DEF Claim
<1>6. Closed /\ AheadDue /\ BehindSure /\ OptDue
  BY <1>5 DEF Order
<1>7. Sure' = Sure \cup {id}
  <2>1. \A x \in Here : x \in ShownIds' \/ x \in HeldIds' <=> x \in ShownIds \/ x \in HeldIds \/ x = id
    OBVIOUS
  <2> QED
    BY <1>1, <2>1 DEF Sure
<1>8. Due = Sure \cup (Here \cap Framed) /\ Due' = Sure' \cup (Here \cap Framed')
  BY <1>1, <1>4 DEF Due
<1>9. Due' = Due /\ id \in Due
  BY <1>2, <1>7, <1>8
<1>10. Closed'
  BY <1>1, <1>6, <1>9 DEF Closed
<1>11. AheadDue'
  <2> SUFFICES ASSUME NEW x \in Here, Ts(x) > cursor', cursor' = 0 => \A j \in FillIds : j < x PROVE x \in Due
    BY <1>1, <1>9 DEF AheadDue
  <2>1. CASE cursor' = cursor
    BY <2>1, <1>6 DEF AheadDue
  <2>2. CASE cursor' = Ts(id)
    <3>1. id <= x
      BY <2>2, <1>1
    <3> QED
      BY <3>1, <1>6, <1>9 DEF Closed
  <2> QED
    BY <2>1, <2>2, <1>3
<1>12. BehindSure'
  <2> SUFFICES ASSUME NEW x \in Due,
                      Ts(x) <= cursor' \/ (\E j \in FillIds : x <= j) \/ (\E f \in Froms : Ts(x) <= f)
               PROVE  x \in Sure'
    BY <1>1, <1>9 DEF BehindSure
  <2>1. CASE Ts(x) <= cursor \/ (\E j \in FillIds : x <= j) \/ (\E f \in Froms : Ts(x) <= f)
    BY <2>1, <1>6, <1>7 DEF BehindSure
  <2>2. CASE Ts(x) <= Ts(id)
    <3>1. x \in Here
      BY <1>8 DEF Sure
    <3>2. x <= id
      BY <2>2, <3>1, <1>1
    <3>3. CASE x \in Framed
      BY <3>1, <3>2, <3>3, <1>1, <1>2, <1>7
    <3>4. CASE x \notin Framed
      BY <3>4, <1>7, <1>8
    <3> QED
      BY <3>3, <3>4
  <2> QED
    BY <2>1, <2>2, <1>3
<1>13. OptDue'
  BY <1>1, <1>6, <1>9 DEF OptDue
<1> QED
  BY <1>10, <1>11, <1>12, <1>13

\* What a row's confirmation does to the list.
LEMMA ConfirmedShown ==
  ASSUME Typed, NEW hits \in SUBSET (DOMAIN rows), NEW id \in Ids, \A i \in hits : rows[i].id = 0, ConfirmedAt(hits, id)
  PROVE  /\ ShownIds \subseteq ShownIds' /\ ShownIds' \subseteq ShownIds \cup {id}
         /\ hits # {} => id \in ShownIds'
         /\ OptTs' \subseteq OptTs
<1>1. id # 0
  BY PageIds
<1>2. \A i \in DOMAIN rows : rows[i].id # 0 => rows'[i].id = rows[i].id
  BY DEF ConfirmedAt
<1>3. \A i \in DOMAIN rows : rows'[i].id = rows[i].id \/ (i \in hits /\ rows'[i].id = id)
  BY DEF ConfirmedAt
<1>4. \A i \in DOMAIN rows : rows'[i].id = 0 => rows[i].id = 0 /\ rows'[i].ts = rows[i].ts
  BY <1>1 DEF ConfirmedAt
<1>5. DOMAIN rows' = DOMAIN rows /\ \A i \in hits : rows'[i].id = id
  BY DEF ConfirmedAt
<1>6. ShownIds \subseteq ShownIds'
  BY <1>2, <1>5 DEF ShownIds
<1>7. ShownIds' \subseteq ShownIds \cup {id}
  BY <1>3, <1>5 DEF ShownIds
<1>8. hits # {} => id \in ShownIds'
  BY <1>1, <1>5 DEF ShownIds
<1>9. OptTs' \subseteq OptTs
  BY <1>4, <1>5 DEF OptTs
<1> QED
  BY <1>6, <1>7, <1>8, <1>9

\* Rows that fail change nothing that is shown.
LEMMA RestampedShown ==
  ASSUME Restamped
  PROVE  ShownIds' = ShownIds /\ OptTs' = OptTs
<1>1. DOMAIN rows' = DOMAIN rows /\ \A i \in DOMAIN rows : rows'[i].id = rows[i].id /\ rows'[i].ts = rows[i].ts
  BY DEF Restamped
<1> QED
  BY <1>1 DEF ShownIds, OptTs

\* A message that is shown in the open channel is of it.
LEMMA NotElsewhere ==
  ASSUME NEW id \in Ids
  PROVE  ~Elsewhere(id) <=> id \in Here
BY DEF Elsewhere, Here, Of

\* A frame is ignored when its message is known, or of another channel.
LEMMA OrderIgnores ==
  ASSUME Typed, Knowing, Order, IgnoreFrame
  PROVE  Order'
<1>1. /\ log' = log /\ chan' = chan /\ cursor' = cursor /\ rows' = rows /\ tasks' = tasks /\ hurt' = hurt /\ socket' = socket
      /\ known' = known
  BY DEF IgnoreFrame, view, history
<1>2. PartsSame /\ ShownIds' = ShownIds /\ OptTs' = OptTs
  BY <1>1, WorkingSame DEF Working, ShownIds, OptTs
<1>3. PICK kind \in {"new", "ack"} : Frame(kind)
  BY DEF IgnoreFrame
<1>4. Framed = {Head(feed).id} \cup Framed' /\ Head(feed).id \in Ids
  BY <1>3, FrameTaken
<1>5. CASE Head(feed).id \notin Here
  <2>1. Here \cap Framed' = Here \cap Framed
    BY <1>4, <1>5
  <2> QED
    BY <1>1, <1>2, <2>1, OrderSame
<1>6. CASE Head(feed).id \in Here
  <2>1. Head(feed).id \in known
    BY <1>4, <1>6, NotElsewhere DEF IgnoreFrame
  <2>2. Claim' => Claim /\ Head(feed).id \in Sure
    <3> SUFFICES ASSUME Claim' PROVE Claim /\ Head(feed).id \in Sure
      OBVIOUS
    <3>1. Here' = Here
      BY <1>1 DEF Here, Of, Ids
    <3>2. Claim
      BY <1>1, <1>2, <3>1 DEF Claim, Kept, Void, PartsSame
    <3>3. Head(feed).id \in OnList
      BY <1>6, <2>1, <3>2 DEF Claim, Knowing, KnownListed
    <3> QED
      BY <1>6, <3>2, <3>3, OnListSure
  <2>3. Claim' => Here \cap Framed \subseteq Framed' \cup Sure
    BY <1>4, <2>2
  <2>4. /\ FillIds' = FillIds /\ Here \cap (ShownIds' \cup HeldIds') = Here \cap (ShownIds \cup HeldIds)
        /\ Here \cap Framed' \subseteq Framed
        /\ Asked' = Asked /\ Froms' \subseteq Froms /\ (Loading' = {} => Loading = {})
        /\ (\A ts \in OptTs' : ts \in OptTs)
    BY <1>2, <1>4 DEF PartsSame
  <2> QED
    BY <1>1, <2>2, <2>3, <2>4, OrderStays
<1> QED
  BY <1>5, <1>6

\* An error changes nothing that is due.
LEMMA OrderErrors ==
  ASSUME Typed, Order, onError
  PROVE  Order'
<1>1. /\ log' = log /\ chan' = chan /\ cursor' = cursor /\ tasks' = tasks /\ hurt' = hurt /\ socket' = socket
  BY DEF onError, view, history
<1>2. PartsSame /\ ShownIds' = ShownIds /\ OptTs' = OptTs
  BY <1>1, WorkingSame, onErrorTyped, RestampedShown DEF Working
<1>3. Framed = {0} \cup Framed'
  BY FrameTaken DEF onError
<1>4. Here \cap Framed' = Here \cap Framed
  BY <1>3, HereOK
<1> QED
  BY <1>1, <1>2, <1>4, OrderSame

\* A new message: its row is to come.
LEMMA OrderNew ==
  ASSUME Typed, Order, onMessageNew
  PROVE  Order'
<1> DEFINE id == Head(feed).id
           u == [Task("live", chan, "rows") EXCEPT !.todo = {id}]
<1>1. /\ log' = log /\ chan' = chan /\ rows' = rows /\ hurt' = hurt /\ socket' = socket /\ cursor' = Bump(id)
      /\ tasks' = tasks \cup {u} /\ Frame("new") /\ ~Elsewhere(id)
  BY DEF onMessageNew, view, history
<1>2. u.kind = "live" /\ u.run = "on" /\ IdsOf(u) = {id}
  BY DEF Task, IdsOf, GotIds
<1>3. id \in Here /\ Typed'
  BY <1>1, FrameTaken, NotElsewhere, onMessageNewTyped
<1> HIDE DEF u, id
<1>4. Working' = Working \cup {u}
  BY <1>1, <1>2 DEF Working
<1>5. HeldIds' = HeldIds \cup {id}
  BY <1>2, <1>4 DEF HeldIds
<1>6. Loading' = Loading /\ Catching' = Catching /\ Filling' = Filling
  BY <1>2, <1>4 DEF Loading, Catching, Filling
<1>7. FillIds' = FillIds /\ Froms' = Froms /\ Asked' = Asked /\ (LoadAsks' <=> LoadAsks)
  BY <1>6, LoadAsksIs DEF FillIds, Froms, Asked
<1>8. ShownIds' = ShownIds /\ OptTs' = OptTs
  BY <1>1 DEF ShownIds, OptTs
<1>9. Here \cap (ShownIds' \cup HeldIds') = Here \cap (ShownIds \cup HeldIds \cup {id})
  BY <1>5, <1>8
<1>10. Here \cap ShownIds \subseteq ShownIds' /\ OptTs' \subseteq OptTs
  BY <1>8
<1> QED
  BY <1>1, <1>3, <1>6, <1>7, <1>9, <1>10, OrderTakes DEF id

\* The echo, or the acknowledgement, of an own message confirms its row.
LEMMA OrderConfirms ==
  ASSUME Typed, Typed', Order, NEW kind \in {"new", "ack"}, Frame(kind), NEW id, id = Head(feed).id, ~Elsewhere(id),
         UNCHANGED <<log, socket, view, tasks>>, cursor' = Bump(id), hurt' = {} => hurt = {},
         NEW hits \in SUBSET (DOMAIN rows), \A i \in hits : rows[i].id = 0, ConfirmedAt(hits, id),
         hits = {} => hurt' # {}
  PROVE  Order'
<1>1. log' = log /\ chan' = chan /\ socket' = socket /\ tasks' = tasks
  BY DEF view
<1>2. id \in Here /\ id \in Ids
  BY FrameTaken, NotElsewhere
<1>3. PartsSame
  BY <1>1, WorkingSame DEF Working
<1>4. ShownIds \subseteq ShownIds' /\ ShownIds' \subseteq ShownIds \cup {id} /\ (hits # {} => id \in ShownIds') /\ OptTs' \subseteq OptTs
  BY <1>2, ConfirmedShown
<1>5. HeldIds' = HeldIds
  BY <1>3 DEF PartsSame
<1>6. Claim' => Here \cap (ShownIds' \cup HeldIds') = Here \cap (ShownIds \cup HeldIds \cup {id})
  <2>1. Claim' => hits # {}
    BY DEF Claim
  <2> QED
    BY <2>1, <1>2, <1>4, <1>5
<1>7. /\ FillIds' = FillIds /\ Froms' = Froms /\ Asked' = Asked /\ (Filling = {} <=> Filling' = {})
      /\ (Loading = {} <=> Loading' = {}) /\ (LoadAsks <=> LoadAsks') /\ Here \cap ShownIds \subseteq ShownIds'
  BY <1>3, <1>4 DEF PartsSame
<1> QED
  BY <1>1, <1>2, <1>4, <1>6, <1>7, OrderTakes

\* Taking a frame.
LEMMA OrderDelivers ==
  ASSUME Typed, Knowing, Order, Deliver
  PROVE  Order'
<1>1. CASE OwnEcho
  <2>1. /\ Typed' /\ FirstPending \in SUBSET (DOMAIN rows) /\ ConfirmedAt(FirstPending, feed[1].id)
        /\ FirstPending = {} => hurt' # {}
    BY <1>1, OwnEchoTyped
  <2>2. \A i \in FirstPending : rows[i].id = 0
    BY FirstPendingOK DEF Typed
  <2>3. /\ Frame("new") /\ ~Elsewhere(Head(feed).id) /\ UNCHANGED <<log, socket, view, tasks>> /\ cursor' = Bump(Head(feed).id)
        /\ hurt' = {} => hurt = {}
    BY <1>1 DEF OwnEcho
  <2>4. Head(feed) = feed[1]
    BY <2>3, FrameTaken
  <2> QED
    BY <2>1, <2>2, <2>3, <2>4, OrderConfirms
<1>2. CASE onSendAck
  <2> DEFINE hits == Unconfirmed(feed[1].lid)
  <2>1. /\ Typed' /\ ConfirmedAt(hits, feed[1].id) /\ (hits = {} => hurt' # {})
    BY <1>2, onSendAckTyped
  <2>2. hits \in SUBSET (DOMAIN rows) /\ \A i \in hits : rows[i].id = 0
    BY DEF Unconfirmed
  <2>3. /\ Frame("ack") /\ ~Elsewhere(Head(feed).id) /\ UNCHANGED <<log, socket, view, tasks>> /\ cursor' = Bump(Head(feed).id)
        /\ hurt' = {} => hurt = {}
    BY <1>2 DEF onSendAck
  <2>4. Head(feed) = feed[1]
    BY <2>3, FrameTaken
  <2> HIDE DEF hits
  <2> QED
    BY <2>1, <2>2, <2>3, <2>4, OrderConfirms
<1> QED
  BY <1>1, <1>2, OrderIgnores, OrderNew, OrderErrors DEF Deliver

\* The rows a function brings are the list's from then on.
LEMMA JoinsShown ==
  ASSUME Typed, NEW t \in tasks, t.kind \in Fetches, Joins(t.got, rows, rows') \/ Joins(rows, t.got, rows')
  PROVE  ShownIds' = ShownIds \cup GotIds(t) /\ OptTs' = OptTs
<1>1. \A i \in DOMAIN t.got : t.got[i].id # 0
  BY GotRows
<1>2. /\ \A i \in DOMAIN rows' : (\E j \in DOMAIN rows : rows'[i] = rows[j]) \/ (\E j \in DOMAIN t.got : rows'[i] = t.got[j])
      /\ \A j \in DOMAIN rows : \E i \in DOMAIN rows' : rows'[i] = rows[j]
      /\ \A j \in DOMAIN t.got : \E i \in DOMAIN rows' : rows'[i] = t.got[j]
  BY DEF Joins
<1>3. ShownIds' \subseteq ShownIds \cup GotIds(t)
  BY <1>2 DEF ShownIds, GotIds
<1>4. ShownIds \subseteq ShownIds'
  BY <1>2 DEF ShownIds
<1>5. GotIds(t) \subseteq ShownIds'
  BY <1>1, <1>2 DEF ShownIds, GotIds
<1>6. OptTs' \subseteq OptTs
  BY <1>1, <1>2 DEF OptTs
<1>7. OptTs \subseteq OptTs'
  BY <1>2 DEF OptTs
<1> QED
  BY <1>3, <1>4, <1>5, <1>6, <1>7

\* A function that works for the list ends.
LEMMA WorkingEnds ==
  ASSUME NEW t \in Working, Ends(t)
  PROVE  /\ Working' = Working \ {t} /\ HeldIds' \cup IdsOf(t) = HeldIds /\ IdsOf(t) \subseteq HeldIds
         /\ t.kind # "load" => Loading' = Loading /\ Filling' = Filling /\ FillIds' = FillIds /\ (LoadAsks' <=> LoadAsks)
         /\ t.kind # "catch" => Froms' = Froms /\ Asked' = Asked
         /\ Froms' \subseteq Froms
         /\ t.kind = "catch" /\ ~Asks(t) => Asked' = Asked
         /\ t.kind = "catch" => t \in Catching
<1>1. Working' = Working \ {t}
  BY DEF Working, Ends
<1>2. HeldIds' \cup IdsOf(t) = HeldIds /\ IdsOf(t) \subseteq HeldIds
  BY <1>1 DEF HeldIds
<1>3. ASSUME t.kind # "load" PROVE Loading' = Loading /\ Filling' = Filling /\ FillIds' = FillIds /\ (LoadAsks' <=> LoadAsks)
  <2>1. Loading' = Loading
    BY <1>1, <1>3 DEF Loading
  <2>2. Filling' = Filling
    BY <2>1 DEF Filling
  <2> QED
    BY <2>1, <2>2, LoadAsksIs DEF FillIds
<1>4. Catching' = Catching \ {t}
  BY <1>1 DEF Catching
<1>5. t.kind # "catch" => Froms' = Froms /\ Asked' = Asked
  <2> SUFFICES ASSUME t.kind # "catch" PROVE Froms' = Froms /\ Asked' = Asked
    OBVIOUS
  <2>1. Catching' = Catching
    BY <1>4 DEF Catching
  <2> QED
    BY <2>1 DEF Froms, Asked
<1>6. Froms' \subseteq Froms
  BY <1>4 DEF Froms
<1>7. ~Asks(t) => Asked' = Asked
  BY <1>4 DEF Asked, Asks
<1>8. t.kind = "catch" => t \in Catching
  BY DEF Catching
<1> QED
  BY <1>1, <1>2, <1>3, <1>5, <1>6, <1>7, <1>8

\* A step of a function that does not work for the list and leaves the list alone.
LEMMA OrderAside ==
  ASSUME Typed, Order, Working' = Working, log' = log, chan' = chan, cursor' = cursor, socket' = "down" <=> socket = "down",
         rows' = rows \/ Restamped, hurt' = {} => hurt = {}, Here \cap Framed' = Here \cap Framed
  PROVE  Order'
<1>1. PartsSame
  BY WorkingSame
<1>2. ShownIds' = ShownIds /\ OptTs' = OptTs
  <2>1. CASE rows' = rows
    BY <2>1 DEF ShownIds, OptTs
  <2> QED
    BY <2>1, RestampedShown
<1> QED
  BY <1>1, <1>2, OrderSame

\* The decryption of a live message ends: its row is shown.
LEMMA OrderLiveDone ==
  ASSUME Typed, Order, NEW t \in tasks, LiveDone(t)
  PROVE  Order'
<1>1. /\ log' = log /\ chan' = chan /\ cursor' = cursor /\ hurt' = hurt /\ socket' = socket /\ feed' = feed
      /\ Ends(t) /\ t.kind = "live"
  BY DEF LiveDone, view, history, world, Kind
<1>2. Framed' = Framed
  BY <1>1 DEF Framed
<1>3. PICK id \in Ids : /\ t.todo = {id} /\ t.got = <<>>
                        /\ IF t.run = "on" THEN \E text \in Nat : rows' = Append(rows, Row(id, text)) ELSE rows' = rows
  BY LiveDoneTyped
<1>4. CASE t.run # "on"
  <2>1. Working' = Working
    BY <1>1, <1>4 DEF Working, Ends
  <2> QED
    BY <1>1, <1>2, <1>3, <1>4, <2>1, OrderAside
<1>5. CASE t.run = "on"
  <2>1. PICK text \in Nat : rows' = Append(rows, Row(id, text))
    BY <1>3, <1>5
  <2> DEFINE r == Row(id, text)
  <2>2. r.id = id /\ id # 0
    BY PageIds DEF Row
  <2> HIDE DEF r
  <2>3. rows \in Seq(RowT) /\ rows' = Append(rows, r) /\ Len(rows) \in Nat
    BY <2>1 DEF r, Typed, RowsT
  <2>4. DOMAIN rows' = DOMAIN rows \cup {Len(rows) + 1} /\ rows'[Len(rows) + 1] = r /\ \A i \in DOMAIN rows : rows'[i] = rows[i]
    BY <2>3
  <2>5. ShownIds' = ShownIds \cup {id}
    BY <2>2, <2>4 DEF ShownIds
  <2>6. OptTs' = OptTs
    BY <2>2, <2>4 DEF OptTs
  <2>7. t \in Working
    BY <1>1, <1>5 DEF Working
  <2>8. IdsOf(t) = {id}
    BY <1>3 DEF IdsOf, GotIds
  <2>9. /\ FillIds' = FillIds /\ Filling' = Filling /\ Loading' = Loading /\ (LoadAsks' <=> LoadAsks)
        /\ Asked' = Asked /\ Froms' = Froms /\ HeldIds' \cup {id} = HeldIds
    BY <1>1, <2>7, <2>8, WorkingEnds
  <2>10. Claim' => Claim
    <3>1. Here' = Here
      BY <1>1 DEF Here, Of, Ids
    <3>2. Kept' => Kept
      BY <3>1, <2>5, <2>9 DEF Kept
    <3> QED
      BY <1>1, <2>9, <3>2 DEF Claim, Void
  <2>11. Here \cap (ShownIds' \cup HeldIds') = Here \cap (ShownIds \cup HeldIds)
    BY <2>5, <2>9
  <2> QED
    BY <1>1, <1>2, <2>6, <2>9, <2>10, <2>11, OrderStays
<1> QED
  BY <1>4, <1>5

\* A send begins: its row is stamped at the end of what is due.
LEMMA OrderSends ==
  ASSUME ConstantsOK, Typed, Order, send
  PROVE  Order'
<1>1. /\ log' = log /\ chan' = chan /\ cursor' = cursor /\ hurt' = hurt /\ socket' = socket /\ feed' = feed
  BY DEF send, view, history, world
<1>2. PICK t : t.kind = "send" /\ tasks' = tasks \cup {t}
  BY sendTyped
<1>3. Working' = Working /\ Framed' = Framed
  BY <1>1, <1>2 DEF Working, Framed
<1> DEFINE r == Optimistic(left.sends)
<1>4. r.id = 0 /\ r.ts = 2 * Len(log) + 1
  BY DEF Optimistic, Now
<1>5. rows \in Seq(RowT) /\ rows' = Append(rows, r) /\ Len(rows) \in Nat
  <2>1. rows' = Append(rows, r)
    BY sendTyped
  <2>2. rows \in Seq(RowT)
    BY DEF Typed, RowsT
  <2> HIDE DEF r
  <2> QED
    BY <2>1, <2>2
<1> HIDE DEF r
<1>6. DOMAIN rows' = DOMAIN rows \cup {Len(rows) + 1} /\ rows'[Len(rows) + 1] = r /\ \A i \in DOMAIN rows : rows'[i] = rows[i]
  BY <1>5
<1>7. ShownIds' = ShownIds
  BY <1>4, <1>6 DEF ShownIds
<1>8. OptTs' = OptTs \cup {2 * Len(log) + 1}
  BY <1>4, <1>6 DEF OptTs
<1>9. \A ts \in OptTs' : ts \in OptTs \/ \A id \in Here : ~(Ts(id) >= ts)
  BY <1>8, HereOK DEF Ts
<1> QED
  BY <1>1, <1>3, <1>7, <1>9, OrderSame, WorkingSame

\* The other steps of sends.
LEMMA OrderSending ==
  ASSUME ConstantsOK, Typed, Order,
         \/ \E k \in Lids : retry(k) \/ Watchdog(k)
         \/ \E t \in tasks : Sent(t) \/ SendFails(t)
  PROVE  Order'
<1>1. CASE \E k \in Lids : retry(k)
  <2>0. PICK k \in Lids : retry(k)
    BY <1>1
  <2>1. /\ log' = log /\ chan' = chan /\ cursor' = cursor /\ hurt' = hurt /\ socket' = socket /\ feed' = feed
    BY <2>0 DEF retry, view, history, world
  <2>2. Restamped /\ \E t : t.kind = "send" /\ tasks' = tasks \cup {t}
    BY <2>0, retryTyped
  <2>3. Working' = Working /\ Framed' = Framed
    BY <2>1, <2>2 DEF Working, Framed
  <2> QED
    BY <2>1, <2>2, <2>3, OrderAside
<1>2. CASE \E k \in Lids : Watchdog(k)
  <2>0. PICK k \in Lids : Watchdog(k)
    BY <1>2
  <2>1. /\ log' = log /\ chan' = chan /\ cursor' = cursor /\ hurt' = hurt /\ socket' = socket /\ feed' = feed /\ tasks' = tasks
    BY <2>0 DEF Watchdog, view, history, world
  <2>2. Restamped
    BY <2>0, WatchdogTyped
  <2>3. Working' = Working /\ Framed' = Framed
    BY <2>1 DEF Working, Framed
  <2> QED
    BY <2>1, <2>2, <2>3, OrderAside
<1>3. CASE \E t \in tasks : Sent(t)
  <2>0. PICK t \in tasks : Sent(t)
    BY <1>3
  <2>1. /\ log' = log /\ chan' = chan /\ cursor' = cursor /\ hurt' = hurt /\ socket' = socket /\ feed' = feed /\ rows' = rows
        /\ Ends(t) /\ t.kind = "send"
    BY <2>0 DEF Sent, view, history, world, Kind
  <2>3. Working' = Working /\ Framed' = Framed
    BY <2>1 DEF Working, Framed, Ends
  <2> QED
    BY <2>1, <2>3, OrderAside
<1>4. CASE \E t \in tasks : SendFails(t)
  <2>0. PICK t \in tasks : SendFails(t)
    BY <1>4
  <2>1. /\ log' = log /\ chan' = chan /\ cursor' = cursor /\ hurt' = hurt /\ socket' = socket /\ feed' = feed
        /\ Ends(t) /\ t.kind = "send"
    BY <2>0 DEF SendFails, view, history, world, Kind
  <2>2. Restamped
    BY <2>0, SendFailsTyped
  <2>3. Working' = Working /\ Framed' = Framed
    BY <2>1 DEF Working, Framed, Ends
  <2> QED
    BY <2>1, <2>2, <2>3, OrderAside
<1> QED
  BY <1>1, <1>2, <1>3, <1>4

\* The steps of the server and of the socket.
LEMMA OrderServer ==
  ASSUME ConstantsOK, Typed, Typed', Order,
         \/ \E ch \in Channels, from \in Senders : Post(ch, from)
         \/ \E m \in sent : ServerTakes(m) \/ ServerRejects(m)
         \/ Drop \/ Subscribe \/ Reconnected \/ NewClient
  PROVE  Order'
<1>0. log \in Seq(Msg) /\ Len(log) \in Nat /\ feed \in Seq(FrameT) /\ DOMAIN feed = 1..Len(feed) /\ Len(feed) \in Nat
  BY DEF Typed, ServerT, FeedT
<1>1. ASSUME NEW ch \in Channels, NEW from \in Senders, Post(ch, from) PROVE Order'
  <2> DEFINE m == [ch |-> ch, from |-> from, text |-> MaxSends + Len(log) + 1]
  <2>1. /\ log' = Append(log, m) /\ chan' = chan /\ cursor' = cursor /\ socket' = socket /\ rows' = rows /\ tasks' = tasks
        /\ feed' = Broadcast(<<NewFrame(Len(log) + 1)>>)
        /\ hurt' = IF socket = "open" /\ ch = chan THEN hurt \cup {"unsubscribed"} ELSE hurt
    BY <1>1 DEF Post, view
  <2>2. m \in Msg /\ m.ch = ch
    BY <1>0 DEF Msg, ConstantsOK
  <2> HIDE DEF m
  <2>3. Framed' = IF socket = "live" THEN Framed \cup {Len(log) + 1} ELSE Framed
    <3>1. CASE socket = "live"
      <4>1. feed' = Append(feed, NewFrame(Len(log) + 1))
        BY <1>0, <2>1, <3>1 DEF Broadcast
      <4>2. DOMAIN feed' = DOMAIN feed \cup {Len(feed) + 1} /\ (\A i \in DOMAIN feed : feed'[i] = feed[i])
            /\ feed'[Len(feed) + 1] = NewFrame(Len(log) + 1)
        BY <1>0, <4>1
      <4>3. NewFrame(Len(log) + 1).id = Len(log) + 1
        BY DEF NewFrame
      <4>4. Framed' = Framed \cup {NewFrame(Len(log) + 1).id}
        BY <4>2 DEF Framed
      <4> QED
        BY <3>1, <4>3, <4>4
    <3>2. CASE socket # "live"
      BY <2>1, <3>2 DEF Broadcast, Framed
    <3> QED
      BY <3>1, <3>2
  <2>4. m.ch = chan /\ hurt' = {} => socket = "down" \/ Len(log) + 1 \in Framed'
    BY <2>1, <2>2, <2>3 DEF Typed, ServerT
  <2>5. (hurt' = {} => hurt = {}) /\ Framed \subseteq Framed' /\ Framed' \subseteq Framed \cup {Len(log) + 1}
    BY <2>1, <2>3
  <2> QED
    BY <2>1, <2>2, <2>4, <2>5, OrderGrows
<1>2. ASSUME NEW q \in sent, ServerTakes(q) PROVE Order'
  <2> DEFINE m == [ch |-> q.ch, from |-> "me", text |-> q.lid]
             id == Len(log) + 1
             a == AckFrame(id, q.lid)
             n == NewFrame(id)
  <2>1. /\ log' = Append(log, m) /\ chan' = chan /\ cursor' = cursor /\ socket' = socket /\ rows' = rows /\ tasks' = tasks
        /\ feed' = feed \o <<a>> \o (IF socket = "live" THEN <<n>> ELSE <<>>)
        /\ hurt' = hurt
    BY <1>2 DEF ServerTakes, view, history
  <2>2. m \in Msg
    BY <1>0 DEF Msg, Typed, ServerT, Lids
  <2>3. a.id = id /\ n.id = id
    BY DEF AckFrame, NewFrame
  <2> HIDE DEF m, a, n, id
  <2>4. /\ DOMAIN feed \cup {Len(feed) + 1} \subseteq DOMAIN feed' /\ DOMAIN feed' \subseteq DOMAIN feed \cup {Len(feed) + 1, Len(feed) + 2}
        /\ (\A i \in DOMAIN feed : feed'[i] = feed[i])
        /\ feed'[Len(feed) + 1] = a /\ (Len(feed) + 2 \in DOMAIN feed' => feed'[Len(feed) + 2] = n)
    <3>1. CASE socket = "live"
      BY <1>0, <2>1, <3>1
    <3>2. CASE socket # "live"
      BY <1>0, <2>1, <3>2
    <3> QED
      BY <3>1, <3>2
  <2>5. Framed' = Framed \cup {id}
    <3>1. Framed' \subseteq Framed \cup {id}
      BY <2>3, <2>4 DEF Framed
    <3>2. Framed \subseteq Framed'
      BY <2>4 DEF Framed
    <3>3. id \in Framed'
      BY <2>3, <2>4 DEF Framed
    <3> QED
      BY <3>1, <3>2, <3>3
  <2> QED
    BY <2>1, <2>2, <2>5, OrderGrows DEF id
<1>3. ASSUME NEW q \in sent, ServerRejects(q) PROVE Order'
  <2>1. /\ log' = log /\ chan' = chan /\ cursor' = cursor /\ socket' = socket /\ rows' = rows /\ tasks' = tasks
        /\ feed' = Append(feed, ErrorFrame) /\ hurt' = hurt
    BY <1>3 DEF ServerRejects, view, history
  <2>2. DOMAIN feed' = DOMAIN feed \cup {Len(feed) + 1} /\ (\A i \in DOMAIN feed : feed'[i] = feed[i])
        /\ feed'[Len(feed) + 1] = ErrorFrame
    BY <1>0, <2>1
  <2>3. Framed' = Framed \cup {ErrorFrame.id}
    BY <2>2 DEF Framed
  <2>4. Framed' = Framed \cup {0}
    BY <2>3 DEF ErrorFrame
  <2>5. Here \cap Framed' = Here \cap Framed
    BY <2>4, HereOK
  <2>6. Working' = Working
    BY <2>1 DEF Working
  <2> QED
    BY <2>1, <2>5, <2>6, OrderAside
<1>4. CASE Subscribe
  <2>1. /\ log' = log /\ chan' = chan /\ cursor' = cursor /\ rows' = rows /\ tasks' = tasks /\ feed' = feed /\ hurt' = hurt
        /\ socket = "open" /\ socket' = "live"
    BY <1>4 DEF Subscribe, view, history
  <2>2. Working' = Working /\ Framed' = Framed
    BY <2>1 DEF Working, Framed
  <2> QED
    BY <2>1, <2>2, OrderAside
<1>5. CASE NewClient
  BY <1>5 DEF NewClient, Order, Claim
<1> QED
  BY <1>1, <1>2, <1>3, <1>4, <1>5, OrderDrops, OrderReconnects

\* A function that works for the list goes on as another.
LEMMA WorkingGoesOn ==
  ASSUME NEW t \in Working, NEW u, Replace(t, u), u.kind = t.kind, u.run = t.run
  PROVE  /\ u \in Working' /\ Working' = (Working \ {t}) \cup {u}
         /\ t.kind # "load" => Loading' = Loading /\ Filling' = Filling /\ FillIds' = FillIds /\ (LoadAsks' <=> LoadAsks)
         /\ t.kind # "catch" => Catching' = Catching /\ Froms' = Froms /\ Asked' = Asked
         /\ t.kind = "catch" => t \in Catching /\ Catching' = (Catching \ {t}) \cup {u}
<1>1. u \in Working' /\ Working' = (Working \ {t}) \cup {u}
  BY DEF Working, Replace
<1>2. ASSUME t.kind # "load" PROVE Loading' = Loading /\ Filling' = Filling /\ FillIds' = FillIds /\ (LoadAsks' <=> LoadAsks)
  <2>1. Loading' = Loading
    BY <1>1, <1>2 DEF Loading
  <2>2. Filling' = Filling
    BY <2>1 DEF Filling
  <2> QED
    BY <2>1, <2>2, LoadAsksIs DEF FillIds
<1>3. ASSUME t.kind # "catch" PROVE Catching' = Catching /\ Froms' = Froms /\ Asked' = Asked
  <2>1. Catching' = Catching
    BY <1>1, <1>3 DEF Catching
  <2> QED
    BY <2>1 DEF Froms, Asked
<1>4. t.kind = "catch" => t \in Catching /\ Catching' = (Catching \ {t}) \cup {u}
  BY <1>1 DEF Catching
<1> QED
  BY <1>1, <1>2, <1>3, <1>4

\* A row is read: the function has the same messages.
LEMMA OrderReads ==
  ASSUME Typed, Order, NEW t \in tasks, LoadRow(t) \/ NextRow(t)
  PROVE  Order'
<1>1. /\ log' = log /\ chan' = chan /\ cursor' = cursor /\ socket' = socket /\ feed' = feed /\ rows' = rows
      /\ hurt' = {} => hurt = {}
  BY DEF LoadRow, NextRow, view, world, Knows
<1>2. PICK u : Rest(t, u) /\ IdsOf(u) = IdsOf(t) /\ Replace(t, u)
  BY LoadRowTyped, NextRowTyped
<1>3. PartsSame
  BY <1>2, PartsGoOn DEF Rest, Asks
<1>4. ShownIds' = ShownIds /\ OptTs' = OptTs /\ Framed' = Framed
  BY <1>1 DEF ShownIds, OptTs, Framed
<1> QED
  BY <1>1, <1>3, <1>4, OrderSame

\* The catch-up goes on to the next page.
LEMMA OrderNextPage ==
  ASSUME Typed, Order, NEW t \in tasks, CatchPage(t)
  PROVE  Order'
<1>1. /\ log' = log /\ chan' = chan /\ cursor' = cursor /\ socket' = socket /\ feed' = feed /\ rows' = rows
      /\ hurt' = hurt
  BY DEF CatchPage, view, world, history
<1>2. t.kind = "catch" /\ t.at = "rows" /\ t.todo = {}
  BY CatchPageTyped
<1>3. PICK u : /\ u.kind = "catch" /\ u.run = t.run /\ u.from = t.from
               /\ u.todo = {} /\ u.got = t.got /\ u.full = t.full
               /\ u.at = (IF t.full THEN "ask" ELSE "done")
               /\ Replace(t, u)
  BY CatchPageTyped
<1>4. IdsOf(u) = IdsOf(t) /\ (Asks(u) <=> Asks(t))
  BY <1>2, <1>3 DEF IdsOf, GotIds, Asks
<1>5. PartsSame
  BY <1>2, <1>3, <1>4, PartsGoOn
<1>6. ShownIds' = ShownIds /\ OptTs' = OptTs /\ Framed' = Framed
  BY <1>1 DEF ShownIds, OptTs, Framed
<1> QED
  BY <1>1, <1>5, <1>6, OrderSame

\* A message that is known is passed over: the list has it another way.
LEMMA OrderSkips ==
  ASSUME Typed, Shape, Knowing, Order, NEW t \in tasks, Skip(t)
  PROVE  Order'
<1>1. /\ log' = log /\ chan' = chan /\ cursor' = cursor /\ socket' = socket /\ feed' = feed /\ rows' = rows
      /\ hurt' = hurt /\ Oldest(t) \in known
  BY DEF Skip, view, world, history
<1>2. ShownIds' = ShownIds /\ OptTs' = OptTs /\ Framed' = Framed /\ Here' = Here
  BY <1>1 DEF ShownIds, OptTs, Framed, Here, Of, Ids
<1>3. t.kind \in {"older", "catch"}
  BY SkipTyped
<1>4. PICK u : Rest(t, u) /\ GotIds(u) = GotIds(t) /\ IdsOf(u) \subseteq IdsOf(t) /\ Replace(t, u)
  BY SkipTyped
<1>5. CASE t.run # "on"
  <2>1. Working' = Working
    BY <1>4, <1>5 DEF Working, Replace, Rest
  <2> QED
    BY <1>1, <1>2, <2>1, OrderAside
<1>6. CASE t.run = "on"
  <2>1. t \in Working
    BY <1>3, <1>6 DEF Working
  <2>2. t.ch = chan /\ Oldest(t) \in Here
    <3>1. t.ch = chan
      BY <1>3, <2>1 DEF Shape, OnHere
    <3>2. t.todo # {} /\ t.kind \in Fetches
      BY <1>3, SkipTyped DEF Fetches
    <3> QED
      BY <3>1, <3>2, OldestOK DEF Here
  <2>3. /\ u \in Working' /\ Working' = (Working \ {t}) \cup {u}
        /\ Loading' = Loading /\ Filling' = Filling /\ FillIds' = FillIds /\ (LoadAsks' <=> LoadAsks)
    BY <1>3, <1>4, <2>1, WorkingGoesOn DEF Rest
  <2>4. Froms' = Froms /\ Asked' = Asked
    <3>1. CASE t.kind = "catch"
      <4>1. t \in Catching /\ Catching' = (Catching \ {t}) \cup {u}
        BY <1>4, <2>1, <3>1, WorkingGoesOn DEF Rest
      <4>2. Froms' = Froms
        BY <1>4, <4>1 DEF Froms, Rest
      <4>3. Asked' = Asked
        BY <1>4, <4>1 DEF Asked, Asks, Rest
      <4> QED
        BY <4>2, <4>3
    <3>2. CASE t.kind # "catch"
      BY <1>4, <2>1, <3>2, WorkingGoesOn DEF Rest
    <3> QED
      BY <3>1, <3>2
  <2>5. HeldIds' \subseteq HeldIds /\ HeldIds \subseteq HeldIds' \cup {Oldest(t)}
    <3>1. HeldIds' \subseteq HeldIds
      BY <1>4, <2>1, <2>3 DEF HeldIds
    <3>2. IdsOf(t) \subseteq IdsOf(u) \cup {Oldest(t)}
      BY <1>4 DEF IdsOf, Rest
    <3> QED
      BY <3>1, <3>2, <2>3 DEF HeldIds
  <2>6. Claim' => Claim
    BY <1>1, <1>2, <2>3 DEF Claim, Kept, Void
  <2>7. ASSUME Claim' PROVE Oldest(t) \in ShownIds \cup HeldIds'
    <3>1. Oldest(t) \in OnList
      BY <1>1, <2>2, <2>6, <2>7 DEF Claim, Knowing, KnownListed
    <3>2. CASE Oldest(t) \in ShownIds
      BY <3>2
    <3>3. CASE \E w \in Working : Oldest(t) \in Lists(w)
      <4>1. PICK w \in Working : Oldest(t) \in Lists(w)
        BY <3>3
      <4>2. CASE w = t
        <5>1. Lists(t) \subseteq IdsOf(u)
          BY <1>3, <1>4 DEF Lists, IdsOf
        <5> QED
          BY <4>1, <4>2, <5>1, <2>3 DEF HeldIds
      <4>3. CASE w # t
        <5>1. w \in Working' /\ Oldest(t) \in IdsOf(w)
          BY <4>1, <4>3, <2>3 DEF Lists, IdsOf
        <5> QED
          BY <5>1 DEF HeldIds
      <4> QED
        BY <4>2, <4>3
    <3> QED
      BY <3>1, <3>2, <3>3 DEF OnList
  <2>8. Claim' => Here \cap (ShownIds' \cup HeldIds') = Here \cap (ShownIds \cup HeldIds)
    BY <1>2, <2>5, <2>7
  <2> QED
    BY <1>1, <1>2, <2>3, <2>4, <2>6, <2>8, OrderStays
<1> QED
  BY <1>5, <1>6

\* An older page is put in front.
LEMMA OrderOlderDone ==
  ASSUME Typed, Shape, Order, NEW t \in tasks, OlderDone(t)
  PROVE  Order'
<1>1. /\ log' = log /\ chan' = chan /\ cursor' = cursor /\ socket' = socket /\ feed' = feed
      /\ hurt' = hurt /\ Ends(t)
  BY DEF OlderDone, view, world, history
<1>2. Framed' = Framed /\ Here' = Here
  BY <1>1 DEF Framed, Here, Of, Ids
<1>3. t.kind = "older" /\ t.todo = {} /\ (IF t.run = "gone" THEN rows' = rows ELSE Joins(t.got, rows, rows'))
  BY OlderDoneTyped
<1>4. IdsOf(t) = GotIds(t)
  BY <1>3 DEF IdsOf
<1>5. CASE t.run = "gone"
  <2>1. Working' = Working
    BY <1>1, <1>5 DEF Working, Ends
  <2> QED
    BY <1>1, <1>2, <1>3, <1>5, <2>1, OrderAside
<1>6. CASE t.run = "on"
  <2>1. t \in Working /\ ShownIds' = ShownIds \cup GotIds(t) /\ OptTs' = OptTs
    BY <1>3, <1>6, JoinsShown DEF Working, Fetches
  <2>2. /\ FillIds' = FillIds /\ Filling' = Filling /\ Loading' = Loading /\ (LoadAsks' <=> LoadAsks)
        /\ Asked' = Asked /\ Froms' = Froms /\ HeldIds' \cup GotIds(t) = HeldIds
    BY <1>1, <1>3, <1>4, <2>1, WorkingEnds
  <2>3. Claim' => Claim
    <3>1. Kept' => Kept
      BY <1>2, <2>1, <2>2 DEF Kept
    <3> QED
      BY <1>1, <2>2, <3>1 DEF Claim, Void
  <2>4. Here \cap (ShownIds' \cup HeldIds') = Here \cap (ShownIds \cup HeldIds)
    BY <2>1, <2>2
  <2> QED
    BY <1>1, <1>2, <2>1, <2>2, <2>3, <2>4, OrderStays
<1>7. CASE t.run = "off"
  <2>1. ShownIds' = ShownIds \cup GotIds(t) /\ OptTs' = OptTs
    BY <1>3, <1>7, JoinsShown DEF Fetches
  <2>2. Working' = Working
    BY <1>1, <1>7 DEF Working, Ends
  <2>3. PartsSame
    BY <2>2, WorkingSame
  <2>4. Claim' => Claim
    <3>1. Kept' => Kept
      BY <1>2, <2>1, <2>3 DEF Kept, PartsSame
    <3> QED
      BY <1>1, <2>3, <3>1 DEF Claim, Void, PartsSame
  <2>5. ASSUME Claim' PROVE Here \cap GotIds(t) \subseteq HeldIds
    <3>1. Loading # {}
      BY <1>3, <1>7, <2>4, <2>5 DEF Claim, Shape, OffOlder
    <3>2. \A w \in Loading : w.at = "rows"
      <4>1. \A w \in Loading : w.at \in {"ask", "rows"}
        BY WorkingOK DEF Loading, TaskOK
      <4> QED
        BY <2>4, <2>5, <4>1, LoadAsksIs DEF Claim
    <3>3. Filling # {}
      BY <3>1, <3>2 DEF Filling
    <3>4. Here \cap ShownIds' \subseteq FillIds
      BY <1>2, <2>3, <2>5, <3>3 DEF Claim, Kept, PartsSame
    <3>5. FillIds \subseteq HeldIds
      BY DEF FillIds, HeldIds, Filling, Loading
    <3> QED
      BY <2>1, <3>4, <3>5
  <2>6. Claim' => Here \cap (ShownIds' \cup HeldIds') = Here \cap (ShownIds \cup HeldIds)
    BY <2>1, <2>3, <2>5 DEF PartsSame
  <2> QED
    BY <1>1, <1>2, <2>1, <2>3, <2>4, <2>6, OrderStays DEF PartsSame
<1>8. t.run \in {"on", "off", "gone"}
  BY DEF Typed, TasksT, TaskT
<1> QED
  BY <1>5, <1>6, <1>7, <1>8

\* An older page is asked for.  The first row is of the channel, and all that is
\* newer than it is due.
LEMMA OrderLoadsOlder ==
  ASSUME ConstantsOK, Typed, Shape, Order, loadOlder
  PROVE  Order'
<1> DEFINE b == rows[1].ts
           S == {id \in Of(chan) : Ts(id) < b}
           page == LastPage(S)
           now == IF \E t \in Kind("load") : t.run = "on" THEN "off" ELSE "on"
           other == rows[1].id # 0 /\ Elsewhere(rows[1].id)
<1>1. /\ log' = log /\ chan' = chan /\ cursor' = cursor /\ socket' = socket /\ feed' = feed /\ rows' = rows
      /\ hurt' = IF now = "on" /\ other THEN hurt \cup {"other"} ELSE hurt
  BY DEF loadOlder, world
<1>2. /\ rows # <<>> /\ 1 \in DOMAIN rows
      /\ IF page = {} THEN tasks' = tasks
         ELSE \E u \in TaskT : /\ TaskOK(u) /\ u.kind = "older" /\ u.ch = chan /\ u.at = "rows"
                               /\ u.run = now /\ u.todo = page /\ u.got = <<>>
                               /\ tasks' = tasks \cup {u}
  BY loadOlderTyped
<1>3. now \in {"on", "off"}
  OBVIOUS
<1>4. now = "on" => Loading = {}
  BY DEF Loading, Working, Kind
<1>5. rows[1].id # 0 => rows[1].id \in Ids /\ rows[1].ts = Ts(rows[1].id)
  BY <1>2 DEF Typed, RowsT, RowOK
<1>6. rows[1].ts \in Nat
  <2>1. rows \in Seq(RowT)
    BY DEF Typed, RowsT
  <2>2. rows[1] \in RowT
    BY <1>2, <2>1
  <2> QED
    BY <2>2 DEF RowT
<1>7. other <=> rows[1].id # 0 /\ rows[1].id \notin Here
  BY <1>5, NotElsewhere
<1>8. page \subseteq S /\ \A i \in page, j \in S : i < j => j \in page
  BY PageIds, LastPageOK
<1>9. ShownIds' = ShownIds /\ OptTs' = OptTs /\ Framed' = Framed /\ Here' = Here /\ \A x : Ts(x)' = Ts(x)
  BY <1>1 DEF ShownIds, OptTs, Framed, Here, Of, Ids, Ts
<1>10. S = {id \in Here : Ts(id) < b} /\ \A id \in Here : id \in Nat /\ Ts(id) = 2 * id
  BY HereOK DEF Here, Ts
<1> HIDE DEF S, page, now, other
<1>11. CASE page = {} \/ now = "off"
  <2>1. Working' = Working
    BY <1>2, <1>11 DEF Working
  <2> QED
    BY <1>1, <1>9, <2>1, OrderAside
<1>12. CASE page # {} /\ now = "on"
  <2>1. PICK u : u.kind = "older" /\ u.run = "on" /\ u.todo = page /\ u.got = <<>> /\ tasks' = tasks \cup {u}
    BY <1>2, <1>12
  <2>2. IdsOf(u) = page
    BY <2>1 DEF IdsOf, GotIds
  <2>3. Working' = Working \cup {u}
    BY <2>1 DEF Working
  <2>4. Loading' = Loading /\ Catching' = Catching
    BY <2>1, <2>3 DEF Loading, Catching
  <2>5. Filling' = Filling /\ HeldIds' = HeldIds \cup page
    BY <2>2, <2>3, <2>4 DEF Filling, HeldIds
  <2>6. FillIds' = FillIds /\ Froms' = Froms /\ Asked' = Asked /\ (LoadAsks' <=> LoadAsks)
    BY <2>4, <2>5, LoadAsksIs DEF FillIds, Froms, Asked
  <2> SUFFICES ASSUME Claim' PROVE Closed' /\ AheadDue' /\ BehindSure' /\ OptDue'
    BY DEF Order
  <2>7. hurt' = {} /\ hurt = {} /\ ~other
    BY <1>1, <1>12 DEF Claim
  <2>8. Claim
    BY <1>1, <1>9, <2>5, <2>6, <2>7 DEF Claim, Kept, Void
  <2>9. Closed /\ AheadDue /\ BehindSure /\ OptDue
    BY <2>8 DEF Order
  <2>10. Sure' = Sure \cup page
    <3>1. page \subseteq Here
      BY <1>8, <1>10
    <3> QED
      BY <1>9, <2>5, <2>6, <3>1 DEF Sure
  <2>11. Missable' = Missable
    BY <1>1, <1>9, <2>6 DEF Missable
  <2>12. Due' = Due \cup page
    BY <1>9, <2>10, <2>11 DEF Due
  <2>13. \A x \in Here : Ts(x) >= b => x \in Due
    <3>1. CASE rows[1].id = 0
      <4>1. b \in OptTs
        BY <1>2, <3>1 DEF OptTs
      <4> QED
        BY <1>4, <1>12, <2>9, <4>1 DEF OptDue
    <3>2. CASE rows[1].id # 0
      <4>1. rows[1].id \in Here /\ rows[1].id \in ShownIds
        BY <1>2, <1>7, <2>7, <3>2 DEF ShownIds
      <4>2. rows[1].id \in Due
        BY <4>1 DEF Due, Sure
      <4>3. \A x \in Here : Ts(x) >= b => rows[1].id <= x
        BY <1>5, <1>10, <3>2, <4>1
      <4> QED
        BY <2>9, <4>2, <4>3 DEF Closed
    <3> QED
      BY <3>1, <3>2
  <2>14. \A x \in Here : Ts(x) < b \/ x \in Due
    BY <1>6, <1>10, <2>13
  <2>15. Closed'
    <3> SUFFICES ASSUME NEW v \in Due \cup page, NEW x \in Here, v <= x PROVE x \in Due \cup page
      BY <1>9, <2>12 DEF Closed
    <3>1. CASE v \in Due
      BY <2>9, <3>1 DEF Closed
    <3>2. CASE v \in page
      <4>1. v \in Nat /\ x \in Nat
        BY <1>8, <1>10, <3>2
      <4>2. CASE Ts(x) < b
        <5>1. x \in S
          BY <1>10, <4>2
        <5> QED
          BY <1>8, <3>2, <4>1, <5>1
      <4> QED
        BY <4>2, <2>14
    <3> QED
      BY <3>1, <3>2
  <2>16. AheadDue'
    BY <1>1, <1>9, <2>6, <2>9, <2>12 DEF AheadDue
  <2>17. BehindSure'
    BY <1>1, <1>9, <2>6, <2>9, <2>10, <2>12 DEF BehindSure
  <2>18. OptDue'
    BY <1>9, <2>4, <2>9, <2>12 DEF OptDue
  <2> QED
    BY <2>15, <2>16, <2>17, <2>18
<1> QED
  BY <1>3, <1>11, <1>12

\* The cursor moves to a message that the list has, and with it all that is due
\* up to it.
LEMMA OrderMoves ==
  ASSUME Typed, Order, log' = log, chan' = chan, socket' = "down" <=> socket = "down",
         NEW l \in Here, cursor' = Ts(l), FillIds' \subseteq FillIds,
         Claim' => /\ Claim /\ l \in Sure /\ \A x \in Due : x <= l => x \in Sure
                   /\ Here \cap (ShownIds' \cup HeldIds') = Here \cap (ShownIds \cup HeldIds)
                   /\ Here \cap Framed' = Here \cap Framed
                   /\ Asked' = Asked /\ Froms' \subseteq Froms
                   /\ Loading' = {} => Loading = {} \/ OptTs' = {}
                   /\ OptTs' \subseteq OptTs
  PROVE  Order'
<1> SUFFICES ASSUME Claim' PROVE Closed' /\ AheadDue' /\ BehindSure' /\ OptDue'
  BY DEF Order
<1>1. Here' = Here /\ (\A x : Ts(x)' = Ts(x)) /\ \A x \in Here : x \in Nat \ {0} /\ Ts(x) \in Nat /\ Ts(x) = 2 * x
  BY HereOK DEF Here, Of, Ids, Ts
<1>2. Closed /\ AheadDue /\ BehindSure /\ OptDue
  BY DEF Order
<1>3. Sure' = Sure
  BY <1>1 DEF Sure
<1>4. cursor' # 0
  BY <1>1
<1>5. l \in Due /\ Due \subseteq Here
  BY DEF Due, Sure, Missable
<1>6. Due' = Due
  <2>1. \A x \in Here : x \in Missable' <=> socket = "down" /\ Ts(x) > Ts(l)
    BY <1>1, <1>4 DEF Missable
  <2>2. ASSUME NEW x \in Here, x \in Missable' PROVE x \in Due
    <3>1. l <= x
      BY <1>1, <2>1, <2>2
    <3> QED
      BY <3>1, <1>2, <1>5 DEF Closed
  <2>3. ASSUME NEW x \in Here, x \in Missable, x \notin Sure PROVE x \in Missable'
    <3>1. x \in Due /\ socket = "down"
      BY <2>3 DEF Due, Missable
    <3>2. ~(x <= l)
      BY <2>3, <3>1
    <3>3. Ts(x) > Ts(l)
      BY <1>1, <3>2
    <3> QED
      BY <2>1, <3>1, <3>3
  <2>4. Missable \subseteq Here /\ Missable' \subseteq Here /\ Sure \subseteq Due /\ Missable \subseteq Due
    BY <1>1 DEF Due, Missable
  <2>5. Due' = Sure \cup (Here \cap Framed) \cup Missable'
    BY <1>1, <1>3 DEF Due
  <2>6. Due' \subseteq Due
    BY <2>2, <2>4, <2>5 DEF Due
  <2>7. Due \subseteq Due'
    BY <2>3, <2>4, <2>5 DEF Due
  <2> QED
    BY <2>6, <2>7
<1>7. Closed'
  BY <1>1, <1>2, <1>6 DEF Closed
<1>8. AheadDue'
  <2> SUFFICES ASSUME NEW x \in Here, Ts(x) > Ts(l) PROVE x \in Due
    BY <1>1, <1>6 DEF AheadDue
  <2>1. l <= x
    BY <1>1
  <2> QED
    BY <2>1, <1>2, <1>5 DEF Closed
<1>9. BehindSure'
  <2> SUFFICES ASSUME NEW x \in Due,
                      Ts(x) <= Ts(l) \/ (\E j \in FillIds : x <= j) \/ (\E f \in Froms : Ts(x) <= f)
               PROVE  x \in Sure
    BY <1>1, <1>3, <1>6 DEF BehindSure
  <2>1. CASE Ts(x) <= Ts(l)
    <3>1. x <= l
      BY <1>1, <1>5, <2>1
    <3> QED
      BY <3>1
  <2> QED
    BY <2>1, <1>2 DEF BehindSure
<1>10. OptDue'
  BY <1>1, <1>2, <1>6 DEF OptDue
<1> QED
  BY <1>7, <1>8, <1>9, <1>10

\* The catch-up has a page: what it asked for, and no longer asks for, it has.
LEMMA OrderCatchAnswer ==
  ASSUME ConstantsOK, Typed, Shape, Order, NEW t \in tasks, CatchAnswer(t)
  PROVE  Order'
<1> DEFINE asked == {id \in Of(t.ch) : Ts(id) > t.from}
           page == FirstPage(asked)
<1>1. /\ log' = log /\ chan' = chan /\ cursor' = cursor /\ socket' = socket /\ feed' = feed /\ rows' = rows
      /\ hurt' = hurt
  BY DEF CatchAnswer, view, world, history
<1>2. t.kind = "catch" /\ t.at = "ask" /\ t.todo = {}
  BY CatchAnswerTyped
<1>3. PICK u : /\ u.kind = "catch" /\ u.ch = t.ch /\ u.run = t.run
               /\ u.todo = page /\ u.got = t.got /\ u.full = IsFull(page)
               /\ u.at = (IF page = {} THEN "done" ELSE "rows")
               /\ page = {} => u.from = t.from
               /\ page # {} => Max(page) \in page /\ u.from = Ts(Max(page)) /\ \A x \in page : x <= Max(page)
               /\ Replace(t, u)
  BY CatchAnswerTyped
<1>4. ShownIds' = ShownIds /\ OptTs' = OptTs /\ Framed' = Framed /\ Here' = Here /\ \A x : Ts(x)' = Ts(x)
  BY <1>1 DEF ShownIds, OptTs, Framed, Here, Of, Ids, Ts
<1>5. CASE t.run # "on"
  <2>1. Working' = Working
    BY <1>3, <1>5 DEF Working, Replace
  <2> QED
    BY <1>1, <1>4, <2>1, OrderAside
<1>6. CASE t.run = "on"
  <2>1. t \in Working /\ t.ch = chan /\ Asks(t)
    BY <1>2, <1>6 DEF Working, Shape, OnHere, Asks
  <2>2. asked = {id \in Here : Ts(id) > t.from} /\ t.from \in Nat
    BY <2>1, WorkingOK DEF Here, TaskT
  <2>3. /\ page \subseteq asked /\ (\A i \in page, j \in asked : j < i => j \in page)
        /\ (asked # {} => page # {}) /\ (~IsFull(page) => page = asked)
    <3>1. asked \in SUBSET (1..Len(log)) /\ Len(log) \in Nat
      <4>1. Of(t.ch) \in SUBSET (1..Len(log)) /\ Len(log) \in Nat
        BY PageIds
      <4> QED
        BY <4>1
    <3> HIDE DEF asked
    <3> QED
      BY <3>1, FirstPageOK
  <2>4. \A x \in Here : x \in Nat /\ Ts(x) \in Nat /\ Ts(x) = 2 * x
    BY HereOK DEF Ts
  <2> HIDE DEF asked, page
  <2>5. /\ u \in Working' /\ Working' = (Working \ {t}) \cup {u}
        /\ Loading' = Loading /\ Filling' = Filling /\ FillIds' = FillIds /\ (LoadAsks' <=> LoadAsks)
        /\ t \in Catching /\ Catching' = (Catching \ {t}) \cup {u}
    BY <1>2, <1>3, <2>1, WorkingGoesOn
  <2>6. IdsOf(u) = IdsOf(t) \cup page
    BY <1>2, <1>3 DEF IdsOf, GotIds
  <2>7. HeldIds' = HeldIds \cup page
    BY <2>1, <2>5, <2>6 DEF HeldIds
  <2>8. \A f : f \in Froms' => f \in Froms \/ f = u.from
    BY <2>5 DEF Froms
  <2>9. t.from \in Asked /\ t.from \in Froms
    BY <2>1, <2>5 DEF Asked, Froms
  <2>10. Asked \subseteq Asked' \cup {t.from} /\ (Asks(u) => u.from \in Asked')
    <3>1. \A w \in Catching : w = t \/ w \in Catching'
      BY <2>5
    <3> QED
      BY <3>1, <2>5 DEF Asked, Asks
  <2>11. \A f : f \in Asked' => f \in Asked \/ (f = u.from /\ Asks(u))
    BY <2>5 DEF Asked, Asks
  <2>12. ASSUME NEW x \in Here, Ts(x) > t.from PROVE x \in page \/ (Asks(u) /\ Ts(x) > u.from)
    <3>1. x \in asked /\ page # {}
      BY <2>2, <2>3, <2>12
    <3>2. CASE ~IsFull(page)
      BY <2>3, <3>1, <3>2
    <3>3. CASE IsFull(page)
      <4>1. Asks(u)
        BY <1>3, <3>1, <3>3 DEF Asks
      <4>2. Max(page) \in page /\ u.from = Ts(Max(page)) /\ Max(page) \in Here
        BY <1>3, <2>2, <2>3, <3>1
      <4>3. CASE Max(page) < x
        <5>1. Ts(x) > u.from
          BY <2>4, <4>2, <4>3
        <5> QED
          BY <4>1, <5>1
      <4>4. CASE x <= Max(page)
        <5>1. x = Max(page) \/ x < Max(page)
          BY <2>4, <4>2, <4>4
        <5> QED
          BY <2>3, <3>1, <4>2, <5>1
      <4> QED
        BY <2>4, <4>2, <4>3, <4>4
    <3> QED
      BY <3>2, <3>3
  <2>13. ASSUME NEW x \in Here, x \in page \/ (Asks(u) /\ Ts(x) > u.from) PROVE Ts(x) > t.from
    <3>1. CASE x \in page
      BY <2>2, <2>3, <3>1
    <3>2. CASE x \notin page
      <4>1. page # {}
        BY <1>3, <2>13, <3>2 DEF Asks
      <4>2. Max(page) \in Here /\ Ts(Max(page)) > t.from /\ u.from = Ts(Max(page))
        BY <1>3, <2>2, <2>3, <4>1
      <4> QED
        BY <2>2, <2>4, <2>13, <3>2, <4>2
    <3> QED
      BY <3>1, <3>2
  <2>14. Sure' = Sure
    <3>1. \A x \in Here : x \in Sure' => x \in Sure
      <4> SUFFICES ASSUME NEW x \in Here, x \in Sure' PROVE x \in Sure
        OBVIOUS
      <4>1. x \in ShownIds \/ x \in HeldIds \/ x \in page \/ \E f \in Asked' : Ts(x) > f
        BY <1>4, <2>7 DEF Sure
      <4>2. x \in page => Ts(x) > t.from
        BY <2>13
      <4>3. (\E f \in Asked' : Ts(x) > f) => (\E f \in Asked : Ts(x) > f)
        BY <2>9, <2>11, <2>13
      <4> QED
        BY <2>9, <4>1, <4>2, <4>3 DEF Sure
    <3>2. \A x \in Here : x \in Sure => x \in Sure'
      <4> SUFFICES ASSUME NEW x \in Here, x \in Sure PROVE x \in Sure'
        OBVIOUS
      <4>1. x \in ShownIds' \/ x \in HeldIds' \/ \E f \in Asked : Ts(x) > f
        BY <1>4, <2>7 DEF Sure
      <4>2. Ts(x) > t.from => x \in HeldIds' \/ \E f \in Asked' : Ts(x) > f
        BY <2>7, <2>10, <2>12
      <4>3. (\E f \in Asked : Ts(x) > f) => x \in HeldIds' \/ \E f \in Asked' : Ts(x) > f
        BY <2>10, <4>2
      <4> QED
        BY <1>4, <4>1, <4>3 DEF Sure
    <3>3. Sure \subseteq Here /\ Sure' \subseteq Here
      BY <1>4 DEF Sure
    <3> QED
      BY <3>1, <3>2, <3>3
  <2>15. Missable' = Missable
    BY <1>1, <1>4, <2>5 DEF Missable
  <2>16. Due' = Due
    BY <1>4, <2>14, <2>15 DEF Due
  <2>17. Claim' => Claim
    BY <1>1, <1>4, <2>5 DEF Claim, Kept, Void
  <2>18. Claim' => \A f \in Froms' : f \in Froms \/ \A id \in Due : Ts(id) <= f => id \in Sure
    <3> SUFFICES ASSUME Claim', NEW id \in Due, Ts(id) <= u.from PROVE id \in Sure
      BY <2>8
    <3>1. BehindSure /\ id \in Here
      BY <2>17 DEF Order, Due, Sure, Missable
    <3>2. CASE Ts(id) <= t.from
      BY <2>9, <3>1, <3>2 DEF BehindSure
    <3>3. CASE Ts(id) > t.from
      BY <2>9, <3>1, <3>3 DEF Sure
    <3> QED
      BY <2>2, <2>4, <3>1, <3>2, <3>3
  <2> QED
    BY <1>1, <1>4, <2>5, <2>14, <2>16, <2>17, <2>18, OrderKept
<1> QED
  BY <1>5, <1>6

\* The catch-up is done: its rows are the list's, and the cursor is at the last.
LEMMA OrderCatchDone ==
  ASSUME Typed, Shape, Knowing, Order, NEW t \in tasks, CatchDone(t)
  PROVE  Order'
<1>1. /\ log' = log /\ chan' = chan /\ socket' = socket /\ feed' = feed /\ Ends(t)
  BY DEF CatchDone, view, world
<1>2. /\ t.kind = "catch" /\ t.at = "done" /\ t.todo = {}
      /\ IF t.run = "gone" \/ t.got = <<>> THEN rows' = rows /\ cursor' = cursor /\ hurt' = hurt
         ELSE Joins(rows, t.got, rows') /\ cursor' = Last(t.got).ts
  BY CatchDoneTyped
<1>3. IdsOf(t) = GotIds(t) /\ ~Asks(t) /\ t.kind \in Fetches
  BY <1>2 DEF IdsOf, Asks, Fetches
<1>4. Framed' = Framed /\ Here' = Here
  BY <1>1 DEF Framed, Here, Of, Ids
<1>5. CASE t.run # "on"
  <2>1. Working' = Working
    BY <1>1, <1>5 DEF Working, Ends
  <2>2. CASE t.run = "gone" \/ t.got = <<>>
    BY <1>1, <1>2, <1>4, <2>1, <2>2, OrderAside
  <2>3. CASE ~(t.run = "gone" \/ t.got = <<>>)
    <3>1. hurt' # {}
      BY <1>5, <2>3 DEF CatchDone
    <3> QED
      BY <3>1 DEF Order, Claim
  <2> QED
    BY <2>2, <2>3
<1>6. CASE t.run = "on"
  <2>1. t \in Working /\ t.ch = chan
    BY <1>2, <1>6 DEF Working, Shape, OnHere
  <2>2. /\ HeldIds' \cup GotIds(t) = HeldIds /\ GotIds(t) \subseteq HeldIds /\ t \in Catching
        /\ Loading' = Loading /\ Filling' = Filling /\ FillIds' = FillIds /\ (LoadAsks' <=> LoadAsks)
        /\ Froms' \subseteq Froms /\ Asked' = Asked
    BY <1>1, <1>2, <1>3, <2>1, WorkingEnds
  <2>3. CASE t.got = <<>>
    <3>1. GotIds(t) = {} /\ rows' = rows /\ cursor' = cursor /\ hurt' = hurt
      BY <1>2, <2>3 DEF GotIds
    <3>2. ShownIds' = ShownIds /\ OptTs' = OptTs /\ HeldIds' = HeldIds
      BY <2>2, <3>1 DEF ShownIds, OptTs
    <3>3. Claim' => Claim
      BY <1>1, <1>4, <2>2, <3>1, <3>2 DEF Claim, Kept, Void
    <3> QED
      BY <1>1, <1>4, <2>2, <3>1, <3>2, <3>3, OrderStays
  <2>4. CASE t.got # <<>>
    <3> DEFINE l == Last(t.got).id
    <3>1. /\ hurt' = hurt /\ cursor' = Ts(l) /\ l \in GotIds(t) /\ l \in Here
      BY <1>2, <1>3, <1>6, <2>1, <2>4, LastGot DEF CatchDone, Here
    <3>2. ShownIds' = ShownIds \cup GotIds(t) /\ OptTs' = OptTs
      BY <1>2, <1>3, <1>6, <2>4, JoinsShown
    <3>3. Ts(l) <= t.from /\ t.from \in Froms /\ t.from \in Nat
      <4>1. Ts(l) <= t.from /\ t.from \in Nat
        BY <1>2, <1>3, <2>1, <3>1, WorkingOK DEF TaskOK, TaskT
      <4> QED
        BY <2>2, <4>1 DEF Froms
    <3> HIDE DEF l
    <3> SUFFICES ASSUME Claim' PROVE Order'
      BY DEF Order
    <3>4. hurt = {} /\ cursor # 0
      BY <2>2, <3>1 DEF Claim, Knowing, CatchKnown
    <3>5. Claim
      <4>1. Kept
        BY <1>4, <2>2, <3>2 DEF Claim, Kept
      <4> QED
        BY <2>2, <3>4, <4>1 DEF Claim, Void
    <3>6. l \in Sure
      BY <2>2, <3>1 DEF Sure
    <3>7. \A x \in Due : x <= l => x \in Sure
      <4> SUFFICES ASSUME NEW x \in Due, x <= l PROVE x \in Sure
        OBVIOUS
      <4>1. x \in Here
        BY DEF Due, Sure, Missable
      <4>2. x \in Nat /\ l \in Nat
        BY <3>1, <4>1, HereOK
      <4>3. Ts(x) <= t.from
        BY <3>3, <4>2 DEF Ts
      <4> QED
        BY <3>3, <3>5, <4>3 DEF Order, BehindSure
    <3>8. Here \cap (ShownIds' \cup HeldIds') = Here \cap (ShownIds \cup HeldIds)
      BY <2>2, <3>2
    <3> QED
      BY <1>1, <1>4, <2>2, <3>1, <3>2, <3>5, <3>6, <3>7, <3>8, OrderMoves
  <2> QED
    BY <2>3, <2>4
<1> QED
  BY <1>5, <1>6

\* The history is there: everything that is known or on its way is of its page, so
\* that what is due is the page.
LEMMA OrderLoadAnswer ==
  ASSUME ConstantsOK, Typed, Shape, Knowing, Order, NEW t \in tasks, LoadAnswer(t)
  PROVE  Order'
<1> DEFINE page == LastPage(Of(t.ch))
<1>1. /\ log' = log /\ chan' = chan /\ cursor' = cursor /\ socket' = socket /\ feed' = feed /\ rows' = rows
      /\ hurt' = IF t.run = "on" /\ (Arrived \cap Of(chan)) \ page # {} THEN hurt \cup {"burst"} ELSE hurt
      /\ t.kind = "load" /\ t.at = "ask"
  BY DEF LoadAnswer, view, world, Kind
<1>2. PICK u : /\ u.kind = "load" /\ u.at = "rows" /\ u.run = t.run /\ u.todo = page /\ u.got = <<>> /\ Replace(t, u)
  BY LoadAnswerTyped
<1>3. ShownIds' = ShownIds /\ OptTs' = OptTs /\ Framed' = Framed /\ Here' = Here /\ \A x : Ts(x)' = Ts(x)
  BY <1>1 DEF ShownIds, OptTs, Framed, Here, Of, Ids, Ts
<1>4. CASE t.run # "on"
  <2>1. Working' = Working
    BY <1>2, <1>4 DEF Working, Replace
  <2> QED
    BY <1>1, <1>3, <1>4, <2>1, OrderAside
<1>5. CASE t.run = "on"
  <2>1. t \in Working /\ t \in Loading /\ t.ch = chan
    BY <1>1, <1>5 DEF Working, Loading, Shape, OnHere
  <2>2. page = LastPage(Here)
    BY <2>1 DEF Here
  <2>3. page \subseteq Here /\ (\A i \in page, j \in Here : i < j => j \in page) /\ (Here # {} => page # {})
    <3>1. Here \in SUBSET (1..Len(log)) /\ Len(log) \in Nat
      BY PageIds DEF Here
    <3> QED
      BY <2>2, <3>1, LastPageOK
  <2>4. \A x \in Here : x \in Nat /\ Ts(x) \in Nat /\ Ts(x) = 2 * x /\ Ts(x) > 0
    BY HereOK DEF Ts
  <2>5. cursor \in Nat
    BY HereOK
  <2> HIDE DEF page
  <2>6. /\ u \in Working' /\ Working' = (Working \ {t}) \cup {u} /\ Froms' = Froms /\ Asked' = Asked /\ Catching' = Catching
    BY <1>1, <1>2, <2>1, WorkingGoesOn
  <2>7. Loading' = {u}
    <3>1. Loading = {t}
      BY <2>1 DEF Shape, OneLoad
    <3> QED
      BY <1>2, <2>6, <3>1 DEF Loading
  <2>8. Filling' = {u} /\ IdsOf(u) = page
    BY <1>2, <2>7 DEF Filling, IdsOf, GotIds
  <2>9. FillIds' = page
    BY <2>8 DEF FillIds
  <2> SUFFICES ASSUME Claim' PROVE Closed' /\ AheadDue' /\ BehindSure' /\ OptDue'
    BY DEF Order
  <2>10. hurt = {} /\ Here \cap Arrived \subseteq page
    BY <1>1, <1>5 DEF Claim, Here
  <2>11. CursorKnown /\ CatchKnown
    BY <2>10 DEF Knowing
  <2>12. /\ \A w \in Working : Here \cap IdsOf(w) \subseteq page
         /\ Here \cap Framed \subseteq page /\ Here \cap known \subseteq page
    <3>1. \A w \in Working : IdsOf(w) \subseteq Arrived
      BY DEF Arrived, Working
    <3>2. Framed \subseteq Arrived /\ known \subseteq Arrived
      BY DEF Arrived, Framed
    <3> QED
      BY <2>10, <3>1, <3>2
  <2>13. Here \cap HeldIds' \subseteq page /\ page \subseteq HeldIds'
    <3>1. page \subseteq HeldIds'
      BY <2>6, <2>8 DEF HeldIds
    <3>2. \A w \in Working' : w = u \/ w \in Working
      BY <2>6
    <3>3. \A w \in Working' : Here \cap IdsOf(w) \subseteq page
      BY <2>8, <2>12, <3>2
    <3>4. Here \cap HeldIds' \subseteq page
      BY <3>3 DEF HeldIds
    <3> QED
      BY <3>1, <3>4
  <2>14. Here \cap ShownIds \subseteq page
    BY <1>3, <2>8, <2>9 DEF Claim, Kept
  <2>15. ASSUME NEW f \in Asked, NEW x \in Here, Ts(x) > f PROVE x \in page
    <3>1. PICK w \in Catching : f = w.from
      BY DEF Asked
    <3>2. PICK i \in known \cap Here : Ts(i) <= w.from
      BY <2>11, <3>1 DEF CatchKnown
    <3>3. w.from \in Nat
      BY <3>1, WorkingOK DEF Catching, TaskT
    <3>4. i < x
      BY <2>4, <2>15, <3>1, <3>2, <3>3
    <3> QED
      BY <2>3, <2>12, <3>2, <3>4
  <2>16. Sure' = page
    <3>1. Sure' \subseteq page
      BY <1>3, <2>6, <2>13, <2>14, <2>15 DEF Sure
    <3>2. page \subseteq Sure'
      BY <1>3, <2>3, <2>13 DEF Sure
    <3> QED
      BY <3>1, <3>2
  <2>17. ASSUME NEW x \in Here, cursor # 0, Ts(x) > cursor PROVE x \in page
    <3>1. PICK i \in known \cap Here : Ts(i) <= cursor
      BY <2>11, <2>17 DEF CursorKnown
    <3>2. i < x
      BY <2>4, <2>5, <2>17, <3>1
    <3> QED
      BY <2>3, <2>12, <3>1, <3>2
  <2>18. ASSUME NEW x \in Here, \A j \in page : j < x PROVE x \in page
    <3>1. PICK j \in page : TRUE
      BY <2>3
    <3> QED
      BY <2>3, <2>18, <3>1
  <2>19. Missable' \subseteq page
    BY <1>1, <1>3, <2>9, <2>17, <2>18 DEF Missable
  <2>20. Due' = page
    BY <1>3, <2>12, <2>16, <2>19 DEF Due
  <2>21. Closed'
    <3> SUFFICES ASSUME NEW v \in page, NEW x \in Here, v <= x PROVE x \in page
      BY <1>3, <2>20 DEF Closed
    <3>1. v = x \/ v < x
      BY <2>3, <2>4
    <3> QED
      BY <3>1, <2>3
  <2>22. AheadDue'
    <3> SUFFICES ASSUME NEW x \in Here, Ts(x) > cursor, cursor = 0 => \A j \in page : j < x PROVE x \in page
      BY <1>1, <1>3, <2>9, <2>20 DEF AheadDue
    <3> QED
      BY <2>17, <2>18
  <2>23. BehindSure'
    BY <2>16, <2>20 DEF BehindSure
  <2>24. OptDue'
    BY <2>7 DEF OptDue
  <2> QED
    BY <2>21, <2>22, <2>23, <2>24
<1> QED
  BY <1>4, <1>5

\* The history replaces the rows, all of which it has.
LEMMA OrderLoadDone ==
  ASSUME Typed, Shape, Order, NEW t \in tasks, LoadDone(t)
  PROVE  Order'
<1>1. /\ log' = log /\ chan' = chan /\ socket' = socket /\ feed' = feed /\ Ends(t)
      /\ t.kind = "load" /\ t.at = "rows" /\ t.todo = {}
  BY DEF LoadDone, world, Kind
<1>2. IdsOf(t) = GotIds(t) /\ t.kind \in Fetches
  BY <1>1 DEF IdsOf, Fetches
<1>3. Framed' = Framed /\ Here' = Here
  BY <1>1 DEF Framed, Here, Of, Ids
<1>4. CASE t.run # "on"
  <2>1. Working' = Working
    BY <1>1, <1>4 DEF Working, Ends
  <2>2. rows' = rows /\ cursor' = cursor /\ hurt' = hurt
    BY <1>4 DEF LoadDone
  <2> QED
    BY <1>1, <1>3, <2>1, <2>2, OrderAside
<1>5. CASE t.run = "on"
  <2>1. /\ rows' = t.got /\ cursor' = (IF t.got = <<>> THEN cursor ELSE Last(t.got).ts)
        /\ hurt' = hurt \cup ListReplaced(t.got) \cup (IF \E u \in Kind("older") : u.run # "gone" THEN {"stray"} ELSE {})
    BY <1>5 DEF LoadDone
  <2>2. t \in Working /\ t \in Loading /\ t.ch = chan
    BY <1>1, <1>5 DEF Working, Loading, Shape, OnHere
  <2>3. Loading = {t}
    BY <2>2 DEF Shape, OneLoad
  <2>4. Filling = {t} /\ FillIds = GotIds(t) /\ ~LoadAsks
    <3>1. Filling = {t}
      BY <1>1, <2>3 DEF Filling
    <3> QED
      BY <1>1, <1>2, <2>3, <3>1, LoadAsksIs DEF FillIds
  <2>5. Working' = Working \ {t} /\ HeldIds' \cup GotIds(t) = HeldIds /\ Froms' = Froms /\ Asked' = Asked
    BY <1>1, <1>2, <2>2, WorkingEnds
  <2>6. Loading' = {} /\ Filling' = {} /\ FillIds' = {}
    <3>1. Loading' = {}
      BY <2>3, <2>5 DEF Loading
    <3>2. Filling' = {}
      BY <3>1 DEF Filling
    <3> QED
      BY <3>1, <3>2 DEF FillIds
  <2>7. \A i \in DOMAIN t.got : t.got[i].id # 0
    BY <1>2, GotRows
  <2>8. ShownIds' = GotIds(t)
    BY <2>1, <2>7 DEF ShownIds, GotIds
  <2>9. OptTs' = {}
    BY <2>1, <2>7 DEF OptTs
  <2> SUFFICES ASSUME Claim' PROVE Order'
    BY DEF Order
  <2>10. hurt = {} /\ ListReplaced(t.got) = {}
    BY <2>1 DEF Claim
  <2>11. Here \cap ShownIds \subseteq GotIds(t)
    <3>1. \A r \in Range(rows) : r.id \in {t.got[i].id : i \in DOMAIN t.got} \/ (r.id # 0 /\ Elsewhere(r.id))
      BY <2>10 DEF ListReplaced
    <3>2. \A i \in DOMAIN rows : rows[i].id \in GotIds(t) \/ Elsewhere(rows[i].id)
      BY <3>1 DEF Range, GotIds
    <3>3. \A x \in Here : x \in Ids
      BY DEF Here, Of
    <3>4. \A x \in Here : ~Elsewhere(x)
      BY <3>3, NotElsewhere
    <3> QED
      BY <3>2, <3>4 DEF ShownIds
  <2>12. Claim
    <3>1. Kept
      BY <2>4, <2>11 DEF Kept
    <3>2. ~Void
      <4> SUFFICES ASSUME socket = "down", cursor = 0, GotIds(t) = {} PROVE FALSE
        BY <2>4 DEF Void
      <4>1. t.got = <<>>
        BY <1>2, LastGot
      <4>2. cursor' = 0
        BY <2>1, <4>1
      <4> QED
        BY <1>1, <2>6, <4>2 DEF Claim, Void
    <3> QED
      BY <2>4, <2>10, <3>1, <3>2 DEF Claim
  <2>13. Here \cap (ShownIds' \cup HeldIds') = Here \cap (ShownIds \cup HeldIds)
    BY <2>5, <2>8, <2>11
  <2>14. CASE t.got = <<>>
    <3>1. FillIds' = FillIds /\ cursor' = cursor
      BY <2>1, <2>4, <2>6, <2>14 DEF GotIds
    <3> QED
      BY <1>1, <1>3, <2>5, <2>9, <2>12, <2>13, <3>1, OrderStays
  <2>15. CASE t.got # <<>>
    <3> DEFINE l == Last(t.got).id
    <3>1. cursor' = Ts(l) /\ l \in GotIds(t) /\ l \in Here
      BY <1>2, <2>1, <2>2, <2>15, LastGot DEF Here
    <3>2. l \in Sure
      BY <2>5, <3>1 DEF Sure
    <3>3. \A x \in Due : x <= l => x \in Sure
      BY <2>4, <2>12, <3>1 DEF Order, BehindSure
    <3> HIDE DEF l
    <3> QED
      BY <1>1, <1>3, <2>5, <2>6, <2>9, <2>12, <2>13, <3>1, <3>2, <3>3, OrderMoves
  <2> QED
    BY <2>14, <2>15
<1> QED
  BY <1>4, <1>5

\* A load or a catch-up that fails is named in `hurt'.
LEMMA OrderFails ==
  ASSUME Typed, Order, NEW t \in tasks, LoadFails(t) \/ CatchFails(t)
  PROVE  Order'
<1>1. /\ log' = log /\ chan' = chan /\ cursor' = cursor /\ socket' = socket /\ feed' = feed /\ Ends(t)
      /\ t.kind \in {"load", "catch"}
  BY DEF LoadFails, CatchFails, view, world, Kind
<1>2. CASE t.run # "on" /\ hurt' = hurt /\ rows' = rows
  <2>1. Working' = Working /\ Framed' = Framed
    BY <1>1, <1>2 DEF Working, Ends, Framed
  <2> QED
    BY <1>1, <1>2, <2>1, OrderAside
<1>3. CASE hurt' # {}
  BY <1>3 DEF Order, Claim
<1>4. (t.run # "on" /\ hurt' = hurt /\ rows' = rows) \/ hurt' # {}
  BY DEF LoadFails, CatchFails
<1> QED
  BY <1>2, <1>3, <1>4

\* A channel is opened: nothing is claimed before its history is there.
LEMMA OrderOpens ==
  ASSUME \E ch \in Channels : Switch(ch) \/ Reopen(ch)
  PROVE  Order'
<1>1. PICK ch \in Channels : Task("load", ch, "ask") \in tasks'
  BY DEF Switch, Reopen
<1>2. LoadAsks'
  BY <1>1 DEF LoadAsks, Kind, Task
<1> QED
  BY <1>2 DEF Order, Claim

\* Every step keeps the first part.
LEMMA OrderNext ==
  ASSUME ConstantsOK, Typed, Typed', Shape, Knowing, Order, [Next]_vars
  PROVE  Order'
<1>1. CASE UNCHANGED vars
  <2>1. /\ log' = log /\ chan' = chan /\ cursor' = cursor /\ socket' = socket /\ feed' = feed /\ rows' = rows
        /\ hurt' = hurt /\ tasks' = tasks
    BY <1>1 DEF vars, world, view, history
  <2>2. Working' = Working /\ Framed' = Framed
    BY <2>1 DEF Working, Framed
  <2> QED
    BY <2>1, <2>2, OrderAside
<1>2. CASE \/ \E ch \in Channels, from \in Senders : Post(ch, from)
           \/ \E m \in sent : ServerTakes(m) \/ ServerRejects(m)
           \/ Drop \/ Subscribe \/ Reconnected \/ NewClient
  BY <1>2, OrderServer
<1>3. CASE Deliver
  BY <1>3, OrderDelivers
<1>4. CASE send \/ \E k \in Lids : retry(k) \/ Watchdog(k)
  BY <1>4, OrderSends, OrderSending
<1>5. CASE loadOlder
  BY <1>5, OrderLoadsOlder
<1>6. ASSUME NEW t \in tasks, Handles(t) PROVE Order'
  <2>1. CASE Sent(t) \/ SendFails(t)
    BY <2>1, OrderSending
  <2>2. CASE LoadAnswer(t) \/ LoadRow(t) \/ LoadDone(t) \/ LoadFails(t)
    BY <2>2, OrderLoadAnswer, OrderReads, OrderLoadDone, OrderFails
  <2>3. CASE Skip(t) \/ NextRow(t) \/ OlderDone(t) \/ LiveDone(t)
    BY <2>3, OrderSkips, OrderReads, OrderOlderDone, OrderLiveDone
  <2>4. CASE CatchAnswer(t) \/ CatchPage(t) \/ CatchDone(t) \/ CatchFails(t)
    BY <2>4, OrderCatchAnswer, OrderNextPage, OrderCatchDone, OrderFails
  <2> QED
    BY <1>6, <2>1, <2>2, <2>3, <2>4 DEF Handles
<1>7. CASE \E ch \in Channels : Switch(ch) \/ Reopen(ch)
  BY <1>7, OrderOpens
<1> QED
  BY <1>1, <1>2, <1>3, <1>4, <1>5, <1>6, <1>7 DEF Next

\* The older pages asked for while the history loads.
OffOlders == {t \in tasks : t.kind = "older" /\ t.run = "off"}

\* One function, at most, begins or goes on as another.
LEMMA ShapeKept ==
  ASSUME Shape, chan' = chan, known \subseteq known', hurt' = {} => hurt = {}, NEW u,
         Working' \subseteq Working \cup {u},
         u \in Working' =>
            /\ u.kind # "live" => u.ch = chan
            /\ u.kind = "load" => GotIds(u) \subseteq known' /\ Loading # {} /\ \A w \in Loading' : w = u
            /\ u.kind = "older" => Loading = {},
         hurt' = {} /\ OffOlders' # {} => Loading' # {}
  PROVE  Shape'
<1>1. \A w \in Working' : w \in Working \/ w = u
  OBVIOUS
<1>2. \A w \in Loading' : w \in Working' /\ (w \in Loading \/ (w = u /\ u.kind = "load"))
  BY <1>1 DEF Loading
<1>3. OneLoad'
  BY <1>2 DEF Shape, OneLoad
<1>4. OnHere'
  BY <1>1 DEF Shape, OnHere
<1>5. LoadKnows'
  BY <1>2 DEF Shape, LoadKnows, GotIds
<1>6. OlderAlone'
  <2> SUFFICES ASSUME NEW w \in Working', w.kind = "older", Loading' # {} PROVE FALSE
    BY DEF OlderAlone
  <2>1. Loading = {}
    BY <1>1 DEF Shape, OlderAlone
  <2>2. PICK v \in Loading' : TRUE
    OBVIOUS
  <2> QED
    BY <1>2, <2>1, <2>2
<1>7. OffOlder'
  BY DEF OffOlder, OffOlders
<1> QED
  BY <1>3, <1>4, <1>5, <1>6, <1>7 DEF Shape

\* A step that leaves the functions that work for the list alone.
LEMMA ShapeAside ==
  ASSUME Shape, chan' = chan, known \subseteq known', hurt' = {} => hurt = {}, Working' = Working,
         OffOlders' # {} => OffOlders # {}
  PROVE  Shape'
<1>1. Loading' = Loading
  BY DEF Loading
<1>2. OneLoad' /\ OnHere' /\ OlderAlone'
  BY <1>1 DEF Shape, OneLoad, OnHere, OlderAlone
<1>3. LoadKnows'
  BY <1>1 DEF Shape, LoadKnows, GotIds
<1>4. OffOlder'
  BY <1>1 DEF Shape, OffOlder, OffOlders
<1> QED
  BY <1>2, <1>3, <1>4 DEF Shape

\* A function ends.
LEMMA ShapeEnds ==
  ASSUME Shape, NEW t \in tasks, Ends(t), chan' = chan, known' = known, hurt' = {} => hurt = {},
         t \in Working /\ t.kind = "load" /\ hurt' = {} => OffOlders = {}
  PROVE  Shape'
<1>1. Working' = Working \ {t} /\ OffOlders' \subseteq OffOlders
  BY DEF Working, Ends, OffOlders
<1>2. CASE t \in Working /\ t.kind = "load"
  <2>1. hurt' = {} /\ OffOlders' # {} => Loading' # {}
    BY <1>1, <1>2
  <2>2. Working' \subseteq Working \cup {t} /\ t \notin Working'
    BY <1>1
  <2> QED
    BY <2>1, <2>2, ShapeKept
<1>3. CASE ~(t \in Working /\ t.kind = "load")
  <2>1. Loading' = Loading
    BY <1>1, <1>3 DEF Loading
  <2>2. hurt' = {} /\ OffOlders' # {} => Loading' # {}
    BY <1>1, <2>1 DEF Shape, OffOlder, OffOlders
  <2>3. Working' \subseteq Working \cup {t} /\ t \notin Working'
    BY <1>1
  <2> QED
    BY <2>2, <2>3, ShapeKept
<1> QED
  BY <1>2, <1>3

\* A function goes on.
LEMMA ShapeGoesOn ==
  ASSUME Shape, NEW t \in tasks, NEW u, Replace(t, u), u.kind = t.kind, u.ch = t.ch, u.run = t.run,
         u.kind = "load" => GotIds(u) \subseteq known' \/ t \notin Working,
         chan' = chan, known \subseteq known', hurt' = {} => hurt = {}
  PROVE  Shape'
<1>1. CASE t \notin Working
  <2>1. Working' = Working /\ (OffOlders' # {} => OffOlders # {})
    BY <1>1 DEF Working, Replace, OffOlders
  <2> QED
    BY <2>1, ShapeAside
<1>2. CASE t \in Working
  <2>1. Working' = (Working \ {t}) \cup {u} /\ u \in Working'
    BY <1>2 DEF Working, Replace
  <2>2. OffOlders' \subseteq OffOlders
    BY <1>2 DEF Working, Replace, OffOlders
  <2>3. Loading' = {} <=> Loading = {}
    BY <1>2, <2>1 DEF Loading
  <2>4. hurt' = {} /\ OffOlders' # {} => Loading' # {}
    BY <2>2, <2>3 DEF Shape, OffOlder, OffOlders
  <2>5. u.kind # "live" => u.ch = chan
    BY <1>2 DEF Shape, OnHere
  <2>6. u.kind = "load" => Loading # {} /\ \A w \in Loading' : w = u
    <3> SUFFICES ASSUME u.kind = "load" PROVE Loading # {} /\ \A w \in Loading' : w = u
      OBVIOUS
    <3>1. t \in Loading
      BY <1>2 DEF Loading
    <3>2. Loading = {t}
      BY <3>1 DEF Shape, OneLoad
    <3>3. \A w \in Loading' : w \in Loading \/ w = u
      BY <2>1 DEF Loading
    <3>4. \A w \in Loading' : w # t \/ w = u
      BY <2>1 DEF Loading
    <3> QED
      BY <3>1, <3>2, <3>3, <3>4
  <2>7. u.kind = "older" => Loading = {}
    BY <1>2 DEF Shape, OlderAlone
  <2>8. Working' \subseteq Working \cup {u}
    BY <2>1
  <2> QED
    BY <1>2, <2>4, <2>5, <2>6, <2>7, <2>8, ShapeKept
<1> QED
  BY <1>1, <1>2

\* Only the load of the channel that is opened works for it, and what is live.
LEMMA ShapeFresh ==
  ASSUME NEW u, u \in tasks', u.kind = "load", u.run = "on", u.ch = chan', u.got = <<>>,
         \A w \in tasks' : w = u \/ w.kind \in {"live", "send"} \/ w.run # "on"
  PROVE  Shape'
<1>1. \A w \in Working' : w = u \/ w.kind = "live"
  BY DEF Working
<1>2. \A w \in Loading' : w = u
  BY <1>1 DEF Loading
<1>3. u \in Loading' /\ GotIds(u) = {}
  BY DEF Loading, Working, GotIds
<1>4. OneLoad' /\ OnHere' /\ OlderAlone'
  BY <1>1, <1>2 DEF OneLoad, OnHere, OlderAlone
<1>5. LoadKnows'
  BY <1>2, <1>3 DEF LoadKnows, GotIds
<1>6. OffOlder'
  BY <1>3 DEF OffOlder
<1> QED
  BY <1>4, <1>5, <1>6 DEF Shape

\* The first state.
LEMMA ShapeInit ==
  ASSUME Init
  PROVE  Shape
<1> DEFINE u == Task("load", chan, "ask")
<1>1. tasks = {u} /\ u.kind = "load" /\ u.run = "on" /\ u.ch = chan /\ u.got = <<>>
  BY DEF Init, Task
<1> HIDE DEF u
<1>2. Working = {u} /\ Loading = {u} /\ GotIds(u) = {}
  BY <1>1 DEF Working, Loading, GotIds
<1> QED
  BY <1>1, <1>2 DEF Shape, OneLoad, OnHere, LoadKnows, OlderAlone, OffOlder

\* A channel is opened.
LEMMA ShapeOpens ==
  ASSUME ConstantsOK, Typed, NEW ch \in Channels, Switch(ch) \/ Reopen(ch)
  PROVE  Shape'
<1> DEFINE u == Task("load", ch, "ask")
<1>1. chan' = ch /\ u.kind = "load" /\ u.run = "on" /\ u.ch = ch /\ u.got = <<>>
  BY DEF Switch, Reopen, Task
<1>2. CASE Switch(ch)
  <2>1. /\ tasks' = {LeftBehind(t) : t \in tasks} \cup {u}
        /\ \A t \in tasks : LeftBehind(t).kind = t.kind
                          /\ LeftBehind(t).run = (IF t.kind \in Fetches /\ t.run = "on" THEN "off" ELSE t.run)
    BY <1>2, SwitchTyped
  <2>2. \A t \in tasks : t.kind \in {"load", "live", "send", "older", "catch"}
    BY DEF Typed, TasksT, TaskT
  <2> HIDE DEF u
  <2>3. \A w \in tasks' : w = u \/ w.kind \in {"live", "send"} \/ w.run # "on"
    BY <2>1, <2>2 DEF Fetches
  <2>4. u \in tasks'
    BY <2>1
  <2> QED
    BY <1>1, <2>3, <2>4, ShapeFresh
<1>3. CASE Reopen(ch)
  <2>1. /\ tasks' = {[t EXCEPT !.run = "gone"] : t \in tasks} \cup {u}
    BY <1>3 DEF Reopen
  <2>2. \A t \in tasks : t \in TaskT
    BY DEF Typed, TasksT
  <2> HIDE DEF u
  <2>3. \A t \in tasks : [t EXCEPT !.run = "gone"].run = "gone"
    BY <2>2 DEF TaskT
  <2>4. \A w \in tasks' : w = u \/ w.run # "on"
    BY <2>1, <2>3
  <2>5. u \in tasks'
    BY <2>1
  <2> QED
    BY <1>1, <2>4, <2>5, ShapeFresh
<1> QED
  BY <1>2, <1>3

\* Every step keeps the second part.
LEMMA ShapeNext ==
  ASSUME ConstantsOK, Typed, Shape, [Next]_vars
  PROVE  Shape'
<1>1. CASE \/ UNCHANGED vars
           \/ \E ch \in Channels, from \in Senders : Post(ch, from)
           \/ \E m \in sent : ServerTakes(m) \/ ServerRejects(m)
           \/ Drop \/ Subscribe \/ IgnoreFrame \/ OwnEcho \/ onSendAck \/ onError \/ \E k \in Lids : Watchdog(k)
  <2>1. tasks' = tasks
    BY <1>1 DEF vars, Post, ServerTakes, ServerRejects, Drop, Subscribe, IgnoreFrame, OwnEcho, onSendAck, onError, Watchdog
  <2>2. chan' = chan
    BY <1>1 DEF vars, view, Post, ServerTakes, ServerRejects, Drop, Subscribe, IgnoreFrame, OwnEcho, onSendAck, onError, Watchdog
  <2>3. known \subseteq known'
    BY <1>1 DEF vars, Post, ServerTakes, ServerRejects, Drop, Subscribe, IgnoreFrame, OwnEcho, onSendAck, onError, Watchdog
  <2>4. hurt' = {} => hurt = {}
    BY <1>1 DEF vars, history, Post, ServerTakes, ServerRejects, Drop, Subscribe, IgnoreFrame, OwnEcho, onSendAck, onError, Watchdog
  <2>5. Working' = Working /\ OffOlders' = OffOlders
    BY <2>1 DEF Working, OffOlders
  <2> QED
    BY <2>2, <2>3, <2>4, <2>5, ShapeAside
<1>2. CASE send \/ \E k \in Lids : retry(k)
  <2>1. chan' = chan /\ known' = known /\ hurt' = hurt
    BY <1>2 DEF send, retry, view, history
  <2>2. \E t : t.kind = "send" /\ tasks' = tasks \cup {t}
    BY <1>2, sendTyped, retryTyped
  <2>3. Working' = Working /\ OffOlders' = OffOlders
    BY <2>2 DEF Working, OffOlders
  <2> QED
    BY <2>1, <2>3, ShapeAside
<1>3. CASE NewClient
  <2>1. chan' = chan /\ known' = known /\ (hurt' = {} => hurt = {})
        /\ tasks' = {IF t.kind = "send" THEN [t EXCEPT !.at = "closed"] ELSE t : t \in tasks}
    BY <1>3 DEF NewClient, view
  <2>2. \A t \in tasks : t.kind = "send" => [t EXCEPT !.at = "closed"].kind = "send"
    BY DEF Typed, TasksT, TaskT
  <2>3. Working' = Working /\ OffOlders' = OffOlders
    BY <2>1, <2>2 DEF Working, OffOlders
  <2> QED
    BY <2>1, <2>3, ShapeAside
<1>4. CASE Reconnected \/ onMessageNew
  <2>1. chan' = chan /\ known \subseteq known' /\ (hurt' = {} => hurt = {})
    BY <1>4 DEF Reconnected, onMessageNew, view, history
  <2>2. \E u : /\ (u.kind = "live" \/ (u.kind = "catch" /\ u.ch = chan))
               /\ tasks' = tasks \cup {u} \/ tasks' = tasks
    <3> DEFINE v == [Task("live", chan, "rows") EXCEPT !.todo = {Head(feed).id}]
               w == [Task("catch", chan, "ask") EXCEPT !.from = cursor]
    <3>1. v.kind = "live" /\ w.kind = "catch" /\ w.ch = chan
      BY DEF Task
    <3>2. onMessageNew => tasks' = tasks \cup {v}
      BY DEF onMessageNew
    <3>3. Reconnected => tasks' = tasks \cup {w} \/ tasks' = tasks
      BY DEF Reconnected
    <3> HIDE DEF v, w
    <3> QED
      BY <1>4, <3>1, <3>2, <3>3
  <2>3. PICK u : /\ (u.kind = "live" \/ (u.kind = "catch" /\ u.ch = chan))
                 /\ tasks' = tasks \cup {u} \/ tasks' = tasks
    BY <2>2
  <2>4. Working' \subseteq Working \cup {u} /\ Loading' = Loading /\ OffOlders' \subseteq OffOlders
    BY <2>3 DEF Working, Loading, OffOlders
  <2>5. hurt' = {} /\ OffOlders' # {} => Loading' # {}
    BY <2>1, <2>4 DEF Shape, OffOlder, OffOlders
  <2> QED
    BY <2>1, <2>3, <2>4, <2>5, ShapeKept
<1>5. CASE loadOlder
  <2> DEFINE page == LastPage({id \in Of(chan) : Ts(id) < rows[1].ts})
             now == IF \E t \in Kind("load") : t.run = "on" THEN "off" ELSE "on"
  <2>1. chan' = chan /\ known' = known /\ (hurt' = {} => hurt = {})
    BY <1>5 DEF loadOlder
  <2>2. IF page = {} THEN tasks' = tasks
        ELSE \E u \in TaskT : u.kind = "older" /\ u.ch = chan /\ u.run = now /\ tasks' = tasks \cup {u}
    BY <1>5, loadOlderTyped
  <2>3. now = (IF Loading = {} THEN "on" ELSE "off")
    BY DEF Loading, Working, Kind
  <2> HIDE DEF page, now
  <2>4. CASE page = {}
    <3>1. Working' = Working /\ OffOlders' = OffOlders
      BY <2>2, <2>4 DEF Working, OffOlders
    <3> QED
      BY <2>1, <3>1, ShapeAside
  <2>5. CASE page # {}
    <3>1. PICK u : u.kind = "older" /\ u.ch = chan /\ u.run = now /\ tasks' = tasks \cup {u}
      BY <2>2, <2>5
    <3>2. Working' \subseteq Working \cup {u} /\ Loading' = Loading /\ (u \in Working' => Loading = {})
      <4>1. u \in Working' => u.run = "on"
        BY DEF Working
      <4>2. Working' \subseteq Working \cup {u}
        BY <3>1 DEF Working
      <4>3. Loading' = Loading
        BY <3>1 DEF Working, Loading
      <4> QED
        BY <2>3, <3>1, <4>1, <4>2, <4>3
    <3>3. hurt' = {} /\ OffOlders' # {} => Loading' # {}
      <4>1. OffOlders' # {} => OffOlders # {} \/ now = "off"
        BY <3>1 DEF OffOlders
      <4> QED
        BY <2>1, <2>3, <3>2, <4>1 DEF Shape, OffOlder, OffOlders
    <3> QED
      BY <2>1, <3>1, <3>2, <3>3, ShapeKept
  <2> QED
    BY <2>4, <2>5
<1>6. ASSUME NEW t \in tasks, Handles(t) PROVE Shape'
  <2>1. CASE LiveDone(t) \/ Sent(t) \/ SendFails(t) \/ OlderDone(t) \/ CatchDone(t) \/ CatchFails(t)
    <3>1. chan' = chan /\ known' = known /\ (hurt' = {} => hurt = {})
      BY <2>1 DEF LiveDone, Sent, SendFails, OlderDone, CatchDone, CatchFails, view, history
    <3>2. Ends(t) /\ t.kind # "load"
      BY <2>1 DEF LiveDone, Sent, SendFails, OlderDone, CatchDone, CatchFails, Kind
    <3> QED
      BY <3>1, <3>2, ShapeEnds
  <2>2. CASE LoadDone(t) \/ LoadFails(t)
    <3>1. chan' = chan /\ known' = known /\ (hurt' = {} => hurt = {}) /\ Ends(t)
      BY <2>2 DEF LoadDone, LoadFails
    <3>2. t \in Working /\ hurt' = {} => OffOlders = {}
      BY <2>2 DEF LoadDone, LoadFails, Working, OffOlders, Kind
    <3> QED
      BY <3>1, <3>2, ShapeEnds
  <2>3. CASE LoadAnswer(t)
    <3>1. chan' = chan /\ known' = known /\ (hurt' = {} => hurt = {}) /\ t.kind = "load"
      BY <2>3 DEF LoadAnswer, view, Kind
    <3>2. PICK u : u.kind = "load" /\ u.ch = t.ch /\ u.run = t.run /\ u.got = <<>> /\ Replace(t, u)
      BY <2>3, LoadAnswerTyped
    <3>3. GotIds(u) = {}
      BY <3>2 DEF GotIds
    <3> QED
      BY <3>1, <3>2, <3>3, ShapeGoesOn
  <2>4. CASE LoadRow(t) \/ NextRow(t)
    <3>1. chan' = chan /\ known \subseteq known' /\ (hurt' = {} => hurt = {})
      BY <2>4 DEF LoadRow, NextRow, view, Knows
    <3>2. PICK u : Rest(t, u) /\ GotIds(u) = GotIds(t) \cup {Oldest(t)} /\ Replace(t, u)
      BY <2>4, LoadRowTyped, NextRowTyped
    <3>3. u.kind = "load" => GotIds(u) \subseteq known' \/ t \notin Working
      <4> SUFFICES ASSUME u.kind = "load", t \in Working PROVE GotIds(u) \subseteq known'
        OBVIOUS
      <4>1. t \in Loading
        BY <3>2 DEF Loading, Rest
      <4>2. known' = known \cup {Oldest(t)}
        BY <2>4 DEF LoadRow, NextRow, Knows, Working
      <4> QED
        BY <3>2, <4>1, <4>2 DEF Shape, LoadKnows
    <3> QED
      BY <3>1, <3>2, <3>3, ShapeGoesOn DEF Rest
  <2>5. CASE Skip(t)
    <3>1. chan' = chan /\ known' = known /\ hurt' = hurt
      BY <2>5 DEF Skip, view, history
    <3>2. PICK u : Rest(t, u) /\ Replace(t, u)
      BY <2>5, SkipTyped
    <3>3. t.kind # "load"
      BY <2>5, SkipTyped
    <3> QED
      BY <3>1, <3>2, <3>3, ShapeGoesOn DEF Rest
  <2>6. CASE CatchAnswer(t) \/ CatchPage(t)
    <3>1. chan' = chan /\ known' = known /\ hurt' = hurt
      BY <2>6 DEF CatchAnswer, CatchPage, view, history
    <3>2. t.kind = "catch" /\ \E u : u.kind = t.kind /\ u.ch = t.ch /\ u.run = t.run /\ Replace(t, u)
      BY <2>6, CatchAnswerTyped, CatchPageTyped
    <3> QED
      BY <3>1, <3>2, ShapeGoesOn
  <2> QED
    BY <1>6, <2>1, <2>2, <2>3, <2>4, <2>5, <2>6 DEF Handles
<1>7. CASE \E ch \in Channels : Switch(ch) \/ Reopen(ch)
  BY <1>7, ShapeOpens
<1> QED
  BY <1>1, <1>2, <1>3, <1>4, <1>5, <1>6, <1>7 DEF Next, Deliver

\* A step that leaves the functions that work for the list, and what is known,
\* alone.
LEMMA KnowingAside ==
  ASSUME Typed, Knowing, Working' = Working, chan' = chan, cursor' = cursor, known' = known,
         log' = log \/ \E m \in Msg : log' = Append(log, m), hurt' = {} => hurt = {},
         rows' = rows \/ Restamped \/ ShownIds' = ShownIds
  PROVE  Knowing'
<1>1. known \cap Here' = known \cap Here
  <2>1. log \in Seq(Msg) /\ known \subseteq Ids /\ LogGrows
    BY DEF Typed, ServerT, ViewT, LogGrows
  <2>2. Ids \subseteq Ids' /\ \A i \in Ids : log'[i] = log[i]
    BY <2>1, LogOK
  <2> QED
    BY <2>1, <2>2 DEF Here, Of
<1>2. \A x : Ts(x)' = Ts(x)
  BY DEF Ts
<1>3. Catching' = Catching /\ Loading' = Loading
  BY DEF Catching, Loading
<1>4. LoadAsks' <=> LoadAsks
  BY <1>3, LoadAsksIs
<1>5. ShownIds' = ShownIds
  <2>1. rows' = rows => ShownIds' = ShownIds
    BY DEF ShownIds
  <2> QED
    BY <2>1, RestampedShown
<1>6. OnList' = OnList
  BY <1>5 DEF OnList, Lists
<1>7. CursorKnown => CursorKnown'
  BY <1>1, <1>2 DEF CursorKnown
<1>8. CatchKnown => CatchKnown'
  BY <1>1, <1>2, <1>3 DEF CatchKnown, IdsOf, GotIds
<1>9. KnownListed => KnownListed'
  BY <1>1, <1>4, <1>6 DEF KnownListed
<1> QED
  BY <1>7, <1>8, <1>9 DEF Knowing

\* What a step that moves a cursor, a function or the list has to show.
LEMMA KnowingKept ==
  ASSUME Typed, Knowing, log' = log, chan' = chan, known \subseteq known', hurt' = {} => hurt = {},
         hurt' = {} =>
           /\ cursor' # 0 => cursor' = cursor \/ \E i \in known' \cap Here : Ts(i) <= cursor'
           /\ cursor # 0 => cursor' # 0
           /\ \A w \in Catching' :
                \/ w \in Catching
                \/ w.from = cursor /\ cursor # 0 /\ IdsOf(w) = {}
                \/ \E t \in Catching : /\ t.from <= w.from /\ w.from \in Nat
                                       /\ \A j \in IdsOf(w) : j \in IdsOf(t) \/ (Ts(j) > t.from /\ j \in Nat)
           /\ ~LoadAsks' => \A x \in known' \cap Here :
                \/ x \in OnList'
                \/ ~LoadAsks /\ x \in known /\ (x \in OnList => x \in OnList')
  PROVE  Knowing'
<1>1. Here' = Here /\ (\A x : Ts(x)' = Ts(x)) /\ (\A x \in Here : x \in Nat /\ Ts(x) \in Nat)
  BY HereOK DEF Here, Of, Ids, Ts
<1> SUFFICES ASSUME hurt' = {} PROVE CursorKnown' /\ CatchKnown' /\ KnownListed'
  BY DEF Knowing
<1>2. CursorKnown /\ CatchKnown /\ KnownListed
  BY DEF Knowing
<1>3. CursorKnown'
  BY <1>1, <1>2 DEF CursorKnown
<1>4. ASSUME NEW w \in Catching'
      PROVE  cursor' # 0 /\ \E i \in known' \cap Here : Ts(i) <= w.from /\ \A j \in IdsOf(w) : i <= j
  <2>1. CASE w \in Catching
    BY <1>2, <2>1 DEF CatchKnown
  <2>2. CASE w.from = cursor /\ cursor # 0 /\ IdsOf(w) = {}
    BY <1>2, <2>2 DEF CursorKnown
  <2>3. CASE \E t \in Catching : /\ t.from <= w.from /\ w.from \in Nat
                                 /\ \A j \in IdsOf(w) : j \in IdsOf(t) \/ (Ts(j) > t.from /\ j \in Nat)
    <3>1. PICK t \in Catching : /\ t.from <= w.from /\ w.from \in Nat
                                /\ \A j \in IdsOf(w) : j \in IdsOf(t) \/ (Ts(j) > t.from /\ j \in Nat)
      BY <2>3
    <3>2. t.from \in Nat
      BY WorkingOK DEF Catching, TaskT
    <3>3. PICK i \in known \cap Here : Ts(i) <= t.from /\ \A j \in IdsOf(t) : i <= j
      BY <1>2 DEF CatchKnown
    <3>4. cursor # 0
      BY <1>2 DEF CatchKnown
    <3>5. i \in Nat /\ Ts(i) \in Nat
      BY <1>1
    <3>6. \A j \in IdsOf(w) : i <= j
      <4> TAKE j \in IdsOf(w)
      <4>1. CASE j \in IdsOf(t)
        BY <3>3, <4>1
      <4>2. CASE Ts(j) > t.from /\ j \in Nat
        BY <3>2, <3>3, <3>5, <4>2 DEF Ts
      <4> QED
        BY <3>1, <4>1, <4>2
    <3>7. Ts(i) <= w.from
      BY <3>1, <3>2, <3>3, <3>5
    <3> QED
      BY <3>3, <3>4, <3>6, <3>7
  <2> QED
    BY <2>1, <2>2, <2>3
<1>5. CatchKnown'
  BY <1>1, <1>4 DEF CatchKnown, IdsOf, GotIds
<1>6. KnownListed'
  BY <1>1, <1>2 DEF KnownListed
<1> QED
  BY <1>3, <1>5, <1>6

\* A channel is opened: nothing is known of it.
LEMMA KnowingOpens ==
  ASSUME known' = {}, cursor' = 0, \A w \in Working' : w.kind # "catch"
  PROVE  Knowing'
<1>1. Catching' = {}
  BY DEF Catching
<1> QED
  BY <1>1 DEF Knowing, CursorKnown, CatchKnown, KnownListed

\* What is on the list is what is shown and what is on its way.
LEMMA OnListNext ==
  OnList' = ShownIds' \cup UNION {Lists(w) : w \in Working'}
BY DEF OnList, Lists, GotIds

\* Frames.
LEMMA KnowingNew ==
  ASSUME Typed, Knowing, onMessageNew
  PROVE  Knowing'
<1> DEFINE id == Head(feed).id
           u == [Task("live", chan, "rows") EXCEPT !.todo = {id}]
<1>1. /\ log' = log /\ chan' = chan /\ rows' = rows /\ hurt' = hurt /\ cursor' = Bump(id) /\ known' = known \cup {id}
      /\ tasks' = tasks \cup {u} /\ Frame("new") /\ ~Elsewhere(id)
  BY DEF onMessageNew, view, history
<1>2. u.kind = "live" /\ u.run = "on" /\ Lists(u) = {id}
  BY DEF Task, Lists, GotIds
<1>3. id \in Here
  BY <1>1, FrameTaken, NotElsewhere
<1>4. cursor' # 0 /\ Ts(id) <= cursor'
  BY <1>1, <1>3, HereOK DEF Bump, Ts
<1> HIDE DEF u, id
<1>5. Working' = Working \cup {u}
  BY <1>1, <1>2 DEF Working
<1>6. Catching' = Catching /\ Loading' = Loading
  BY <1>2, <1>5 DEF Catching, Loading
<1>7. LoadAsks' <=> LoadAsks
  BY <1>6, LoadAsksIs
<1>8. OnList \subseteq OnList' /\ id \in OnList'
  <2>1. ShownIds' = ShownIds
    BY <1>1 DEF ShownIds
  <2> QED
    BY <2>1, <1>2, <1>5, OnListNext DEF OnList
<1>9. \A x \in known' \cap Here : x \in OnList' \/ (x \in known /\ (x \in OnList => x \in OnList'))
  BY <1>1, <1>8
<1> QED
  BY <1>1, <1>3, <1>4, <1>6, <1>7, <1>9, KnowingKept

\* The echo, or the acknowledgement, of an own message.
LEMMA KnowingConfirms ==
  ASSUME Typed, Knowing, NEW kind \in {"new", "ack"}, Frame(kind), NEW id, id = Head(feed).id, ~Elsewhere(id),
         UNCHANGED <<log, socket, view, tasks>>, cursor' = Bump(id), hurt' = {} => hurt = {}, known' = known \cup {id},
         NEW hits \in SUBSET (DOMAIN rows), \A i \in hits : rows[i].id = 0, ConfirmedAt(hits, id),
         hits = {} => hurt' # {}
  PROVE  Knowing'
<1>1. log' = log /\ chan' = chan /\ tasks' = tasks
  BY DEF view
<1>2. id \in Here /\ id \in Ids
  BY FrameTaken, NotElsewhere
<1>3. Working' = Working
  BY <1>1 DEF Working
<1>4. ShownIds \subseteq ShownIds' /\ (hits # {} => id \in ShownIds')
  BY <1>2, ConfirmedShown
<1>5. cursor' # 0 /\ Ts(id) <= cursor'
  BY <1>2, HereOK DEF Bump, Ts
<1>6. Catching' = Catching /\ (LoadAsks' <=> LoadAsks)
  BY <1>3, WorkingSame DEF Catching, PartsSame
<1>7. OnList \subseteq OnList' /\ (hits # {} => id \in OnList')
  BY <1>3, <1>4, OnListNext DEF OnList
<1>8. hurt' = {} => \A x \in known' \cap Here : x \in OnList' \/ (x \in known /\ (x \in OnList => x \in OnList'))
  BY <1>7
<1> QED
  BY <1>1, <1>2, <1>5, <1>6, <1>8, KnowingKept

\* Taking a frame.
LEMMA KnowingDelivers ==
  ASSUME Typed, Knowing, Deliver
  PROVE  Knowing'
<1>1. CASE OwnEcho
  <2>1. /\ FirstPending \in SUBSET (DOMAIN rows) /\ ConfirmedAt(FirstPending, feed[1].id)
        /\ FirstPending = {} => hurt' # {}
    BY <1>1, OwnEchoTyped
  <2>2. \A i \in FirstPending : rows[i].id = 0
    BY FirstPendingOK DEF Typed
  <2>3. /\ Frame("new") /\ ~Elsewhere(Head(feed).id) /\ UNCHANGED <<log, socket, view, tasks>> /\ cursor' = Bump(Head(feed).id)
        /\ hurt' = {} => hurt = {}
        /\ known' = known \cup {Head(feed).id}
    BY <1>1 DEF OwnEcho
  <2>4. Head(feed) = feed[1]
    BY <2>3, FrameTaken
  <2> QED
    BY <2>1, <2>2, <2>3, <2>4, KnowingConfirms
<1>2. CASE onSendAck
  <2> DEFINE hits == Unconfirmed(feed[1].lid)
  <2>1. ConfirmedAt(hits, feed[1].id) /\ (hits = {} => hurt' # {})
    BY <1>2, onSendAckTyped
  <2>2. hits \in SUBSET (DOMAIN rows) /\ \A i \in hits : rows[i].id = 0
    BY DEF Unconfirmed
  <2>3. /\ Frame("ack") /\ ~Elsewhere(Head(feed).id) /\ UNCHANGED <<log, socket, view, tasks>> /\ cursor' = Bump(Head(feed).id)
        /\ hurt' = {} => hurt = {}
        /\ known' = known \cup {Head(feed).id}
    BY <1>2 DEF onSendAck
  <2>4. Head(feed) = feed[1]
    BY <2>3, FrameTaken
  <2> HIDE DEF hits
  <2> QED
    BY <2>1, <2>2, <2>3, <2>4, KnowingConfirms
<1>3. CASE IgnoreFrame \/ onError
  <2>1. /\ log' = log /\ chan' = chan /\ cursor' = cursor /\ tasks' = tasks /\ hurt' = hurt /\ known' = known
    BY <1>3 DEF IgnoreFrame, onError, view, history
  <2>2. rows' = rows \/ Restamped
    BY <1>3, onErrorTyped DEF IgnoreFrame
  <2>3. Working' = Working
    BY <2>1 DEF Working
  <2> QED
    BY <2>1, <2>2, <2>3, KnowingAside
<1> QED
  BY <1>1, <1>2, <1>3, KnowingNew DEF Deliver

\* The steps of own sends.
LEMMA KnowingSends ==
  ASSUME ConstantsOK, Typed, Knowing,
         \/ send \/ \E k \in Lids : retry(k) \/ Watchdog(k)
         \/ \E t \in tasks : Sent(t) \/ SendFails(t)
  PROVE  Knowing'
<1>1. CASE send \/ \E k \in Lids : retry(k)
  <2>1. /\ log' = log /\ chan' = chan /\ cursor' = cursor /\ hurt' = hurt /\ known' = known
    BY <1>1 DEF send, retry, view, history, world
  <2>2. \E t : t.kind = "send" /\ tasks' = tasks \cup {t}
    BY <1>1, sendTyped, retryTyped
  <2>3. Working' = Working
    BY <2>2 DEF Working
  <2>4. CASE send
    <3> DEFINE r == Optimistic(left.sends)
    <3>1. r.id = 0
      BY DEF Optimistic
    <3>2. rows' = Append(rows, r)
      BY <2>4, sendTyped
    <3>3. rows \in Seq(RowT)
      BY DEF Typed, RowsT
    <3> HIDE DEF r
    <3>4. DOMAIN rows' = DOMAIN rows \cup {Len(rows) + 1} /\ rows'[Len(rows) + 1] = r /\ \A i \in DOMAIN rows : rows'[i] = rows[i]
      BY <3>2, <3>3
    <3>5. ShownIds' = ShownIds
      BY <3>1, <3>4 DEF ShownIds
    <3> QED
      BY <2>1, <2>3, <3>5, KnowingAside
  <2>5. CASE \E k \in Lids : retry(k)
    <3>1. Restamped
      BY <2>5, retryTyped
    <3> QED
      BY <2>1, <2>3, <3>1, KnowingAside
  <2> QED
    BY <1>1, <2>4, <2>5
<1>2. CASE \E k \in Lids : Watchdog(k)
  <2>1. /\ log' = log /\ chan' = chan /\ cursor' = cursor /\ hurt' = hurt /\ known' = known /\ tasks' = tasks
    BY <1>2 DEF Watchdog, view, history, world
  <2>2. Restamped
    BY <1>2, WatchdogTyped
  <2>3. Working' = Working
    BY <2>1 DEF Working
  <2> QED
    BY <2>1, <2>2, <2>3, KnowingAside
<1>3. ASSUME NEW t \in tasks, Sent(t) \/ SendFails(t) PROVE Knowing'
  <2>1. /\ log' = log /\ chan' = chan /\ cursor' = cursor /\ hurt' = hurt /\ known' = known /\ Ends(t) /\ t.kind = "send"
    BY <1>3 DEF Sent, SendFails, view, history, world, Kind
  <2>2. rows' = rows \/ Restamped
    BY <1>3, SendFailsTyped DEF Sent
  <2>3. Working' = Working
    BY <2>1 DEF Working, Ends
  <2> QED
    BY <2>1, <2>2, <2>3, KnowingAside
<1> QED
  BY <1>1, <1>2, <1>3

\* The steps of the server and of the socket.
LEMMA KnowingServer ==
  ASSUME ConstantsOK, Typed, Knowing,
         \/ \E ch \in Channels, from \in Senders : Post(ch, from)
         \/ \E m \in sent : ServerTakes(m) \/ ServerRejects(m)
         \/ Drop \/ Subscribe \/ Reconnected \/ NewClient
  PROVE  Knowing'
<1>0. Len(log) \in Nat
  BY DEF Typed, ServerT
<1>1. CASE \E ch \in Channels, from \in Senders : Post(ch, from)
  <2>0. PICK ch \in Channels, from \in Senders : Post(ch, from)
    BY <1>1
  <2> DEFINE m == [ch |-> ch, from |-> from, text |-> MaxSends + Len(log) + 1]
  <2>1. /\ log' = Append(log, m) /\ chan' = chan /\ cursor' = cursor /\ rows' = rows /\ tasks' = tasks /\ known' = known
        /\ hurt' = {} => hurt = {}
    BY <2>0 DEF Post, view
  <2>2. m \in Msg
    BY <1>0 DEF Msg, ConstantsOK
  <2>3. Working' = Working
    BY <2>1 DEF Working
  <2> QED
    BY <2>1, <2>2, <2>3, KnowingAside
<1>2. CASE \E q \in sent : ServerTakes(q)
  <2>0. PICK q \in sent : ServerTakes(q)
    BY <1>2
  <2> DEFINE m == [ch |-> q.ch, from |-> "me", text |-> q.lid]
  <2>1. /\ log' = Append(log, m) /\ chan' = chan /\ cursor' = cursor /\ rows' = rows /\ tasks' = tasks /\ known' = known
        /\ hurt' = hurt
    BY <2>0 DEF ServerTakes, view, history
  <2>2. m \in Msg
    BY DEF Msg, Typed, ServerT, Lids
  <2>3. Working' = Working
    BY <2>1 DEF Working
  <2> QED
    BY <2>1, <2>2, <2>3, KnowingAside
<1>3. CASE Drop \/ Subscribe \/ \E m \in sent : ServerRejects(m)
  <2>1. /\ log' = log /\ chan' = chan /\ cursor' = cursor /\ rows' = rows /\ tasks' = tasks /\ known' = known /\ hurt' = hurt
    BY <1>3 DEF Drop, Subscribe, ServerRejects, view, history
  <2>2. Working' = Working
    BY <2>1 DEF Working
  <2> QED
    BY <2>1, <2>2, KnowingAside
<1>4. CASE NewClient
  BY <1>4 DEF NewClient, Knowing
<1>5. CASE Reconnected
  <2>1. /\ log' = log /\ chan' = chan /\ cursor' = cursor /\ known' = known /\ (hurt' = {} => hurt = {})
    BY <1>5 DEF Reconnected, view
  <2>2. Restamped
    BY <1>5, ReconnectedTyped
  <2>3. CASE cursor = 0
    <3>1. tasks' = tasks
      BY <1>5, <2>3 DEF Reconnected
    <3>2. Working' = Working
      BY <3>1 DEF Working
    <3> QED
      BY <2>1, <2>2, <3>2, KnowingAside
  <2>4. CASE cursor # 0
    <3> DEFINE u == [Task("catch", chan, "ask") EXCEPT !.from = cursor]
    <3>1. tasks' = tasks \cup {u}
      BY <1>5, <2>4 DEF Reconnected
    <3>2. u.kind = "catch" /\ u.run = "on" /\ u.from = cursor /\ IdsOf(u) = {}
      BY DEF Task, IdsOf, GotIds
    <3> HIDE DEF u
    <3>3. Working' = Working \cup {u}
      BY <3>1, <3>2 DEF Working
    <3>4. Catching' = Catching \cup {u} /\ Loading' = Loading
      BY <3>2, <3>3 DEF Catching, Loading
    <3>5. LoadAsks' <=> LoadAsks
      BY <3>4, LoadAsksIs
    <3>6. OnList \subseteq OnList'
      BY <2>2, <3>3, RestampedShown, OnListNext DEF OnList
    <3> QED
      BY <2>1, <2>4, <3>2, <3>4, <3>5, <3>6, KnowingKept
  <2> QED
    BY <2>3, <2>4
<1> QED
  BY <1>1, <1>2, <1>3, <1>4, <1>5

\* A function that does not work for the list, or has nothing for it, ends; or
\* what it has is shown.
LEMMA KnowingEnds ==
  ASSUME Typed, Knowing, NEW t \in tasks, Ends(t), log' = log, chan' = chan, known' = known, hurt' = {} => hurt = {},
         hurt' = {} => cursor' = cursor \/ (cursor' # 0 /\ \E i \in known \cap Here : Ts(i) <= cursor'),
         t \in Working /\ t.kind = "load" => ~LoadAsks,
         hurt' = {} => Here \cap ShownIds \subseteq ShownIds' /\ (t \in Working => Here \cap Lists(t) \subseteq ShownIds')
  PROVE  Knowing'
<1>1. \A w \in Working : w = t \/ w \in Working'
  BY DEF Working, Ends
<1>2. Working' \subseteq Working
  BY DEF Working, Ends
<1>3. Catching' \subseteq Catching
  BY <1>2 DEF Catching
<1>4. ~LoadAsks' => ~LoadAsks
  <2> SUFFICES ASSUME LoadAsks, ~LoadAsks' PROVE FALSE
    OBVIOUS
  <2>1. PICK w \in Loading : w.at = "ask"
    BY LoadAsksIs
  <2>2. w \in Working /\ w.kind = "load"
    BY <2>1 DEF Loading
  <2>3. w # t
    BY <2>2
  <2>4. w \in Loading'
    BY <1>1, <2>2, <2>3 DEF Loading
  <2> QED
    BY <2>1, <2>4, LoadAsksIs
<1>5. hurt' = {} => \A x \in Here : x \in OnList => x \in OnList'
  <2> SUFFICES ASSUME hurt' = {}, NEW x \in Here, x \in OnList PROVE x \in OnList'
    OBVIOUS
  <2>1. CASE x \in ShownIds
    BY <2>1, OnListNext
  <2>2. CASE \E w \in Working : x \in Lists(w)
    <3>1. PICK w \in Working : x \in Lists(w)
      BY <2>2
    <3> QED
      BY <3>1, <1>1, OnListNext
  <2> QED
    BY <2>1, <2>2 DEF OnList
<1>6. hurt' = {} /\ ~LoadAsks' => \A x \in known' \cap Here : ~LoadAsks /\ x \in known /\ (x \in OnList => x \in OnList')
  BY <1>4, <1>5
<1>7. hurt' = {} => /\ cursor' # 0 => cursor' = cursor \/ \E i \in known' \cap Here : Ts(i) <= cursor'
                    /\ cursor # 0 => cursor' # 0
  OBVIOUS
<1> QED
  BY <1>3, <1>6, <1>7, KnowingKept

\* The decryption of a live message ends.
LEMMA KnowingLiveDone ==
  ASSUME Typed, Knowing, NEW t \in tasks, LiveDone(t)
  PROVE  Knowing'
<1>1. /\ log' = log /\ chan' = chan /\ cursor' = cursor /\ hurt' = hurt /\ known' = known /\ Ends(t) /\ t.kind = "live"
  BY DEF LiveDone, view, history, world, Kind
<1>2. PICK id \in Ids : /\ t.todo = {id} /\ t.got = <<>>
                        /\ IF t.run = "on" THEN \E text \in Nat : rows' = Append(rows, Row(id, text)) ELSE rows' = rows
  BY LiveDoneTyped
<1>3. Lists(t) = {id}
  BY <1>1, <1>2 DEF Lists, GotIds
<1>4. ShownIds \subseteq ShownIds' /\ (t \in Working => id \in ShownIds')
  <2>1. CASE t.run # "on"
    BY <1>2, <2>1 DEF ShownIds, Working
  <2>2. CASE t.run = "on"
    <3>1. PICK text \in Nat : rows' = Append(rows, Row(id, text))
      BY <1>2, <2>2
    <3> DEFINE r == Row(id, text)
    <3>2. r.id = id /\ id # 0
      BY PageIds DEF Row
    <3>3. rows \in Seq(RowT)
      BY DEF Typed, RowsT
    <3> HIDE DEF r
    <3>4. DOMAIN rows' = DOMAIN rows \cup {Len(rows) + 1} /\ rows'[Len(rows) + 1] = r /\ \A i \in DOMAIN rows : rows'[i] = rows[i]
      BY <3>1, <3>3 DEF r
    <3> QED
      BY <3>2, <3>4 DEF ShownIds
  <2> QED
    BY <2>1, <2>2
<1> QED
  BY <1>1, <1>3, <1>4, KnowingEnds

\* A row is read.  One of a function that began for another visit is known from
\* then on, and is on the list.
LEMMA KnowingReads ==
  ASSUME Typed, Shape, Knowing, NEW t \in tasks, LoadRow(t) \/ NextRow(t)
  PROVE  Knowing'
<1> DEFINE id == Oldest(t)
<1>1. /\ log' = log /\ chan' = chan /\ cursor' = cursor /\ rows' = rows
      /\ known' = (IF t.run = "gone" THEN known ELSE known \cup {id})
      /\ hurt' = (IF t.run = "off" /\ ~LoadAsks /\ id \in Of(chan) \ Listed THEN hurt \cup {"marked"} ELSE hurt)
  BY DEF LoadRow, NextRow, view, world, Knows
<1>2. PICK u : Rest(t, u) /\ GotIds(u) = GotIds(t) \cup {id} /\ IdsOf(u) = IdsOf(t) /\ Replace(t, u)
  BY LoadRowTyped, NextRowTyped
<1>3. t.kind \in {"load", "older", "catch"} /\ id \in t.todo
  BY LoadRowTyped, NextRowTyped
<1>4. PartsSame
  BY <1>2, PartsGoOn DEF Rest, Asks
<1>5. ShownIds' = ShownIds
  BY <1>1 DEF ShownIds
<1> HIDE DEF id
<1>6. CASE t.run # "on"
  <2>1. Working' = Working
    BY <1>2, <1>6 DEF Working, Replace, Rest
  <2>2. Catching' = Catching /\ OnList' = OnList
    BY <1>5, <2>1, OnListNext DEF Catching, OnList
  <2>3. t.run = "off" \/ t.run = "gone"
    BY <1>6 DEF Typed, TasksT, TaskT
  <2>4. hurt' = {} /\ ~LoadAsks /\ t.run = "off" /\ id \in Here => id \in OnList
    BY <1>1, OnListIs DEF Here
  <2>5. hurt' = {} /\ ~LoadAsks' => \A x \in known' \cap Here : x \in OnList' \/ (~LoadAsks /\ x \in known /\ (x \in OnList => x \in OnList'))
    BY <1>1, <1>4, <2>2, <2>3, <2>4 DEF PartsSame
  <2> QED
    BY <1>1, <2>2, <2>5, KnowingKept
<1>7. CASE t.run = "on"
  <2>1. t \in Working
    BY <1>3, <1>7 DEF Working
  <2>2. /\ u \in Working' /\ Working' = (Working \ {t}) \cup {u}
        /\ t.kind # "catch" => Catching' = Catching
        /\ t.kind = "catch" => t \in Catching /\ Catching' = (Catching \ {t}) \cup {u}
    BY <1>2, <2>1, WorkingGoesOn DEF Rest
  <2>3. Lists(t) \subseteq Lists(u) /\ id \in Lists(u)
    <3>1. t.todo = u.todo \cup {id}
      BY <1>2, <1>3 DEF Rest, id
    <3> QED
      BY <1>2, <3>1 DEF Lists, Rest
  <2>4. OnList \subseteq OnList' /\ id \in OnList'
    BY <1>5, <2>2, <2>3, OnListNext DEF OnList
  <2>5. u.from = t.from /\ u.from \in Nat
    BY <1>2, <2>1, WorkingOK DEF Rest, TaskT
  <2>6. \A w \in Catching' :
          \/ w \in Catching
          \/ \E v \in Catching : v.from <= w.from /\ w.from \in Nat /\ \A j \in IdsOf(w) : j \in IdsOf(v)
    BY <1>2, <2>2, <2>5
  <2>7. ~LoadAsks' => \A x \in known' \cap Here : x \in OnList' \/ (~LoadAsks /\ x \in known /\ (x \in OnList => x \in OnList'))
    BY <1>1, <1>4, <2>4 DEF PartsSame
  <2> QED
    BY <1>1, <2>6, <2>7, KnowingKept
<1> QED
  BY <1>6, <1>7

\* A known message is passed over, or the catch-up goes on to the next page.
LEMMA KnowingSkips ==
  ASSUME Typed, Knowing, NEW t \in tasks, Skip(t) \/ CatchPage(t)
  PROVE  Knowing'
<1>1. /\ log' = log /\ chan' = chan /\ cursor' = cursor /\ rows' = rows /\ known' = known /\ hurt' = hurt
  BY DEF Skip, CatchPage, view, world, history
<1>2. t.kind \in {"older", "catch"} /\ \E u : /\ u.kind = t.kind /\ u.run = t.run /\ u.from = t.from /\ GotIds(u) = GotIds(t)
                                              /\ IdsOf(u) \subseteq IdsOf(t) /\ Replace(t, u)
  <2>1. CASE Skip(t)
    BY <2>1, SkipTyped DEF Rest
  <2>2. CASE CatchPage(t)
    <3>1. PICK u : u.kind = "catch" /\ u.run = t.run /\ u.from = t.from /\ u.todo = {} /\ u.got = t.got /\ Replace(t, u)
      BY <2>2, CatchPageTyped
    <3>2. t.kind = "catch"
      BY <2>2, CatchPageTyped
    <3>3. GotIds(u) = GotIds(t) /\ IdsOf(u) \subseteq IdsOf(t)
      BY <3>1 DEF GotIds, IdsOf
    <3> QED
      BY <3>1, <3>2, <3>3
  <2> QED
    BY <2>1, <2>2
<1>3. PICK u : /\ u.kind = t.kind /\ u.run = t.run /\ u.from = t.from /\ GotIds(u) = GotIds(t)
               /\ IdsOf(u) \subseteq IdsOf(t) /\ Replace(t, u)
  BY <1>2
<1>4. ShownIds' = ShownIds
  BY <1>1 DEF ShownIds
<1>5. CASE t.run # "on"
  <2>1. Working' = Working
    BY <1>3, <1>5 DEF Working, Replace
  <2> QED
    BY <1>1, <2>1, KnowingAside
<1>6. CASE t.run = "on"
  <2>1. t \in Working
    BY <1>2, <1>6 DEF Working
  <2>2. /\ u \in Working' /\ Working' = (Working \ {t}) \cup {u} /\ (LoadAsks' <=> LoadAsks)
        /\ t.kind # "catch" => Catching' = Catching
        /\ t.kind = "catch" => t \in Catching /\ Catching' = (Catching \ {t}) \cup {u}
    BY <1>2, <1>3, <2>1, WorkingGoesOn
  <2>3. Lists(t) = Lists(u)
    BY <1>2, <1>3 DEF Lists
  <2>4. OnList \subseteq OnList'
    BY <1>4, <2>2, <2>3, OnListNext DEF OnList
  <2>5. u.from = t.from /\ u.from \in Nat
    BY <1>3, <2>1, WorkingOK DEF TaskT
  <2>6. \A w \in Catching' :
          \/ w \in Catching
          \/ \E v \in Catching : v.from <= w.from /\ w.from \in Nat /\ \A j \in IdsOf(w) : j \in IdsOf(v)
    BY <1>3, <2>2, <2>5
  <2> QED
    BY <1>1, <2>2, <2>4, <2>6, KnowingKept
<1> QED
  BY <1>5, <1>6

\* The first page is there, and is on its way.
LEMMA KnowingLoadAnswer ==
  ASSUME ConstantsOK, Typed, Shape, Knowing, NEW t \in tasks, LoadAnswer(t)
  PROVE  Knowing'
<1> DEFINE page == LastPage(Of(t.ch))
<1>1. /\ log' = log /\ chan' = chan /\ cursor' = cursor /\ rows' = rows /\ known' = known
      /\ hurt' = IF t.run = "on" /\ (Arrived \cap Of(chan)) \ page # {} THEN hurt \cup {"burst"} ELSE hurt
      /\ t.kind = "load" /\ t.at = "ask"
  BY DEF LoadAnswer, view, world, Kind
<1>2. PICK u : /\ u.kind = "load" /\ u.at = "rows" /\ u.run = t.run /\ u.todo = page /\ u.got = <<>> /\ Replace(t, u)
  BY LoadAnswerTyped
<1> HIDE DEF page
<1>3. CASE t.run # "on"
  <2>1. Working' = Working
    BY <1>2, <1>3 DEF Working, Replace
  <2> QED
    BY <1>1, <1>3, <2>1, KnowingAside
<1>4. CASE t.run = "on"
  <2>1. t \in Working
    BY <1>1, <1>4 DEF Working
  <2>2. u \in Working' /\ Catching' = Catching
    BY <1>1, <1>2, <2>1, WorkingGoesOn
  <2>3. page \subseteq OnList'
    BY <1>2, <2>2, OnListNext DEF Lists
  <2>4. hurt' = {} => \A x \in known' \cap Here : x \in OnList'
    <3>1. known \subseteq Arrived
      BY DEF Arrived
    <3> QED
      BY <1>1, <1>4, <2>3, <3>1 DEF Here
  <2> QED
    BY <1>1, <2>2, <2>4, KnowingKept
<1> QED
  BY <1>3, <1>4

\* The history is shown, and the cursor is at a message of it.
LEMMA KnowingLoadDone ==
  ASSUME Typed, Shape, Knowing, NEW t \in tasks, LoadDone(t)
  PROVE  Knowing'
<1>1. /\ log' = log /\ chan' = chan /\ known' = known /\ Ends(t)
      /\ t.kind = "load" /\ t.at = "rows" /\ t.todo = {}
  BY DEF LoadDone, world, Kind
<1>2. Lists(t) = GotIds(t) /\ t.kind \in Fetches
  BY <1>1 DEF Lists, Fetches
<1>3. CASE t.run # "on"
  <2>1. Working' = Working
    BY <1>1, <1>3 DEF Working, Ends
  <2>2. rows' = rows /\ cursor' = cursor /\ hurt' = hurt
    BY <1>3 DEF LoadDone
  <2> QED
    BY <1>1, <2>1, <2>2, KnowingAside
<1>4. CASE t.run = "on"
  <2>1. /\ rows' = t.got /\ cursor' = (IF t.got = <<>> THEN cursor ELSE Last(t.got).ts)
        /\ hurt' = hurt \cup ListReplaced(t.got) \cup (IF \E u \in Kind("older") : u.run # "gone" THEN {"stray"} ELSE {})
    BY <1>4 DEF LoadDone
  <2>2. t \in Loading /\ t.ch = chan
    BY <1>1, <1>4 DEF Working, Loading, Shape, OnHere
  <2>3. ~LoadAsks
    <3>1. Loading = {t}
      BY <2>2 DEF Shape, OneLoad
    <3> QED
      BY <1>1, <3>1, LoadAsksIs
  <2>4. \A i \in DOMAIN t.got : t.got[i].id # 0
    BY <1>2, GotRows
  <2>5. ShownIds' = GotIds(t)
    BY <2>1, <2>4 DEF ShownIds, GotIds
  <2>6. hurt' = {} => Here \cap ShownIds \subseteq GotIds(t)
    <3> SUFFICES ASSUME hurt' = {} PROVE Here \cap ShownIds \subseteq GotIds(t)
      OBVIOUS
    <3>1. \A r \in Range(rows) : r.id \in {t.got[i].id : i \in DOMAIN t.got} \/ (r.id # 0 /\ Elsewhere(r.id))
      BY <2>1 DEF ListReplaced
    <3>2. \A i \in DOMAIN rows : rows[i].id \in GotIds(t) \/ Elsewhere(rows[i].id)
      BY <3>1 DEF Range, GotIds
    <3>3. \A x \in Here : x \in Ids
      BY DEF Here, Of
    <3>4. \A x \in Here : ~Elsewhere(x)
      BY <3>3, NotElsewhere
    <3> QED
      BY <3>2, <3>4 DEF ShownIds
  <2>7. cursor' = cursor \/ (cursor' # 0 /\ \E i \in known \cap Here : Ts(i) <= cursor')
    <3>1. CASE t.got = <<>>
      BY <2>1, <3>1
    <3>2. CASE t.got # <<>>
      <4> DEFINE l == Last(t.got).id
      <4>1. cursor' = Ts(l) /\ l \in GotIds(t) /\ l \in Here /\ l \in Nat \ {0}
        BY <1>2, <2>1, <2>2, <3>2, LastGot DEF Here
      <4>2. l \in known
        BY <2>2, <4>1 DEF Shape, LoadKnows
      <4> HIDE DEF l
      <4>3. Ts(l) \in Nat /\ Ts(l) # 0 /\ Ts(l) <= Ts(l)
        BY <4>1 DEF Ts
      <4> QED
        BY <4>1, <4>2, <4>3
    <3> QED
      BY <3>1, <3>2
  <2>8. hurt' = {} => hurt = {}
    BY <2>1
  <2> QED
    BY <1>1, <1>2, <2>3, <2>5, <2>6, <2>7, <2>8, KnowingEnds
<1> QED
  BY <1>3, <1>4

\* A load or a catch-up that fails is named in `hurt'.
LEMMA KnowingFails ==
  ASSUME Typed, Knowing, NEW t \in tasks, LoadFails(t) \/ CatchFails(t)
  PROVE  Knowing'
<1>1. /\ log' = log /\ chan' = chan /\ cursor' = cursor /\ known' = known /\ Ends(t) /\ t.kind \in {"load", "catch"}
  BY DEF LoadFails, CatchFails, view, world, Kind
<1>2. CASE t.run # "on" /\ hurt' = hurt /\ rows' = rows
  <2>1. Working' = Working
    BY <1>1, <1>2 DEF Working, Ends
  <2> QED
    BY <1>1, <1>2, <2>1, KnowingAside
<1>3. CASE hurt' # {}
  BY <1>3 DEF Knowing
<1>4. (t.run # "on" /\ hurt' = hurt /\ rows' = rows) \/ hurt' # {}
  BY DEF LoadFails, CatchFails
<1> QED
  BY <1>2, <1>3, <1>4

\* An older page is asked for.
LEMMA KnowingLoadsOlder ==
  ASSUME ConstantsOK, Typed, Knowing, loadOlder
  PROVE  Knowing'
<1>1. /\ log' = log /\ chan' = chan /\ cursor' = cursor /\ rows' = rows /\ known' = known /\ (hurt' = {} => hurt = {})
  BY DEF loadOlder, world
<1>2. \E u : u.kind = "older" /\ tasks \subseteq tasks' /\ tasks' \subseteq tasks \cup {u}
  <2> DEFINE page == LastPage({id \in Of(chan) : Ts(id) < rows[1].ts})
             now == IF \E t \in Kind("load") : t.run = "on" THEN "off" ELSE "on"
             v == [Task("older", chan, "rows") EXCEPT !.todo = page, !.run = now]
  <2>1. IF page = {} THEN tasks' = tasks
        ELSE \E u \in TaskT : u.kind = "older" /\ u.ch = chan /\ u.run = now /\ tasks' = tasks \cup {u}
    BY loadOlderTyped
  <2>2. v.kind = "older"
    BY DEF Task
  <2> HIDE DEF page, now, v
  <2>3. CASE page = {}
    BY <2>1, <2>2, <2>3
  <2>4. CASE page # {}
    <3>1. PICK u \in TaskT : u.kind = "older" /\ tasks' = tasks \cup {u}
      BY <2>1, <2>4
    <3> QED
      BY <3>1
  <2> QED
    BY <2>3, <2>4
<1>3. PICK u : u.kind = "older" /\ tasks \subseteq tasks' /\ tasks' \subseteq tasks \cup {u}
  BY <1>2
<1>4. Working \subseteq Working' /\ Working' \subseteq Working \cup {u}
  BY <1>3 DEF Working
<1>5. Catching' = Catching /\ Loading' = Loading
  BY <1>3, <1>4 DEF Catching, Loading
<1>6. LoadAsks' <=> LoadAsks
  BY <1>5, LoadAsksIs
<1>7. OnList \subseteq OnList'
  <2>1. ShownIds' = ShownIds
    BY <1>1 DEF ShownIds
  <2> QED
    BY <2>1, <1>4, OnListNext DEF OnList
<1> QED
  BY <1>1, <1>5, <1>6, <1>7, KnowingKept

\* The older page is shown.
LEMMA KnowingOlderDone ==
  ASSUME Typed, Knowing, NEW t \in tasks, OlderDone(t)
  PROVE  Knowing'
<1>1. /\ log' = log /\ chan' = chan /\ cursor' = cursor /\ known' = known /\ hurt' = hurt /\ Ends(t)
  BY DEF OlderDone, view, world, history
<1>2. t.kind = "older" /\ t.todo = {} /\ (IF t.run = "gone" THEN rows' = rows ELSE Joins(t.got, rows, rows'))
  BY OlderDoneTyped
<1>3. Lists(t) = GotIds(t)
  BY <1>2 DEF Lists
<1>4. CASE t.run = "gone"
  <2>1. ShownIds' = ShownIds /\ t \notin Working
    BY <1>2, <1>4 DEF ShownIds, Working
  <2> QED
    BY <1>1, <2>1, KnowingEnds
<1>5. CASE t.run # "gone"
  <2>1. ShownIds' = ShownIds \cup GotIds(t)
    BY <1>2, <1>5, JoinsShown DEF Fetches
  <2> QED
    BY <1>1, <1>2, <1>3, <2>1, KnowingEnds
<1> QED
  BY <1>4, <1>5

\* A page of the catch-up is on its way.
LEMMA KnowingCatchAnswer ==
  ASSUME ConstantsOK, Typed, Shape, Knowing, NEW t \in tasks, CatchAnswer(t)
  PROVE  Knowing'
<1> DEFINE asked == {id \in Of(t.ch) : Ts(id) > t.from}
           page == FirstPage(asked)
<1>1. /\ log' = log /\ chan' = chan /\ cursor' = cursor /\ rows' = rows /\ known' = known /\ hurt' = hurt
  BY DEF CatchAnswer, view, world, history
<1>2. t.kind = "catch" /\ t.at = "ask" /\ t.todo = {}
  BY CatchAnswerTyped
<1>3. PICK u : /\ u.kind = "catch" /\ u.ch = t.ch /\ u.run = t.run
               /\ u.todo = page /\ u.got = t.got
               /\ page = {} => u.from = t.from
               /\ page # {} => Max(page) \in page /\ u.from = Ts(Max(page))
               /\ Replace(t, u)
  BY CatchAnswerTyped
<1>4. ShownIds' = ShownIds
  BY <1>1 DEF ShownIds
<1>5. page \subseteq asked /\ \A x \in asked : x \in Nat /\ Ts(x) \in Nat /\ Ts(x) > t.from
  <2>1. asked \in SUBSET (1..Len(log)) /\ Len(log) \in Nat
    <3>1. Of(t.ch) \in SUBSET (1..Len(log)) /\ Len(log) \in Nat
      BY PageIds
    <3> QED
      BY <3>1
  <2>2. \A x \in asked : x \in Nat /\ Ts(x) \in Nat
    BY <2>1 DEF Ts
  <2>3. \A x \in asked : Ts(x) > t.from
    OBVIOUS
  <2> HIDE DEF asked
  <2> QED
    BY <2>1, <2>2, <2>3, FirstPageOK
<1>6. t.from \in Nat
  BY DEF Typed, TasksT, TaskT
<1> HIDE DEF page, asked
<1>7. CASE t.run # "on"
  <2>1. Working' = Working
    BY <1>3, <1>7 DEF Working, Replace
  <2> QED
    BY <1>1, <2>1, KnowingAside
<1>8. CASE t.run = "on"
  <2>1. t \in Working
    BY <1>2, <1>8 DEF Working
  <2>2. /\ u \in Working' /\ Working' = (Working \ {t}) \cup {u} /\ (LoadAsks' <=> LoadAsks)
        /\ t \in Catching /\ Catching' = (Catching \ {t}) \cup {u}
    BY <1>2, <1>3, <2>1, WorkingGoesOn
  <2>3. Lists(t) = Lists(u)
    BY <1>2, <1>3 DEF Lists, GotIds
  <2>4. OnList \subseteq OnList'
    BY <1>4, <2>2, <2>3, OnListNext DEF OnList
  <2>5. t.from <= u.from /\ u.from \in Nat
    <3>1. CASE page = {}
      BY <1>3, <1>6, <3>1
    <3>2. CASE page # {}
      <4>1. Max(page) \in asked /\ u.from = Ts(Max(page))
        BY <1>3, <1>5, <3>2
      <4> QED
        BY <4>1, <1>5, <1>6
    <3> QED
      BY <3>1, <3>2
  <2>6. \A j \in IdsOf(u) : j \in IdsOf(t) \/ (Ts(j) > t.from /\ j \in Nat)
    BY <1>3, <1>5 DEF IdsOf, GotIds
  <2>7. \A w \in Catching' :
          \/ w \in Catching
          \/ \E v \in Catching : /\ v.from <= w.from /\ w.from \in Nat
                                 /\ \A j \in IdsOf(w) : j \in IdsOf(v) \/ (Ts(j) > v.from /\ j \in Nat)
    BY <2>2, <2>5, <2>6
  <2> QED
    BY <1>1, <2>2, <2>4, <2>7, KnowingKept
<1> QED
  BY <1>7, <1>8

\* The catch-up is shown, and the cursor is at a message of it.
LEMMA KnowingCatchDone ==
  ASSUME Typed, Shape, Knowing, NEW t \in tasks, CatchDone(t)
  PROVE  Knowing'
<1>1. /\ log' = log /\ chan' = chan /\ known' = known /\ Ends(t) /\ (hurt' = {} => hurt = {})
  BY DEF CatchDone, view, world
<1>2. /\ t.kind = "catch" /\ t.at = "done" /\ t.todo = {}
      /\ IF t.run = "gone" \/ t.got = <<>> THEN rows' = rows /\ cursor' = cursor /\ hurt' = hurt
         ELSE Joins(rows, t.got, rows') /\ cursor' = Last(t.got).ts
  BY CatchDoneTyped
<1>3. Lists(t) = GotIds(t) /\ t.kind \in Fetches
  BY <1>2 DEF Lists, Fetches
<1>4. CASE t.run = "gone" \/ t.got = <<>>
  <2>1. ShownIds' = ShownIds /\ cursor' = cursor /\ (t \in Working => Lists(t) = {})
    BY <1>2, <1>3, <1>4 DEF ShownIds, Working, GotIds
  <2> QED
    BY <1>1, <1>2, <2>1, KnowingEnds
<1>5. CASE ~(t.run = "gone" \/ t.got = <<>>)
  <2>1. ShownIds' = ShownIds \cup GotIds(t)
    BY <1>2, <1>3, <1>5, JoinsShown
  <2> SUFFICES ASSUME hurt' = {} PROVE Knowing'
    BY DEF Knowing
  <2>2. t.run = "on" /\ hurt = {}
    BY <1>5 DEF CatchDone
  <2>3. t \in Working /\ t \in Catching
    BY <1>2, <2>2 DEF Working, Catching
  <2> DEFINE l == Last(t.got).id
  <2>4. cursor' = Ts(l) /\ l \in IdsOf(t) /\ l \in Nat \ {0}
    BY <1>2, <1>3, <1>5, LastGot DEF IdsOf
  <2>5. PICK i \in known \cap Here : \A j \in IdsOf(t) : i <= j
    BY <2>2, <2>3 DEF Knowing, CatchKnown
  <2> HIDE DEF l
  <2>6. i <= l /\ i \in Nat
    BY <2>4, <2>5, HereOK
  <2>7. Ts(i) <= cursor' /\ cursor' # 0
    BY <2>4, <2>6 DEF Ts
  <2> QED
    BY <1>1, <1>2, <1>3, <2>1, <2>5, <2>7, KnowingEnds
<1> QED
  BY <1>4, <1>5

\* A channel is opened.
LEMMA KnowingSwitches ==
  ASSUME ConstantsOK, Typed, NEW ch \in Channels, Switch(ch) \/ Reopen(ch)
  PROVE  Knowing'
<1> DEFINE u == Task("load", ch, "ask")
<1>1. known' = {} /\ cursor' = 0 /\ u.kind = "load"
  BY DEF Switch, Reopen, FreshList, Task
<1>2. CASE Switch(ch)
  <2>1. /\ tasks' = {LeftBehind(t) : t \in tasks} \cup {u}
        /\ \A t \in tasks : LeftBehind(t).kind = t.kind
                          /\ LeftBehind(t).run = (IF t.kind \in Fetches /\ t.run = "on" THEN "off" ELSE t.run)
    BY <1>2, SwitchTyped
  <2> HIDE DEF u
  <2>3. \A w \in tasks' : w.kind # "catch" \/ w.run # "on"
    BY <1>1, <2>1 DEF Fetches
  <2>4. \A w \in Working' : w.kind # "catch"
    BY <2>3 DEF Working
  <2> QED
    BY <1>1, <2>4, KnowingOpens
<1>3. CASE Reopen(ch)
  <2>1. /\ tasks' = {[t EXCEPT !.run = "gone"] : t \in tasks} \cup {u}
    BY <1>3 DEF Reopen
  <2>2. \A t \in tasks : t \in TaskT
    BY DEF Typed, TasksT
  <2> HIDE DEF u
  <2>3. \A t \in tasks : [t EXCEPT !.run = "gone"].run = "gone"
    BY <2>2 DEF TaskT
  <2>4. \A w \in tasks' : w = u \/ w.run # "on"
    BY <2>1, <2>3
  <2>5. \A w \in Working' : w.kind # "catch"
    BY <1>1, <2>4 DEF Working
  <2> QED
    BY <1>1, <2>5, KnowingOpens
<1> QED
  BY <1>2, <1>3

\* Every step keeps the third part.
LEMMA KnowingNext ==
  ASSUME ConstantsOK, Typed, Shape, Knowing, [Next]_vars
  PROVE  Knowing'
<1>1. CASE UNCHANGED vars
  <2>1. /\ log' = log /\ chan' = chan /\ cursor' = cursor /\ rows' = rows /\ known' = known /\ hurt' = hurt /\ tasks' = tasks
    BY <1>1 DEF vars, world, view, history
  <2>2. Working' = Working
    BY <2>1 DEF Working
  <2> QED
    BY <2>1, <2>2, KnowingAside
<1>2. CASE \/ \E ch \in Channels, from \in Senders : Post(ch, from)
           \/ \E m \in sent : ServerTakes(m) \/ ServerRejects(m)
           \/ Drop \/ Subscribe \/ Reconnected \/ NewClient
  BY <1>2, KnowingServer
<1>3. CASE Deliver
  BY <1>3, KnowingDelivers
<1>4. CASE send \/ \E k \in Lids : retry(k) \/ Watchdog(k)
  BY <1>4, KnowingSends
<1>5. CASE loadOlder
  BY <1>5, KnowingLoadsOlder
<1>6. ASSUME NEW t \in tasks, Handles(t) PROVE Knowing'
  <2>1. CASE Sent(t) \/ SendFails(t)
    BY <2>1, KnowingSends
  <2>2. CASE LoadAnswer(t) \/ LoadRow(t) \/ LoadDone(t) \/ LoadFails(t)
    BY <2>2, KnowingLoadAnswer, KnowingReads, KnowingLoadDone, KnowingFails
  <2>3. CASE Skip(t) \/ NextRow(t) \/ OlderDone(t) \/ LiveDone(t)
    BY <2>3, KnowingSkips, KnowingReads, KnowingOlderDone, KnowingLiveDone
  <2>4. CASE CatchAnswer(t) \/ CatchPage(t) \/ CatchDone(t) \/ CatchFails(t)
    BY <2>4, KnowingCatchAnswer, KnowingSkips, KnowingCatchDone, KnowingFails
  <2> QED
    BY <1>6, <2>1, <2>2, <2>3, <2>4 DEF Handles
<1>7. CASE \E ch \in Channels : Switch(ch) \/ Reopen(ch)
  BY <1>7, KnowingSwitches
<1> QED
  BY <1>1, <1>2, <1>3, <1>4, <1>5, <1>6, <1>7 DEF Next

\* The first state has nothing due.
LEMMA WholeInit ==
  ASSUME Init
  PROVE  Shape /\ Knowing /\ Order
<1> DEFINE u == Task("load", chan, "ask")
<1>1. tasks = {u} /\ u.kind = "load" /\ u.run = "on" /\ u.at = "ask" /\ known = {} /\ cursor = 0
  BY DEF Init, Task
<1> HIDE DEF u
<1>2. Catching = {}
  BY <1>1 DEF Catching, Working
<1>3. Knowing
  BY <1>1, <1>2 DEF Knowing, CursorKnown, CatchKnown, KnownListed
<1>4. LoadAsks
  BY <1>1 DEF LoadAsks, Kind
<1>5. Order
  BY <1>4 DEF Order, Claim
<1> QED
  BY <1>3, <1>5, ShapeInit

\* When all is quiet, what is due is what is shown.
LEMMA QuietIsWhole ==
  ASSUME Order
  PROVE  NothingIsMissed
<1> SUFFICES ASSUME Quiet, hurt = {}, NEW id \in Of(chan), NEW first \in ShownIds \cap Of(chan), first <= id
             PROVE  id \in ShownIds
  BY DEF NothingIsMissed
<1>1. tasks = {} /\ feed = <<>> /\ socket = "live"
  BY DEF Quiet
<1>2. Working = {} /\ Framed = {}
  BY <1>1 DEF Working, Framed
<1>3. Filling = {} /\ HeldIds = {} /\ Asked = {} /\ ~LoadAsks
  BY <1>1, <1>2 DEF Filling, Loading, HeldIds, Asked, Catching, LoadAsks, Kind
<1>4. Claim
  BY <1>1, <1>3 DEF Claim, Kept, Void
<1>5. Missable = {}
  BY <1>1 DEF Missable
<1>6. Due = Here \cap ShownIds
  BY <1>2, <1>3, <1>5 DEF Due, Sure
<1> QED
  BY <1>4, <1>6 DEF Order, Closed, Here

\* Nothing is missed, however the history load, the older pages, the catch-ups,
\* the frames and the own sends interleave, with what `hurt' names apart.
THEOREM NothingMissed == Spec => []NothingIsMissed
<1>1. Init => Typed /\ Shape /\ Knowing /\ Order
  BY InitTyped, WholeInit, ConstantsOK
<1>2. Typed /\ Shape /\ Knowing /\ Order /\ [Next]_vars => (Typed /\ Shape /\ Knowing /\ Order)'
  BY NextTyped, ShapeNext, KnowingNext, OrderNext, ConstantsOK
<1>3. Order => NothingIsMissed
  BY QuietIsWhole
<1> QED
  BY <1>1, <1>2, <1>3, PTL DEF Spec
=============================================================================

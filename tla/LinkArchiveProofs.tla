------------------------- MODULE LinkArchiveProofs --------------------------
(***************************************************************************)
(* What holds of the link archive for any number of archives, requests,    *)
(* approval flows, chunks, server windows and faults.                      *)
(***************************************************************************)
EXTENDS LinkArchive, TLAPS

OldPhases == {"off", "choose", "list", "reclaim", "persist", "put", "reput", "mark", "drop",
              "probe", "verify", "undo"}
NewPhases == {"off", "poll", "fetch", "imported", "clean", "complete", "linked", "failed"}
Waits == {"off", "choose", "list", "reclaim"}

Causes == {"answer", "blocked", "delete", "discard", "verify", "throws", "reload", "unclaimed"}

ServerType ==
  /\ cap \in Nat
  /\ arch \in [Archive -> {"none", "staging", "available", "gone", "past"}]
  /\ held \in [Archive -> SUBSET Chunk]
  /\ keyOf \in [Archive -> 0..Claims]
  /\ row \in [Archive -> {"none", "open", "dead"}]
  /\ link \in [Claim -> {"none", "open", "claimed", "sealed", "taken", "expired"}]
  /\ env \in [Claim -> {0} \cup Archive]
  /\ late \subseteq (Archive \X Chunk)
  /\ lost \in [Archive -> SUBSET Causes]
  /\ shared \subseteq Archive
OldSet ==
  [open : BOOLEAN, ph : OldPhases, c : 0..Claims, a : {0} \cup Archive, kept : BOOLEAN,
   job : SUBSET Chunk, next : Nat, missing : SUBSET Chunk, rec : {0} \cup Archive,
   resume : BOOLEAN, todo : SUBSET Archive, listed : SUBSET Archive, refused : BOOLEAN]
NewSet ==
  [ph : NewPhases, c : 0..Claims, a : {0} \cup Archive, next : Nat, got : SUBSET Chunk]
VaultSet == [frames : [Claim -> SUBSET Chunk], meta : 0..Claims]

\* A flow has an archive from its allocation, or its resumption, until it ends.
FlowOK(r) ==
  /\ r \in OldSet
  /\ r.ph # "off" => r.c \in Claim
  /\ r.ph \in Waits => r.a = 0
  /\ r.ph \notin Waits => r.a \in Archive
  /\ r.ph \in Waits \cup {"persist"} => ~r.resume
  /\ r.ph = "probe" => r.resume
  /\ r.ph # "reclaim" => r.todo = {} /\ r.listed = {}
FlowType == old \in [Flow -> OldSet] /\ \A f \in Flow : FlowOK(old[f])

\* The new device has what it imports from the envelope of its request.
NewType ==
  /\ new \in NewSet /\ vault \in VaultSet
  /\ new.ph # "off" => new.c \in Claim
  /\ \A c \in Claim : link[c] \in {"sealed", "taken"} => env[c] \in Archive
  /\ new.ph \in {"fetch", "imported", "clean"} =>
       new.a \in Archive /\ link[new.c] = "taken" /\ new.a = env[new.c]

TypeInv == ServerType /\ FlowType /\ NewType

-----------------------------------------------------------------------------
(* What a step makes of an approval flow.                                    *)

Only(f) == \A g \in Flow \ {f} : old'[g] = old[g]

\* The flow is at a standstill, or begins anew, without an archive.
Rests(f, P) ==
  /\ Only(f) /\ FlowOK(old'[f]) /\ old' \in [Flow -> OldSet]
  /\ old'[f].ph \in P
  /\ old'[f].rec \in {0, old[f].rec}

Ceases(f) == Rests(f, {"off", "choose"}) /\ ~old'[f].refused

\* The flow goes on with what it had.
Offers(f) == old'[f].rec \in {0, old[f].rec} \/ row[old'[f].rec] = "open"
Goes(f, P) ==
  /\ Only(f) /\ FlowOK(old'[f]) /\ old' \in [Flow -> OldSet]
  /\ old'[f].ph \in P
  /\ old'[f].a = old[f].a /\ old'[f].kept = old[f].kept /\ old'[f].resume = old[f].resume
  /\ old'[f].todo = old[f].todo /\ old'[f].listed = old[f].listed
  /\ old'[f].refused = old[f].refused
  /\ Offers(f)

\* Becoming a well-formed record keeps the other flows as they are.
LEMMA BecomeOK ==
  ASSUME FlowType, NEW f \in Flow, NEW r, FlowOK(r), Become(f, r)
  PROVE  old' \in [Flow -> OldSet] /\ old'[f] = r /\ Only(f)
  BY DEF FlowType, FlowOK, Become, Only

\* A window granted by the server names chunks of the archive.
LEMMA WindowInChunk == \A x, t : Window(x, t) \in SUBSET Chunk
  BY DEF Window

LEMMA IdleOK == FlowOK(OldIdle) /\ OldIdle.ph = "off" /\ OldIdle.rec = 0 /\ ~OldIdle.refused
  BY LinkAssumption DEF FlowOK, OldIdle, OldSet, OldPhases, Waits

\* A mounted flow that ends offers its buttons again.
LEMMA EndedOK ==
  ASSUME FlowType, NEW f \in Flow, old[f].ph # "off"
  PROVE  /\ FlowOK(Ended(f)) /\ Ended(f).ph \in {"off", "choose"}
         /\ Ended(f).rec \in {0, old[f].rec} /\ ~Ended(f).refused
<1>1. CASE old[f].open
  <2>1. FlowOK(old[f]) /\ old[f].c \in Claim /\ old[f].c \in 0..Claims
        /\ old[f].rec \in {0} \cup Archive
    BY DEF FlowType, FlowOK, OldSet
  <2>2. Ended(f) = [OldIdle EXCEPT !.open = TRUE, !.ph = "choose", !.c = old[f].c, !.rec = old[f].rec]
    BY <1>1 DEF Ended
  <2>3. Ended(f) = [open |-> TRUE, ph |-> "choose", c |-> old[f].c, a |-> 0, kept |-> FALSE, job |-> {},
                    next |-> 0, missing |-> {}, rec |-> old[f].rec, resume |-> FALSE, todo |-> {},
                    listed |-> {}, refused |-> FALSE]
    BY <2>2 DEF OldIdle
  <2> QED
    BY ONLY <2>1, <2>3 DEF FlowOK, OldSet, OldPhases, Waits
<1>2. CASE ~old[f].open
  BY <1>2, IdleOK DEF Ended
<1> QED
  BY <1>1, <1>2

LEMMA EndsOK ==
  ASSUME FlowType, NEW f \in Flow, old[f].ph # "off", Ends(f)
  PROVE  Ceases(f)
  BY EndedOK, BecomeOK DEF Ends, Rests, Ceases

\* An error of the upload ends a resumption and leads a fresh upload to its DELETE,
\* by way of the mark on its row if it has one.
LEMMA BreaksOK ==
  ASSUME FlowType, NEW f \in Flow, old[f].ph \notin Waits, Breaks(f)
  PROVE  \/ old[f].resume /\ Ceases(f)
         \/ ~old[f].resume /\ old[f].kept /\ Goes(f, {"mark"})
         \/ ~old[f].resume /\ ~old[f].kept /\ Goes(f, {"drop"})
<1>1. CASE old[f].resume
  BY <1>1, EndsOK DEF Breaks, Waits
<1>2. CASE ~old[f].resume
  <2> DEFINE p == IF old[f].kept THEN "mark" ELSE "drop"
             r == [old[f] EXCEPT !.ph = p, !.job = {}]
  <2>1. Become(f, r)
    BY <1>2 DEF Breaks
  <2>0. old[f] \in OldSet /\ FlowOK(old[f]) /\ p \in {"mark", "drop"}
    BY DEF FlowType
  <2>2. FlowOK(r) /\ r.ph = p
    BY ONLY <1>2, <2>0, old[f].ph \notin Waits DEF FlowOK, OldSet, OldPhases, Waits
  <2>3. old' \in [Flow -> OldSet] /\ old'[f] = r /\ Only(f)
    BY <2>1, <2>2, BecomeOK
  <2>4. old[f] \in OldSet
    BY DEF FlowType
  <2> QED
    BY <1>2, <2>2, <2>3, <2>4 DEF Goes, Offers, OldSet
<1> QED
  BY <1>1, <1>2

\* What an error of the upload leads to.
Broken(f) ==
  \/ old[f].resume /\ Ceases(f)
  \/ ~old[f].resume /\ old[f].kept /\ Goes(f, {"mark"})
  \/ ~old[f].resume /\ ~old[f].kept /\ Goes(f, {"drop"})

\* A record that differs from the flow's in its phase and its tasks.
Alike(f, r) ==
  /\ r \in OldSet /\ r.c = old[f].c /\ r.a = old[f].a /\ r.kept = old[f].kept
  /\ r.resume = old[f].resume /\ r.rec = old[f].rec /\ r.todo = old[f].todo
  /\ r.listed = old[f].listed /\ r.refused = old[f].refused

\* A flow at work that changes its phase and its tasks goes on.
LEMMA WorkOK ==
  ASSUME FlowType, NEW f \in Flow, old[f].ph \notin Waits, NEW r, Become(f, r), Alike(f, r),
         NEW P, P \subseteq OldPhases \ (Waits \cup {"persist", "probe"}), r.ph \in P
  PROVE  Goes(f, P)
<1>1. FlowOK(old[f]) /\ old[f].ph # "off" /\ old[f].ph # "reclaim"
  BY DEF FlowType, Waits
<1>2. FlowOK(r)
  BY ONLY <1>1, Alike(f, r), old[f].ph \notin Waits, P \subseteq OldPhases \ (Waits \cup {"persist", "probe"}),
     r.ph \in P DEF FlowOK, Alike, OldSet, Waits
<1> QED
  BY <1>2, BecomeOK DEF Goes, Alike, Offers

\* The first window of a fresh upload is granted with its answer; the row is
\* written or not.
LEMMA PersistFlow ==
  ASSUME TypeInv, NEW f \in Flow, Persist(f)
  PROVE  /\ Only(f) /\ FlowOK(old'[f]) /\ old' \in [Flow -> OldSet]
         /\ old'[f].ph = "put" /\ old'[f].a = old[f].a /\ ~old'[f].resume
         /\ old'[f].rec = old[f].rec /\ old'[f].refused = old[f].refused
         /\ IF old'[f].kept THEN row' = [row EXCEPT ![old[f].a] = "open"] ELSE row' = row
<1>0. FlowType /\ FlowOK(old[f]) /\ old[f] \in OldSet /\ old[f].ph = "persist"
  BY DEF TypeInv, FlowType, Persist, At
<1>1. PICK kept \in BOOLEAN :
        /\ IF kept THEN row' = [row EXCEPT ![old[f].a] = "open"] ELSE row' = row
        /\ Become(f, [old[f] EXCEPT !.ph = "put", !.kept = kept, !.job = Window(0, Chunks),
                                    !.next = cap])
  BY DEF Persist
<1>2. PICK r : r = [old[f] EXCEPT !.ph = "put", !.kept = kept, !.job = Window(0, Chunks), !.next = cap]
  OBVIOUS
<1>3. Window(0, Chunks) \in SUBSET Chunk /\ cap \in Nat
  BY WindowInChunk DEF TypeInv, ServerType
<1>4. /\ FlowOK(r) /\ r.ph = "put" /\ r.kept = kept /\ r.a = old[f].a /\ ~r.resume
      /\ r.rec = old[f].rec /\ r.refused = old[f].refused
  BY ONLY <1>0, <1>2, <1>3, kept \in BOOLEAN DEF FlowOK, OldSet, OldPhases, Waits
<1> QED
  BY <1>0, <1>1, <1>2, <1>4, BecomeOK

\* A refused request of the upload is an error of it.
LEMMA RefusedFlow ==
  ASSUME TypeInv, NEW f \in Flow, old[f].ph \notin Waits, Refused(f) \/ Breaks(f)
  PROVE  Broken(f)
  BY BreaksOK DEF Refused, Broken, TypeInv

\* The upload of the chunks, fresh or again.
LEMMA UploadFlow ==
  ASSUME TypeInv, NEW f \in Flow,
         NextWindow(f) \/ Retransmit(f) \/ \E i \in Chunk : Put(f, i)
  PROVE  /\ old[f].ph \in {"put", "reput"}
         /\ Broken(f) \/ (old[f].ph = "put" /\ Goes(f, {"put"}))
                      \/ (old[f].ph = "reput" /\ Goes(f, {"reput"}))
<1>0. FlowType /\ FlowOK(old[f]) /\ old[f] \in OldSet
  BY DEF TypeInv, FlowType
<1>1. old[f].ph \in {"put", "reput"} /\ old[f].ph \notin Waits
  BY DEF NextWindow, Retransmit, Put, At, Waits
<1>2. ASSUME NEW r, Become(f, r), Alike(f, r), r.ph = old[f].ph
      PROVE  (old[f].ph = "put" /\ Goes(f, {"put"})) \/ (old[f].ph = "reput" /\ Goes(f, {"reput"}))
  BY <1>0, <1>1, <1>2, WorkOK DEF OldPhases, Waits
<1>3. ASSUME NEW i \in Chunk, Put(f, i)
      PROVE  Broken(f) \/ \E r : Become(f, r) /\ Alike(f, r) /\ r.ph = old[f].ph
  <2>1. PICK r : r = [old[f] EXCEPT !.job = @ \ {i}]
    OBVIOUS
  <2>2. Alike(f, r) /\ r.ph = old[f].ph
    BY ONLY <1>0, <2>1 DEF Alike, OldSet
  <2>3. Become(f, r) \/ Refused(f)
    BY <1>3, <2>1 DEF Put
  <2> QED
    BY <1>1, <2>2, <2>3, RefusedFlow
<1>4. CASE NextWindow(f)
  <2>0. PICK w \in SUBSET Chunk : w = Window(old[f].next, Chunks)
    BY WindowInChunk
  <2>1. PICK n \in Nat : n = old[f].next + cap
    <3>1. old[f].next \in Nat /\ cap \in Nat
      BY <1>0 DEF TypeInv, ServerType, OldSet
    <3> QED
      BY <3>1
  <2>2. PICK r : r = [old[f] EXCEPT !.job = w, !.next = n]
    OBVIOUS
  <2>3. Alike(f, r) /\ r.ph = old[f].ph
    BY ONLY <1>0, <2>2, w \in SUBSET Chunk, n \in Nat DEF Alike, OldSet
  <2>4. Become(f, r) \/ Refused(f)
    BY <1>4, <2>0, <2>1, <2>2 DEF NextWindow
  <2> QED
    BY <1>1, <1>2, <2>3, <2>4, RefusedFlow
<1>5. CASE Retransmit(f)
  <2> DEFINE slice == Least(old[f].missing, IF old[f].resume THEN Batch ELSE cap)
             granted == Window(Min(slice), Max(slice) + 1)
  <2>0. PICK x, m, j : /\ x = [old[f] EXCEPT !.missing = m, !.job = j]
                       /\ m \in SUBSET Chunk /\ j \in SUBSET Chunk
                       /\ Become(f, x) \/ Refused(f)
    <3>1. granted \in SUBSET Chunk /\ old[f].missing \in SUBSET Chunk
      BY <1>0, WindowInChunk DEF OldSet
    <3>2. PICK m : m = old[f].missing \ slice
      OBVIOUS
    <3>3. PICK j : j = IF old[f].resume THEN granted \cap slice ELSE granted
      OBVIOUS
    <3>4. Become(f, [old[f] EXCEPT !.missing = m, !.job = j]) \/ Refused(f)
      BY <1>5, <3>2, <3>3 DEF Retransmit
    <3>5. m \in SUBSET Chunk /\ j \in SUBSET Chunk
      BY ONLY <3>1, <3>2, <3>3
    <3> QED
      BY <3>4, <3>5
  <2>2. Alike(f, x) /\ x.ph = old[f].ph
    BY ONLY <1>0, <2>0 DEF Alike, OldSet
  <2> QED
    BY <1>1, <1>2, <2>0, <2>2, RefusedFlow
<1> QED
  BY <1>1, <1>2, <1>3, <1>4, <1>5

\* The finalization: complete, incomplete, gone, or no answer.
Available(a) == [arch EXCEPT ![a] = "available"]
NoRow(a) == [row EXCEPT ![a] = "none"]
Completed(f) ==
  /\ Live(old[f].a) /\ held[old[f].a] = Chunk /\ arch' = Available(old[f].a)
  /\ \/ row' = NoRow(old[f].a) /\ Goes(f, {"verify"})
     \/ row' = row /\ old[f].resume /\ Ceases(f)
     \/ row' = row /\ ~old[f].resume /\ Goes(f, {"verify"})
Incomplete(f) ==
  /\ arch' = arch
  /\ \/ row' = row /\ (Broken(f) \/ (Goes(f, {"reput"})))
     \/ row' \in {row, Dead(old[f].a)} /\ old[f].resume /\ Ceases(f)
     \/ ~Live(old[f].a) /\ row' = NoRow(old[f].a) /\ old[f].resume /\ Ceases(f)
Unanswered(f) ==
  /\ row' = row /\ (Broken(f) \/ (old[f].resume /\ Ceases(f)))
  /\ \/ arch' = arch
     \/ Live(old[f].a) /\ held[old[f].a] = Chunk /\ arch' = Available(old[f].a)

LEMMA FinalizeFlow ==
  ASSUME TypeInv, NEW f \in Flow, Finalize(f)
  PROVE  /\ old[f].ph \in {"put", "reput", "probe"} /\ old[f].a \in Archive
         /\ Completed(f) \/ Incomplete(f) \/ Unanswered(f)
<1>0. FlowType /\ FlowOK(old[f]) /\ old[f] \in OldSet
  BY DEF TypeInv, FlowType
<1>1. old[f].ph \in {"put", "reput", "probe"} /\ old[f].ph \notin Waits /\ old[f].ph # "off"
  BY DEF Finalize, Finalizing, UploadedAll, SentAgain, At, Waits
<1>2. old[f].a \in Archive /\ (old[f].ph = "probe" => old[f].resume)
  BY <1>0, <1>1 DEF FlowOK
<1>3. Ends(f) => Ceases(f)
  BY <1>0, <1>1, EndsOK
<1>4. Breaks(f) => Broken(f)
  BY <1>1, RefusedFlow
<1>5. ToVerify(f) => Goes(f, {"verify"})
  <2>1. PICK r : r = [old[f] EXCEPT !.ph = "verify"]
    OBVIOUS
  <2>2. Alike(f, r) /\ r.ph = "verify"
    BY ONLY <1>0, <2>1 DEF Alike, OldSet, OldPhases
  <2>3. ToVerify(f) => Become(f, r)
    BY <2>1 DEF ToVerify
  <2> QED
    BY <1>0, <1>1, <2>2, <2>3, WorkOK DEF OldPhases, Waits
<1>6. CASE Complete_(f)
  <2>1. Completed(f)
    BY <1>3, <1>5, <1>6 DEF Complete_, Completed, NoRow, Available
  <2> QED
    BY <2>1, <1>1, <1>2
<1>7. CASE Misses(f) /\ UNCHANGED arch
  <2>1. CASE StillMissing(f)
    <3>1. Incomplete(f)
      BY <1>3, <1>4, <1>7, <2>1 DEF StillMissing, Incomplete
    <3> QED
      BY <3>1, <1>1, <1>2
  <2>2. CASE Become(f, [old[f] EXCEPT !.ph = "reput", !.missing = Chunk \ held[old[f].a]]) /\ row' = row
    <3>1. PICK m \in SUBSET Chunk : m = Chunk \ held[old[f].a]
      OBVIOUS
    <3>2. PICK r : r = [old[f] EXCEPT !.ph = "reput", !.missing = m]
      OBVIOUS
    <3>3. Alike(f, r) /\ r.ph = "reput"
      BY ONLY <1>0, <3>2, m \in SUBSET Chunk DEF Alike, OldSet, OldPhases
    <3>4. Become(f, r)
      BY <2>2, <3>1, <3>2
    <3>5. Goes(f, {"reput"})
      BY <1>0, <1>1, <3>3, <3>4, WorkOK DEF OldPhases, Waits
    <3>6. Incomplete(f)
      BY <1>7, <2>2, <3>5 DEF Incomplete
    <3> QED
      BY <3>6, <1>1, <1>2
  <2> QED
    BY <1>7, <2>1, <2>2 DEF Misses
<1>8. CASE ~Live(old[f].a) /\ FindsItGone(f) /\ UNCHANGED arch
  <2>1. Incomplete(f)
    BY <1>2, <1>3, <1>4, <1>8 DEF FindsItGone, Incomplete, NoRow, At
  <2> QED
    BY <2>1, <1>1, <1>2
<1>9. CASE Unfinalized(f)
  <2>1. Broken(f) \/ (old[f].resume /\ Ceases(f))
    BY <1>2, <1>3, <1>4, <1>9 DEF Unfinalized, At
  <2>2. arch' = arch \/ (Live(old[f].a) /\ held[old[f].a] = Chunk /\ arch' = Available(old[f].a))
    BY <1>9 DEF Unfinalized, Available
  <2>3. Unanswered(f)
    BY <1>9, <2>1, <2>2 DEF Unfinalized, Unanswered
  <2> QED
    BY <2>3, <1>1, <1>2
<1> QED
  BY <1>1, <1>2, <1>6, <1>7, <1>8, <1>9 DEF Finalize

\* The mark, the DELETE and the hand-over.
LEMMA MarkFlow ==
  ASSUME TypeInv, NEW f \in Flow, Mark(f)
  PROVE  /\ old[f].ph = "mark" /\ old[f].a \in Archive /\ Goes(f, {"drop"})
         /\ row' \in {row, Dead(old[f].a)}
<1>0. FlowType /\ FlowOK(old[f]) /\ old[f] \in OldSet /\ old[f].ph = "mark" /\ old[f].ph \notin Waits
  BY DEF TypeInv, FlowType, Mark, At, Waits
<1>1. PICK r : r = [old[f] EXCEPT !.ph = "drop"]
  OBVIOUS
<1>2. Alike(f, r) /\ r.ph = "drop"
  BY ONLY <1>0, <1>1 DEF Alike, OldSet, OldPhases
<1>3. Become(f, r)
  BY <1>1 DEF Mark
<1>4. Goes(f, {"drop"})
  BY <1>0, <1>2, <1>3, WorkOK DEF OldPhases, Waits
<1> QED
  BY <1>0, <1>4 DEF Mark, FlowOK

LEMMA DropFlow ==
  ASSUME TypeInv, NEW f \in Flow, Drop(f)
  PROVE  old[f].ph \in {"drop", "undo"} /\ old[f].a \in Archive /\ Ceases(f)
<1>0. FlowType /\ FlowOK(old[f]) /\ old[f].ph \in {"drop", "undo"}
  BY DEF TypeInv, FlowType, Drop
<1> QED
  BY <1>0, EndsOK DEF Drop, FlowOK, Waits

LEMMA VerifyFlow ==
  ASSUME TypeInv, NEW f \in Flow, Verify(f)
  PROVE  /\ old[f].ph = "verify" /\ old[f].a \in Archive /\ old[f].c \in Claim
         /\ \/ Ceases(f) /\ Deposit(f) /\ UNCHANGED lost
            \/ Goes(f, {"undo"}) /\ UNCHANGED <<relay, lost>>
            \/ Goes(f, {"undo"}) /\ Deposit(f) /\ Lose(old[f].a, "verify")
            \/ Ceases(f) /\ UNCHANGED relay /\ Lose(old[f].a, "throws")
<1>0. /\ FlowType /\ FlowOK(old[f]) /\ old[f] \in OldSet /\ old[f].ph = "verify"
      /\ old[f].ph \notin Waits /\ old[f].ph # "off"
  BY DEF TypeInv, FlowType, Verify, At, Waits
<1>1. old[f].a \in Archive /\ old[f].c \in Claim
  BY <1>0 DEF FlowOK
<1>2. Ends(f) => Ceases(f)
  BY <1>0, EndsOK
<1>3. Undo(f) => Goes(f, {"undo"})
  <2>1. PICK r : r = [old[f] EXCEPT !.ph = "undo"]
    OBVIOUS
  <2>2. Alike(f, r) /\ r.ph = "undo"
    BY ONLY <1>0, <2>1 DEF Alike, OldSet, OldPhases
  <2>3. Undo(f) => Become(f, r)
    BY <2>1 DEF Undo
  <2> QED
    BY <1>0, <2>2, <2>3, WorkOK DEF OldPhases, Waits
<1>4. Become(f, [Ended(f) EXCEPT !.rec = IF old[f].resume THEN 0 ELSE @]) => Ceases(f)
  <2>0. FlowOK(Ended(f)) /\ Ended(f).ph \in {"off", "choose"} /\ Ended(f).rec \in {0, old[f].rec}
        /\ ~Ended(f).refused
    BY <1>0, EndedOK
  <2>1. PICK e : e = Ended(f)
    OBVIOUS
  <2>2. PICK r : r = [e EXCEPT !.rec = IF old[f].resume THEN 0 ELSE @]
    OBVIOUS
  <2>3. FlowOK(r) /\ r.ph = e.ph /\ r.rec \in {0, e.rec} /\ ~r.refused
    BY ONLY <2>0, <2>1, <2>2 DEF FlowOK, OldSet
  <2>4. Become(f, [Ended(f) EXCEPT !.rec = IF old[f].resume THEN 0 ELSE @]) => Become(f, r)
    BY <2>1, <2>2
  <2> QED
    BY <1>0, <2>0, <2>1, <2>3, <2>4, BecomeOK DEF Ceases, Rests
<1> QED
  BY <1>0, <1>1, <1>2, <1>3, <1>4 DEF Verify

\* The mounting of a flow, its approval, and its end without an archive.
LEMMA ResolveFlow ==
  ASSUME TypeInv, NEW f \in Flow, NEW c \in Claim, Resolve(f, c)
  PROVE  Ceases(f) /\ row' \in {row, Sweep}
<1>0. FlowType /\ c \in 0..Claims
  BY LinkAssumption DEF TypeInv, Claim
<1>1. PICK r : r = [OldIdle EXCEPT !.open = TRUE, !.ph = "choose", !.c = c]
  OBVIOUS
<1>2. FlowOK(r) /\ r.ph = "choose" /\ r.rec = 0 /\ ~r.refused
  BY ONLY <1>0, <1>1, IdleOK, c \in Claim DEF FlowOK, OldSet, OldPhases, Waits, OldIdle
<1>3. Become(f, r)
  BY <1>1 DEF Resolve
<1> QED
  BY <1>0, <1>2, <1>3, BecomeOK DEF Ceases, Rests, Resolve

LEMMA LookFlow ==
  ASSUME TypeInv, NEW f \in Flow, Look(f)
  PROVE  Goes(f, {old[f].ph})
<1>0. FlowType /\ FlowOK(old[f]) /\ old[f] \in OldSet
  BY DEF TypeInv, FlowType
<1>1. PICK a \in Archive : row[a] = "open" /\ Become(f, [old[f] EXCEPT !.rec = a])
  BY DEF Look, Newest
<1>2. PICK r : r = [old[f] EXCEPT !.rec = a]
  OBVIOUS
<1>3. FlowOK(r) /\ r = [old[f] EXCEPT !.rec = a] /\ r.rec = a /\ r.ph = old[f].ph
  BY ONLY <1>0, <1>2, a \in Archive DEF FlowOK, OldSet
<1>4. old' \in [Flow -> OldSet] /\ old'[f] = r /\ Only(f)
  BY <1>0, <1>1, <1>2, <1>3, BecomeOK
<1>5. /\ r.a = old[f].a /\ r.kept = old[f].kept /\ r.resume = old[f].resume
      /\ r.todo = old[f].todo /\ r.listed = old[f].listed /\ r.refused = old[f].refused
  BY ONLY <1>0, <1>2 DEF OldSet
<1> QED
  BY <1>1, <1>3, <1>4, <1>5 DEF Goes, Offers

LEMMA CloseFlow ==
  ASSUME TypeInv, NEW f \in Flow, Close(f)
  PROVE  Goes(f, {old[f].ph}) \/ (old[f].ph \in {"off", "choose"} /\ Ceases(f))
<1>0. FlowType /\ FlowOK(old[f]) /\ old[f] \in OldSet
  BY DEF TypeInv, FlowType
<1>1. CASE AtWork(f)
  <2>1. PICK r : r = [old[f] EXCEPT !.open = FALSE, !.rec = 0]
    OBVIOUS
  <2>2. /\ FlowOK(r) /\ r.rec = 0 /\ r.ph = old[f].ph
        /\ r.a = old[f].a /\ r.kept = old[f].kept /\ r.resume = old[f].resume
        /\ r.todo = old[f].todo /\ r.listed = old[f].listed /\ r.refused = old[f].refused
    BY ONLY <1>0, <2>1 DEF FlowOK, OldSet
  <2>3. Become(f, r)
    BY <1>1, <2>1 DEF Close
  <2> QED
    BY <1>0, <2>2, <2>3, BecomeOK DEF Goes, Offers
<1>2. CASE ~AtWork(f)
  <2>1. Become(f, OldIdle)
    BY <1>2 DEF Close
  <2> QED
    BY <1>0, <1>2, <2>1, IdleOK, BecomeOK DEF AtWork, Ceases, Rests
<1> QED
  BY <1>1, <1>2

LEMMA ApproveFlow ==
  ASSUME TypeInv, NEW f \in Flow, Approve(f)
  PROVE  old[f].ph = "choose" /\ Rests(f, {"list"}) /\ ~old'[f].refused
<1>0. FlowType /\ FlowOK(old[f]) /\ old[f] \in OldSet /\ old[f].ph = "choose"
  BY DEF TypeInv, FlowType, Approve, At
<1>1. PICK r : r = [OldIdle EXCEPT !.open = TRUE, !.ph = "list", !.c = old[f].c]
  OBVIOUS
<1>2. FlowOK(r) /\ r.ph = "list" /\ r.rec = 0 /\ ~r.refused
  BY ONLY <1>0, <1>1, IdleOK DEF FlowOK, OldSet, OldPhases, Waits, OldIdle
<1>3. Become(f, r)
  BY <1>1 DEF Approve
<1> QED
  BY <1>0, <1>2, <1>3, BecomeOK DEF Rests

\* The rows are listed, and reclaimed one by one.
LEMMA ListFlow ==
  ASSUME TypeInv, NEW f \in Flow, List(f)
  PROVE  /\ old[f].ph = "list"
         /\ \/ /\ Only(f) /\ FlowOK(old'[f]) /\ old' \in [Flow -> OldSet]
               /\ old'[f].ph = "reclaim" /\ old'[f].rec = old[f].rec
               /\ old'[f].refused = old[f].refused /\ old'[f].listed = old'[f].todo
               /\ \/ old'[f].todo = Stale /\ shared' = shared \cup {a \in Stale : InUse(f, a)}
                  \/ old'[f].todo = {} /\ shared' = shared
            \/ Ceases(f) /\ shared' = shared
<1>0. /\ FlowType /\ FlowOK(old[f]) /\ old[f] \in OldSet /\ old[f].ph = "list"
      /\ old[f].ph # "off"
  BY DEF TypeInv, FlowType, List, At
<1>1. ASSUME NEW x \in SUBSET Archive,
             Become(f, [old[f] EXCEPT !.ph = "reclaim", !.todo = x, !.listed = x])
      PROVE  /\ Only(f) /\ FlowOK(old'[f]) /\ old' \in [Flow -> OldSet]
             /\ old'[f].ph = "reclaim" /\ old'[f].rec = old[f].rec
             /\ old'[f].refused = old[f].refused /\ old'[f].listed = x /\ old'[f].todo = x
  <2>1. PICK r : r = [old[f] EXCEPT !.ph = "reclaim", !.todo = x, !.listed = x]
    OBVIOUS
  <2>2. /\ FlowOK(r) /\ r.ph = "reclaim" /\ r.rec = old[f].rec /\ r.refused = old[f].refused
        /\ r.listed = x /\ r.todo = x
    BY ONLY <1>0, <2>1, x \in SUBSET Archive DEF FlowOK, OldSet, OldPhases, Waits
  <2>3. Become(f, r)
    BY <1>1, <2>1
  <2> QED
    BY <1>0, <2>2, <2>3, BecomeOK
<1>2. ASSUME Become(f, [old[f] EXCEPT !.ph = "reclaim"])
      PROVE  /\ Only(f) /\ FlowOK(old'[f]) /\ old' \in [Flow -> OldSet]
             /\ old'[f].ph = "reclaim" /\ old'[f].rec = old[f].rec
             /\ old'[f].refused = old[f].refused /\ old'[f].listed = {} /\ old'[f].todo = {}
  <2>1. PICK r : r = [old[f] EXCEPT !.ph = "reclaim"]
    OBVIOUS
  <2>2. /\ FlowOK(r) /\ r.ph = "reclaim" /\ r.rec = old[f].rec /\ r.refused = old[f].refused
        /\ r.listed = {} /\ r.todo = {}
    BY ONLY <1>0, <2>1 DEF FlowOK, OldSet, OldPhases, Waits
  <2>3. Become(f, r)
    BY <1>2, <2>1
  <2> QED
    BY <1>0, <2>2, <2>3, BecomeOK
<1>3. Stale = Failures /\ Stale \in SUBSET Archive
  BY DEF Stale, Failures
<1>4. Ends(f) => Ceases(f)
  BY <1>0, EndsOK
<1>5. CASE Become(f, [old[f] EXCEPT !.ph = "reclaim", !.todo = Stale, !.listed = Failures])
           /\ shared' = shared \cup {a \in Stale : InUse(f, a)}
  <2>1. Become(f, [old[f] EXCEPT !.ph = "reclaim", !.todo = Stale, !.listed = Stale])
    BY <1>3, <1>5
  <2> QED
    BY <1>0, <1>1, <1>3, <1>5, <2>1
<1>6. CASE Become(f, [old[f] EXCEPT !.ph = "reclaim"]) /\ shared' = shared
  BY <1>0, <1>2, <1>6
<1> QED
  BY <1>0, <1>4, <1>5, <1>6 DEF List

LEMMA ReclaimFlow ==
  ASSUME TypeInv, NEW f \in Flow, NEW a \in Archive, Reclaim(f, a)
  PROVE  /\ old[f].ph = "reclaim" /\ a \in old[f].todo
         /\ Only(f) /\ FlowOK(old'[f]) /\ old' \in [Flow -> OldSet]
         /\ old'[f].ph = "reclaim" /\ old'[f].rec = old[f].rec
         /\ old'[f].refused = old[f].refused /\ old'[f].listed = old[f].listed
         /\ old'[f].todo = old[f].todo \ {a}
<1>0. FlowType /\ FlowOK(old[f]) /\ old[f] \in OldSet /\ old[f].ph = "reclaim" /\ a \in old[f].todo
  BY DEF TypeInv, FlowType, Reclaim, At
<1>1. PICK r : r = [old[f] EXCEPT !.todo = @ \ {a}]
  OBVIOUS
<1>2. /\ FlowOK(r) /\ r.ph = "reclaim" /\ r.rec = old[f].rec /\ r.refused = old[f].refused
      /\ r.listed = old[f].listed /\ r.todo = old[f].todo \ {a}
  BY ONLY <1>0, <1>1 DEF FlowOK, OldSet, OldPhases, Waits
<1>3. Become(f, r)
  BY <1>1 DEF Reclaim
<1> QED
  BY <1>0, <1>2, <1>3, BecomeOK

\* The slot is given, or refused.
LEMMA InitFlow ==
  ASSUME TypeInv, NEW f \in Flow, NEW a \in Archive, InitArchive(f, a)
  PROVE  /\ old[f].ph = "reclaim" /\ old[f].todo = {}
         /\ \/ /\ Only(f) /\ FlowOK(old'[f]) /\ old' \in [Flow -> OldSet]
               /\ old'[f].ph = "persist" /\ old'[f].rec = old[f].rec /\ old'[f].a = a
               /\ old'[f].refused = old[f].refused /\ UNCHANGED lost
            \/ Ceases(f) /\ Lose(a, "answer")
<1>0. /\ FlowType /\ FlowOK(old[f]) /\ old[f] \in OldSet /\ old[f].ph = "reclaim"
      /\ old[f].ph # "off" /\ old[f].todo = {}
  BY DEF TypeInv, FlowType, InitArchive, At
<1>1. PICK r : r = [old[f] EXCEPT !.ph = "persist", !.a = a, !.listed = {}]
  OBVIOUS
<1>2. FlowOK(r) /\ r.ph = "persist" /\ r.rec = old[f].rec /\ r.a = a /\ r.refused = old[f].refused
  BY ONLY <1>0, <1>1, a \in Archive DEF FlowOK, OldSet, OldPhases, Waits
<1>3. (Become(f, r) /\ UNCHANGED lost) \/ (Ends(f) /\ Lose(a, "answer"))
  BY <1>1 DEF InitArchive
<1>4. Ends(f) => Ceases(f)
  BY <1>0, EndsOK
<1> QED
  BY <1>0, <1>2, <1>3, <1>4, BecomeOK

LEMMA InitFailsFlow ==
  ASSUME TypeInv, NEW f \in Flow, InitFails(f)
  PROVE  /\ old[f].ph = "reclaim" /\ old[f].todo = {} /\ Rests(f, {"off", "choose"})
         /\ old'[f].refused => \E a \in Archive : Live(a)
<1>0. /\ FlowType /\ FlowOK(old[f]) /\ old[f] \in OldSet /\ old[f].ph = "reclaim"
      /\ old[f].ph # "off" /\ old[f].todo = {}
  BY DEF TypeInv, FlowType, InitFails, At
<1>1. Ends(f) => Ceases(f)
  BY <1>0, EndsOK
<1>2. ASSUME Become(f, [Ended(f) EXCEPT !.refused = TRUE]) PROVE Rests(f, {"off", "choose"})
  <2>0. FlowOK(Ended(f)) /\ Ended(f).ph \in {"off", "choose"} /\ Ended(f).rec \in {0, old[f].rec}
    BY <1>0, EndedOK
  <2>1. PICK e : e = Ended(f)
    OBVIOUS
  <2>2. PICK r : r = [e EXCEPT !.refused = TRUE]
    OBVIOUS
  <2>3. FlowOK(r) /\ r.ph = e.ph /\ r.rec = e.rec
    BY ONLY <2>0, <2>1, <2>2 DEF FlowOK, OldSet
  <2>4. Become(f, r)
    BY <1>2, <2>1, <2>2
  <2> QED
    BY <1>0, <2>0, <2>1, <2>3, <2>4, BecomeOK DEF Rests
<1> QED
  BY <1>0, <1>1, <1>2 DEF InitFails, Ceases

\* The resumption and its rejection.
LEMMA ResumeFlow ==
  ASSUME TypeInv, NEW f \in Flow, Resume(f)
  PROVE  /\ old[f].ph = "choose" /\ old[f].rec \in Archive
         /\ Only(f) /\ FlowOK(old'[f]) /\ old' \in [Flow -> OldSet]
         /\ old'[f].ph = "probe" /\ old'[f].a = old[f].rec /\ old'[f].rec = old[f].rec
         /\ old'[f].resume /\ ~old'[f].refused
<1>0. /\ FlowType /\ FlowOK(old[f]) /\ old[f] \in OldSet /\ old[f].ph = "choose"
      /\ old[f].rec \in Archive
  BY DEF TypeInv, FlowType, Resume, At, OldSet
<1>1. PICK r : r = [old[f] EXCEPT !.ph = "probe", !.a = old[f].rec, !.resume = TRUE, !.refused = FALSE]
  OBVIOUS
<1>2. FlowOK(r) /\ r.ph = "probe" /\ r.rec = old[f].rec /\ r.a = old[f].rec /\ r.resume /\ ~r.refused
  BY ONLY <1>0, <1>1 DEF FlowOK, OldSet, OldPhases, Waits
<1>3. Become(f, r)
  BY <1>1 DEF Resume
<1> QED
  BY <1>0, <1>2, <1>3, BecomeOK

LEMMA DiscardFlow ==
  ASSUME TypeInv, NEW f \in Flow, Discard(f)
  PROVE  old[f].rec \in Archive /\ old[f].ph = "choose" /\ Goes(f, {"choose"})
<1>0. /\ FlowType /\ FlowOK(old[f]) /\ old[f] \in OldSet /\ old[f].ph = "choose"
      /\ old[f].rec \in Archive
  BY DEF TypeInv, FlowType, Discard, At, OldSet
<1>1. PICK r : r = [old[f] EXCEPT !.rec = 0]
  OBVIOUS
<1>2. /\ FlowOK(r) /\ r.ph = "choose" /\ r.rec = 0
      /\ r.a = old[f].a /\ r.kept = old[f].kept /\ r.resume = old[f].resume
      /\ r.todo = old[f].todo /\ r.listed = old[f].listed /\ r.refused = old[f].refused
  BY ONLY <1>0, <1>1 DEF FlowOK, OldSet, OldPhases, Waits
<1>3. Become(f, r)
  BY <1>1 DEF Discard
<1> QED
  BY <1>0, <1>2, <1>3, BecomeOK DEF Goes, Offers

-----------------------------------------------------------------------------
(* Types.                                                                    *)

\* Every step keeps the approval flows well-formed,
LEMMA FlowNext ==
  ASSUME TypeInv, Next
  PROVE  FlowType'
<1>0. FlowType
  BY DEF TypeInv
<1>1. ASSUME NEW f \in Flow, Only(f), FlowOK(old'[f]), old' \in [Flow -> OldSet]
      PROVE  FlowType'
  BY <1>0, <1>1 DEF FlowType, Only
<1>2. ASSUME UNCHANGED old PROVE FlowType'
  BY <1>0, <1>2 DEF FlowType
<1>3. ASSUME NEW f \in Flow, NEW P, Rests(f, P) \/ Goes(f, P) PROVE FlowType'
  BY <1>1, <1>3 DEF Rests, Goes
<1>4. ASSUME NEW f \in Flow, Broken(f) \/ Ceases(f) PROVE FlowType'
  BY <1>3, <1>4 DEF Broken, Ceases
<1>5. ASSUME NEW f \in Flow, OldStep(f) PROVE FlowType'
  <2>1. CASE List(f) \/ InitFails(f) \/ Persist(f)
    BY <1>1, <1>3, <1>4, <2>1, ListFlow, InitFailsFlow, PersistFlow
  <2>2. CASE NextWindow(f) \/ Retransmit(f) \/ \E i \in Chunk : Put(f, i)
    BY <1>3, <1>4, <2>2, UploadFlow
  <2>3. CASE Finalize(f)
    BY <1>3, <1>4, <2>3, FinalizeFlow DEF Completed, Incomplete, Unanswered
  <2>4. CASE Mark(f) \/ Drop(f) \/ Verify(f)
    BY <1>3, <1>4, <2>4, MarkFlow, DropFlow, VerifyFlow
  <2>5. ASSUME NEW a \in Archive, Reclaim(f, a) PROVE FlowType'
    BY <1>1, <2>5, ReclaimFlow
  <2>6. ASSUME NEW a \in Archive, InitArchive(f, a) PROVE FlowType'
    BY <1>1, <1>4, <2>6, InitFlow
  <2> QED
    BY <1>5, <2>1, <2>2, <2>3, <2>4, <2>5, <2>6 DEF OldStep
<1>6. ASSUME NEW f \in Flow, Look(f) \/ Close(f) \/ Approve(f) \/ Resume(f) \/ Discard(f)
      PROVE FlowType'
  BY <1>1, <1>3, <1>4, <1>6, LookFlow, CloseFlow, ApproveFlow, ResumeFlow, DiscardFlow
<1>7. ASSUME NEW f \in Flow, NEW c \in Claim, Resolve(f, c) PROVE FlowType'
  BY <1>4, <1>7, ResolveFlow
<1>8. CASE Reload
  BY <1>8, IdleOK DEF Reload, FlowType, FlowOK
<1>9. CASE UNCHANGED old
  BY <1>2, <1>9
<1> QED
  BY <1>5, <1>6, <1>7, <1>8, <1>9 DEF Next, NewStep, Fetch, CommitImport, CleanUp, Complete,
     Request, Expire, Consume, NewReload, PutLate, HardDeadline, Forget

\* the server's records and the rows,
LEMMA ServerNext ==
  ASSUME TypeInv, Next
  PROVE  ServerType'
<1> USE DEF TypeInv, ServerType, Causes, server, relay, told, Fault, Fine, Lose
<1>1. ASSUME NEW f \in Flow, Persist(f) PROVE ServerType'
  BY <1>1 DEF Persist
<1>2. ASSUME NEW f \in Flow, NEW i \in Chunk, Put(f, i) PROVE ServerType'
  <2>1. old[f].a \in Archive /\ old[f].job \in SUBSET Chunk
    <3>1. FlowOK(old[f])
      BY DEF FlowType
    <3> QED
      BY <1>2, <3>1 DEF Put, FlowOK, OldSet, Waits
  <2>2. late' \subseteq (Archive \X Chunk)
    BY <1>2, <2>1 DEF Put
  <2> QED
    BY <1>2, <2>1, <2>2 DEF Put, Confirmed
<1>3. ASSUME NEW f \in Flow, NextWindow(f) \/ Retransmit(f) \/ List(f) \/ InitFails(f)
                             \/ Look(f) \/ Close(f) \/ Approve(f) \/ Resume(f)
      PROVE ServerType'
  <2>1. Stale \in SUBSET Archive
    BY DEF Stale, Failures
  <2>2. old[f].rec \in {0} \cup Archive
    BY DEF FlowType, OldSet
  <2>3. shared' \subseteq Archive
    <3>1. CASE Resume(f)
      BY <2>2, <3>1 DEF Resume
    <3>2. CASE List(f)
      BY <2>1, <3>2 DEF List
    <3> QED
      BY <1>3, <3>1, <3>2 DEF NextWindow, Retransmit, InitFails, Look, Close, Approve
  <2> QED
    BY <1>3, <2>3 DEF NextWindow, Retransmit, List, InitFails, Look, Close, Approve, Resume
<1>4. ASSUME NEW f \in Flow, Finalize(f) PROVE ServerType'
  BY <1>4, FinalizeFlow DEF Finalize, Completed, Incomplete, Unanswered, Available, NoRow, Dead
<1>5. ASSUME NEW f \in Flow, Mark(f) PROVE ServerType'
  BY <1>5 DEF Mark, Dead
<1>6. ASSUME NEW f \in Flow, Drop(f) PROVE ServerType'
  BY <1>6, DropFlow DEF Drop, Gone
<1>7. ASSUME NEW f \in Flow, Verify(f) PROVE ServerType'
  <2>1. old[f].a \in Archive /\ old[f].c \in Claim
    BY <1>7, VerifyFlow
  <2>2. env' \in [Claim -> {0} \cup Archive]
    BY <1>7, <2>1 DEF Verify, Deposit
  <2>3. link' \in [Claim -> {"none", "open", "claimed", "sealed", "taken", "expired"}]
    BY <1>7, <2>1 DEF Verify, Deposit
  <2>4. lost' \in [Archive -> SUBSET Causes]
    BY <1>7, <2>1 DEF Verify
  <2> QED
    BY <1>7, <2>2, <2>3, <2>4 DEF Verify
<1>8. ASSUME NEW f \in Flow, NEW a \in Archive, Reclaim(f, a) PROVE ServerType'
  BY <1>8 DEF Reclaim, Gone
<1>9. ASSUME NEW f \in Flow, NEW a \in Archive, InitArchive(f, a) PROVE ServerType'
  <2>1. old[f].c \in 0..Claims
    BY DEF FlowType, OldSet
  <2> QED
    BY <1>9, <2>1 DEF InitArchive, Allocate
<1>11. CASE Fetch \/ CommitImport \/ Complete
  BY <1>11 DEF Fetch, CommitImport, Complete
<1>13. CASE CleanUp
  BY <1>13 DEF CleanUp, Gone
<1>15. ASSUME NEW f \in Flow, NEW c \in Claim, Resolve(f, c) PROVE ServerType'
  BY <1>15 DEF Resolve, Sweep
<1>16. ASSUME NEW c \in Claim, Request(c) PROVE ServerType'
  BY <1>16 DEF Request
<1>17. ASSUME NEW c \in Claim, Expire(c) PROVE ServerType'
  BY <1>17 DEF Expire
<1>21. ASSUME NEW f \in Flow, Discard(f) PROVE ServerType'
  BY <1>21 DEF Discard
<1>22. CASE Reload
  <2>1. \A a \in Archive : lost[a] \subseteq Causes /\ "reload" \in Causes
    OBVIOUS
  <2>2. \A a \in Archive : lost'[a] \subseteq Causes
    BY <1>22, <2>1 DEF Reload
  <2>3. DOMAIN lost' = Archive /\ lost' = [a \in Archive |-> lost'[a]]
    BY <1>22 DEF Reload
  <2>4. lost' \in [Archive -> SUBSET Causes]
    BY ONLY <2>2, <2>3
  <2>5. UNCHANGED <<cap, arch, held, keyOf, row, link, env, shared>> /\ late' = {}
    BY <1>22 DEF Reload
  <2> QED
    BY ONLY ServerType, <2>4, <2>5 DEF ServerType, Causes
<1>23. CASE Consume
  <2>1. new.c \in Claim /\ env[new.c] \in Archive
    BY <1>23 DEF Consume, NewType
  <2>2. lost' \in [Archive -> SUBSET Causes]
    BY <1>23, <2>1 DEF Consume
  <2>3. link' \in [Claim -> {"none", "open", "claimed", "sealed", "taken", "expired"}]
    BY <1>23, <2>1 DEF Consume
  <2> QED
    BY <1>23, <2>2, <2>3 DEF Consume
<1>24. CASE NewReload
  BY <1>24 DEF NewReload
<1>25. CASE PutLate
  BY <1>25 DEF PutLate, Confirmed
<1>26. ASSUME NEW a \in Archive, HardDeadline(a) PROVE ServerType'
  BY <1>26 DEF HardDeadline
<1>27. ASSUME NEW a \in Archive, NEW i \in Chunk, Forget(a, i) PROVE ServerType'
  BY <1>27 DEF Forget
<1> QED
  BY <1>1, <1>2, <1>3, <1>4, <1>5, <1>6, <1>7, <1>8, <1>9, <1>11, <1>13, <1>15, <1>16, <1>17, <1>21, <1>22, <1>23, <1>24, <1>25, <1>26, <1>27 DEF Next, OldStep, NewStep

\* the new device and its transcript.
LEMMA NewNext ==
  ASSUME TypeInv, Next
  PROVE  NewType'
<1> USE DEF TypeInv, NewType, server, relay, Fault, Fine
<1>1. ASSUME NEW f \in Flow, OldStep(f), ~Verify(f) PROVE NewType'
  BY <1>1 DEF OldStep, Persist, Put, NextWindow, Finalize, Retransmit, Mark, Drop, List, InitFails,
     Reclaim, InitArchive
<1>2. ASSUME NEW f \in Flow, Verify(f) PROVE NewType'
  <2>1. new' = new /\ vault' = vault /\ old[f].a \in Archive
    BY <1>2, VerifyFlow DEF Verify
  <2>2. CASE Deposit(f)
    <3>1. \A c \in Claim : link[c] = "taken" => c # old[f].c
      BY <2>2 DEF Deposit, ServerType
    <3> QED
      BY <2>1, <2>2, <3>1 DEF Deposit, ServerType
  <2>3. CASE UNCHANGED relay
    BY <2>1, <2>3
  <2> QED
    BY <1>2, <2>2, <2>3 DEF Verify
<1>3. ASSUME NEW f \in Flow, Look(f) \/ Close(f) \/ Approve(f) \/ Resume(f) \/ Discard(f)
      PROVE NewType'
  BY <1>3 DEF Look, Close, Approve, Resume, Discard
<1>4. ASSUME NEW f \in Flow, NEW c \in Claim, Resolve(f, c) PROVE NewType'
  BY <1>4 DEF Resolve, ServerType
<1>11. CASE Fetch
  <2> DEFINE granted == Window(new.next, new.next + Batch)
  <2>1. granted \in SUBSET Chunk /\ new.c \in Claim /\ new.next + Batch \in Nat
    BY <1>11, WindowInChunk, LinkAssumption DEF Fetch, NewSet
  <2>2. \/ new' = [new EXCEPT !.next = @ + Batch, !.got = @ \cup granted]
        \/ new' = [new EXCEPT !.ph = "clean"]
    BY <1>11 DEF Fetch
  <2>3. \/ vault' = vault
        \/ \E S \in SUBSET Chunk : vault' = [vault EXCEPT !.frames[new.c] = @ \cup S]
    BY <1>11, <2>1 DEF Fetch, AppendFrames
  <2>4. new' \in NewSet /\ new'.c = new.c /\ new'.a = new.a
    BY <2>1, <2>2 DEF NewSet, NewPhases
  <2>5. vault' \in VaultSet
    BY <2>1, <2>3 DEF VaultSet
  <2> QED
    BY <1>11, <2>1, <2>4, <2>5 DEF Fetch
<1>12. CASE CommitImport
  <2>1. new' = [new EXCEPT !.ph = "imported"] \/ new' = [new EXCEPT !.ph = "clean"]
    BY <1>12 DEF CommitImport
  <2>2. new.ph = "fetch" /\ new.c \in Claim /\ new.c \in 0..Claims
    BY <1>12, LinkAssumption DEF CommitImport, Claim
  <2>3. vault' = vault \/ Abort \/ Publish
    BY <1>12 DEF CommitImport
  <2>4. vault' \in VaultSet
    BY <2>2, <2>3 DEF Abort, Publish, VaultSet
  <2>5. new' \in NewSet /\ new'.c = new.c /\ new'.a = new.a /\ new'.ph \in {"imported", "clean"}
    BY <2>1 DEF NewSet, NewPhases
  <2> QED
    BY <1>12, <2>2, <2>4, <2>5 DEF CommitImport
<1>13. CASE CleanUp
  BY <1>13 DEF CleanUp, NewSet, NewPhases
<1>14. CASE Complete
  BY <1>14 DEF Complete, NewSet, NewPhases
<1>16. ASSUME NEW c \in Claim, Request(c) PROVE NewType'
  <2>1. new' = [ph |-> "poll", c |-> c, a |-> 0, next |-> 0, got |-> {}]
    BY <1>16 DEF Request, NewIdle
  <2>2. new' \in NewSet
    BY <2>1, LinkAssumption DEF NewSet, NewPhases, Claim
  <2> QED
    BY <1>16, <2>1, <2>2 DEF Request, ServerType
<1>17. ASSUME NEW c \in Claim, Expire(c) PROVE NewType'
  BY <1>17 DEF Expire, ServerType, NewSet, NewPhases
<1>22. CASE Reload \/ PutLate
  BY <1>22 DEF Reload, PutLate
<1>23. CASE Consume
  <2>1. env[new.c] \in Archive /\ new.c \in Claim
    BY <1>23 DEF Consume
  <2>2. \/ new' = [new EXCEPT !.ph = "fetch", !.a = env[new.c]]
        \/ new' = [new EXCEPT !.ph = "failed"]
    BY <1>23 DEF Consume
  <2>3. /\ new' \in NewSet /\ new'.c = new.c
        /\ \/ new'.ph = "fetch" /\ new'.a = env[new.c]
           \/ new'.ph = "failed"
    BY <2>1, <2>2 DEF NewSet, NewPhases
  <2>4. link' = [link EXCEPT ![new.c] = "taken"] /\ env' = env
    BY <1>23 DEF Consume
  <2> QED
    BY <1>23, <2>1, <2>3, <2>4 DEF Consume, ServerType
<1>24. CASE NewReload
  BY <1>24, LinkAssumption DEF NewReload, NewIdle, NewSet, NewPhases
<1>26. ASSUME NEW a \in Archive, HardDeadline(a) \/ \E i \in Chunk : Forget(a, i) PROVE NewType'
  BY <1>26 DEF HardDeadline, Forget
<1> QED
  BY <1>1, <1>2, <1>3, <1>4, <1>11, <1>12, <1>13, <1>14, <1>16, <1>17, <1>22, <1>23, <1>24, <1>26 DEF Next, NewStep

\* The initial states have their types.
LEMMA TypeInit == Init => TypeInv
<1> SUFFICES ASSUME Init PROVE TypeInv
  OBVIOUS
<1>1. cap \in Nat /\ Claims \in Nat
  BY LinkAssumption DEF Init
<1>2. ServerType
  BY <1>1 DEF Init, ServerType, Claim, Archive
<1>3. FlowType
  BY IdleOK DEF Init, FlowType, FlowOK
<1>4. NewType
  BY <1>1 DEF Init, NewType, NewSet, NewIdle, NewPhases, VaultSet
<1> QED
  BY <1>2, <1>3, <1>4 DEF TypeInv

\* The type invariant is inductive.
LEMMA TypeNext == TypeInv /\ [Next]_vars => TypeInv'
<1> SUFFICES ASSUME TypeInv, [Next]_vars PROVE TypeInv'
  OBVIOUS
<1>1. CASE Next
  BY <1>1, FlowNext, ServerNext, NewNext DEF TypeInv
<1>2. CASE UNCHANGED vars
  BY <1>2 DEF vars, TypeInv, ServerType, FlowType, FlowOK, NewType
<1> QED
  BY <1>1, <1>2

\* Type correctness.
THEOREM TypesHold == Spec => []TypeInv
<1>1. Init => TypeInv
  BY TypeInit
<1>2. TypeInv /\ [Next]_vars => TypeInv'
  BY TypeNext
<1> QED
  BY <1>1, <1>2, PTL DEF Spec

-----------------------------------------------------------------------------
(* The transcript of the new device.                                         *)

\* The frames of an import in progress are not the published ones, and those of
\* every chunk counted are on disk before the import may be published.
ImportInv ==
  /\ vault.meta # 0 => vault.frames[vault.meta] = Chunk /\ link[vault.meta] # "none"
  /\ new.ph # "off" => link[new.c] # "none"
  /\ new.ph = "poll" => new.got = {}
  /\ new.ph = "fetch" => new.got \subseteq vault.frames[new.c]
  /\ new.ph \in {"poll", "fetch"} => vault.meta # new.c
  /\ new.ph \in {"imported", "complete", "linked"} => vault.meta = new.c

\* The import's invariant is inductive: what was fetched is what was written, and
\* only a whole transcript is published.
LEMMA ImportNext == TypeInv /\ ImportInv /\ [Next]_vars => ImportInv'
<1> SUFFICES ASSUME TypeInv, ImportInv, [Next]_vars PROVE ImportInv'
  OBVIOUS
<1> USE DEF TypeInv, ServerType, NewType
<1>0. ASSUME new' = new, vault' = vault, \A c \in Claim : link[c] # "none" => link'[c] # "none"
      PROVE  ImportInv'
  BY <1>0 DEF ImportInv, VaultSet, Claim
<1>1. ASSUME NEW f \in Flow, ~Verify(f),
             OldStep(f) \/ Look(f) \/ Close(f) \/ Approve(f) \/ Resume(f) \/ Discard(f)
      PROVE  ImportInv'
  BY <1>0, <1>1 DEF OldStep, List, Persist, Put, NextWindow, Finalize, Retransmit, Mark, Drop,
     Reclaim, InitArchive, InitFails, Look, Close, Approve, Resume, Discard, relay
<1>2. ASSUME NEW f \in Flow, NEW c \in Claim, Resolve(f, c) PROVE ImportInv'
  BY <1>0, <1>2 DEF Resolve
<1>3. ASSUME NEW a \in Archive, HardDeadline(a) \/ (\E i \in Chunk : Forget(a, i)) PROVE ImportInv'
  BY <1>0, <1>3 DEF HardDeadline, Forget, relay
<1>4. ASSUME NEW c \in Claim, Request(c) PROVE ImportInv'
  <2>1. new'.ph = "poll" /\ new'.c = c /\ new'.got = {}
    BY <1>4 DEF Request, NewIdle
  <2> QED
    BY <1>4, <2>1 DEF Request, ImportInv, VaultSet, Claim
<1>5. ASSUME NEW c \in Claim, Expire(c) PROVE ImportInv'
  <2>1. new'.c = new.c /\ new'.got = new.got /\ new'.ph \in {new.ph, "failed"}
    BY <1>5 DEF Expire, NewSet
  <2> QED
    BY <1>5, <2>1 DEF Expire, ImportInv, VaultSet, Claim
<1>6. CASE Consume
  <2>1. \/ new' = [new EXCEPT !.ph = "fetch", !.a = env[new.c]]
        \/ new' = [new EXCEPT !.ph = "failed"]
    BY <1>6 DEF Consume
  <2>2. new.got = {}
    BY <1>6 DEF Consume, ImportInv
  <2>3. new'.c = new.c /\ new'.got = {} /\ new'.ph \in {"fetch", "failed"}
    BY <2>1, <2>2 DEF NewSet
  <2>4. new.c \in Claim /\ vault.meta # new.c /\ vault' = vault
    BY <1>6 DEF Consume, ImportInv
  <2>5. link' = [link EXCEPT ![new.c] = "taken"]
    BY <1>6 DEF Consume
  <2> QED
    BY <2>3, <2>4, <2>5 DEF ImportInv, VaultSet, Claim
<1>7. CASE Fetch
  <2> DEFINE granted == Window(new.next, new.next + Batch)
  <2>1. new.c \in Claim /\ vault.meta # new.c /\ vault.frames \in [Claim -> SUBSET Chunk]
    BY <1>7 DEF Fetch, ImportInv, VaultSet
  <2>2. \/ new' = [new EXCEPT !.next = @ + Batch, !.got = @ \cup granted] /\ AppendFrames(granted)
        \/ /\ new' = [new EXCEPT !.ph = "clean"]
           /\ vault' = vault \/ \E S \in SUBSET granted : AppendFrames(S)
    BY <1>7 DEF Fetch
  <2>3. \A d \in Claim : d # new.c => vault'.frames[d] = vault.frames[d]
    BY <2>1, <2>2 DEF AppendFrames, VaultSet
  <2>4. vault'.meta = vault.meta /\ new'.c = new.c
    BY <2>1, <2>2 DEF AppendFrames, VaultSet, NewSet
  <2>5. \/ new'.ph = "fetch" /\ new'.got \subseteq vault'.frames[new.c]
        \/ new'.ph = "clean"
    <3>1. CASE /\ new' = [new EXCEPT !.next = @ + Batch, !.got = @ \cup granted]
               /\ AppendFrames(granted)
      <4>1. new.ph = "fetch" /\ new.got \subseteq vault.frames[new.c]
        BY <1>7 DEF Fetch, ImportInv
      <4>2. new'.ph = "fetch" /\ new'.got = new.got \cup granted
        BY <3>1, <4>1 DEF NewSet
      <4>3. vault'.frames[new.c] = vault.frames[new.c] \cup granted
        BY <2>1, <3>1 DEF AppendFrames, VaultSet
      <4> QED
        BY <4>1, <4>2, <4>3
    <3>2. CASE new' = [new EXCEPT !.ph = "clean"]
      BY <3>2 DEF NewSet
    <3> QED
      BY <2>2, <3>1, <3>2
  <2> QED
    BY <1>7, <2>1, <2>3, <2>4, <2>5 DEF Fetch, relay, ImportInv, VaultSet, Claim
<1>8. CASE CommitImport
  <2>1. new.c \in Claim /\ vault.meta # new.c /\ link[new.c] # "none"
    BY <1>8 DEF CommitImport, ImportInv
  <2>2. CASE Whole(new.got) /\ Publish /\ new' = [new EXCEPT !.ph = "imported"]
    <3>1. vault.frames[new.c] = Chunk
      BY <1>8, <2>1, <2>2 DEF Whole, CommitImport, ImportInv, VaultSet
    <3>2. vault'.meta = new.c /\ vault'.frames[new.c] = Chunk
      BY <2>1, <2>2, <3>1 DEF Publish
    <3>3. new'.c = new.c /\ new'.ph = "imported"
      BY <2>2 DEF NewSet
    <3> QED
      BY <1>8, <2>1, <3>2, <3>3 DEF CommitImport, relay, ImportInv, Claim
  <2>3. CASE new' = [new EXCEPT !.ph = "clean"] /\ (vault' = vault \/ Abort)
    <3>1. vault'.meta = vault.meta /\ \A d \in Claim : d # new.c => vault'.frames[d] = vault.frames[d]
      BY <2>3, <2>1 DEF Abort, VaultSet
    <3>2. new'.c = new.c /\ new'.ph = "clean"
      BY <2>3 DEF NewSet
    <3> QED
      BY <1>8, <2>1, <3>1, <3>2 DEF CommitImport, relay, ImportInv, VaultSet, Claim
  <2> QED
    BY <1>8, <2>2, <2>3 DEF CommitImport
<1>9. CASE CleanUp \/ Complete
  <2>1. new'.c = new.c
    BY <1>9 DEF CleanUp, Complete, NewSet
  <2>2. (new'.ph \in {"complete", "linked"} /\ new.ph \in {"imported", "complete"}) \/ new'.ph = "failed"
    BY <1>9 DEF CleanUp, Complete, NewSet
  <2>3. new.ph # "off" /\ vault' = vault /\ link' = link
    BY <1>9 DEF CleanUp, Complete, relay
  <2> QED
    BY <2>1, <2>2, <2>3 DEF ImportInv
<1>10. CASE NewReload
  <2>1. new'.ph = "off"
    BY <1>10 DEF NewReload, NewIdle
  <2> QED
    BY <1>10, <2>1 DEF NewReload, relay, ImportInv
<1>11. CASE UNCHANGED vars
  BY <1>0, <1>11 DEF vars
<1>12. ASSUME NEW f \in Flow, Verify(f) PROVE ImportInv'
  <2>1. \A c \in Claim : link[c] # "none" => link'[c] # "none"
    BY <1>12 DEF Verify, Deposit, relay
  <2> QED
    BY <1>0, <1>12, <2>1 DEF Verify
<1>13. CASE Reload \/ PutLate
  BY <1>0, <1>13 DEF Reload, PutLate, relay
<1> QED
  BY <1>1, <1>2, <1>3, <1>4, <1>5, <1>6, <1>7, <1>8, <1>9, <1>10, <1>11, <1>12, <1>13 DEF Next, NewStep

\* The transcript that readers see is a complete one, and a linked device has the
\* one of its own link, for any archive, window and faults (commitImport,
\* finalizeAccumulator).
THEOREM ImportHolds == Spec => []ImportIsWhole
<1>1. Init => ImportInv
  BY DEF Init, ImportInv, NewIdle
<1>2. TypeInv /\ ImportInv => ImportIsWhole
  BY DEF ImportInv, ImportIsWhole
<1> QED
  BY <1>1, <1>2, TypeInit, TypeNext, ImportNext, PTL DEF Spec

-----------------------------------------------------------------------------
(* Archives that are still to be allocated.                                  *)

\* Nothing names an archive before the server has allocated it.
Unnamed(a) ==
  /\ row[a] = "none" /\ \A c \in Claim : env[c] # a
  /\ \A f \in Flow : old[f].a # a /\ old[f].rec # a /\ a \notin old[f].todo \cup old[f].listed
NoneInv == \A a \in Archive : arch[a] = "none" => Unnamed(a)

\* A step that allocates nothing and gives no new name keeps them unnamed.
Unspoken(f) ==
  /\ Only(f)
  /\ old'[f].a \in {0, old[f].a, old[f].rec} /\ Offers(f)
  /\ old'[f].todo \subseteq old[f].todo \cup Stale
  /\ old'[f].listed \subseteq old[f].listed \cup Stale
RowsStay == \A a \in Archive : row[a] = "none" => row'[a] = "none"
NoneStays == \A a \in Archive : arch'[a] = "none" => arch[a] = "none"

LEMMA UnspokenNone ==
  ASSUME TypeInv, NoneInv, NEW f \in Flow, Unspoken(f), RowsStay, NoneStays, UNCHANGED env
  PROVE  NoneInv'
<1> SUFFICES ASSUME NEW a \in Archive, arch'[a] = "none"
             PROVE  Unnamed(a)'
  BY DEF NoneInv
<1>1. arch[a] = "none" /\ Unnamed(a)
  BY DEF NoneInv, NoneStays
<1>2. a \notin Stale /\ a # 0
  BY <1>1, LinkAssumption DEF Stale, Failures, Unnamed, Archive
<1>3. ASSUME NEW g \in Flow
      PROVE  old'[g].a # a /\ old'[g].rec # a /\ a \notin old'[g].todo \cup old'[g].listed
  <2>1. old[g].a # a /\ old[g].rec # a /\ a \notin old[g].todo \cup old[g].listed
    BY <1>1 DEF Unnamed
  <2>2. CASE g # f
    BY <2>1, <2>2 DEF Unspoken, Only
  <2>3. CASE g = f
    BY <1>1, <1>2, <2>1, <2>3 DEF Unspoken, Offers, Unnamed
  <2> QED
    BY <2>2, <2>3
<1>4. row'[a] = "none"
  BY <1>1 DEF RowsStay, Unnamed
<1> QED
  BY <1>1, <1>3, <1>4 DEF Unnamed

\* A flow without an archive, or with the one it had, gives no new name.
LEMMA RestsUnspoken ==
  ASSUME TypeInv, NEW f \in Flow, NEW P \in SUBSET {"off", "choose", "list"},
         Rests(f, P) \/ Goes(f, OldPhases)
  PROVE  Unspoken(f)
<1>1. ASSUME Rests(f, P) PROVE Unspoken(f)
  <2>1. old'[f].ph \in Waits /\ old'[f].ph # "reclaim"
    BY <1>1 DEF Rests, Waits
  <2>2. old'[f].a = 0 /\ old'[f].todo = {} /\ old'[f].listed = {}
    BY <1>1, <2>1 DEF Rests, FlowOK
  <2> QED
    BY <1>1, <2>2 DEF Rests, Unspoken, Offers
<1>2. ASSUME Goes(f, OldPhases) PROVE Unspoken(f)
  BY <1>2 DEF Goes, Unspoken
<1> QED
  BY <1>1, <1>2
LEMMA BrokenUnspoken ==
  ASSUME TypeInv, NEW f \in Flow, Ceases(f) \/ Broken(f)
  PROVE  Unspoken(f)
<1>1. Ceases(f) => Unspoken(f)
  BY RestsUnspoken DEF Ceases
<1>2. Goes(f, {"mark"}) \/ Goes(f, {"drop"}) => Unspoken(f)
  BY DEF Goes, Unspoken
<1> QED
  BY <1>1, <1>2 DEF Broken

LEMMA NoneNext == TypeInv /\ NoneInv /\ [Next]_vars => NoneInv'
<1> SUFFICES ASSUME TypeInv, NoneInv, [Next]_vars PROVE NoneInv'
  OBVIOUS
<1> USE DEF server, relay, told
<1>0. ASSUME NEW f \in Flow, Unspoken(f), UNCHANGED <<arch, row, env>> PROVE NoneInv'
  BY <1>0, UnspokenNone DEF RowsStay, NoneStays
<1>1. ASSUME NEW f \in Flow, NEW P, Goes(f, P) PROVE Unspoken(f)
  BY <1>1 DEF Goes, Unspoken
<1>2. ASSUME UNCHANGED <<old, env>>, RowsStay, NoneStays PROVE NoneInv'
  BY <1>2 DEF NoneInv, Unnamed, RowsStay, NoneStays
<1>3. ASSUME NEW f \in Flow, NextWindow(f) \/ Retransmit(f) \/ \E i \in Chunk : Put(f, i)
      PROVE  NoneInv'
  <2>1. Unspoken(f)
    BY <1>1, <1>3, UploadFlow, BrokenUnspoken
  <2> QED
    BY <1>0, <1>3, <2>1 DEF NextWindow, Retransmit, Put
<1>4. ASSUME NEW f \in Flow, List(f) PROVE NoneInv'
  <2>1. Unspoken(f)
    <3>1. CASE Ceases(f)
      BY <3>1, BrokenUnspoken
    <3>2. CASE ~Ceases(f)
      <4>1. /\ Only(f) /\ FlowOK(old'[f]) /\ old'[f].ph = "reclaim" /\ old'[f].rec = old[f].rec
            /\ old'[f].listed = old'[f].todo /\ old'[f].todo \in {Stale, {}}
        BY <1>4, <3>2, ListFlow
      <4> QED
        BY <4>1 DEF Unspoken, Offers, FlowOK, Waits
    <3> QED
      BY <3>1, <3>2
  <2> QED
    BY <1>0, <1>4, <2>1 DEF List
<1>5. ASSUME NEW f \in Flow, InitFails(f) PROVE NoneInv'
  BY <1>0, <1>5, InitFailsFlow, RestsUnspoken DEF InitFails
<1>6. ASSUME NEW f \in Flow, Persist(f) PROVE NoneInv'
  <2>0. FlowOK(old[f]) /\ old[f].ph = "persist"
    BY <1>6 DEF TypeInv, FlowType, Persist, At
  <2>1. old[f].a \in Archive
    BY <2>0 DEF FlowOK, Waits
  <2>2. arch[old[f].a] # "none"
    BY <2>1 DEF NoneInv, Unnamed
  <2>3. \A b \in Archive : arch[b] = "none" => row'[b] = row[b]
    <3>1. row' = row \/ row' = [row EXCEPT ![old[f].a] = "open"]
      BY <1>6, PersistFlow
    <3> QED
      BY <2>1, <2>2, <3>1 DEF TypeInv, ServerType
  <2>4. /\ Only(f) /\ old'[f].a = old[f].a /\ old'[f].rec = old[f].rec
        /\ old'[f].todo = {} /\ old'[f].listed = {}
    BY <1>6, PersistFlow DEF FlowOK
  <2>5. UNCHANGED <<arch, env>>
    BY <1>6 DEF Persist
  <2>6. ASSUME NEW b \in Archive, arch[b] = "none" PROVE Unnamed(b)'
    <3>1. Unnamed(b)
      BY <2>6 DEF NoneInv
    <3> QED
      BY <2>1, <2>2, <2>3, <2>4, <2>5, <2>6, <3>1 DEF Unnamed, Only
  <2> QED
    BY <2>5, <2>6 DEF NoneInv
<1>7. ASSUME NEW f \in Flow, Finalize(f) PROVE NoneInv'
  <2>1. Unspoken(f)
    BY <1>1, <1>7, FinalizeFlow, BrokenUnspoken DEF Completed, Incomplete, Unanswered
  <2>2. RowsStay
    BY <1>7, FinalizeFlow DEF Completed, Incomplete, Unanswered, RowsStay, NoRow, Dead, TypeInv, ServerType
  <2>3. NoneStays
    BY <1>7, FinalizeFlow DEF Completed, Incomplete, Unanswered, NoneStays, Available, TypeInv, ServerType
  <2> QED
    BY <1>7, <2>1, <2>2, <2>3, UnspokenNone DEF Finalize
<1>8. ASSUME NEW f \in Flow, Mark(f) PROVE NoneInv'
  <2>1. RowsStay
    BY <1>8, MarkFlow DEF RowsStay, Dead, TypeInv, ServerType
  <2>2. Unspoken(f)
    BY <1>1, <1>8, MarkFlow
  <2>3. NoneStays /\ UNCHANGED env
    BY <1>8 DEF Mark, NoneStays
  <2> QED
    BY <2>1, <2>2, <2>3, UnspokenNone
<1>9. ASSUME NEW f \in Flow, Drop(f) PROVE NoneInv'
  <2>1. Unspoken(f)
    BY <1>9, DropFlow, BrokenUnspoken
  <2>2. NoneStays
    BY <1>9, DropFlow DEF Drop, Gone, NoneStays, TypeInv, ServerType
  <2>3. RowsStay /\ UNCHANGED env
    BY <1>9 DEF Drop, RowsStay
  <2> QED
    BY <2>1, <2>2, <2>3, UnspokenNone
<1>10. ASSUME NEW f \in Flow, Verify(f) PROVE NoneInv'
  <2>0. old[f].a \in Archive /\ old[f].c \in Claim /\ UNCHANGED <<arch, row>>
    BY <1>10, VerifyFlow DEF Verify
  <2>1. Unspoken(f)
    BY <1>1, <1>10, VerifyFlow, BrokenUnspoken
  <2>2. CASE UNCHANGED env
    BY <1>0, <2>0, <2>1, <2>2
  <2>3. CASE Deposit(f)
    <3>1. \A c \in Claim : env'[c] \in {env[c], old[f].a}
      BY <2>0, <2>3 DEF Deposit, TypeInv, ServerType
    <3>2. arch[old[f].a] # "none"
      BY <2>0 DEF NoneInv, Unnamed
    <3>3. ASSUME NEW b \in Archive, arch[b] = "none" PROVE Unnamed(b)'
      <4>1. Unnamed(b) /\ b # old[f].a /\ b # 0
        BY <3>2, <3>3 DEF NoneInv, Archive
      <4>2. \A g \in Flow : old'[g].a # b /\ old'[g].rec # b /\ b \notin old'[g].todo \cup old'[g].listed
        <5>1. b \notin Stale
          BY <4>1 DEF Stale, Failures, Unnamed
        <5> QED
          BY <4>1, <5>1, <2>1 DEF Unspoken, Offers, Only, Unnamed
      <4> QED
        BY <2>0, <3>1, <4>1, <4>2 DEF Unnamed
    <3> QED
      BY <2>0, <3>3 DEF NoneInv
  <2> QED
    BY <1>10, <2>2, <2>3, VerifyFlow
<1>11. ASSUME NEW f \in Flow, NEW a \in Archive, Reclaim(f, a) PROVE NoneInv'
  <2>0. FlowOK(old[f]) /\ FlowOK(old'[f])
    BY <1>11, ReclaimFlow DEF TypeInv, FlowType
  <2>1. Unspoken(f)
    BY <1>11, <2>0, ReclaimFlow DEF Unspoken, Offers, FlowOK, Waits
  <2>2. NoneStays
    BY <1>11 DEF Reclaim, Gone, NoneStays, TypeInv, ServerType
  <2>3. RowsStay /\ UNCHANGED env
    BY <1>11 DEF Reclaim, RowsStay, TypeInv, ServerType
  <2> QED
    BY <2>1, <2>2, <2>3, UnspokenNone
<1>12. ASSUME NEW f \in Flow, NEW a \in Archive, InitArchive(f, a) PROVE NoneInv'
  <2>1. arch'[a] # "none" /\ \A b \in Archive : b # a /\ arch'[b] = "none" => arch[b] = "none"
    BY <1>12 DEF InitArchive, Allocate, TypeInv, ServerType
  <2>2. UNCHANGED <<row, env>>
    BY <1>12 DEF InitArchive
  <2>3. /\ Only(f) /\ old'[f].a \in {0, a} /\ old'[f].rec \in {0, old[f].rec}
        /\ old'[f].todo = {} /\ old'[f].listed = {}
    BY <1>12, InitFlow DEF FlowOK, Ceases, Rests, Waits
  <2>4. ASSUME NEW b \in Archive, arch'[b] = "none" PROVE Unnamed(b)'
    <3>1. Unnamed(b) /\ b # a /\ b # 0
      BY <2>1, <2>4 DEF NoneInv, Archive
    <3> QED
      BY <2>2, <2>3, <3>1 DEF Unnamed, Only
  <2> QED
    BY <2>4 DEF NoneInv
<1>13. ASSUME NEW f \in Flow, Look(f) \/ Close(f) \/ Approve(f) PROVE NoneInv'
  <2>1. Unspoken(f)
    BY <1>1, <1>13, LookFlow, CloseFlow, ApproveFlow, RestsUnspoken, BrokenUnspoken
  <2> QED
    BY <1>0, <1>13, <2>1 DEF Look, Close, Approve
<1>14. ASSUME NEW f \in Flow, Resume(f) PROVE NoneInv'
  <2>1. Unspoken(f)
    BY <1>14, ResumeFlow DEF Unspoken, Offers, FlowOK
  <2> QED
    BY <1>0, <1>14, <2>1 DEF Resume
<1>15. ASSUME NEW f \in Flow, Discard(f) PROVE NoneInv'
  <2>1. Unspoken(f)
    BY <1>1, <1>15, DiscardFlow
  <2>2. RowsStay
    BY <1>15, DiscardFlow DEF Discard, RowsStay, TypeInv, ServerType
  <2> QED
    BY <1>15, <2>1, <2>2, UnspokenNone DEF Discard, NoneStays
<1>16. ASSUME NEW f \in Flow, NEW c \in Claim, Resolve(f, c) PROVE NoneInv'
  <2>1. Unspoken(f)
    BY <1>16, ResolveFlow, BrokenUnspoken
  <2>2. RowsStay
    BY <1>16, ResolveFlow DEF Sweep, RowsStay
  <2> QED
    BY <1>16, <2>1, <2>2, UnspokenNone DEF Resolve, NoneStays
<1>17. CASE Reload
  <2>1. \A f \in Flow : old'[f] = OldIdle
    BY <1>17 DEF Reload
  <2> QED
    BY <1>17, <2>1, LinkAssumption DEF Reload, OldIdle, NoneInv, Unnamed, Archive
<1>18. CASE CleanUp
  <2>1. arch' \in {arch, Gone(new.a)}
    BY <1>18 DEF CleanUp
  <2>2. NoneStays
    BY <2>1 DEF Gone, NoneStays, TypeInv, ServerType
  <2> QED
    BY <1>2, <1>18, <2>2 DEF CleanUp, RowsStay
<1>19. ASSUME NEW a \in Archive, HardDeadline(a) PROVE NoneInv'
  BY <1>2, <1>19 DEF HardDeadline, RowsStay, NoneStays, TypeInv, ServerType
<1>20. CASE \/ Fetch \/ CommitImport \/ Complete \/ Consume \/ NewReload \/ PutLate
            \/ \E c \in Claim : Request(c) \/ Expire(c)
            \/ \E a \in Archive, i \in Chunk : Forget(a, i)
            \/ UNCHANGED vars
  BY <1>2, <1>20 DEF Fetch, CommitImport, Complete, Consume, NewReload, PutLate, Request, Expire,
     Forget, RowsStay, NoneStays, vars
<1> QED
  BY <1>3, <1>4, <1>5, <1>6, <1>7, <1>8, <1>9, <1>10, <1>11, <1>12, <1>13, <1>14, <1>15, <1>16,
     <1>17, <1>18, <1>19, <1>20 DEF Next, OldStep, NewStep

-----------------------------------------------------------------------------
(* The archive that is handed over.                                          *)

Unsure(a) == "verify" \in lost[a] \/ a \in shared
Promised(c) == link[c] = "sealed" \/ (link[c] = "taken" /\ new.c = c /\ new.ph = "fetch")

\* One flow works on an archive, and one envelope names it: no envelope while a flow
\* works on it, and no flow is about to reclaim what one works on.
Alone(a)    == \A f, g \in Flow : old[f].a = a /\ old[g].a = a => f = g
Unlisted(a) == \A f, g \in Flow : old[f].a = a => a \notin old[g].todo
Unsent(a)   == \A f \in Flow, c \in Claim : old[f].a = a => env[c] # a
OneEnvelope(a) == \A c, d \in Claim : env[c] = a /\ env[d] = a => c = d

\* The row of a fresh upload is not taken for a failed transfer's; before and after
\* the envelope is deposited, the archive is available.
Fresh(f) == old[f].ph \in {"persist", "put", "reput"} /\ ~old[f].resume
Unfailed(a) == \A f \in Flow : old[f].a = a /\ Fresh(f) => row[a] # "dead"
Sealing(a)  == \A f \in Flow : old[f].a = a /\ old[f].ph = "verify"
                               => arch[a] = "available" /\ row[a] # "dead"
Sent(a) == \A c \in Claim : env[c] = a /\ Promised(c)
             => /\ arch[a] = "available" /\ row[a] # "dead"
                /\ \A f \in Flow : a \notin old[f].todo

Solo(a) ==
  /\ Alone(a) /\ Unlisted(a) /\ Unsent(a) /\ OneEnvelope(a)
  /\ Unfailed(a) /\ Sealing(a) /\ Sent(a)
HandInv == \A a \in Archive : Unsure(a) \/ Solo(a)

\* What a step of a flow may do to an archive that only it, or no flow, works on.
Rightly(f, a) ==
  /\ Only(f)
  /\ old'[f].a \in {0, old[f].a} /\ old'[f].todo \subseteq old[f].todo
  /\ row'[a] = "dead" => \/ row[a] = "dead"
                         \/ old[f].a = a /\ (old'[f].a # a \/ old'[f].ph = "drop")
  /\ arch[a] = "available" => \/ arch'[a] = "available" \/ a \in old[f].todo
                              \/ old[f].a = a /\ old'[f].a # a
  /\ old'[f].a = a /\ old'[f].ph \in {"persist", "put", "reput"} /\ ~old'[f].resume => Fresh(f)
  /\ old'[f].a = a /\ old'[f].ph = "verify" =>
       old[f].ph = "verify" \/ (arch'[a] = "available" /\ row'[a] # "dead")
Knowing == \A a \in Archive : Unsure(a) => Unsure(a)'

LEMMA RightlySolo ==
  ASSUME NEW f \in Flow, NEW a \in Archive, Solo(a), Rightly(f, a), UNCHANGED <<env, link, new>>
  PROVE  Solo(a)'
<1>0. a # 0
  BY LinkAssumption DEF Archive
<1>1. \A g \in Flow : old'[g].a = a => old[g].a = a
  BY <1>0 DEF Rightly, Only
<1>2. \A g \in Flow : a \in old'[g].todo => a \in old[g].todo
  BY DEF Rightly, Only
<1>3. Alone(a)' /\ Unsent(a)' /\ OneEnvelope(a)'
  BY <1>1 DEF Solo, Alone, Unsent, OneEnvelope
<1>4. Unlisted(a)'
  BY <1>1, <1>2 DEF Solo, Unlisted
<1>5. Unfailed(a)'
  <2> SUFFICES ASSUME NEW g \in Flow, old'[g].a = a, Fresh(g)'
               PROVE  row'[a] # "dead"
    BY DEF Unfailed
  <2>1. CASE g = f
    BY <1>1, <2>1 DEF Rightly, Solo, Unfailed, Fresh
  <2>2. CASE g # f
    <3>1. old'[g] = old[g] /\ old[g].a = a /\ old[f].a # a
      BY <1>1, <2>2 DEF Rightly, Only, Solo, Alone
    <3> QED
      BY <3>1 DEF Rightly, Solo, Unfailed, Fresh
  <2> QED
    BY <2>1, <2>2
<1>6. Sealing(a)'
  <2> SUFFICES ASSUME NEW g \in Flow, old'[g].a = a, old'[g].ph = "verify"
               PROVE  arch'[a] = "available" /\ row'[a] # "dead"
    BY DEF Sealing
  <2>1. a \notin old[f].todo
    BY <1>1 DEF Solo, Unlisted
  <2>2. CASE g = f
    BY <1>1, <2>1, <2>2 DEF Rightly, Solo, Sealing
  <2>3. CASE g # f
    <3>1. old'[g] = old[g] /\ old[g].a = a /\ old[f].a # a
      BY <1>1, <2>3 DEF Rightly, Only, Solo, Alone
    <3> QED
      BY <2>1, <3>1 DEF Rightly, Solo, Sealing
  <2> QED
    BY <2>2, <2>3
<1>7. Sent(a)'
  <2> SUFFICES ASSUME NEW c \in Claim, env'[c] = a, Promised(c)'
               PROVE  /\ arch'[a] = "available" /\ row'[a] # "dead"
                      /\ \A g \in Flow : a \notin old'[g].todo
    BY DEF Sent
  <2>1. env[c] = a /\ Promised(c) /\ old[f].a # a
    BY DEF Promised, Solo, Unsent
  <2>2. arch[a] = "available" /\ row[a] # "dead" /\ \A g \in Flow : a \notin old[g].todo
    BY <2>1 DEF Solo, Sent
  <2> QED
    BY <1>2, <2>1, <2>2 DEF Rightly
<1> QED
  BY <1>3, <1>4, <1>5, <1>6, <1>7 DEF Solo

\* A flow that ends, breaks or goes on does rightly by every archive, if the rows and
\* the archives are left alone.
LEMMA QuietRightly ==
  ASSUME TypeInv, NEW f \in Flow, NEW a \in Archive, UNCHANGED <<arch, row>>,
         \/ Ceases(f) \/ Broken(f) \/ Rests(f, {"list"}) \/ Rests(f, {"off", "choose"})
         \/ Goes(f, {old[f].ph})
  PROVE  Rightly(f, a)
<1>0. FlowOK(old[f]) /\ a # 0
  BY LinkAssumption DEF TypeInv, FlowType, Archive
<1>1. ASSUME NEW P \in SUBSET {"off", "choose", "list"}, Rests(f, P) PROVE Rightly(f, a)
  <2>1. old'[f].a = 0 /\ old'[f].todo = {} /\ Only(f)
    BY <1>1 DEF Rests, FlowOK, Waits
  <2> QED
    BY <1>0, <2>1 DEF Rightly
<1>2. ASSUME Goes(f, {"mark"}) \/ Goes(f, {"drop"}) \/ Goes(f, {old[f].ph}) PROVE Rightly(f, a)
  BY <1>2 DEF Goes, Rightly, Fresh
<1> QED
  BY <1>1, <1>2 DEF Ceases, Broken

\* The history only grows.
Longer == /\ \A a \in Archive : lost[a] \subseteq lost'[a]
          /\ shared \subseteq shared'
LEMMA LongerNext ==
  ASSUME TypeInv, [Next]_vars
  PROVE  Longer
<1> USE DEF Longer, told
<1>0. lost \in [Archive -> SUBSET Causes]
  BY DEF TypeInv, ServerType
<1>1. \A x, cause : Lose(x, cause) => \A a \in Archive : lost[a] \subseteq lost'[a]
  BY <1>0 DEF Lose
<1>2. ASSUME NEW f \in Flow, OldStep(f) PROVE Longer
  <2>1. CASE List(f)
    BY <2>1 DEF List
  <2>2. CASE Verify(f)
    BY <1>1, <2>2 DEF Verify
  <2>3. CASE Drop(f)
    BY <1>1, <2>3 DEF Drop
  <2>4. ASSUME NEW a \in Archive, Reclaim(f, a) \/ InitArchive(f, a) PROVE Longer
    BY <1>1, <2>4 DEF Reclaim, InitArchive
  <2> QED
    BY <1>2, <2>1, <2>2, <2>3, <2>4 DEF OldStep, InitFails, Persist, NextWindow, Finalize, Retransmit,
       Mark, Put
<1>3. ASSUME NEW f \in Flow, Look(f) \/ Close(f) \/ Approve(f) \/ Resume(f) \/ Discard(f)
      PROVE  Longer
  BY <1>1, <1>3 DEF Look, Close, Approve, Resume, Discard
<1>4. ASSUME NEW f \in Flow, NEW c \in Claim, Resolve(f, c) PROVE Longer
  BY <1>4 DEF Resolve
<1>5. ASSUME NEW c \in Claim, Request(c) \/ Expire(c) PROVE Longer
  BY <1>1, <1>5 DEF Request, Expire
<1>6. CASE Fetch \/ CommitImport \/ Complete \/ PutLate
  BY <1>6 DEF Fetch, CommitImport, Complete, PutLate
<1>7. CASE CleanUp \/ Consume \/ NewReload
  BY <1>1, <1>7 DEF CleanUp, Consume, NewReload
<1>8. CASE Reload
  BY <1>8 DEF Reload
<1>9. ASSUME NEW a \in Archive, HardDeadline(a) \/ \E i \in Chunk : Forget(a, i) PROVE Longer
  BY <1>9 DEF HardDeadline, Forget
<1>10. CASE UNCHANGED vars
  BY <1>10 DEF vars
<1> QED
  BY <1>2, <1>3, <1>4, <1>5, <1>6, <1>7, <1>8, <1>9, <1>10 DEF Next, NewStep

\* One owner per archive is inductive: an archive that a second flow takes up, or one
\* whose verification got no answer, is noted as such.
LEMMA HandNext == TypeInv /\ NoneInv /\ HandInv /\ [Next]_vars => HandInv'
<1> SUFFICES ASSUME TypeInv, NoneInv, HandInv, [Next]_vars PROVE HandInv'
  OBVIOUS
<1> USE DEF server, relay, told
<1>0. ASSUME \A a \in Archive : ~Unsure(a)' /\ Solo(a) => Solo(a)'
      PROVE  HandInv'
  <2>1. \A a \in Archive : Unsure(a) => Unsure(a)'
    BY LongerNext DEF Longer, Unsure
  <2> QED
    BY <1>0, <2>1 DEF HandInv
<1>1. ASSUME NEW f \in Flow, UNCHANGED <<env, link, new>>,
             \A a \in Archive : ~Unsure(a)' /\ Solo(a) => Rightly(f, a)
      PROVE  HandInv'
  BY <1>0, <1>1, RightlySolo
<1>2. ASSUME NEW f \in Flow, UNCHANGED <<env, link, new, arch, row>>,
             \/ Ceases(f) \/ Broken(f) \/ Rests(f, {"list"}) \/ Rests(f, {"off", "choose"})
             \/ Goes(f, {old[f].ph})
      PROVE  HandInv'
  BY <1>1, <1>2, QuietRightly
<1>3. ASSUME UNCHANGED <<env, old, row>>,
             \A c \in Claim : Promised(c)' => Promised(c),
             \A a \in Archive : ~Unsure(a)' /\ Solo(a) /\ arch[a] = "available" => arch'[a] = "available"
      PROVE  HandInv'
  <2>1. ASSUME NEW a \in Archive, ~Unsure(a)', Solo(a) PROVE Solo(a)'
    <3>1. arch[a] = "available" => arch'[a] = "available"
      BY <1>3, <2>1
    <3>2. Alone(a)' /\ Unlisted(a)' /\ Unsent(a)' /\ OneEnvelope(a)' /\ Unfailed(a)'
      BY <1>3, <2>1 DEF Solo, Alone, Unlisted, Unsent, OneEnvelope, Unfailed, Fresh
    <3>3. Sealing(a)'
      BY <1>3, <2>1, <3>1 DEF Solo, Sealing
    <3>4. Sent(a)'
      BY <1>3, <2>1, <3>1 DEF Solo, Sent
    <3> QED
      BY <3>2, <3>3, <3>4 DEF Solo
  <2> QED
    BY <1>0, <2>1
<1>4. ASSUME NEW f \in Flow, NextWindow(f) \/ Retransmit(f) \/ \E i \in Chunk : Put(f, i)
      PROVE  HandInv'
  BY <1>2, <1>4, UploadFlow DEF NextWindow, Retransmit, Put
<1>5. ASSUME NEW f \in Flow, List(f) PROVE HandInv'
  <2>1. UNCHANGED <<env, link, new, arch, row>>
    BY <1>5 DEF List
  <2>2. CASE Ceases(f)
    BY <1>2, <2>1, <2>2
  <2>3. CASE ~Ceases(f)
    <3>1. /\ old[f].ph = "list" /\ Only(f) /\ FlowOK(old'[f]) /\ old'[f].ph = "reclaim"
          /\ \/ old'[f].todo = Stale /\ shared' = shared \cup {a \in Stale : InUse(f, a)}
             \/ old'[f].todo = {}
      BY <1>5, <2>3, ListFlow
    <3>2. FlowOK(old[f])
      BY DEF TypeInv, FlowType
    <3>3. old[f].a = 0 /\ old'[f].a = 0 /\ old[f].todo = {}
      BY <3>1, <3>2 DEF FlowOK, Waits
    <3>4. ASSUME NEW a \in Archive, ~Unsure(a)', Solo(a) PROVE Solo(a)'
      <4>0. a # 0
        BY LinkAssumption DEF Archive
      <4>1. \A g \in Flow : old'[g].a = old[g].a /\ (old[g].a = a => g # f)
        BY <3>1, <3>3, <4>0 DEF Only
      <4>2. Alone(a)' /\ Unsent(a)' /\ OneEnvelope(a)'
        BY <2>1, <3>4, <4>1 DEF Solo, Alone, Unsent, OneEnvelope
      <4>3. \A g \in Flow : old[g].a = a => old'[g] = old[g]
        BY <3>1, <4>1 DEF Only
      <4>4. Unfailed(a)' /\ Sealing(a)'
        BY <2>1, <3>4, <4>1, <4>3 DEF Solo, Unfailed, Sealing, Fresh
      <4>5. a \in old'[f].todo => \A g \in Flow : old[g].a # a
        <5>1. SUFFICES ASSUME a \in old'[f].todo, NEW g \in Flow, old[g].a = a
                       PROVE  FALSE
          OBVIOUS
        <5>2. a \in Stale /\ ~InUse(f, a)
          BY <3>1, <3>4, <5>1 DEF Unsure
        <5>3. FlowOK(old[g]) /\ g # f
          BY <4>1, <5>1 DEF TypeInv, FlowType
        <5>4. AtWork(g)
          BY <4>0, <5>1, <5>3 DEF AtWork, FlowOK, Waits
        <5> QED
          BY <5>1, <5>2, <5>3, <5>4 DEF InUse
      <4>6. Unlisted(a)'
        BY <3>1, <3>4, <4>1, <4>5 DEF Solo, Unlisted, Only
      <4>7. Sent(a)'
        <5> SUFFICES ASSUME NEW c \in Claim, env'[c] = a, Promised(c)'
                     PROVE  /\ arch'[a] = "available" /\ row'[a] # "dead"
                            /\ \A g \in Flow : a \notin old'[g].todo
          BY DEF Sent
        <5>1. Promised(c) /\ env[c] = a
          BY <2>1 DEF Promised
        <5>2. arch[a] = "available" /\ row[a] # "dead" /\ \A g \in Flow : a \notin old[g].todo
          BY <3>4, <5>1 DEF Solo, Sent
        <5>3. a \notin Stale
          BY <5>2 DEF Stale, Failures
        <5> QED
          BY <2>1, <3>1, <5>2, <5>3 DEF Only
      <4> QED
        BY <4>2, <4>4, <4>6, <4>7 DEF Solo
    <3> QED
      BY <1>0, <3>4
  <2> QED
    BY <2>2, <2>3
<1>6. ASSUME NEW f \in Flow, InitFails(f) PROVE HandInv'
  BY <1>2, <1>6, InitFailsFlow DEF InitFails
<1>7. ASSUME NEW f \in Flow, Persist(f) PROVE HandInv'
  <2>0. FlowOK(old[f]) /\ old[f].ph = "persist"
    BY <1>7 DEF TypeInv, FlowType, Persist, At
  <2>1. ~old[f].resume /\ old[f].a \in Archive
    BY <2>0 DEF FlowOK, Waits
  <2>2. \A a \in Archive : row'[a] = "dead" => row[a] = "dead"
    <3>1. row' = row \/ row' = [row EXCEPT ![old[f].a] = "open"]
      BY <1>7, PersistFlow
    <3> QED
      BY <2>1, <3>1 DEF TypeInv, ServerType
  <2>3. Only(f) /\ old'[f].a = old[f].a /\ old'[f].ph = "put" /\ old'[f].todo = {}
    BY <1>7, PersistFlow DEF FlowOK
  <2>4. UNCHANGED <<env, link, new, arch>>
    BY <1>7 DEF Persist
  <2>5. \A a \in Archive : Rightly(f, a)
    BY <2>0, <2>1, <2>2, <2>3, <2>4 DEF Rightly, Fresh
  <2> QED
    BY <1>1, <2>4, <2>5
<1>8. ASSUME NEW f \in Flow, Finalize(f) PROVE HandInv'
  <2>0. old[f].ph \in {"put", "reput", "probe"} /\ old[f].a \in Archive /\ FlowOK(old[f])
    BY <1>8, FinalizeFlow DEF TypeInv, FlowType
  <2>1. UNCHANGED <<env, link, new>>
    BY <1>8 DEF Finalize
  <2>2. \A a \in Archive : arch[a] = "available" => arch'[a] = "available"
    BY <1>8, FinalizeFlow DEF Completed, Incomplete, Unanswered, Available, TypeInv, ServerType
  <2>3. \A a \in Archive : old[f].a # a => row'[a] = row[a]
    BY <1>8, FinalizeFlow DEF Completed, Incomplete, Unanswered, NoRow, Dead, TypeInv, ServerType
  <2>4. ASSUME NEW a \in Archive, Solo(a) PROVE Rightly(f, a)
    <3>0. a # 0
      BY LinkAssumption DEF Archive
    <3>1. ASSUME Ceases(f) PROVE Rightly(f, a)
      <4>1. Only(f) /\ old'[f].a = 0 /\ old'[f].todo = {}
        BY <3>1 DEF Ceases, Rests, FlowOK, Waits
      <4> QED
        BY <2>2, <2>3, <3>0, <4>1 DEF Rightly
    <3>2. ASSUME Goes(f, {"mark"}) \/ Goes(f, {"drop"}), row' = row PROVE Rightly(f, a)
      BY <2>2, <3>2 DEF Goes, Rightly, Fresh
    <3>3. CASE Completed(f)
      <4>1. CASE Goes(f, {"verify"})
        <5>1. old[f].a = a => row'[a] # "dead"
          <6>1. CASE row' = NoRow(old[f].a)
            BY <2>0, <6>1 DEF NoRow, TypeInv, ServerType
          <6>2. CASE row' = row /\ ~old[f].resume
            <7>1. old[f].ph # "probe"
              BY <2>0, <6>2 DEF FlowOK
            <7> QED
              BY <2>0, <2>4, <6>2, <7>1 DEF Solo, Unfailed, Fresh
          <6> QED
            BY <2>0, <3>3, <4>1, <6>1, <6>2 DEF Completed, Ceases, Goes, Rests
        <5>2. old[f].a = a => arch'[a] = "available"
          BY <2>0, <3>3 DEF Completed, Available, TypeInv, ServerType
        <5> QED
          BY <2>2, <2>3, <4>1, <5>1, <5>2 DEF Goes, Rightly
      <4> QED
        BY <3>1, <3>3, <4>1 DEF Completed
    <3>4. CASE Incomplete(f)
      <4>1. CASE row' = row /\ Goes(f, {"reput"})
        <5>1. ~old[f].resume => old[f].ph # "probe"
          BY <2>0 DEF FlowOK
        <5> QED
          BY <2>0, <2>2, <4>1, <5>1 DEF Goes, Rightly, Fresh
      <4> QED
        BY <3>1, <3>2, <3>4, <4>1 DEF Incomplete, Broken
    <3>5. CASE Unanswered(f)
      BY <3>1, <3>2, <3>5 DEF Unanswered, Broken
    <3> QED
      BY <1>8, <3>3, <3>4, <3>5, FinalizeFlow
  <2> QED
    BY <1>1, <2>1, <2>4
<1>9. ASSUME NEW f \in Flow, Mark(f) PROVE HandInv'
  <2>1. UNCHANGED <<env, link, new, arch>>
    BY <1>9 DEF Mark
  <2>2. \A a \in Archive : row'[a] = "dead" => row[a] = "dead" \/ old[f].a = a
    BY <1>9, MarkFlow DEF Dead, TypeInv, ServerType
  <2>3. \A a \in Archive : Rightly(f, a)
    BY <1>9, <2>1, <2>2, MarkFlow DEF Goes, Rightly
  <2> QED
    BY <1>1, <2>1, <2>3
<1>10. ASSUME NEW f \in Flow, Drop(f) PROVE HandInv'
  <2>1. UNCHANGED <<env, link, new, row>>
    BY <1>10 DEF Drop
  <2>2. \A a \in Archive : arch[a] = "available" => arch'[a] = "available" \/ old[f].a = a
    BY <1>10, DropFlow DEF Drop, Gone, TypeInv, ServerType
  <2>3. Only(f) /\ old'[f].a = 0 /\ old'[f].todo = {}
    BY <1>10, DropFlow DEF Ceases, Rests, FlowOK, Waits
  <2>4. \A a \in Archive : a # 0
    BY LinkAssumption DEF Archive
  <2>5. \A a \in Archive : Rightly(f, a)
    BY <2>1, <2>2, <2>3, <2>4 DEF Rightly
  <2> QED
    BY <1>1, <2>1, <2>5
<1>11. ASSUME NEW f \in Flow, Verify(f) PROVE HandInv'
  <2>0. old[f].ph = "verify" /\ old[f].a \in Archive /\ old[f].c \in Claim
    BY <1>11, VerifyFlow
  <2>1. UNCHANGED <<new, arch, row>>
    BY <1>11 DEF Verify
  <2>2. ASSUME NEW a \in Archive, Goes(f, {"undo"}) \/ Ceases(f) PROVE Rightly(f, a)
    <3>1. /\ Only(f) /\ old'[f].a \in {0, old[f].a} /\ old'[f].todo \subseteq old[f].todo
          /\ old'[f].a = a => old'[f].ph = "undo"
      BY <2>2, LinkAssumption DEF Goes, Ceases, Rests, FlowOK, Waits, Archive
    <3> QED
      BY <2>1, <3>1 DEF Rightly
  <2>3. CASE UNCHANGED relay
    BY <1>1, <1>11, <2>1, <2>2, <2>3, VerifyFlow
  <2>4. ASSUME Deposit(f), Goes(f, {"undo"}) \/ Ceases(f),
               Ceases(f) \/ Lose(old[f].a, "verify")
        PROVE  HandInv'
    <3>1. ASSUME NEW a \in Archive, ~Unsure(a)', Solo(a) PROVE Solo(a)'
      <4>0. a # 0
        BY LinkAssumption DEF Archive
      <4>1. Only(f) /\ old'[f].a \in {0, old[f].a} /\ old'[f].todo \subseteq old[f].todo
            /\ (old'[f].a = a => old'[f].ph = "undo")
        BY <2>4, <4>0 DEF Goes, Ceases, Rests, FlowOK, Waits
      <4>2. /\ env'[old[f].c] = old[f].a /\ \A d \in Claim : d # old[f].c => env'[d] = env[d]
            /\ \A d \in Claim : d # old[f].c => (Promised(d)' => Promised(d))
        BY <2>0, <2>1, <2>4 DEF Deposit, Promised, TypeInv, ServerType
      <4>3. old[f].a = a => Ceases(f)
        BY <2>0, <2>4, <3>1 DEF Lose, Unsure, TypeInv, ServerType
      <4>4. old[f].a = a => old'[f].a = 0
        BY <4>3 DEF Ceases, Rests, FlowOK, Waits
      <4>5. \A g \in Flow : old'[g].a = a => g # f /\ old'[g] = old[g] /\ old[g].a = a
        BY <4>0, <4>1, <4>4 DEF Only
      <4>6. \A g \in Flow : a \in old'[g].todo => a \in old[g].todo
        BY <4>1 DEF Only
      <4>7. Alone(a)' /\ Unlisted(a)' /\ Unfailed(a)' /\ Sealing(a)'
        BY <2>1, <3>1, <4>5, <4>6 DEF Solo, Alone, Unlisted, Unfailed, Sealing, Fresh
      <4>8. CASE old[f].a # a
        <5>1. \A d \in Claim : env'[d] = a => env[d] = a /\ d # old[f].c
          BY <4>2, <4>8
        <5>2. Unsent(a)' /\ OneEnvelope(a)'
          BY <3>1, <4>5, <5>1 DEF Solo, Unsent, OneEnvelope
        <5>3. Sent(a)'
          <6> SUFFICES ASSUME NEW c \in Claim, env'[c] = a, Promised(c)'
                       PROVE  /\ arch'[a] = "available" /\ row'[a] # "dead"
                              /\ \A g \in Flow : a \notin old'[g].todo
            BY DEF Sent
          <6>1. env[c] = a /\ Promised(c)
            BY <4>2, <5>1
          <6> QED
            BY <2>1, <3>1, <4>6, <6>1 DEF Solo, Sent
        <5> QED
          BY <4>7, <5>2, <5>3 DEF Solo
      <4>9. CASE old[f].a = a
        <5>1. \A d \in Claim : env[d] # a
          BY <3>1, <4>9 DEF Solo, Unsent
        <5>2. \A g \in Flow : old'[g].a # a
          BY <3>1, <4>5, <4>9 DEF Solo, Alone
        <5>3. Unsent(a)' /\ OneEnvelope(a)'
          BY <4>2, <5>1, <5>2 DEF Unsent, OneEnvelope
        <5>4. arch[a] = "available" /\ row[a] # "dead" /\ \A g \in Flow : a \notin old[g].todo
          BY <2>0, <3>1, <4>9 DEF Solo, Sealing, Unlisted
        <5>5. Sent(a)'
          BY <2>1, <4>6, <5>4 DEF Sent
        <5> QED
          BY <4>7, <5>3, <5>5 DEF Solo
      <4> QED
        BY <4>8, <4>9
    <3> QED
      BY <1>0, <3>1
  <2> QED
    BY <1>11, <2>3, <2>4, VerifyFlow
<1>12. ASSUME NEW f \in Flow, NEW b \in Archive, Reclaim(f, b) PROVE HandInv'
  <2>0. FlowOK(old[f]) /\ FlowOK(old'[f])
    BY <1>12, ReclaimFlow DEF TypeInv, FlowType
  <2>1. UNCHANGED <<env, link, new>>
    BY <1>12 DEF Reclaim
  <2>2. \A a \in Archive : arch[a] = "available" => arch'[a] = "available" \/ a = b
    BY <1>12 DEF Reclaim, Gone, TypeInv, ServerType
  <2>3. \A a \in Archive : row'[a] = "dead" => row[a] = "dead"
    BY <1>12 DEF Reclaim, TypeInv, ServerType
  <2>4. old[f].a = 0 /\ old'[f].a = 0
    BY <1>12, <2>0, ReclaimFlow DEF FlowOK, Waits
  <2>5. \A a \in Archive : a # 0
    BY LinkAssumption DEF Archive
  <2>6. \A a \in Archive : Rightly(f, a)
    BY <1>12, <2>2, <2>3, <2>4, <2>5, ReclaimFlow DEF Rightly
  <2> QED
    BY <1>1, <2>1, <2>6
<1>13. ASSUME NEW f \in Flow, NEW b \in Archive, InitArchive(f, b) PROVE HandInv'
  <2>1. UNCHANGED <<env, link, new, row>> /\ arch[b] = "none"
    BY <1>13 DEF InitArchive, Allocate
  <2>2. \A a \in Archive : arch[a] = "available" => arch'[a] = "available"
    BY <1>13, <2>1 DEF InitArchive, TypeInv, ServerType
  <2>3. Unnamed(b)
    BY <2>1 DEF NoneInv
  <2>4. CASE Ceases(f)
    <3>1. Only(f) /\ old'[f].a = 0 /\ old'[f].todo = {}
      BY <2>4 DEF Ceases, Rests, FlowOK, Waits
    <3>2. \A a \in Archive : a # 0
      BY LinkAssumption DEF Archive
    <3>3. \A a \in Archive : Rightly(f, a)
      BY <2>1, <2>2, <3>1, <3>2 DEF Rightly
    <3> QED
      BY <1>1, <2>1, <3>3
  <2>5. CASE ~Ceases(f)
    <3>1. Only(f) /\ old'[f].a = b /\ old'[f].todo = {} /\ old'[f].ph = "persist"
      BY <1>13, <2>5, InitFlow DEF FlowOK
    <3>2. FlowOK(old[f]) /\ old[f].ph = "reclaim"
      BY <1>13, InitFlow DEF TypeInv, FlowType
    <3>3. ASSUME NEW a \in Archive, Solo(a), a # b PROVE Solo(a)'
      <4>1. old'[f].a # a /\ old[f].a # a
        BY <3>1, <3>2, <3>3, LinkAssumption DEF FlowOK, Waits, Archive
      <4>2. \A g \in Flow : old'[g].a = a => old'[g] = old[g]
        BY <3>1, <4>1 DEF Only
      <4>3. \A g \in Flow : a \in old'[g].todo => a \in old[g].todo
        BY <3>1 DEF Only
      <4>4. \A c \in Claim : Promised(c)' = Promised(c)
        BY <2>1 DEF Promised
      <4>5. /\ Alone(a)' /\ Unlisted(a)' /\ Unsent(a)' /\ OneEnvelope(a)' /\ Unfailed(a)' /\ Sealing(a)'
        BY <2>1, <2>2, <3>3, <4>2, <4>3 DEF Solo, Alone, Unlisted, Unsent, OneEnvelope, Unfailed, Sealing, Fresh
      <4>6. Sent(a)'
        BY <2>1, <2>2, <3>3, <4>3, <4>4 DEF Solo, Sent
      <4> QED
        BY <4>5, <4>6 DEF Solo
    <3>4. Solo(b)'
      <4>1. \A g \in Flow : old'[g].a = b => g = f
        BY <2>3, <3>1 DEF Only, Unnamed
      <4>2. \A g \in Flow : b \notin old'[g].todo
        BY <2>3, <3>1 DEF Only, Unnamed
      <4>3. row'[b] = "none" /\ \A c \in Claim : env'[c] # b
        BY <2>1, <2>3 DEF Unnamed
      <4> QED
        BY <3>1, <4>1, <4>2, <4>3 DEF Solo, Alone, Unlisted, Unsent, OneEnvelope, Unfailed, Sealing, Sent
    <3> QED
      BY <1>0, <3>3, <3>4
  <2> QED
    BY <2>4, <2>5
<1>14. ASSUME NEW f \in Flow, Look(f) \/ Close(f) \/ Approve(f) PROVE HandInv'
  BY <1>2, <1>14, LookFlow, CloseFlow, ApproveFlow DEF Look, Close, Approve
<1>15. ASSUME NEW f \in Flow, Resume(f) PROVE HandInv'
  <2>0. /\ old[f].ph = "choose" /\ old[f].rec \in Archive /\ Only(f) /\ FlowOK(old'[f])
        /\ old'[f].ph = "probe" /\ old'[f].a = old[f].rec /\ old'[f].resume
    BY <1>15, ResumeFlow
  <2>1. UNCHANGED <<env, link, new, arch, row>>
    BY <1>15 DEF Resume
  <2>2. shared' = shared \cup {a \in {old[f].rec} : InUse(f, a) \/ \E c \in Claim : env[c] = a}
    BY <1>15 DEF Resume
  <2>3. FlowOK(old[f]) /\ old'[f].todo = {}
    BY <2>0 DEF TypeInv, FlowType, FlowOK
  <2>4. old[f].a = 0
    BY <2>0, <2>3 DEF FlowOK, Waits
  <2>5. ASSUME NEW a \in Archive, ~Unsure(a)', Solo(a) PROVE Solo(a)'
    <3>0. a # 0 /\ \A c \in Claim : Promised(c)' = Promised(c)
      BY <2>1, LinkAssumption DEF Promised, Archive
    <3>1. \A g \in Flow : a \in old'[g].todo => a \in old[g].todo
      BY <2>0, <2>3 DEF Only
    <3>2. old'[f].a = a => /\ \A c \in Claim : env[c] # a
                           /\ \A g \in Flow \ {f} : old[g].a # a /\ a \notin old[g].todo
      <4> SUFFICES ASSUME old'[f].a = a
                   PROVE  /\ \A c \in Claim : env[c] # a
                          /\ \A g \in Flow \ {f} : old[g].a # a /\ a \notin old[g].todo
        OBVIOUS
      <4>1. ~InUse(f, a) /\ \A c \in Claim : env[c] # a
        BY <2>0, <2>2, <2>5 DEF Unsure
      <4>2. ASSUME NEW g \in Flow \ {f}, old[g].a = a \/ a \in old[g].todo PROVE FALSE
        <5>1. FlowOK(old[g])
          BY DEF TypeInv, FlowType
        <5>2. AtWork(g)
          BY <3>0, <4>2, <5>1 DEF AtWork, FlowOK, Waits
        <5> QED
          BY <4>1, <4>2, <5>2 DEF InUse
      <4> QED
        BY <4>1, <4>2
    <3>3. \A g \in Flow : g # f => old'[g] = old[g]
      BY <2>0 DEF Only
    <3>4. Alone(a)' /\ Unlisted(a)' /\ Unsent(a)' /\ OneEnvelope(a)'
      BY <2>1, <2>3, <2>5, <3>1, <3>2, <3>3 DEF Solo, Alone, Unlisted, Unsent, OneEnvelope
    <3>5. Unfailed(a)' /\ Sealing(a)'
      BY <2>0, <2>1, <2>5, <3>3 DEF Solo, Unfailed, Sealing, Fresh
    <3>6. Sent(a)'
      BY <2>1, <2>5, <3>0, <3>1 DEF Solo, Sent
    <3> QED
      BY <3>4, <3>5, <3>6 DEF Solo
  <2> QED
    BY <1>0, <2>5
<1>16. ASSUME NEW f \in Flow, Discard(f) PROVE HandInv'
  <2>1. UNCHANGED <<env, link, new, arch>>
    BY <1>16 DEF Discard
  <2>2. \A a \in Archive : row'[a] = "dead" => row[a] = "dead"
    BY <1>16, DiscardFlow DEF Discard, TypeInv, ServerType
  <2>3. \A a \in Archive : Rightly(f, a)
    BY <1>16, <2>1, <2>2, DiscardFlow DEF Goes, Rightly
  <2> QED
    BY <1>1, <2>1, <2>3
<1>17. ASSUME NEW f \in Flow, NEW c \in Claim, Resolve(f, c) PROVE HandInv'
  <2>1. UNCHANGED <<env, new, arch>> /\ Ceases(f)
    BY <1>17, ResolveFlow DEF Resolve
  <2>2. \A a \in Archive : row'[a] = "dead" => row[a] = "dead"
    BY <1>17, ResolveFlow DEF Sweep
  <2>3. \A d \in Claim : Promised(d)' => Promised(d)
    BY <1>17 DEF Resolve, Promised, TypeInv, ServerType
  <2>4. Only(f) /\ old'[f].a = 0 /\ old'[f].todo = {}
    BY <2>1 DEF Ceases, Rests, FlowOK, Waits
  <2>5. ASSUME NEW a \in Archive, Solo(a) PROVE Solo(a)'
    <3>1. \A g \in Flow : old'[g].a = a => old'[g] = old[g]
      BY <2>4, LinkAssumption DEF Only, Archive
    <3>2. \A g \in Flow : a \in old'[g].todo => a \in old[g].todo
      BY <2>4 DEF Only
    <3>3. Alone(a)' /\ Unlisted(a)' /\ Unsent(a)' /\ OneEnvelope(a)' /\ Unfailed(a)' /\ Sealing(a)'
      BY <2>1, <2>2, <2>5, <3>1, <3>2 DEF Solo, Alone, Unlisted, Unsent, OneEnvelope, Unfailed, Sealing, Fresh
    <3>4. Sent(a)'
      BY <2>1, <2>2, <2>3, <2>5, <3>2 DEF Solo, Sent
    <3> QED
      BY <3>3, <3>4 DEF Solo
  <2> QED
    BY <1>0, <2>5
<1>18. CASE Reload
  <2>1. \A g \in Flow : old'[g] = OldIdle
    BY <1>18 DEF Reload
  <2>2. \A g \in Flow : old'[g].a = 0 /\ old'[g].todo = {}
    BY <2>1 DEF OldIdle
  <2>3. UNCHANGED <<env, link, new, arch, row>>
    BY <1>18 DEF Reload
  <2>4. ASSUME NEW a \in Archive, Solo(a) PROVE Solo(a)'
    <3>1. a # 0 /\ \A c \in Claim : Promised(c)' = Promised(c)
      BY <2>3, LinkAssumption DEF Promised, Archive
    <3> QED
      BY <2>2, <2>3, <2>4, <3>1 DEF Solo, Alone, Unlisted, Unsent, OneEnvelope, Unfailed, Sealing, Sent
  <2> QED
    BY <1>0, <2>4
<1>19. CASE CleanUp
  <2>1. UNCHANGED <<env, link, old, row>> /\ new.ph \in {"imported", "clean"}
    BY <1>19 DEF CleanUp
  <2>2. new'.ph \in {"complete", "failed"} /\ new'.c = new.c
    BY <1>19 DEF CleanUp, TypeInv, NewType, NewSet
  <2>3. \A c \in Claim : Promised(c)' => Promised(c)
    BY <2>1, <2>2 DEF Promised
  <2>4. new.c \in Claim /\ link[new.c] = "taken" /\ new.a = env[new.c] /\ new.a \in Archive
    BY <2>1 DEF TypeInv, NewType
  <2>5. arch' \in {arch, Gone(new.a)}
    BY <1>19 DEF CleanUp
  <2>6. ASSUME NEW a \in Archive, ~Unsure(a)', Solo(a) PROVE Solo(a)'
    <3>1. CASE a # new.a
      <4>1. arch[a] = arch'[a]
        BY <2>5, <3>1 DEF Gone, TypeInv, ServerType
      <4>2. Alone(a)' /\ Unlisted(a)' /\ Unsent(a)' /\ OneEnvelope(a)' /\ Unfailed(a)' /\ Sealing(a)'
        BY <2>1, <2>6, <4>1 DEF Solo, Alone, Unlisted, Unsent, OneEnvelope, Unfailed, Sealing, Fresh
      <4>3. Sent(a)'
        BY <2>1, <2>3, <2>6, <4>1 DEF Solo, Sent
      <4> QED
        BY <4>2, <4>3 DEF Solo
    <3>2. CASE a = new.a
      <4>1. \A g \in Flow : old[g].a # a
        BY <2>4, <2>6, <3>2 DEF Solo, Unsent
      <4>2. \A c \in Claim : env[c] = a => ~Promised(c)
        BY <2>1, <2>4, <2>6, <3>2 DEF Solo, OneEnvelope, Promised
      <4>3. Alone(a)' /\ Unlisted(a)' /\ Unsent(a)' /\ OneEnvelope(a)' /\ Unfailed(a)' /\ Sealing(a)'
        BY <2>1, <2>6, <4>1 DEF Solo, Alone, Unlisted, Unsent, OneEnvelope, Unfailed, Sealing, Fresh
      <4>4. Sent(a)'
        BY <2>1, <2>3, <4>2 DEF Sent
      <4> QED
        BY <4>3, <4>4 DEF Solo
    <3> QED
      BY <3>1, <3>2
  <2> QED
    BY <1>0, <2>6
<1>20. ASSUME NEW b \in Archive, HardDeadline(b) PROVE HandInv'
  <2>1. /\ UNCHANGED <<env, link, old, row, new>> /\ \A f \in Flow : ~AtWork(f)
        /\ new.a # b /\ \A c \in Claim : env[c] = b => link[c] # "sealed"
    BY <1>20 DEF HardDeadline
  <2>2. ASSUME NEW a \in Archive, Solo(a) PROVE Solo(a)'
    <3>0. a # 0 /\ \A g \in Flow : old[g].a # a
      <4>1. \A g \in Flow : FlowOK(old[g])
        BY DEF TypeInv, FlowType
      <4> QED
        BY <2>1, <4>1, LinkAssumption DEF AtWork, FlowOK, Waits, Archive
    <3>1. \A c \in Claim : Promised(c)' = Promised(c)
      BY <2>1 DEF Promised
    <3>2. ASSUME NEW c \in Claim, env[c] = a, Promised(c) PROVE a # b
      BY <2>1, <3>2 DEF Promised, TypeInv, NewType
    <3>3. a # b => arch'[a] = arch[a]
      BY <1>20 DEF HardDeadline, TypeInv, ServerType
    <3>4. Alone(a)' /\ Unlisted(a)' /\ Unsent(a)' /\ OneEnvelope(a)' /\ Unfailed(a)' /\ Sealing(a)'
      BY <2>1, <2>2, <3>0 DEF Solo, Alone, Unlisted, Unsent, OneEnvelope, Unfailed, Sealing, Fresh
    <3>5. Sent(a)'
      BY <2>1, <2>2, <3>1, <3>2, <3>3 DEF Solo, Sent
    <3> QED
      BY <3>4, <3>5 DEF Solo
  <2> QED
    BY <1>0, <2>2
<1>21. ASSUME NEW c \in Claim, Request(c) \/ Expire(c) PROVE HandInv'
  <2>1. UNCHANGED <<env, old, row, arch>>
    BY <1>21 DEF Request, Expire
  <2>2. \A d \in Claim : Promised(d)' => Promised(d)
    <3>1. CASE Request(c)
      <4>1. new'.ph = "poll" /\ link' = [link EXCEPT ![c] = "open"]
        BY <3>1 DEF Request, NewIdle
      <4> QED
        BY <4>1 DEF Promised, TypeInv, ServerType
    <3>2. CASE Expire(c)
      <4>1. new'.c = new.c /\ (new'.ph = "fetch" => new.ph = "fetch")
        BY <3>2 DEF Expire, TypeInv, NewType, NewSet
      <4>2. link' = [link EXCEPT ![c] = "expired"]
        BY <3>2 DEF Expire
      <4> QED
        BY <4>1, <4>2 DEF Promised, TypeInv, ServerType
    <3> QED
      BY <1>21, <3>1, <3>2
  <2> QED
    BY <1>3, <2>1, <2>2
<1>22. CASE Consume
  <2>1. UNCHANGED <<env, old, row, arch>> /\ link[new.c] = "sealed" /\ new.c \in Claim
        /\ link' = [link EXCEPT ![new.c] = "taken"]
    BY <1>22 DEF Consume, TypeInv, NewType
  <2>2. new'.c = new.c
    BY <1>22 DEF Consume, TypeInv, NewType, NewSet
  <2>3. \A d \in Claim : Promised(d)' => Promised(d)
    BY <2>1, <2>2 DEF Promised, TypeInv, ServerType
  <2> QED
    BY <1>3, <2>1, <2>3
<1>23. CASE Fetch \/ CommitImport \/ Complete \/ NewReload
  <2>1. UNCHANGED <<env, old, row, arch, link>>
    BY <1>23 DEF Fetch, CommitImport, Complete, NewReload
  <2>2. new'.ph = "fetch" => new.ph = "fetch" /\ new'.c = new.c
    <3>0. new \in NewSet
      BY DEF TypeInv, NewType
    <3>1. CASE Fetch
      BY <3>0, <3>1 DEF Fetch, NewSet
    <3>2. CASE CommitImport
      BY <3>0, <3>2 DEF CommitImport, NewSet
    <3>3. CASE Complete
      BY <3>0, <3>3 DEF Complete, NewSet
    <3>4. CASE NewReload
      BY <3>4 DEF NewReload, NewIdle
    <3> QED
      BY <1>23, <3>1, <3>2, <3>3, <3>4
  <2>3. \A d \in Claim : Promised(d)' => Promised(d)
    BY <2>1, <2>2 DEF Promised
  <2> QED
    BY <1>3, <2>1, <2>3
<1>24. CASE PutLate \/ (\E a \in Archive, i \in Chunk : Forget(a, i)) \/ UNCHANGED vars
  <2>1. UNCHANGED <<env, old, row, arch, link, new>>
    BY <1>24 DEF PutLate, Forget, vars
  <2>2. \A d \in Claim : Promised(d)' => Promised(d)
    BY <2>1 DEF Promised
  <2> QED
    BY <1>3, <2>1, <2>2
<1> QED
  BY <1>4, <1>5, <1>6, <1>7, <1>8, <1>9, <1>10, <1>11, <1>12, <1>13, <1>14, <1>15, <1>16, <1>17,
     <1>18, <1>19, <1>20, <1>21, <1>22, <1>23, <1>24 DEF Next, OldStep, NewStep

\* An available archive is complete, whatever goes on uploading.
FullInv == \A a \in Archive : arch[a] = "available" => held[a] = Chunk

LEMMA FullNext == TypeInv /\ FullInv /\ [Next]_vars => FullInv'
<1> SUFFICES ASSUME TypeInv, FullInv, [Next]_vars PROVE FullInv'
  OBVIOUS
<1> USE DEF server, TypeInv, ServerType
<1>0. ASSUME \A a \in Archive : arch'[a] = "available" => arch[a] = "available" /\ held'[a] = held[a]
      PROVE  FullInv'
  BY <1>0 DEF FullInv
<1>1. ASSUME UNCHANGED held, \A a \in Archive : arch'[a] = "available" => arch[a] = "available"
      PROVE  FullInv'
  BY <1>0, <1>1
<1>2. ASSUME NEW x, NEW i, held' = Confirmed(x, i), UNCHANGED arch PROVE FullInv'
  <2>1. ASSUME NEW a \in Archive, arch[a] = "available" PROVE held'[a] = held[a]
    BY <1>2, <2>1 DEF Confirmed
  <2> QED
    BY <1>0, <1>2, <2>1
<1>3. ASSUME NEW f \in Flow, OldStep(f) PROVE FullInv'
  <2>1. ASSUME NEW i \in Chunk, Put(f, i) PROVE FullInv'
    BY <1>1, <1>2, <2>1 DEF Put
  <2>2. CASE Finalize(f)
    <3>1. \/ arch' = arch
          \/ old[f].a \in Archive /\ held[old[f].a] = Chunk /\ arch' = Available(old[f].a)
      BY <2>2, FinalizeFlow DEF Completed, Incomplete, Unanswered
    <3>2. held' = held
      BY <2>2 DEF Finalize
    <3> QED
      BY <3>1, <3>2 DEF Available, FullInv
  <2>3. CASE Drop(f)
    BY <1>1, <2>3, DropFlow DEF Drop, Gone
  <2>4. ASSUME NEW a \in Archive, Reclaim(f, a) PROVE FullInv'
    BY <1>1, <2>4 DEF Reclaim, Gone
  <2>5. ASSUME NEW a \in Archive, InitArchive(f, a) PROVE FullInv'
    BY <1>1, <2>5 DEF InitArchive, Allocate
  <2>6. CASE List(f) \/ InitFails(f) \/ Persist(f) \/ NextWindow(f) \/ Retransmit(f) \/ Mark(f) \/ Verify(f)
    BY <1>1, <2>6 DEF List, InitFails, Persist, NextWindow, Retransmit, Mark, Verify
  <2> QED
    BY <1>3, <2>1, <2>2, <2>3, <2>4, <2>5, <2>6 DEF OldStep
<1>4. ASSUME NEW f \in Flow, \/ Look(f) \/ Close(f) \/ Approve(f) \/ Resume(f) \/ Discard(f)
                             \/ \E c \in Claim : Resolve(f, c)
      PROVE  FullInv'
  BY <1>1, <1>4 DEF Look, Close, Approve, Resume, Discard, Resolve
<1>5. CASE PutLate
  BY <1>2, <1>5 DEF PutLate
<1>6. CASE CleanUp
  BY <1>1, <1>6 DEF CleanUp, Gone
<1>7. ASSUME NEW a \in Archive, HardDeadline(a) PROVE FullInv'
  BY <1>1, <1>7 DEF HardDeadline
<1>8. ASSUME NEW a \in Archive, NEW i \in Chunk, Forget(a, i) PROVE FullInv'
  BY <1>0, <1>8 DEF Forget
<1>9. CASE \/ Fetch \/ CommitImport \/ Complete \/ Consume \/ NewReload \/ Reload
           \/ (\E c \in Claim : Request(c) \/ Expire(c)) \/ UNCHANGED vars
  BY <1>1, <1>9 DEF Fetch, CommitImport, Complete, Consume, NewReload, Reload, Request, Expire, vars
<1> QED
  BY <1>3, <1>4, <1>5, <1>6, <1>7, <1>8, <1>9 DEF Next, NewStep

\* Until the new device is done with it, an archive whose envelope the server holds
\* is complete and there, unless the answer to the verification was lost or two
\* approvals had taken it up: no upload, resumption, reclaim, late worker or approval
\* in the background reaches an archive that was handed over.
THEOREM HandOverHolds == Spec => []HandedOverIsComplete
<1>1. Init => NoneInv /\ HandInv /\ FullInv
  <2> SUFFICES ASSUME Init PROVE NoneInv /\ HandInv /\ FullInv
    OBVIOUS
  <2>1. \A a \in Archive : a # 0
    BY LinkAssumption DEF Archive
  <2>2. \A f \in Flow : /\ old[f].a = 0 /\ old[f].rec = 0 /\ old[f].todo = {} /\ old[f].listed = {}
    BY DEF Init, OldIdle
  <2>3. \A a \in Archive : row[a] = "none" /\ arch[a] = "none" /\ \A c \in Claim : env[c] = 0
    BY DEF Init
  <2>4. NoneInv
    BY <2>1, <2>2, <2>3 DEF NoneInv, Unnamed
  <2>5. HandInv
    BY <2>1, <2>2, <2>3 DEF HandInv, Solo, Alone, Unlisted, Unsent, OneEnvelope, Unfailed, Sealing, Sent
  <2> QED
    BY <2>3, <2>4, <2>5 DEF FullInv
<1>2. TypeInv /\ HandInv /\ FullInv => HandedOverIsComplete
  <2> SUFFICES ASSUME TypeInv, HandInv, FullInv, NEW c \in Claim, Promised(c)
               PROVE  \/ arch[env[c]] = "available" /\ held[env[c]] = Chunk
                      \/ Unsure(env[c])
    BY DEF HandedOverIsComplete, Promised, Unsure
  <2>1. env[c] \in Archive
    BY DEF Promised, TypeInv, NewType
  <2> QED
    BY <2>1 DEF HandInv, Solo, Sent, FullInv
<1> QED
  BY <1>1, <1>2, TypeInit, TypeNext, NoneNext, HandNext, FullNext, PTL DEF Spec

-----------------------------------------------------------------------------
(* The slot of the user.                                                     *)

\* Who knows of an archive: its row, the flow that has not recorded it, an envelope,
\* the new device; or the history says why nobody does.
FlowKnows(a) == \E f \in Flow : old[f].a = a /\ Unrecorded(f)
SentKnows(a) == \E c \in Claim : link[c] = "sealed" /\ env[c] = a
NewKnows(a)  == new.a = a /\ new.ph \in {"fetch", "imported", "clean"}
Known(a) == lost[a] # {} \/ row[a] # "none" \/ FlowKnows(a) \/ SentKnows(a) \/ NewKnows(a)
SlotInv == \A a \in Archive : Live(a) => Known(a)

\* What a step of a flow may do to an archive in the slot.
Tidy(f) ==
  /\ Only(f)
  /\ \A a \in Archive : Live(a)' => Live(a)
  /\ \A a \in Archive : Live(a)' /\ row[a] # "none" /\ row'[a] = "none" =>
       lost'[a] # {} \/ (old'[f].a = a /\ Unrecorded(f)')
  /\ \A a \in Archive : old[f].a = a /\ Live(a)' /\ Unrecorded(f) =>
       \/ old'[f].a = a /\ Unrecorded(f)'
       \/ row'[a] # "none" \/ lost'[a] # {}

LEMMA TidySlot ==
  ASSUME SlotInv, Longer, NEW f \in Flow, Tidy(f), UNCHANGED <<link, env, new>>
  PROVE  SlotInv'
<1> SUFFICES ASSUME NEW a \in Archive, Live(a)'
             PROVE  Known(a)'
  BY DEF SlotInv
<1>1. Known(a)
  BY DEF Tidy, SlotInv
<1>2. CASE lost[a] # {}
  BY <1>2 DEF Longer, Known
<1>3. CASE row[a] # "none"
  BY <1>3 DEF Tidy, Known, FlowKnows
<1>4. CASE FlowKnows(a)
  <2>1. PICK g \in Flow : old[g].a = a /\ Unrecorded(g)
    BY <1>4 DEF FlowKnows
  <2>2. CASE g = f
    BY <2>1, <2>2 DEF Tidy, Known, FlowKnows
  <2>3. CASE g # f
    BY <2>1, <2>3 DEF Tidy, Only, Unrecorded, Known, FlowKnows
  <2> QED
    BY <2>2, <2>3
<1>5. CASE SentKnows(a) \/ NewKnows(a)
  BY <1>5 DEF SentKnows, NewKnows, Known
<1> QED
  BY <1>1, <1>2, <1>3, <1>4, <1>5 DEF Known

\* An archive that only a flow knows of stays known while the flow goes on.
LEMMA GoesRecorded ==
  ASSUME NEW f \in Flow, TypeInv,
         \/ Goes(f, {"put"}) /\ old[f].ph = "put"
         \/ Goes(f, {"reput"}) /\ old[f].ph \in {"put", "reput", "probe"}
         \/ Goes(f, {"drop"}) /\ old[f].ph \in {"put", "reput", "probe", "mark"}
         \/ Goes(f, {"mark"}) /\ old[f].kept /\ old[f].ph \in {"put", "reput", "probe"}
         \/ Goes(f, {"verify"}) \/ Goes(f, {"undo"}) \/ Goes(f, {old[f].ph})
  PROVE  /\ Only(f)
         /\ Unrecorded(f) => Unrecorded(f)' /\ old'[f].a = old[f].a
  BY DEF Goes, Unrecorded

\* A flow that ends without having known of an archive alone is no loss.
LEMMA BrokenRecorded ==
  ASSUME NEW f \in Flow, TypeInv, Broken(f), old[f].ph \in {"put", "reput", "probe"}
  PROVE  /\ Only(f)
         /\ Unrecorded(f) => Unrecorded(f)' /\ old'[f].a = old[f].a
<1>1. CASE old[f].resume /\ Ceases(f)
  BY <1>1 DEF Ceases, Rests, Unrecorded
<1>2. CASE ~old[f].resume /\ old[f].kept /\ Goes(f, {"mark"})
  BY <1>2, GoesRecorded
<1>3. CASE ~old[f].resume /\ ~old[f].kept /\ Goes(f, {"drop"})
  BY <1>3, GoesRecorded
<1> QED
  BY <1>1, <1>2, <1>3 DEF Broken

\* The slot stays accounted for: whoever lets an archive go has handed it on, freed it,
\* or is named as the cause.
LEMMA SlotNext == TypeInv /\ SlotInv /\ [Next]_vars => SlotInv'
<1> SUFFICES ASSUME TypeInv, SlotInv, [Next]_vars PROVE SlotInv'
  OBVIOUS
<1> USE DEF server, relay, told
<1>0. Longer
  BY LongerNext
<1>1. ASSUME NEW f \in Flow, UNCHANGED <<link, env, new>>, Only(f), UNCHANGED <<arch, row>>,
             Unrecorded(f) => Unrecorded(f)' /\ old'[f].a = old[f].a
      PROVE  SlotInv'
  BY <1>0, <1>1, TidySlot DEF Tidy, Live
<1>2. ASSUME \A a \in Archive : Live(a)' => Live(a), UNCHANGED <<row, old>>,
             \A a \in Archive : Live(a)' /\ SentKnows(a) => Known(a)',
             \A a \in Archive : Live(a)' /\ NewKnows(a) => Known(a)'
      PROVE  SlotInv'
  <2>1. ASSUME NEW a \in Archive, Live(a)' PROVE Known(a)'
    <3>1. Known(a)
      BY <1>2, <2>1 DEF SlotInv
    <3>2. CASE lost[a] # {} \/ row[a] # "none" \/ FlowKnows(a)
      BY <1>0, <1>2, <3>2 DEF Longer, Known, FlowKnows, Unrecorded
    <3> QED
      BY <1>2, <2>1, <3>1, <3>2 DEF Known
  <2> QED
    BY <2>1 DEF SlotInv
<1>3. ASSUME NEW f \in Flow, NextWindow(f) \/ Retransmit(f) \/ \E i \in Chunk : Put(f, i)
      PROVE  SlotInv'
  <2>1. Only(f) /\ (Unrecorded(f) => Unrecorded(f)' /\ old'[f].a = old[f].a)
    BY <1>3, UploadFlow, GoesRecorded, BrokenRecorded
  <2> QED
    BY <1>1, <1>3, <2>1 DEF NextWindow, Retransmit, Put
<1>4. ASSUME NEW f \in Flow, List(f) PROVE SlotInv'
  <2>1. Only(f) /\ ~Unrecorded(f)
    BY <1>4, ListFlow DEF Ceases, Rests, Unrecorded
  <2> QED
    BY <1>1, <1>4, <2>1 DEF List
<1>5. ASSUME NEW f \in Flow, InitFails(f) PROVE SlotInv'
  <2>1. Only(f) /\ ~Unrecorded(f)
    BY <1>5, InitFailsFlow DEF Rests, Unrecorded
  <2> QED
    BY <1>1, <1>5, <2>1 DEF InitFails
<1>6. ASSUME NEW f \in Flow, Persist(f) PROVE SlotInv'
  <2>0. FlowOK(old[f]) /\ old[f].ph = "persist"
    BY <1>6 DEF TypeInv, FlowType, Persist, At
  <2>1. old[f].a \in Archive
    BY <2>0 DEF FlowOK, Waits
  <2>2. UNCHANGED <<link, env, new, arch, lost>>
    BY <1>6 DEF Persist
  <2>3. /\ Only(f) /\ old'[f].ph = "put" /\ old'[f].a = old[f].a /\ ~old'[f].resume
        /\ IF old'[f].kept THEN row' = [row EXCEPT ![old[f].a] = "open"] ELSE row' = row
    BY <1>6, PersistFlow
  <2>4. \A a \in Archive : row[a] # "none" => row'[a] # "none"
    <3>1. row' = row \/ row' = [row EXCEPT ![old[f].a] = "open"]
      BY <2>3
    <3> QED
      BY <2>1, <3>1 DEF TypeInv, ServerType
  <2>5. Unrecorded(f)' \/ row'[old[f].a] # "none"
    <3>1. CASE old'[f].kept
      BY <2>1, <2>3, <3>1 DEF TypeInv, ServerType
    <3>2. CASE ~old'[f].kept
      BY <2>3, <3>2 DEF Unrecorded
    <3> QED
      BY <3>1, <3>2
  <2>6. Tidy(f)
    BY <2>2, <2>3, <2>4, <2>5 DEF Tidy, Live
  <2> QED
    BY <1>0, <2>2, <2>6, TidySlot
<1>7. ASSUME NEW f \in Flow, Finalize(f) PROVE SlotInv'
  <2>0. /\ old[f].ph \in {"put", "reput", "probe"} /\ old[f].a \in Archive
        /\ Completed(f) \/ Incomplete(f) \/ Unanswered(f)
    BY <1>7, FinalizeFlow
  <2>1. UNCHANGED <<link, env, new, lost>>
    BY <1>7 DEF Finalize
  <2>2. Only(f)
    BY <2>0 DEF Completed, Incomplete, Unanswered, Broken, Ceases, Rests, Goes
  <2>3. \A a \in Archive : Live(a)' => Live(a)
    BY <2>0 DEF Completed, Incomplete, Unanswered, Available, Live, TypeInv, ServerType
  <2>4. \A a \in Archive : row[a] # "none" /\ row'[a] = "none" => row' = NoRow(old[f].a) /\ a = old[f].a
    BY <2>0 DEF Completed, Incomplete, Unanswered, NoRow, Dead, TypeInv, ServerType
  <2>5. ASSUME NEW a \in Archive, a = old[f].a, Live(a)'
        PROVE  /\ row' # NoRow(a) \/ row' = row \/ (Unrecorded(f)' /\ old'[f].a = a)
               /\ ~Unrecorded(f) \/ (Unrecorded(f)' /\ old'[f].a = a)
    <3>0. ~Unrecorded(f) \/ ~old[f].resume
      BY <2>0 DEF Unrecorded
    <3>1. CASE Completed(f)
      BY <2>5, <3>0, <3>1 DEF Completed, Goes, Unrecorded
    <3>2. CASE Incomplete(f)
      <4>1. Live(old[f].a)
        BY <2>3, <2>5
      <4>2. CASE row' = row /\ (Broken(f) \/ Goes(f, {"reput"}))
        BY <2>0, <2>5, <4>2, GoesRecorded, BrokenRecorded
      <4>3. CASE row' \in {row, Dead(old[f].a)} /\ old[f].resume /\ Ceases(f)
        <5>1. row' = NoRow(a) => row' = row
          BY <2>0, <2>5, <4>3 DEF NoRow, Dead, TypeInv, ServerType
        <5> QED
          BY <3>0, <4>3, <5>1
      <4> QED
        BY <3>2, <4>1, <4>2, <4>3 DEF Incomplete
    <3>3. CASE Unanswered(f)
      BY <2>0, <2>5, <3>0, <3>3, BrokenRecorded DEF Unanswered
    <3> QED
      BY <2>0, <3>1, <3>2, <3>3
  <2>7. Tidy(f)
    BY <2>0, <2>2, <2>3, <2>4, <2>5 DEF Tidy
  <2> QED
    BY <1>0, <2>1, <2>7, TidySlot
<1>8. ASSUME NEW f \in Flow, Mark(f) PROVE SlotInv'
  <2>1. \A a \in Archive : row[a] # "none" => row'[a] # "none"
    BY <1>8, MarkFlow DEF Dead, TypeInv, ServerType
  <2>2. /\ Only(f) /\ (Unrecorded(f) => Unrecorded(f)' /\ old'[f].a = old[f].a)
    BY <1>8, MarkFlow, GoesRecorded
  <2>3. UNCHANGED <<link, env, new, arch>>
    BY <1>8 DEF Mark
  <2>4. Tidy(f)
    BY <2>1, <2>2, <2>3 DEF Tidy, Live
  <2> QED
    BY <1>0, <2>3, <2>4, TidySlot
<1>9. ASSUME NEW f \in Flow, Drop(f) PROVE SlotInv'
  <2>1. Only(f) /\ old[f].ph \in {"drop", "undo"} /\ old[f].a \in Archive
    BY <1>9, DropFlow DEF Ceases, Rests
  <2>2. UNCHANGED <<link, env, new, row>>
    BY <1>9 DEF Drop
  <2>3. \A a \in Archive : Live(a)' => Live(a)
    BY <1>9 DEF Drop, Gone, Live, TypeInv, ServerType
  <2>4. ASSUME NEW a \in Archive, a = old[f].a, Live(a)', Unrecorded(f) PROVE lost'[a] # {}
    <3>1. arch' # Gone(a)
      BY <2>4 DEF Gone, Live, TypeInv, ServerType
    <3>2. ~(At(f, "drop") /\ old[f].kept)
      BY <2>1, <2>4 DEF At, Unrecorded
    <3>3. Lose(a, "delete")
      BY <1>9, <2>4, <3>1, <3>2 DEF Drop
    <3> QED
      BY <3>3 DEF Lose, TypeInv, ServerType
  <2>5. Tidy(f)
    BY <2>1, <2>2, <2>3, <2>4 DEF Tidy
  <2> QED
    BY <1>0, <2>2, <2>5, TidySlot
<1>10. ASSUME NEW f \in Flow, Verify(f) PROVE SlotInv'
  <2>0. /\ old[f].ph = "verify" /\ old[f].a \in Archive /\ old[f].c \in Claim
        /\ UNCHANGED <<new, arch, row>>
    BY <1>10, VerifyFlow DEF Verify
  <2>1. CASE Goes(f, {"undo"}) /\ UNCHANGED relay
    <3>1. Only(f) /\ (Unrecorded(f) => Unrecorded(f)' /\ old'[f].a = old[f].a)
      BY <2>1, GoesRecorded
    <3> QED
      BY <1>1, <2>0, <2>1, <3>1
  <2>2. CASE Ceases(f) /\ UNCHANGED relay /\ Lose(old[f].a, "throws")
    <3>1. lost'[old[f].a] # {}
      BY <2>0, <2>2 DEF Lose, TypeInv, ServerType
    <3>2. Tidy(f)
      BY <2>0, <2>2, <3>1 DEF Tidy, Live, Ceases, Rests
    <3> QED
      BY <1>0, <2>0, <2>2, <3>2, TidySlot
  <2>3. CASE Deposit(f) /\ (Ceases(f) \/ Goes(f, {"undo"}))
    <3>1. Only(f)
      BY <2>3 DEF Ceases, Rests, Goes
    <3>2. /\ link[old[f].c] = "claimed" /\ link'[old[f].c] = "sealed" /\ env'[old[f].c] = old[f].a
          /\ \A d \in Claim : d # old[f].c => link'[d] = link[d] /\ env'[d] = env[d]
      BY <2>0, <2>3 DEF Deposit, TypeInv, ServerType
    <3>3. ASSUME NEW a \in Archive, Live(a)' PROVE Known(a)'
      <4>0. Live(a)
        BY <2>0, <3>3 DEF Live
      <4>1. CASE a = old[f].a
        BY <2>0, <3>2, <4>1 DEF Known, SentKnows
      <4>2. CASE a # old[f].a
        <5>1. Known(a)
          BY <4>0 DEF SlotInv
        <5>2. FlowKnows(a) => FlowKnows(a)'
          BY <3>1, <4>2 DEF FlowKnows, Only, Unrecorded
        <5>3. SentKnows(a) => SentKnows(a)'
          <6> SUFFICES ASSUME NEW d \in Claim, link[d] = "sealed", env[d] = a
                       PROVE  link'[d] = "sealed" /\ env'[d] = a
            BY DEF SentKnows
          <6> QED
            BY <3>2
        <5>4. NewKnows(a) => NewKnows(a)'
          BY <2>0 DEF NewKnows
        <5> QED
          BY <1>0, <2>0, <5>1, <5>2, <5>3, <5>4 DEF Known, Longer
      <4> QED
        BY <4>1, <4>2
    <3> QED
      BY <3>3 DEF SlotInv
  <2> QED
    BY <1>10, <2>1, <2>2, <2>3, VerifyFlow
<1>11. ASSUME NEW f \in Flow, NEW b \in Archive, Reclaim(f, b) PROVE SlotInv'
  <2>0. Only(f) /\ ~Unrecorded(f)
    BY <1>11, ReclaimFlow DEF Unrecorded
  <2>1. UNCHANGED <<link, env, new>>
    BY <1>11 DEF Reclaim
  <2>2. \A a \in Archive : Live(a)' => Live(a)
    BY <1>11 DEF Reclaim, Gone, Live, TypeInv, ServerType
  <2>3. \A a \in Archive : row[a] # "none" /\ row'[a] = "none" => ~Live(a)'
    BY <1>11 DEF Reclaim, Gone, Live, TypeInv, ServerType
  <2>4. Tidy(f)
    BY <2>0, <2>2, <2>3 DEF Tidy
  <2> QED
    BY <1>0, <2>1, <2>4, TidySlot
<1>12. ASSUME NEW f \in Flow, NEW b \in Archive, InitArchive(f, b) PROVE SlotInv'
  <2>1. UNCHANGED <<link, env, new, row>>
    BY <1>12 DEF InitArchive
  <2>2. \A a \in Archive : a # b /\ Live(a)' => Live(a)
    BY <1>12 DEF InitArchive, Live, TypeInv, ServerType
  <2>3. Only(f) /\ ~Unrecorded(f)
    BY <1>12, InitFlow DEF Unrecorded, Ceases, Rests
  <2>4. Known(b)'
    <3>1. CASE Ceases(f) /\ Lose(b, "answer")
      BY <3>1 DEF Lose, Known, TypeInv, ServerType
    <3>2. CASE old'[f].ph = "persist" /\ old'[f].a = b
      BY <3>2 DEF Known, FlowKnows, Unrecorded
    <3> QED
      BY <1>12, <3>1, <3>2, InitFlow
  <2>5. ASSUME NEW a \in Archive, a # b, Live(a)' PROVE Known(a)'
    <3>1. Known(a)
      BY <2>2, <2>5 DEF SlotInv
    <3>2. FlowKnows(a) => FlowKnows(a)'
      BY <2>3 DEF FlowKnows, Only, Unrecorded
    <3> QED
      BY <1>0, <2>1, <3>1, <3>2 DEF Known, Longer, SentKnows, NewKnows
  <2> QED
    BY <2>4, <2>5 DEF SlotInv
<1>13. ASSUME NEW f \in Flow, Look(f) \/ Close(f) \/ Approve(f) PROVE SlotInv'
  <2>1. UNCHANGED <<link, env, new, arch, row>>
    BY <1>13 DEF Look, Close, Approve
  <2>2. Only(f) /\ (Unrecorded(f) => Unrecorded(f)' /\ old'[f].a = old[f].a)
    <3>1. CASE Goes(f, {old[f].ph})
      BY <3>1, GoesRecorded
    <3>2. CASE Only(f) /\ old[f].ph \in {"off", "choose"}
      BY <3>2 DEF Unrecorded
    <3> QED
      BY <1>13, <3>1, <3>2, LookFlow, CloseFlow, ApproveFlow DEF Ceases, Rests
  <2> QED
    BY <1>1, <2>1, <2>2
<1>14. ASSUME NEW f \in Flow, Resume(f) PROVE SlotInv'
  <2>1. Only(f) /\ ~Unrecorded(f)
    BY <1>14, ResumeFlow DEF Unrecorded
  <2> QED
    BY <1>1, <1>14, <2>1 DEF Resume
<1>15. ASSUME NEW f \in Flow, Discard(f) PROVE SlotInv'
  <2>0. old[f].rec \in Archive /\ old[f].ph = "choose" /\ Only(f)
    BY <1>15, DiscardFlow DEF Goes
  <2>1. UNCHANGED <<link, env, new, arch>>
    BY <1>15 DEF Discard
  <2>2. \A a \in Archive : row[a] # "none" /\ row'[a] = "none" => lost'[a] # {}
    <3>1. PICK r \in Archive : r = old[f].rec
      BY <2>0
    <3>2. row' = row \/ (row' = [row EXCEPT ![r] = "none"] /\ Lose(r, "discard"))
      BY <1>15, <3>1 DEF Discard
    <3> QED
      BY <3>2 DEF Lose, TypeInv, ServerType
  <2>3. Tidy(f)
    BY <2>0, <2>1, <2>2 DEF Tidy, Live, Unrecorded
  <2> QED
    BY <1>0, <2>1, <2>3, TidySlot
<1>16. ASSUME NEW f \in Flow, NEW c \in Claim, Resolve(f, c) PROVE SlotInv'
  <2>0. Only(f) /\ old[f].ph = "off" /\ UNCHANGED <<env, new, arch>>
    BY <1>16, ResolveFlow DEF Resolve, Ceases, Rests, At
  <2>1. \A a \in Archive : Live(a) /\ row[a] # "none" => row'[a] # "none"
    BY <1>16, ResolveFlow DEF Sweep, Live
  <2>2. \A d \in Claim : link[d] = "sealed" => link'[d] = "sealed"
    BY <1>16 DEF Resolve, TypeInv, ServerType
  <2>3. ASSUME NEW a \in Archive, Live(a)' PROVE Known(a)'
    <3>1. Live(a) /\ Known(a)
      BY <2>0, <2>3 DEF Live, SlotInv
    <3>2. FlowKnows(a) => FlowKnows(a)'
      BY <2>0 DEF FlowKnows, Only, Unrecorded
    <3> QED
      BY <1>0, <2>0, <2>1, <2>2, <3>1, <3>2 DEF Known, Longer, SentKnows, NewKnows
  <2> QED
    BY <2>3 DEF SlotInv
<1>17. CASE Reload
  <2>1. UNCHANGED <<link, env, new, arch, row>>
    BY <1>17 DEF Reload
  <2>2. ASSUME NEW a \in Archive, Live(a)' PROVE Known(a)'
    <3>1. Known(a)
      BY <2>1, <2>2 DEF Live, SlotInv
    <3>2. FlowKnows(a) => lost'[a] # {}
      BY <1>17 DEF Reload, FlowKnows
    <3> QED
      BY <1>0, <2>1, <3>1, <3>2 DEF Known, Longer, SentKnows, NewKnows
  <2> QED
    BY <2>2 DEF SlotInv
<1>18. CASE CleanUp
  <2>0. new.a \in Archive /\ UNCHANGED <<row, old, link, env>>
    BY <1>18 DEF CleanUp, TypeInv, NewType
  <2>1. arch' = Gone(new.a) \/ (lost'[new.a] # {} /\ arch' \in {arch, Gone(new.a)})
    BY <1>18, <2>0 DEF CleanUp, Lose, TypeInv, ServerType
  <2>2. \A a \in Archive : Live(a)' => Live(a)
    BY <2>0, <2>1 DEF Gone, Live, TypeInv, ServerType
  <2>4. ASSUME NEW a \in Archive, Live(a)', NewKnows(a) PROVE Known(a)'
    <3>1. a = new.a /\ arch' # Gone(a)
      BY <2>4 DEF NewKnows, Gone, Live, TypeInv, ServerType
    <3> QED
      BY <2>1, <3>1 DEF Known
  <2>5. \A a \in Archive : SentKnows(a) => Known(a)'
    BY <2>0 DEF SentKnows, Known
  <2> QED
    BY <1>2, <2>0, <2>2, <2>4, <2>5
<1>19. ASSUME NEW b \in Archive, HardDeadline(b) PROVE SlotInv'
  <2>1. UNCHANGED <<row, old, link, env, new>>
    BY <1>19 DEF HardDeadline
  <2>2. \A a \in Archive : Live(a)' => Live(a)
    BY <1>19 DEF HardDeadline, Live, TypeInv, ServerType
  <2> QED
    BY <1>2, <2>1, <2>2 DEF SentKnows, NewKnows, Known
<1>20. ASSUME NEW c \in Claim, Expire(c) PROVE SlotInv'
  <2>0. UNCHANGED <<row, old, arch, env>> /\ link' = [link EXCEPT ![c] = "expired"]
    BY <1>20 DEF Expire
  <2>1. \A a \in Archive : Live(a)' => Live(a)
    BY <2>0 DEF Live
  <2>2. ASSUME NEW a \in Archive, SentKnows(a) PROVE Known(a)'
    <3>1. PICK d \in Claim : link[d] = "sealed" /\ env[d] = a
      BY <2>2 DEF SentKnows
    <3>2. CASE d = c
      <4>1. Lose(a, "unclaimed")
        BY <1>20, <3>1, <3>2 DEF Expire
      <4> QED
        BY <4>1 DEF Lose, Known, TypeInv, ServerType
    <3>3. CASE d # c
      BY <2>0, <3>1, <3>3 DEF Known, SentKnows, TypeInv, ServerType
    <3> QED
      BY <3>2, <3>3
  <2>3. ASSUME NEW a \in Archive, NewKnows(a) PROVE Known(a)'
    <3>1. new' = new
      BY <1>20, <2>3 DEF Expire, NewKnows
    <3> QED
      BY <2>3, <3>1 DEF NewKnows, Known
  <2> QED
    BY <1>2, <2>0, <2>1, <2>2, <2>3
<1>21. ASSUME NEW c \in Claim, Request(c) PROVE SlotInv'
  <2>0. UNCHANGED <<row, old, arch, env>> /\ link' = [link EXCEPT ![c] = "open"] /\ link[c] = "none"
    BY <1>21 DEF Request
  <2>1. \A a \in Archive : Live(a)' => Live(a)
    BY <2>0 DEF Live
  <2>2. \A a \in Archive : SentKnows(a) => Known(a)'
    BY <2>0 DEF SentKnows, Known, TypeInv, ServerType
  <2>3. \A a \in Archive : ~NewKnows(a)
    BY <1>21 DEF Request, NewKnows
  <2> QED
    BY <1>2, <2>0, <2>1, <2>2, <2>3
<1>22. CASE Consume
  <2>0. /\ UNCHANGED <<row, old, arch, env>> /\ new.c \in Claim /\ link[new.c] = "sealed"
        /\ link' = [link EXCEPT ![new.c] = "taken"] /\ new.ph = "poll" /\ env[new.c] \in Archive
    BY <1>22 DEF Consume, TypeInv, NewType
  <2>1. \A a \in Archive : Live(a)' => Live(a)
    BY <2>0 DEF Live
  <2>3. ASSUME NEW a \in Archive, SentKnows(a) PROVE Known(a)'
    <3>1. PICK d \in Claim : link[d] = "sealed" /\ env[d] = a
      BY <2>3 DEF SentKnows
    <3>2. CASE d # new.c
      BY <2>0, <3>1, <3>2 DEF Known, SentKnows, TypeInv, ServerType
    <3>3. CASE d = new.c
      <4>1. PICK e \in Archive : e = env[new.c]
        BY <2>0
      <4>2. env' = env /\ e = a
        BY <2>0, <3>1, <3>3, <4>1
      <4>3. CASE new' = [new EXCEPT !.ph = "fetch", !.a = env[new.c]]
        <5>1. new'.ph = "fetch" /\ new'.a = a
          BY <4>1, <4>2, <4>3 DEF TypeInv, NewType, NewSet
        <5> QED
          BY <5>1 DEF Known, NewKnows
      <4>4. CASE Lose(env[new.c], "unclaimed")
        BY <4>1, <4>2, <4>4 DEF Lose, Known, TypeInv, ServerType
      <4> QED
        BY <1>22, <4>3, <4>4 DEF Consume
    <3> QED
      BY <3>2, <3>3
  <2>4. \A a \in Archive : ~NewKnows(a)
    BY <2>0 DEF NewKnows
  <2> QED
    BY <1>2, <2>0, <2>1, <2>3, <2>4
<1>23. CASE Fetch \/ CommitImport
  <2>0. UNCHANGED <<row, old, arch, env, link>>
    BY <1>23 DEF Fetch, CommitImport
  <2>1. \A a \in Archive : Live(a)' => Live(a)
    BY <2>0 DEF Live
  <2>2. \A a \in Archive : SentKnows(a) => Known(a)'
    BY <2>0 DEF SentKnows, Known
  <2>3. new'.a = new.a /\ new'.ph \in {"fetch", "imported", "clean"}
    <3>0. new \in NewSet /\ new.ph = "fetch"
      BY <1>23 DEF Fetch, CommitImport, TypeInv, NewType
    <3>1. CASE Fetch
      BY <3>0, <3>1 DEF Fetch, NewSet
    <3>2. CASE CommitImport
      BY <3>0, <3>2 DEF CommitImport, NewSet
    <3> QED
      BY <1>23, <3>1, <3>2
  <2>4. \A a \in Archive : NewKnows(a) => Known(a)'
    BY <2>3 DEF NewKnows, Known
  <2> QED
    BY <1>2, <2>0, <2>1, <2>2, <2>4
<1>24. CASE NewReload
  <2>0. UNCHANGED <<row, old, arch, env, link>>
    BY <1>24 DEF NewReload
  <2>1. \A a \in Archive : Live(a)' => Live(a)
    BY <2>0 DEF Live
  <2>2. \A a \in Archive : SentKnows(a) => Known(a)'
    BY <2>0 DEF SentKnows, Known
  <2>3. ASSUME NEW a \in Archive, NewKnows(a) PROVE Known(a)'
    <3>1. Lose(a, "reload")
      BY <1>24, <2>3 DEF NewReload, NewKnows
    <3> QED
      BY <3>1 DEF Lose, Known, TypeInv, ServerType
  <2> QED
    BY <1>2, <2>0, <2>1, <2>2, <2>3
<1>25. CASE \/ Complete \/ PutLate \/ (\E a \in Archive, i \in Chunk : Forget(a, i)) \/ UNCHANGED vars
  <2>0. UNCHANGED <<row, old, arch, env, link>>
    BY <1>25 DEF Complete, PutLate, Forget, vars
  <2>1. \A a \in Archive : Live(a)' => Live(a)
    BY <2>0 DEF Live
  <2>2. \A a \in Archive : SentKnows(a) => Known(a)'
    BY <2>0 DEF SentKnows, Known
  <2>3. \A a \in Archive : NewKnows(a) => Known(a)'
    BY <1>25 DEF Complete, PutLate, Forget, vars, NewKnows, Known
  <2> QED
    BY <1>2, <2>0, <2>1, <2>2, <2>3
<1> QED
  BY <1>3, <1>4, <1>5, <1>6, <1>7, <1>8, <1>9, <1>10, <1>11, <1>12, <1>13, <1>14, <1>15, <1>16,
     <1>17, <1>18, <1>19, <1>20, <1>21, <1>22, <1>23, <1>24, <1>25 DEF Next, OldStep, NewStep

\* Who knows of an archive can free it.
LEMMA KnownAccounted ==
  ASSUME TypeInv, NEW a \in Archive, Known(a), lost[a] = {}
  PROVE  Accounted(a)
<1>1. row[a] # "none" => row[a] \in {"open", "dead"}
  BY DEF TypeInv, ServerType
<1>2. FlowKnows(a) => \E f \in Flow : AtWork(f) /\ old[f].a = a
  BY DEF FlowKnows, Unrecorded, AtWork
<1> QED
  BY <1>1, <1>2 DEF Known, SentKnows, NewKnows, Accounted

\* An archive in the slot is somebody's to free, or the history names the cause, for
\* any number of approvals in the background, requests, windows and faults.
THEOREM SlotHolds == Spec => []SlotIsAccountedFor
<1>1. Init => SlotInv
  BY DEF Init, SlotInv, Live
<1>2. TypeInv /\ SlotInv => SlotIsAccountedFor
  BY KnownAccounted DEF SlotInv, SlotIsAccountedFor
<1> QED
  BY <1>1, <1>2, TypeInit, TypeNext, SlotNext, PTL DEF Spec

-----------------------------------------------------------------------------
(* A fresh approval and what it reclaims.                                    *)

\* A failed transfer whose row an approval could list, once it was tried, is freed or
\* the history names the cause.
Tried(f) == old[f].listed \ old[f].todo
ListInv == \A f \in Flow : \A a \in Archive : a \in Tried(f) => ~Live(a) \/ lost[a] # {}

LEMMA ListKeeps ==
  ASSUME NoneInv, ListInv, Longer, NEW f \in Flow, Only(f),
         \A a \in Archive : Live(a)' => Live(a) \/ arch[a] = "none",
         \A a \in Archive : a \in Tried(f)' => a \in Tried(f) \/ ~Live(a)' \/ lost'[a] # {}
  PROVE  ListInv'
<1> SUFFICES ASSUME NEW g \in Flow, NEW a \in Archive, a \in Tried(g)', Live(a)'
             PROVE  lost'[a] # {}
  BY DEF ListInv
<1>1. CASE a \in Tried(g)
  <2>1. Live(a)
    BY <1>1 DEF NoneInv, Unnamed, Tried
  <2> QED
    BY <1>1, <2>1 DEF ListInv, Longer
<1>2. CASE a \notin Tried(g)
  <2>1. g = f
    BY <1>2 DEF Only, Tried
  <2> QED
    BY <1>2, <2>1
<1> QED
  BY <1>1, <1>2

\* The list of the failed transfers is inductive: each is tried before the allocation.
LEMMA ListNext == TypeInv /\ NoneInv /\ ListInv /\ [Next]_vars => ListInv'
<1> SUFFICES ASSUME TypeInv, NoneInv, ListInv, [Next]_vars PROVE ListInv'
  OBVIOUS
<1> USE DEF server, relay, told
<1>0. Longer
  BY LongerNext
<1>1. ASSUME NEW f \in Flow, Only(f), FlowOK(old'[f]), old'[f].ph # "reclaim",
             \A a \in Archive : Live(a)' => Live(a) \/ arch[a] = "none"
      PROVE  ListInv'
  <2>1. old'[f].listed = {}
    BY <1>1 DEF FlowOK
  <2>2. \A a \in Archive : a \notin Tried(f)'
    BY <2>1 DEF Tried
  <2> QED
    BY <1>0, <1>1, <2>2, ListKeeps
<1>2. ASSUME NEW f \in Flow, NEW P, Goes(f, P),
             \A a \in Archive : Live(a)' => Live(a) \/ arch[a] = "none"
      PROVE  ListInv'
  <2>1. Only(f) /\ \A a \in Archive : a \in Tried(f)' => a \in Tried(f)
    BY <1>2 DEF Goes, Tried
  <2> QED
    BY <1>0, <1>2, <2>1, ListKeeps
<1>3. ASSUME NEW f \in Flow, Ceases(f) \/ Broken(f) \/ Rests(f, {"off", "choose"}) \/ Rests(f, {"list"}),
             \A a \in Archive : Live(a)' => Live(a) \/ arch[a] = "none"
      PROVE  ListInv'
  BY <1>1, <1>2, <1>3 DEF Broken, Ceases, Rests
<1>4. ASSUME UNCHANGED old, \A a \in Archive : Live(a)' => Live(a)
      PROVE  ListInv'
  BY <1>0, <1>4 DEF ListInv, Tried, Longer
<1>5. ASSUME NEW f \in Flow, NextWindow(f) \/ Retransmit(f) \/ \E i \in Chunk : Put(f, i)
      PROVE  ListInv'
  <2>1. \A a \in Archive : Live(a)' => Live(a)
    BY <1>5 DEF NextWindow, Retransmit, Put, Live
  <2> QED
    BY <1>2, <1>3, <1>5, <2>1, UploadFlow
<1>6. ASSUME NEW f \in Flow, List(f) PROVE ListInv'
  <2>1. \A a \in Archive : Live(a)' => Live(a)
    BY <1>6 DEF List, Live
  <2>2. CASE Ceases(f)
    BY <1>3, <2>1, <2>2
  <2>3. CASE Only(f) /\ old'[f].listed = old'[f].todo
    <3>1. \A a \in Archive : a \notin Tried(f)'
      BY <2>3 DEF Tried
    <3> QED
      BY <1>0, <2>1, <2>3, <3>1, ListKeeps
  <2> QED
    BY <1>6, <2>2, <2>3, ListFlow
<1>7. ASSUME NEW f \in Flow, InitFails(f) PROVE ListInv'
  <2>1. \A a \in Archive : Live(a)' => Live(a)
    BY <1>7 DEF InitFails, Live
  <2> QED
    BY <1>3, <1>7, <2>1, InitFailsFlow
<1>8. ASSUME NEW f \in Flow, Persist(f) PROVE ListInv'
  <2>1. \A a \in Archive : Live(a)' => Live(a)
    BY <1>8 DEF Persist, Live
  <2> QED
    BY <1>1, <1>8, <2>1, PersistFlow
<1>9. ASSUME NEW f \in Flow, Finalize(f) PROVE ListInv'
  <2>1. \A a \in Archive : Live(a)' => Live(a)
    BY <1>9, FinalizeFlow DEF Completed, Incomplete, Unanswered, Available, Live, TypeInv, ServerType
  <2> QED
    BY <1>2, <1>3, <1>9, <2>1, FinalizeFlow DEF Completed, Incomplete, Unanswered
<1>10. ASSUME NEW f \in Flow, Mark(f) PROVE ListInv'
  <2>1. \A a \in Archive : Live(a)' => Live(a)
    BY <1>10 DEF Mark, Live
  <2> QED
    BY <1>2, <1>10, <2>1, MarkFlow
<1>11. ASSUME NEW f \in Flow, Drop(f) PROVE ListInv'
  <2>1. \A a \in Archive : Live(a)' => Live(a)
    BY <1>11 DEF Drop, Gone, Live, TypeInv, ServerType
  <2> QED
    BY <1>3, <1>11, <2>1, DropFlow
<1>12. ASSUME NEW f \in Flow, Verify(f) PROVE ListInv'
  <2>1. \A a \in Archive : Live(a)' => Live(a)
    BY <1>12 DEF Verify, Live
  <2> QED
    BY <1>2, <1>3, <1>12, <2>1, VerifyFlow
<1>13. ASSUME NEW f \in Flow, NEW b \in Archive, Reclaim(f, b) PROVE ListInv'
  <2>1. \A a \in Archive : Live(a)' => Live(a)
    BY <1>13 DEF Reclaim, Gone, Live, TypeInv, ServerType
  <2>2. ~Live(b)' \/ lost'[b] # {}
    <3>1. CASE arch' = Gone(b)
      BY <3>1 DEF Gone, Live, TypeInv, ServerType
    <3>2. CASE Lose(b, "blocked")
      BY <3>2 DEF Lose, TypeInv, ServerType
    <3> QED
      BY <1>13, <3>1, <3>2 DEF Reclaim
  <2>3. \A a \in Archive : a \in Tried(f)' => a \in Tried(f) \/ a = b
    BY <1>13, ReclaimFlow DEF Tried
  <2> QED
    BY <1>0, <1>13, <2>1, <2>2, <2>3, ListKeeps, ReclaimFlow
<1>14. ASSUME NEW f \in Flow, NEW b \in Archive, InitArchive(f, b) PROVE ListInv'
  <2>1. \A a \in Archive : Live(a)' => Live(a) \/ arch[a] = "none"
    BY <1>14 DEF InitArchive, Allocate, Live, TypeInv, ServerType
  <2> QED
    BY <1>1, <1>3, <1>14, <2>1, InitFlow
<1>15. ASSUME NEW f \in Flow, Look(f) \/ Close(f) \/ Approve(f) \/ Discard(f) PROVE ListInv'
  <2>1. \A a \in Archive : Live(a)' => Live(a)
    BY <1>15 DEF Look, Close, Approve, Discard, Live
  <2> QED
    BY <1>2, <1>3, <1>15, <2>1, LookFlow, CloseFlow, ApproveFlow, DiscardFlow
<1>16. ASSUME NEW f \in Flow, Resume(f) PROVE ListInv'
  <2>1. \A a \in Archive : Live(a)' => Live(a)
    BY <1>16 DEF Resume, Live
  <2> QED
    BY <1>1, <1>16, <2>1, ResumeFlow
<1>17. ASSUME NEW f \in Flow, NEW c \in Claim, Resolve(f, c) PROVE ListInv'
  <2>1. \A a \in Archive : Live(a)' => Live(a)
    BY <1>17 DEF Resolve, Live
  <2> QED
    BY <1>3, <1>17, <2>1, ResolveFlow
<1>18. CASE Reload
  <2>1. \A f \in Flow : old'[f].listed = {}
    BY <1>18 DEF Reload, OldIdle
  <2> QED
    BY <2>1 DEF ListInv, Tried
<1>19. CASE CleanUp
  <2>1. arch' \in {arch, Gone(new.a)} /\ UNCHANGED old
    BY <1>19 DEF CleanUp
  <2>2. \A a \in Archive : Live(a)' => Live(a)
    BY <2>1 DEF Gone, Live, TypeInv, ServerType
  <2> QED
    BY <1>4, <2>1, <2>2
<1>20. ASSUME NEW a \in Archive, HardDeadline(a) PROVE ListInv'
  <2>1. \A b \in Archive : Live(b)' => Live(b)
    BY <1>20 DEF HardDeadline, Live, TypeInv, ServerType
  <2> QED
    BY <1>4, <1>20, <2>1 DEF HardDeadline
<1>21. CASE \/ Fetch \/ CommitImport \/ Complete \/ Consume \/ NewReload \/ PutLate
            \/ (\E c \in Claim : Request(c) \/ Expire(c))
            \/ (\E a \in Archive, i \in Chunk : Forget(a, i)) \/ UNCHANGED vars
  BY <1>4, <1>21 DEF Fetch, CommitImport, Complete, Consume, NewReload, PutLate, Request, Expire,
     Forget, Live, vars
<1> QED
  BY <1>5, <1>6, <1>7, <1>8, <1>9, <1>10, <1>11, <1>12, <1>13, <1>14, <1>15, <1>16, <1>17, <1>18,
     <1>19, <1>20, <1>21 DEF Next, OldStep, NewStep

\* Only an answer to an allocation refuses the slot, and only while it is taken.
LEMMA RefusedStep ==
  ASSUME TypeInv, [Next]_vars, NEW f \in Flow, old'[f].refused, ~old[f].refused
  PROVE  old[f].ph = "reclaim" /\ old[f].todo = {} /\ \E a \in Archive : Live(a)
<1> DEFINE Goal == old[f].ph = "reclaim" /\ old[f].todo = {} /\ \E a \in Archive : Live(a)
<1>1. ASSUME NEW g \in Flow, Only(g) PROVE g = f
  BY <1>1 DEF Only
<1>2. ASSUME NEW g \in Flow, Only(g), old'[g].refused => old[g].refused PROVE FALSE
  BY <1>1, <1>2
<1>3. ASSUME NEW g \in Flow, NEW P, Goes(g, P) PROVE FALSE
  BY <1>2, <1>3 DEF Goes
<1>4. ASSUME NEW g \in Flow, Ceases(g) \/ Broken(g) PROVE FALSE
  BY <1>2, <1>3, <1>4 DEF Ceases, Rests, Broken
<1>5. ASSUME NEW g \in Flow, OldStep(g) PROVE Goal
  <2>1. CASE NextWindow(g) \/ Retransmit(g) \/ \E i \in Chunk : Put(g, i)
    BY <1>3, <1>4, <2>1, UploadFlow
  <2>2. CASE List(g)
    BY <1>2, <1>4, <2>2, ListFlow
  <2>3. CASE Persist(g)
    BY <1>2, <2>3, PersistFlow
  <2>4. CASE Finalize(g)
    BY <1>3, <1>4, <2>4, FinalizeFlow DEF Completed, Incomplete, Unanswered
  <2>5. CASE Mark(g) \/ Drop(g) \/ Verify(g)
    BY <1>3, <1>4, <2>5, MarkFlow, DropFlow, VerifyFlow
  <2>6. ASSUME NEW b \in Archive, Reclaim(g, b) PROVE FALSE
    BY <1>2, <2>6, ReclaimFlow
  <2>7. ASSUME NEW b \in Archive, InitArchive(g, b) PROVE FALSE
    BY <1>2, <1>4, <2>7, InitFlow
  <2>8. CASE InitFails(g)
    <3>1. g = f
      BY <1>1, <2>8, InitFailsFlow DEF Rests
    <3> QED
      BY <2>8, <3>1, InitFailsFlow
  <2> QED
    BY <1>5, <2>1, <2>2, <2>3, <2>4, <2>5, <2>6, <2>7, <2>8 DEF OldStep
<1>6. ASSUME NEW g \in Flow, Look(g) \/ Close(g) \/ Approve(g) \/ Resume(g) \/ Discard(g) PROVE FALSE
  BY <1>2, <1>3, <1>4, <1>6, LookFlow, CloseFlow, ApproveFlow, ResumeFlow, DiscardFlow DEF Rests
<1>7. ASSUME NEW g \in Flow, NEW c \in Claim, Resolve(g, c) PROVE FALSE
  BY <1>4, <1>7, ResolveFlow
<1>8. CASE Reload
  BY <1>8, IdleOK DEF Reload
<1>9. CASE UNCHANGED old
  BY <1>9
<1> QED
  BY <1>5, <1>6, <1>7, <1>8, <1>9 DEF Next, NewStep, Fetch, CommitImport, CleanUp, Complete,
     Request, Expire, Consume, NewReload, PutLate, HardDeadline, Forget, vars

\* A fresh approval is refused for an occupied slot only while another link is in
\* progress or after a named cause, however many transfers failed before and went on
\* in the background: what could be listed was freed or its history says why not.
THEOREM RetriesAreNotRefused == Spec => RetryIsNotRefused
<1> DEFINE Inv == TypeInv /\ NoneInv /\ SlotInv /\ ListInv
           Step == \A f \in Flow :
                     old'[f].refused /\ ~old[f].refused
                     => \E a \in Archive : Live(a) /\ (lost[a] # {} \/ (Accounted(a) /\ a \notin old[f].listed))
<1>1. Init => Inv
  <2> SUFFICES ASSUME Init PROVE Inv
    OBVIOUS
  <2>1. \A f \in Flow : /\ old[f].a = 0 /\ old[f].rec = 0 /\ old[f].todo = {} /\ old[f].listed = {}
    BY DEF Init, OldIdle
  <2>2. \A a \in Archive : row[a] = "none" /\ arch[a] = "none" /\ a # 0 /\ \A c \in Claim : env[c] = 0
    BY LinkAssumption DEF Init, Archive
  <2>3. NoneInv
    BY <2>1, <2>2 DEF NoneInv, Unnamed
  <2>4. SlotInv /\ ListInv
    BY <2>1, <2>2 DEF SlotInv, ListInv, Tried, Live
  <2> QED
    BY <2>3, <2>4, TypeInit
<1>2. Inv /\ [Next]_vars => Inv'
  BY TypeNext, NoneNext, SlotNext, ListNext
<1>3. Inv /\ [Next]_vars => Step
  <2> SUFFICES ASSUME Inv, [Next]_vars, NEW f \in Flow, old'[f].refused, ~old[f].refused
               PROVE  \E a \in Archive :
                        Live(a) /\ (lost[a] # {} \/ (Accounted(a) /\ a \notin old[f].listed))
    OBVIOUS
  <2>1. PICK a \in Archive : Live(a)
    BY RefusedStep
  <2>2. old[f].todo = {}
    BY RefusedStep
  <2>3. a \in old[f].listed => lost[a] # {}
    BY <2>1, <2>2 DEF ListInv, Tried
  <2>4. Known(a)
    BY <2>1 DEF SlotInv
  <2>5. lost[a] = {} => Accounted(a)
    BY <2>4, KnownAccounted
  <2> QED
    BY <2>1, <2>3, <2>5
<1> QED
  BY <1>1, <1>2, <1>3, PTL DEF Spec, RetryIsNotRefused
=============================================================================

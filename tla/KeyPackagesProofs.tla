-------------------------- MODULE KeyPackagesProofs --------------------------
(***************************************************************************)
(* What holds of the MLS store and of the key packages for any number of   *)
(* groups, stores and calls, whatever fails and however often the page is  *)
(* loaded: the cache, the database, the disk and the server agree.         *)
(***************************************************************************)
EXTENDS KeyPackages, TLAPS

Early == {"idle", "stale", "clear", "mark", "done"}
Making == {"upload credential", "make", "upload last resort", "upload packages"}
Phases == Early \cup {"open", "read", "fill", "wasm", "flush"} \cup Making

CallSet == [at : Phases, store : Nat \ {0}, read : SUBSET (Entries \X Nat),
            seen : SUBSET Entries, touched : SUBSET Entries]

StoreType ==
    /\ cache \in [Entries -> Nat]
    /\ idb \in [Entries -> Nat]
    /\ safe \in [Entries -> Nat]
    /\ latest \in [Entries -> Nat]
    /\ excused \in SUBSET Entries
    /\ meta \in {"old", "new"}
    /\ call \in [Calls -> CallSet]
    /\ version \in Nat \ {0}
    /\ made \in [Calls -> Nat]

\* Where a call is in its list of stores, and what it remembers.
Shape(c) ==
    /\ call[c].at \notin {"clear", "read", "fill"} => call[c].store = 1
    /\ call[c].at = "clear" => call[c].store <= Len(ScopedStores)
    /\ call[c].at \in {"read", "fill"} => call[c].store <= Len(Stores)
    /\ call[c].at # "fill" => call[c].read = {}
    /\ \A r \in call[c].read : r[1][2] = Stores[call[c].store]
    /\ call[c].at # "flush" => call[c].seen = {} /\ call[c].touched = {}

\* What a call that clears the stores of the old suite has emptied.
Emptied(c) ==
    LET Past(i) == call[c].at = "mark" \/ i < call[c].store
    IN  /\ \A e \in Entries, j \in DOMAIN Stores :
             e[2] = Stores[j] /\ Past(j + 2) => idb[e] = Absent /\ safe[e] = Absent
        /\ Past(1) => keyPackages = {}
        /\ Past(2) => lastResort = NoPackage

\* While the database is marked with the old suite nothing but resets has run.
OldInv ==
    meta = "old" =>
        /\ \A e \in Entries : cache[e] = Absent /\ latest[e] \in {Absent, OldSuite}
        /\ \A c \in Calls :
             /\ call[c].at \in Early
             /\ made[c] = 0
             /\ call[c].at \in {"clear", "mark"} =>
                  Emptied(c) /\ \A e \in Entries : latest[e] = Absent
        /\ serverPackages = {} /\ serverLastResort = NoPackage

\* Afterwards nothing of the old suite is left anywhere.
NoOldSuite ==
    meta = "new" =>
        /\ \A e \in Entries : OldSuite \notin {cache[e], idb[e], safe[e], latest[e]}
        /\ \A c \in Calls : \A r \in call[c].read : r[2] # OldSuite
        /\ OldPackage \notin keyPackages /\ lastResort # OldPackage

Saved(e) == latest[e] = Absent \/ safe[e] = latest[e]

\* An entry that is not excused: the cache is current or has no copy, the database
\* is current unless a write was lost, and then the cache is, and the disk has the
\* entry unless a call has still to flush it or could not.
EntryInv(e) ==
    /\ idb[e] \in {latest[e], safe[e]}
    /\ cache[e] \in {Absent, latest[e]}
    /\ idb[e] = latest[e] \/ (latest[e] # Absent /\ cache[e] = latest[e])
    /\ Saved(e) \/ cache[e] = latest[e]
    /\ \/ Saved(e)
       \/ e \in unflushed
       \/ \E c \in Calls : e \in call[c].touched \ call[c].seen

\* What the progress of a call says of such an entry.
CallInv(c, e) ==
    /\ call[c].at \in {"read", "fill"} =>
         \A j \in 1..(call[c].store - 1) : e[2] = Stores[j] => cache[e] = latest[e]
    /\ call[c].at = "fill" /\ e[2] = Stores[call[c].store] /\ cache[e] = Absent =>
         /\ \A r \in call[c].read : r[1] = e => r[2] = latest[e] \/ idb[e] = Absent
         /\ (\A r \in call[c].read : r[1] # e) => latest[e] = Absent
    /\ call[c].at = "wasm" => cache[e] = latest[e]
    /\ e \in call[c].touched => cache[e] = latest[e]

NewInv ==
    meta = "new" => \A e \in Entries \ excused : EntryInv(e) /\ \A c \in Calls : CallInv(c, e)

StoreInv == StoreType /\ (\A c \in Calls : Shape(c)) /\ OldInv /\ NoOldSuite /\ NewInv

\* The last resort on the server may be the one of a call that uploads it.
MayUpload(c) ==
    \/ lastResort = LastResortOf(c)
    \/ LastResortOf(c) \in wiped
    \/ lastResort = NoPackage /\ wiped # {}
    \/ \E d \in Calls : lastResort = LastResortOf(d) /\ d \in unsure

PackInv ==
    /\ \A c \in Calls :
         /\ made[c] <= Batch
         /\ \A i \in 1..made[c] : <<c, i>> \in keyPackages \cup wiped
         /\ call[c].at \in {"upload last resort", "upload packages"} => made[c] = Batch
         /\ call[c].at = "upload last resort" => MayUpload(c)
    /\ PackagesAreHeld

-----------------------------------------------------------------------------
\* The two lists of stores.
LEMMA StoresOK ==
    /\ Len(Stores) \in Nat \ {0}
    /\ DOMAIN Stores = 1..Len(Stores)
    /\ Len(ScopedStores) = Len(Stores) + 2
    /\ ScopedStores[1] = "keyPackages" /\ ScopedStores[2] = "lastResort"
    /\ \A i \in 1..Len(Stores) : ScopedStores[i + 2] = Stores[i] /\ Stores[i] \in StoreNames
    /\ \A e \in Entries : \E i \in 1..Len(Stores) : e[2] = Stores[i]
    /\ \A s \in StoreNames : \E i \in 1..Len(Stores) : s = Stores[i]
<1> DEFINE T == {Stores[i] : i \in DOMAIN Stores} \cup {"keyPackages", "lastResort"}
<1>1. Stores \in Seq(T) /\ Len(Stores) > 0
    BY StoresAssumption
<1>2. <<"keyPackages", "lastResort">> \in Seq(T)
    OBVIOUS
<1> HIDE DEF T
<1>3. Len(Stores) \in Nat \ {0} /\ DOMAIN Stores = 1..Len(Stores)
    BY <1>1
<1>4. /\ Len(ScopedStores) = Len(Stores) + 2
      /\ ScopedStores[1] = "keyPackages" /\ ScopedStores[2] = "lastResort"
      /\ \A i \in 1..Len(Stores) : ScopedStores[i + 2] = Stores[i]
    BY <1>1, <1>2, <1>3 DEF ScopedStores
<1>5. \A s \in StoreNames : \E i \in 1..Len(Stores) : s = Stores[i]
    BY <1>3 DEF StoreNames
<1>6. \A e \in Entries : e[2] \in StoreNames
    BY DEF Entries
<1> QED
    BY <1>3, <1>4, <1>5, <1>6 DEF StoreNames

\* A call goes to its next phase.
LEMMA GoToOK ==
    ASSUME StoreType, NEW c \in Calls, NEW p \in Phases, GoTo(c, p)
    PROVE  /\ call' \in [Calls -> CallSet]
           /\ call'[c] = [call[c] EXCEPT !.at = p]
           /\ call'[c].at = p /\ call'[c].store = call[c].store
           /\ call'[c].read = call[c].read /\ call'[c].seen = call[c].seen
           /\ call'[c].touched = call[c].touched
           /\ \A d \in Calls : d # c => call'[d] = call[d]
    BY DEF StoreType, CallSet, GoTo

Calm == {"idle", "stale", "open", "done"} \cup Making

\* Steps outside the resets and the group operations.
LEMMA MovesOK ==
    ASSUME StoreInv, NEW c \in Calls, NEW p \in Calm, GoTo(c, p), call[c].at \in Calm,
           UNCHANGED <<cache, idb, safe, meta, latest, excused, unflushed, version>>,
           made' \in [Calls -> Nat],
           meta = "old" => p \in Early /\ UNCHANGED <<made, keyPackages, lastResort,
                                                      serverPackages, serverLastResort>>,
           OldPackage \in keyPackages' => OldPackage \in keyPackages,
           lastResort' = OldPackage => lastResort = OldPackage
    PROVE  StoreInv'
<1>0. p \in Phases /\ p \notin {"clear", "mark", "read", "fill", "wasm", "flush"}
    BY DEF Calm, Phases, Making, Early
<1>c. call[c].at \notin {"clear", "mark", "read", "fill", "wasm", "flush"}
    BY DEF Calm, Making
<1>1. /\ call' \in [Calls -> CallSet]
      /\ call'[c].at = p /\ call'[c].store = call[c].store
      /\ call'[c].read = call[c].read /\ call'[c].seen = call[c].seen
      /\ call'[c].touched = call[c].touched
      /\ \A d \in Calls : d # c => call'[d] = call[d]
    BY <1>0, GoToOK DEF StoreInv
<1>2. StoreType'
    BY <1>1 DEF StoreInv, StoreType
<1>3. \A d \in Calls : Shape(d)'
    BY <1>0, <1>1, <1>c DEF StoreInv, Shape
<1>4. OldInv'
  <2> SUFFICES ASSUME meta = "old"
               PROVE  \A d \in Calls :
                        /\ call'[d].at \in Early
                        /\ call'[d].at \in {"clear", "mark"} =>
                             Emptied(d)' /\ \A e \in Entries : latest[e] = Absent
      BY DEF StoreInv, OldInv
  <2> TAKE d \in Calls
  <2>1. CASE d = c
      BY <2>1, <1>0, <1>1
  <2>2. CASE d # c
      BY <2>2, <1>1 DEF StoreInv, OldInv, Emptied
  <2> QED
      BY <2>1, <2>2
<1>5. NoOldSuite'
    BY <1>1 DEF StoreInv, NoOldSuite
<1>6. NewInv'
  <2> SUFFICES ASSUME meta = "new", NEW e \in Entries \ excused
               PROVE  EntryInv(e)' /\ \A d \in Calls : CallInv(d, e)'
      BY DEF NewInv
  <2>1. EntryInv(e) /\ \A d \in Calls : CallInv(d, e)
      BY DEF StoreInv, NewInv
  <2>2. \A d \in Calls : call'[d].touched = call[d].touched /\ call'[d].seen = call[d].seen
      BY <1>1
  <2>3. EntryInv(e)'
      BY <2>1, <2>2 DEF EntryInv, Saved
  <2>4. \A d \in Calls : CallInv(d, e)'
      BY <1>0, <1>1, <2>1, <2>2 DEF CallInv, Saved
  <2> QED
      BY <2>3, <2>4
<1> QED
    BY <1>2, <1>3, <1>4, <1>5, <1>6 DEF StoreInv

\* A step that touches neither the store nor the progress of a call in it.
LEMMA RestOK ==
    ASSUME StoreInv,
           UNCHANGED <<cache, idb, safe, meta, latest, excused, unflushed, version, call, made>>,
           meta = "old" => UNCHANGED <<keyPackages, lastResort, serverPackages,
                                       serverLastResort>>,
           OldPackage \in keyPackages' => OldPackage \in keyPackages,
           lastResort' = OldPackage => lastResort = OldPackage
    PROVE  StoreInv'
<1>1. StoreType' /\ NoOldSuite' /\ \A c \in Calls : Shape(c)'
    BY DEF StoreInv, StoreType, NoOldSuite, Shape
<1>2. OldInv'
    BY DEF StoreInv, OldInv, Emptied
<1>3. NewInv'
  <2>1. \A e \in Entries : EntryInv(e)' <=> EntryInv(e)
      BY DEF EntryInv, Saved
  <2>2. \A c \in Calls, e \in Entries : CallInv(c, e)' <=> CallInv(c, e)
      BY DEF CallInv, Saved
  <2> QED
      BY <2>1, <2>2 DEF StoreInv, NewInv
<1> QED
    BY <1>1, <1>2, <1>3 DEF StoreInv

\* The mark is read.
LEMMA ReadMarkOK ==
    ASSUME StoreInv, NEW c \in Calls, ReadMark(c),
           UNCHANGED <<made, serverPackages, serverLastResort>>
    PROVE  StoreInv'
<1>1. PICK p \in {"open", "stale"} : GoTo(c, p) /\ (p = "open" => meta = "new")
    BY DEF ReadMark
<1>2. p \in Calm /\ call[c].at \in Calm /\ (meta = "old" => p \in Early)
    BY <1>1 DEF ReadMark, At, Calm, Early
<1> QED
    BY <1>1, <1>2, MovesOK DEF ReadMark, StoreInv, StoreType

\* Nothing of a call but its place in the list and its phase changes.
LEMMA PlaceOK ==
    ASSUME StoreType, NEW c \in Calls, NEW p \in Phases, NEW n \in Nat \ {0},
           call' = [call EXCEPT ![c].at = p, ![c].store = n]
    PROVE  /\ call' \in [Calls -> CallSet]
           /\ call'[c].at = p /\ call'[c].store = n
           /\ call'[c].read = call[c].read /\ call'[c].seen = call[c].seen
           /\ call'[c].touched = call[c].touched
           /\ \A d \in Calls : d # c => call'[d] = call[d]
<1>1. call[c] \in CallSet
    BY DEF StoreType
<1> DEFINE q == [call[c] EXCEPT !.at = p]
           r == [q EXCEPT !.store = n]
<1>a. /\ q \in CallSet /\ q.at = p /\ q.read = call[c].read
      /\ q.seen = call[c].seen /\ q.touched = call[c].touched
    BY <1>1 DEF CallSet
<1> HIDE DEF q
<1>2. /\ r \in CallSet /\ r.at = p /\ r.store = n /\ r.read = call[c].read
      /\ r.seen = call[c].seen /\ r.touched = call[c].touched
    BY <1>a DEF CallSet
<1>3. call' = [call EXCEPT ![c] = r]
    BY DEF q
<1> HIDE DEF r
<1> QED
    BY <1>2, <1>3 DEF StoreType

\* A reset begins.
LEMMA BeginResetOK ==
    ASSUME StoreInv, NEW c \in Calls, BeginReset(c),
           UNCHANGED <<made, serverPackages, serverLastResort>>
    PROVE  StoreInv'
<1>1. /\ call[c].at = "stale"
      /\ call' = [call EXCEPT ![c].at = "clear", ![c].store = 1]
      /\ cache' = [e \in Entries |-> Absent]
      /\ UNCHANGED <<idb, safe, meta, keyPackages, lastResort, version>>
    BY DEF BeginReset, At
<1>2. /\ call' \in [Calls -> CallSet]
      /\ call'[c].at = "clear" /\ call'[c].store = 1
      /\ call'[c].read = call[c].read /\ call'[c].seen = call[c].seen
      /\ call'[c].touched = call[c].touched
      /\ \A d \in Calls : d # c => call'[d] = call[d]
  <2>1. "clear" \in Phases /\ 1 \in Nat \ {0} /\ StoreType
      BY DEF Phases, Early, StoreInv
  <2> QED
      BY <1>1, <2>1, PlaceOK
<1>3. meta = "old" => excused' = excused /\ latest' = [e \in Entries |-> Absent]
    BY DEF BeginReset
<1>4. meta = "new" => excused' = Entries /\ latest' = latest
    BY DEF BeginReset
<1>5. StoreType'
    BY <1>1, <1>2, <1>3, <1>4 DEF StoreInv, StoreType, Absent
<1>6. \A d \in Calls : Shape(d)'
  <2>1. 1 <= Len(ScopedStores)
      BY StoresOK
  <2>2. Shape(c)'
      BY <1>1, <1>2, <2>1 DEF StoreInv, Shape
  <2>3. \A d \in Calls : d # c => Shape(d)'
      BY <1>2 DEF StoreInv, Shape
  <2> QED
      BY <2>2, <2>3
<1>7. OldInv'
  <2> SUFFICES ASSUME meta = "old" PROVE OldInv'
      BY <1>1 DEF OldInv
  <2>1. \A e \in Entries : cache'[e] = Absent /\ latest'[e] = Absent
      BY <1>1, <1>3
  <2>2. ASSUME NEW d \in Calls
        PROVE  call'[d].at \in Early /\ (call'[d].at \in {"clear", "mark"} => Emptied(d)')
    <3>1. CASE d = c
        BY <1>1, <1>2, <3>1, StoresOK DEF Emptied, Early
    <3>2. CASE d # c
        BY <1>1, <1>2, <3>2 DEF StoreInv, OldInv, Emptied
    <3> QED
        BY <3>1, <3>2
  <2> QED
      BY <1>1, <2>1, <2>2 DEF StoreInv, OldInv
<1>8. NoOldSuite'
    BY <1>1, <1>2, <1>4 DEF StoreInv, NoOldSuite, Absent, OldSuite
<1>9. NewInv'
    BY <1>1, <1>4 DEF NewInv
<1> QED
    BY <1>5, <1>6, <1>7, <1>8, <1>9 DEF StoreInv

\* One object store is cleared.
LEMMA ClearStoreOK ==
    ASSUME StoreInv, NEW c \in Calls, ClearStore(c),
           UNCHANGED <<made, serverPackages, serverLastResort>>
    PROVE  StoreInv'
<1>0. PICK k \in Nat \ {0} : k = call[c].store
    BY DEF StoreInv, StoreType, CallSet
<1>s. PICK s : s = ScopedStores[k]
    OBVIOUS
<1>1. k = call[c].store /\ s = ScopedStores[k]
    BY <1>0, <1>s
<1>2. /\ call[c].at = "clear" /\ k <= Len(Stores) + 2
      /\ idb' = [e \in Entries |-> IF e[2] = s THEN Absent ELSE idb[e]]
      /\ safe' = [e \in Entries |-> IF e[2] = s THEN Absent ELSE safe[e]]
      /\ keyPackages' = IF s = "keyPackages" THEN {} ELSE keyPackages
      /\ lastResort' = IF s = "lastResort" THEN NoPackage ELSE lastResort
      /\ excused' = IF meta = "new" /\ s \in StoreNames THEN excused \cup EntriesOf(s) ELSE excused
      /\ UNCHANGED <<cache, meta, version, latest, unflushed>>
    BY <1>1, StoresOK DEF ClearStore, At, StoreInv, Shape
<1>3. PICK p \in {"clear", "mark"}, n \in Nat \ {0} :
        /\ call' = [call EXCEPT ![c].at = p, ![c].store = n]
        /\ p = "clear" => n = k + 1 /\ n <= Len(Stores) + 2
        /\ p = "mark" => n = 1 /\ k = Len(Stores) + 2
  <2>1. CASE k = Len(Stores) + 2
      BY <1>1, <2>1, StoresOK DEF ClearStore
  <2>2. CASE k # Len(Stores) + 2
    <3>1. /\ call' = [call EXCEPT ![c].at = "clear", ![c].store = k + 1]
          /\ k + 1 <= Len(Stores) + 2
        BY <1>1, <1>2, <2>2, StoresOK DEF ClearStore
    <3>2. k + 1 \in Nat \ {0} /\ "clear" # "mark"
        OBVIOUS
    <3> QED
        BY <3>1, <3>2
  <2> QED
      BY <2>1, <2>2
<1>4. /\ call' \in [Calls -> CallSet]
      /\ call'[c].at = p /\ call'[c].store = n
      /\ call'[c].read = call[c].read /\ call'[c].seen = call[c].seen
      /\ call'[c].touched = call[c].touched
      /\ \A d \in Calls : d # c => call'[d] = call[d]
  <2>1. p \in Phases /\ StoreType
      BY DEF Phases, Early, StoreInv
  <2> QED
      BY <1>3, <2>1, PlaceOK
<1>5. StoreType'
    BY <1>2, <1>4 DEF StoreInv, StoreType, Absent, EntriesOf, Entries
<1>6. \A d \in Calls : Shape(d)'
  <2> SUFFICES ASSUME NEW d \in Calls PROVE Shape(d)'
      OBVIOUS
  <2>1. CASE d = c
      BY <2>1, <1>2, <1>3, <1>4, StoresOK DEF StoreInv, Shape
  <2>2. CASE d # c
      BY <2>2, <1>4 DEF StoreInv, Shape
  <2> QED
      BY <2>1, <2>2
<1>7. OldInv'
  <2> SUFFICES ASSUME meta = "old" PROVE OldInv'
      BY <1>2 DEF OldInv
  <2>1. \A e \in Entries : latest[e] = Absent
      BY <1>2 DEF StoreInv, OldInv
  <2>2. \A d \in Calls : Emptied(d) /\ call[d].at \in {"clear", "mark"} => Emptied(d)' \/ d = c
    <3> SUFFICES ASSUME NEW d \in Calls, d # c, Emptied(d) PROVE Emptied(d)'
        OBVIOUS
    <3>1. call'[d] = call[d]
        BY <1>4
    <3>2. \A e \in Entries : /\ idb[e] = Absent => idb'[e] = Absent
                            /\ safe[e] = Absent => safe'[e] = Absent
        BY <1>2
    <3> QED
        BY <1>2, <3>1, <3>2 DEF Emptied
  <2>3. Emptied(c)'
    <3>1. Emptied(c)
        BY <1>2 DEF StoreInv, OldInv
    <3>2. ASSUME NEW e \in Entries, NEW j \in DOMAIN Stores, e[2] = Stores[j],
                 p = "mark" \/ j + 2 < n
          PROVE  idb'[e] = Absent /\ safe'[e] = Absent
      <4>1. j \in 1..Len(Stores) /\ Len(Stores) \in Nat
          BY StoresOK
      <4>2. CASE j + 2 = k
          BY <1>1, <1>2, <3>2, <4>1, <4>2, StoresOK
      <4>3. CASE j + 2 # k
        <5>1. j + 2 < k
            BY <1>3, <3>2, <4>1, <4>3, <1>2
        <5>2. idb[e] = Absent /\ safe[e] = Absent
            BY <1>1, <3>1, <3>2, <5>1 DEF Emptied
        <5> QED
            BY <1>2, <5>2
      <4> QED
          BY <4>2, <4>3
    <3>3. keyPackages' = {}
      <4>1. CASE k = 1
          BY <1>1, <1>2, <4>1, StoresOK
      <4>2. CASE k # 1
        <5>1. keyPackages = {}
            BY <1>1, <3>1, <4>2 DEF Emptied
        <5> QED
            BY <1>2, <5>1
      <4> QED
          BY <4>1, <4>2
    <3>4. p = "mark" \/ 2 < n => lastResort' = NoPackage
      <4> SUFFICES ASSUME p = "mark" \/ 2 < n PROVE lastResort' = NoPackage
          OBVIOUS
      <4>1. CASE k = 2
          BY <1>1, <1>2, <4>1, StoresOK
      <4>2. CASE k # 2
        <5>1. 2 < k
            BY <1>3, <4>2, StoresOK
        <5>2. lastResort = NoPackage
            BY <1>1, <3>1, <5>1 DEF Emptied
        <5> QED
            BY <1>2, <5>2
      <4> QED
          BY <4>1, <4>2
    <3> QED
        BY <1>4, <3>2, <3>3, <3>4 DEF Emptied
  <2>4. \A d \in Calls : call'[d].at \in Early /\ (call'[d].at \in {"clear", "mark"} => Emptied(d)')
      BY <1>4, <2>2, <2>3 DEF StoreInv, OldInv, Early
  <2> QED
      BY <1>2, <2>1, <2>4 DEF StoreInv, OldInv
<1>8. NoOldSuite'
  <2> SUFFICES ASSUME meta = "new" PROVE NoOldSuite'
      BY <1>2 DEF NoOldSuite
  <2>1. \A e \in Entries : OldSuite \notin {cache[e], idb'[e], safe'[e], latest[e]}
      BY <1>2 DEF StoreInv, NoOldSuite, Absent, OldSuite
  <2>2. \A d \in Calls : call'[d].read = call[d].read
      BY <1>4
  <2>3. OldPackage \notin keyPackages' /\ lastResort' # OldPackage
      BY <1>2 DEF StoreInv, NoOldSuite, OldPackage, NoPackage
  <2> QED
      BY <1>2, <2>1, <2>2, <2>3 DEF StoreInv, NoOldSuite
<1>9. NewInv'
  <2> SUFFICES ASSUME meta = "new", NEW e \in Entries \ excused'
               PROVE  EntryInv(e)' /\ \A d \in Calls : CallInv(d, e)'
      BY <1>2 DEF NewInv
  <2>1. e \notin excused /\ e[2] # s
      BY <1>2 DEF EntriesOf, Entries
  <2>2. EntryInv(e) /\ \A d \in Calls : CallInv(d, e)
      BY <2>1 DEF StoreInv, NewInv
  <2>3. idb'[e] = idb[e] /\ safe'[e] = safe[e] /\ cache'[e] = cache[e] /\ latest'[e] = latest[e]
      BY <1>2, <2>1
  <2>4. \A d \in Calls : call'[d].touched = call[d].touched /\ call'[d].seen = call[d].seen
      BY <1>4
  <2>5. EntryInv(e)'
      BY <1>2, <2>2, <2>3, <2>4 DEF EntryInv, Saved
  <2>6. \A d \in Calls : CallInv(d, e)'
      BY <1>2, <1>4, <2>2, <2>3, <2>4 DEF CallInv, Saved
  <2> QED
      BY <2>5, <2>6
<1> QED
    BY <1>5, <1>6, <1>7, <1>8, <1>9 DEF StoreInv

\* The database is marked with the current suite.
LEMMA MarkSuiteOK ==
    ASSUME StoreInv, NEW c \in Calls, MarkSuite(c),
           UNCHANGED <<made, serverPackages, serverLastResort>>
    PROVE  StoreInv'
<1>1. /\ call[c].at = "mark" /\ meta' = "new" /\ GoTo(c, "open")
      /\ UNCHANGED <<cache, idb, safe, keyPackages, lastResort, version, latest, excused, unflushed>>
    BY DEF MarkSuite, At
<1>2. /\ call' \in [Calls -> CallSet]
      /\ call'[c].at = "open" /\ call'[c].store = call[c].store
      /\ call'[c].read = call[c].read /\ call'[c].seen = call[c].seen
      /\ call'[c].touched = call[c].touched
      /\ \A d \in Calls : d # c => call'[d] = call[d]
  <2>1. "open" \in Phases /\ StoreType
      BY DEF Phases, StoreInv
  <2> QED
      BY <1>1, <2>1, GoToOK
<1>3. StoreType'
    BY <1>1, <1>2 DEF StoreInv, StoreType
<1>4. \A d \in Calls : Shape(d)'
    BY <1>1, <1>2 DEF StoreInv, Shape
<1>5. OldInv'
    BY <1>1 DEF OldInv
<1>6. CASE meta = "old"
  <2>1. /\ \A e \in Entries : cache[e] = Absent /\ latest[e] = Absent
        /\ Emptied(c)
        /\ \A d \in Calls : call[d].at \in Early
      BY <1>1, <1>6 DEF StoreInv, OldInv
  <2>2. \A e \in Entries : idb[e] = Absent /\ safe[e] = Absent
      BY <1>1, <2>1, StoresOK DEF Emptied
  <2>3. keyPackages = {} /\ lastResort = NoPackage
      BY <1>1, <2>1 DEF Emptied
  <2>4. \A d \in Calls : /\ call'[d].at \in Early \cup {"open"}
                         /\ call'[d].read = {} /\ call'[d].touched = {} /\ call'[d].seen = {}
      BY <1>1, <1>2, <2>1, <1>4 DEF StoreInv, Shape, Early
  <2>5. NoOldSuite'
      BY <1>1, <2>1, <2>2, <2>3, <2>4 DEF NoOldSuite, Absent, OldSuite, OldPackage, NoPackage
  <2>6. NewInv'
      BY <1>1, <2>1, <2>2, <2>4 DEF NewInv, EntryInv, CallInv, Saved, Early
  <2> QED
      BY <1>3, <1>4, <1>5, <2>5, <2>6 DEF StoreInv
<1>7. CASE meta = "new"
  <2>1. NoOldSuite'
      BY <1>1, <1>2, <1>7 DEF StoreInv, NoOldSuite
  <2>2. NewInv'
    <3> SUFFICES ASSUME NEW e \in Entries \ excused
                 PROVE  EntryInv(e)' /\ \A d \in Calls : CallInv(d, e)'
        BY <1>1 DEF NewInv
    <3>1. EntryInv(e) /\ \A d \in Calls : CallInv(d, e)
        BY <1>7 DEF StoreInv, NewInv
    <3>2. \A d \in Calls : call'[d].touched = call[d].touched /\ call'[d].seen = call[d].seen
        BY <1>2
    <3>3. EntryInv(e)'
        BY <1>1, <3>1, <3>2 DEF EntryInv, Saved
    <3>4. \A d \in Calls : CallInv(d, e)'
        BY <1>1, <1>2, <3>1, <3>2 DEF CallInv, Saved
    <3> QED
        BY <3>3, <3>4
  <2> QED
      BY <1>3, <1>4, <1>5, <2>1, <2>2 DEF StoreInv
<1> QED
    BY <1>6, <1>7 DEF StoreInv, StoreType

\* A group operation runs only with the current suite.
LEMMA LateOK ==
    ASSUME StoreInv, NEW c \in Calls, call[c].at \notin Early
    PROVE  meta = "new" /\ NoOldSuite /\ NewInv /\ StoreType /\ \A d \in Calls : Shape(d)
    BY DEF StoreInv, OldInv, StoreType

\* The rows of one store are requested.
LEMMA ReadStoreOK ==
    ASSUME StoreInv, NEW c \in Calls, ReadStore(c),
           UNCHANGED <<made, serverPackages, serverLastResort>>
    PROVE  StoreInv'
<1> DEFINE rows == {<<e, idb[e]>> : e \in {x \in EntriesOf(Stores[call[c].store]) : idb[x] # Absent}}
           q == [call[c] EXCEPT !.at = "fill"]
           r == [q EXCEPT !.read = rows]
<1>1. /\ call[c].at \in {"open", "read"} /\ call' = [call EXCEPT ![c] = r]
      /\ UNCHANGED <<cache, idb, safe, meta, keyPackages, lastResort, version, latest, excused, unflushed>>
    BY DEF ReadStore
<1>2. /\ meta = "new" /\ NoOldSuite /\ NewInv /\ StoreType
      /\ \A d \in Calls : Shape(d)
    BY <1>1, LateOK DEF Early
<1>3. /\ call[c].store \in 1..Len(Stores)
      /\ call[c].at = "open" => call[c].store = 1
      /\ call[c].seen = {} /\ call[c].touched = {}
  <2>1. Shape(c) /\ call[c].store \in Nat \ {0}
      BY <1>2 DEF StoreType, CallSet
  <2> QED
      BY <1>1, <2>1, StoresOK DEF Shape
<1>4. EntriesOf(Stores[call[c].store]) \subseteq Entries
    BY <1>3, StoresOK DEF EntriesOf, Entries
<1>5. rows \in SUBSET (Entries \X Nat)
    BY <1>2, <1>4 DEF StoreType
<1>6. \A e \in Entries : e[2] = Stores[call[c].store] => e \in EntriesOf(Stores[call[c].store])
    BY DEF Entries, EntriesOf
<1>7. \A x \in rows : /\ x[1][2] = Stores[call[c].store]
                      /\ x[1] \in Entries /\ x[2] = idb[x[1]] /\ x[2] # Absent
    BY <1>4 DEF EntriesOf
<1>8. \A e \in Entries : e[2] = Stores[call[c].store] /\ idb[e] # Absent
                            => \E x \in rows : x[1] = e
  <2> SUFFICES ASSUME NEW e \in Entries, e[2] = Stores[call[c].store], idb[e] # Absent
               PROVE  \E x \in rows : x[1] = e
      OBVIOUS
  <2>1. <<e, idb[e]>> \in rows
      BY <1>6
  <2> QED
      BY <2>1
<1> HIDE DEF rows
<1>9. /\ q \in CallSet /\ q.at = "fill" /\ q.store = call[c].store
      /\ q.seen = call[c].seen /\ q.touched = call[c].touched
  <2>1. call[c] \in CallSet /\ "fill" \in Phases
      BY <1>2 DEF StoreType, Phases
  <2> QED
      BY <2>1 DEF CallSet
<1> HIDE DEF q
<1>10. /\ r \in CallSet /\ r.at = "fill" /\ r.store = call[c].store /\ r.read = rows
       /\ r.seen = call[c].seen /\ r.touched = call[c].touched
    BY <1>5, <1>9 DEF CallSet
<1> HIDE DEF r
<1>11. /\ call' \in [Calls -> CallSet] /\ call'[c] = r
       /\ \A d \in Calls : d # c => call'[d] = call[d]
    BY <1>1, <1>2, <1>10 DEF StoreType
<1>12. StoreType'
    BY <1>1, <1>2, <1>11 DEF StoreType
<1>13. \A d \in Calls : Shape(d)'
  <2>1. Shape(c)'
      BY <1>3, <1>7, <1>10, <1>11 DEF Shape
  <2>2. \A d \in Calls : d # c => Shape(d)'
      BY <1>2, <1>11 DEF Shape
  <2> QED
      BY <2>1, <2>2
<1>14. OldInv'
    BY <1>1, <1>2 DEF OldInv
<1>15. NoOldSuite'
  <2>1. \A x \in rows : x[2] # OldSuite
      BY <1>2, <1>7 DEF NoOldSuite
  <2> QED
      BY <1>1, <1>2, <1>10, <1>11, <2>1 DEF NoOldSuite
<1>16. NewInv'
  <2> SUFFICES ASSUME NEW e \in Entries \ excused
               PROVE  EntryInv(e)' /\ \A d \in Calls : CallInv(d, e)'
      BY <1>1 DEF NewInv
  <2>1. EntryInv(e) /\ \A d \in Calls : CallInv(d, e)
      BY <1>2 DEF NewInv
  <2>2. \A d \in Calls : call'[d].touched = call[d].touched /\ call'[d].seen = call[d].seen
      BY <1>10, <1>11
  <2>3. EntryInv(e)'
      BY <1>1, <2>1, <2>2 DEF EntryInv, Saved
  <2>4. \A d \in Calls : d # c => CallInv(d, e)'
      BY <1>1, <1>11, <2>1, <2>2 DEF CallInv, Saved
  <2>5. CallInv(c, e)'
    <3>1. \A j \in 1..(call[c].store - 1) : e[2] = Stores[j] => cache[e] = latest[e]
        BY <1>1, <1>3, <2>1 DEF CallInv
    <3>2. cache[e] = Absent => \A x \in rows : x[1] = e => x[2] = latest[e]
        BY <1>7, <2>1 DEF EntryInv
    <3>3. cache[e] = Absent /\ e[2] = Stores[call[c].store] /\ (\A x \in rows : x[1] # e)
             => latest[e] = Absent
        BY <1>8, <2>1 DEF EntryInv
    <3> QED
        BY <1>1, <1>3, <1>10, <1>11, <3>1, <3>2, <3>3 DEF CallInv
  <2> QED
      BY <2>3, <2>4, <2>5
<1> QED
    BY <1>12, <1>13, <1>14, <1>15, <1>16 DEF StoreInv

\* The answer fills what the cache does not have.
LEMMA FillCacheOK ==
    ASSUME StoreInv, NEW c \in Calls, FillCache(c),
           UNCHANGED <<made, serverPackages, serverLastResort>>
    PROVE  StoreInv'
<1> DEFINE Row(e) == CHOOSE r \in Rows(c) : r[1] = e
           filled == {r[1] : r \in Rows(c)}
           last == call[c].store = Len(Stores)
           p == IF last THEN "wasm" ELSE "read"
           n == IF last THEN 1 ELSE call[c].store + 1
<1>1. /\ call[c].at = "fill"
      /\ cache' = [e \in Entries |-> IF e \in filled THEN Row(e)[2] ELSE cache[e]]
      /\ excused' = excused \cup {e \in filled : idb[e] = Absent}
      /\ call' = [call EXCEPT ![c].at = p, ![c].store = n, ![c].read = {}]
      /\ UNCHANGED <<idb, safe, meta, keyPackages, lastResort, version, latest, unflushed>>
    BY DEF FillCache, At
<1>2. /\ meta = "new" /\ NoOldSuite /\ NewInv /\ StoreType
      /\ \A d \in Calls : Shape(d)
    BY <1>1, LateOK DEF Early
<1>3. /\ call[c] \in CallSet /\ call[c].store \in 1..Len(Stores)
      /\ call[c].seen = {} /\ call[c].touched = {}
  <2>1. Shape(c) /\ call[c] \in CallSet
      BY <1>2 DEF StoreType
  <2> QED
      BY <1>1, <2>1, StoresOK DEF Shape, CallSet
<1>4. \A x \in Rows(c) : /\ x \in call[c].read /\ x \in Entries \X Nat /\ cache[x[1]] = Absent
                         /\ x[1][2] = Stores[call[c].store]
    BY <1>2, <1>3 DEF Rows, CallSet, Shape
<1>5. \A e \in filled : Row(e) \in Rows(c) /\ Row(e)[1] = e
    OBVIOUS
<1>6. filled \in SUBSET Entries
    BY <1>4
<1>7. \A e \in Entries : e \in filled => /\ Row(e) \in call[c].read /\ Row(e)[1] = e
                                        /\ Row(e)[2] \in Nat /\ cache[e] = Absent
    BY <1>4, <1>5
<1>8. \A e \in Entries : e \notin filled /\ cache[e] = Absent => \A x \in call[c].read : x[1] # e
    BY DEF Rows
<1> HIDE DEF Row, filled
<1>9. PICK r \in CallSet : /\ call' = [call EXCEPT ![c] = r]
                           /\ r.at = p /\ r.store = n /\ r.read = {}
                           /\ r.seen = {} /\ r.touched = {}
  <2> DEFINE q1 == [call[c] EXCEPT !.at = p]
             q2 == [q1 EXCEPT !.store = n]
             q3 == [q2 EXCEPT !.read = {}]
  <2>1. p \in Phases /\ n \in Nat \ {0}
      BY <1>3, StoresOK DEF Phases
  <2>2. call' = [call EXCEPT ![c] = q3]
      BY <1>1
  <2> HIDE DEF p, n
  <2>3. q1 \in CallSet /\ q1.at = p /\ q1.seen = {} /\ q1.touched = {}
      BY <1>3, <2>1 DEF CallSet
  <2> HIDE DEF q1
  <2>4. q2 \in CallSet /\ q2.at = p /\ q2.store = n /\ q2.seen = {} /\ q2.touched = {}
      BY <2>1, <2>3 DEF CallSet
  <2> HIDE DEF q2
  <2>5. q3 \in CallSet /\ q3.at = p /\ q3.store = n /\ q3.seen = {} /\ q3.touched = {} /\ q3.read = {}
      BY <2>4 DEF CallSet
  <2> QED
      BY <2>2, <2>5
<1>10. /\ call' \in [Calls -> CallSet] /\ call'[c] = r
       /\ \A d \in Calls : d # c => call'[d] = call[d]
    BY <1>2, <1>9 DEF StoreType
<1>11. \A e \in Entries : /\ e \in filled => cache'[e] = Row(e)[2]
                          /\ e \notin filled => cache'[e] = cache[e]
    BY <1>1
<1>12. StoreType'
  <2>1. cache' \in [Entries -> Nat]
      BY <1>1, <1>2, <1>7 DEF StoreType
  <2> QED
      BY <1>1, <1>2, <1>6, <1>10, <2>1 DEF StoreType
<1>13. \A d \in Calls : Shape(d)'
  <2>1. \/ p = "wasm" /\ n = 1
        \/ p = "read" /\ n <= Len(Stores)
      BY <1>3, StoresOK
  <2> HIDE DEF p, n, last
  <2>2. Shape(c)'
    <3>1. call'[c].at = p /\ call'[c].store = n /\ call'[c].read = {}
          /\ call'[c].seen = {} /\ call'[c].touched = {}
        BY <1>9, <1>10
    <3> QED
        BY <2>1, <3>1 DEF Shape
  <2>3. \A d \in Calls : d # c => Shape(d)'
      BY <1>2, <1>10 DEF Shape
  <2> QED
      BY <2>2, <2>3
<1>14. OldInv'
    BY <1>1, <1>2 DEF OldInv
<1>15. NoOldSuite'
  <2>1. \A e \in Entries : cache'[e] # OldSuite
      BY <1>2, <1>7, <1>11 DEF NoOldSuite
  <2>2. \A d \in Calls : \A x \in call'[d].read : x[2] # OldSuite
      BY <1>2, <1>9, <1>10 DEF NoOldSuite
  <2> QED
      BY <1>1, <1>2, <2>1, <2>2 DEF NoOldSuite
<1>16. NewInv'
  <2> SUFFICES ASSUME NEW e \in Entries \ excused'
               PROVE  EntryInv(e)' /\ \A d \in Calls : CallInv(d, e)'
      BY <1>1 DEF NewInv
  <2>1. e \notin excused /\ (e \in filled => idb[e] # Absent)
      BY <1>1
  <2>2. EntryInv(e) /\ \A d \in Calls : CallInv(d, e)
      BY <1>2, <2>1 DEF NewInv
  <2>3. \A d \in Calls : call'[d].touched = call[d].touched /\ call'[d].seen = call[d].seen
      BY <1>3, <1>9, <1>10
  <2>4. e \in filled => cache'[e] = latest[e] /\ e[2] = Stores[call[c].store]
    <3> SUFFICES ASSUME e \in filled PROVE cache'[e] = latest[e] /\ e[2] = Stores[call[c].store]
        OBVIOUS
    <3>1. Row(e) \in call[c].read /\ Row(e)[1] = e /\ cache[e] = Absent
        BY <1>7
    <3>2. e[2] = Stores[call[c].store]
        BY <1>2, <3>1 DEF Shape
    <3>3. Row(e)[2] = latest[e]
        BY <1>1, <2>1, <2>2, <3>1, <3>2 DEF CallInv
    <3> QED
        BY <1>11, <3>2, <3>3
  <2>5. cache'[e] \in {cache[e], latest[e]} /\ (cache[e] # Absent => cache'[e] = cache[e])
      BY <1>7, <1>11, <2>4
  <2>6. EntryInv(e)'
      BY <1>1, <2>2, <2>3, <2>5 DEF EntryInv, Saved
  <2>7. \A d \in Calls : d # c => CallInv(d, e)'
      BY <1>1, <1>10, <2>2, <2>3, <2>5 DEF CallInv, Saved
  <2>8. e[2] = Stores[call[c].store] => cache'[e] = latest[e]
    <3>1. CASE e \in filled
        BY <2>4, <3>1
    <3>2. CASE e \notin filled /\ cache[e] # Absent
        BY <1>11, <2>2, <3>2 DEF EntryInv
    <3>3. CASE e \notin filled /\ cache[e] = Absent
      <4>1. \A x \in call[c].read : x[1] # e
          BY <1>8, <3>3
      <4> QED
          BY <1>1, <1>11, <2>2, <3>3, <4>1 DEF CallInv
    <3> QED
        BY <3>1, <3>2, <3>3
  <2>9. \A j \in 1..call[c].store : e[2] = Stores[j] => cache'[e] = latest[e]
    <3>1. \A j \in 1..(call[c].store - 1) : e[2] = Stores[j] => cache'[e] = latest[e]
        BY <1>1, <2>2, <2>5 DEF CallInv
    <3> QED
        BY <1>3, <2>8, <3>1, StoresOK
  <2>10. CallInv(c, e)'
    <3>1. CASE last
      <4>1. cache'[e] = latest[e]
          BY <2>9, <3>1, StoresOK
      <4> QED
          BY <1>1, <1>9, <1>10, <3>1, <4>1 DEF CallInv
    <3>2. CASE ~last
      <4>1. n - 1 = call[c].store
          BY <1>3, <3>2, StoresOK
      <4> QED
          BY <1>1, <1>9, <1>10, <2>9, <3>2, <4>1 DEF CallInv
    <3> QED
        BY <3>1, <3>2
  <2> QED
      BY <2>6, <2>7, <2>10
<1> QED
    BY <1>12, <1>13, <1>14, <1>15, <1>16 DEF StoreInv

\* The WASM call writes the cache and the database alike.
LEMMA RunWasmOK ==
    ASSUME StoreInv, NEW c \in Calls, NEW g \in Groups,
           NEW written \in SUBSET StoreNames, NEW deleted \in SUBSET StoreNames,
           RunWasm(c, g, written, deleted),
           UNCHANGED <<made, serverPackages, serverLastResort>>
    PROVE  StoreInv'
<1> DEFINE changed == {g} \X (written \cup deleted)
           p == IF changed = {} THEN "done" ELSE "flush"
           Now(e) == IF e[1] = g /\ e[2] \in written THEN version + 1 ELSE Absent
<1>1. /\ call[c].at = "wasm" /\ written \cap deleted = {}
      /\ excused' = excused \ changed /\ unflushed' = unflushed \ changed
      /\ call' = [call EXCEPT ![c].at = p, ![c].touched = changed]
      /\ version' = IF changed = {} THEN version ELSE version + 1
      /\ UNCHANGED <<safe, meta, keyPackages, lastResort>>
    BY DEF RunWasm, At
<1>2. /\ meta = "new" /\ NoOldSuite /\ NewInv /\ StoreType
      /\ \A d \in Calls : Shape(d)
    BY <1>1, LateOK DEF Early
<1>3. /\ call[c] \in CallSet /\ call[c].store = 1 /\ call[c].read = {}
      /\ call[c].seen = {} /\ call[c].touched = {}
  <2>1. Shape(c) /\ call[c] \in CallSet
      BY <1>2 DEF StoreType
  <2> QED
      BY <1>1, <2>1 DEF Shape
<1>4. changed \in SUBSET Entries
    BY DEF Entries
<1>5. \A e \in Entries : e \in changed <=> e[1] = g /\ e[2] \in written \cup deleted
    BY DEF Entries
<1>6. \A e \in Entries :
        /\ e \in changed => cache'[e] = Now(e) /\ idb'[e] = Now(e) /\ latest'[e] = Now(e)
        /\ e \notin changed => cache'[e] = cache[e] /\ idb'[e] = idb[e] /\ latest'[e] = latest[e]
    BY <1>5 DEF RunWasm
<1>7. /\ cache' \in [Entries -> Nat] /\ idb' \in [Entries -> Nat]
      /\ latest' \in [Entries -> Nat] /\ version' \in Nat \ {0}
    BY <1>1, <1>2 DEF RunWasm, StoreType, Absent
<1>8. \A e \in Entries : Now(e) \in Nat /\ Now(e) # OldSuite
    BY <1>2 DEF StoreType, Absent, OldSuite
<1> HIDE DEF changed, Now
<1>9. PICK r \in CallSet : /\ call' = [call EXCEPT ![c] = r]
                           /\ r.at = p /\ r.store = 1 /\ r.read = {}
                           /\ r.seen = {} /\ r.touched = changed
  <2> DEFINE q1 == [call[c] EXCEPT !.at = p]
             q2 == [q1 EXCEPT !.touched = changed]
  <2>1. p \in Phases
      BY DEF Phases, Early
  <2>2. call' = [call EXCEPT ![c] = q2]
      BY <1>1
  <2> HIDE DEF p
  <2>3. q1 \in CallSet /\ q1.at = p /\ q1.store = 1 /\ q1.seen = {} /\ q1.read = {}
      BY <1>3, <2>1 DEF CallSet
  <2> HIDE DEF q1
  <2>4. /\ q2 \in CallSet /\ q2.at = p /\ q2.store = 1 /\ q2.seen = {} /\ q2.read = {}
        /\ q2.touched = changed
      BY <1>4, <2>3 DEF CallSet
  <2> QED
      BY <2>2, <2>4
<1>10. /\ call' \in [Calls -> CallSet] /\ call'[c] = r
       /\ \A d \in Calls : d # c => call'[d] = call[d]
    BY <1>2, <1>9 DEF StoreType
<1>11. StoreType'
    BY <1>1, <1>2, <1>7, <1>10 DEF StoreType
<1>12. \A d \in Calls : Shape(d)'
  <2>1. Shape(c)'
      BY <1>9, <1>10 DEF Shape
  <2>2. \A d \in Calls : d # c => Shape(d)'
      BY <1>2, <1>10 DEF Shape
  <2> QED
      BY <2>1, <2>2
<1>13. OldInv'
    BY <1>1, <1>2 DEF OldInv
<1>14. NoOldSuite'
  <2>1. \A e \in Entries : OldSuite \notin {cache'[e], idb'[e], safe[e], latest'[e]}
      BY <1>2, <1>6, <1>8 DEF NoOldSuite
  <2>2. \A d \in Calls : \A x \in call'[d].read : x[2] # OldSuite
      BY <1>2, <1>9, <1>10 DEF NoOldSuite
  <2> QED
      BY <1>1, <1>2, <2>1, <2>2 DEF NoOldSuite
<1>15. NewInv'
  <2> SUFFICES ASSUME NEW e \in Entries \ excused'
               PROVE  EntryInv(e)' /\ \A d \in Calls : CallInv(d, e)'
      BY <1>1 DEF NewInv
  <2>0. safe'[e] = safe[e]
      BY <1>1
  <2>1. CASE e \in changed
    <3>1. /\ cache'[e] = latest'[e] /\ idb'[e] = latest'[e]
          /\ e \in call'[c].touched \ call'[c].seen
        BY <1>6, <1>9, <1>10, <2>1
    <3>2. EntryInv(e)'
        BY <3>1 DEF EntryInv
    <3>4. \A d \in Calls : CallInv(d, e)'
        BY <3>1 DEF CallInv, Absent
    <3> QED
        BY <3>2, <3>4
  <2>2. CASE e \notin changed
    <3>1. cache'[e] = cache[e] /\ idb'[e] = idb[e] /\ latest'[e] = latest[e] /\ e \notin excused
        BY <1>1, <1>6, <2>2
    <3>2. EntryInv(e) /\ \A d \in Calls : CallInv(d, e)
        BY <1>2, <3>1 DEF NewInv
    <3>3. \A d \in Calls : /\ e \in call'[d].touched <=> e \in call[d].touched
                           /\ call'[d].seen = call[d].seen
        BY <1>3, <1>9, <1>10, <2>2
    <3>4. EntryInv(e)'
        BY <1>1, <2>0, <2>2, <3>1, <3>2, <3>3 DEF EntryInv, Saved
    <3>5. \A d \in Calls : d # c => CallInv(d, e)'
        BY <1>10, <2>0, <3>1, <3>2, <3>3 DEF CallInv, Saved
    <3>6. CallInv(c, e)'
        BY <1>9, <1>10, <2>2 DEF CallInv
    <3> QED
        BY <3>4, <3>5, <3>6
  <2> QED
      BY <2>1, <2>2
<1> QED
    BY <1>11, <1>12, <1>13, <1>14, <1>15 DEF StoreInv

\* One entry of the cache is written back.
LEMMA FlushEntryOK ==
    ASSUME StoreInv, NEW c \in Calls, NEW f \in Entries, FlushEntry(c, f),
           UNCHANGED <<made, serverPackages, serverLastResort>>
    PROVE  StoreInv'
<1>1. /\ call[c].at = "flush" /\ cache[f] # Absent
      /\ idb' = [idb EXCEPT ![f] = cache[f]]
      /\ safe' = [x \in Entries |-> IF x[2] = f[2] THEN idb'[x] ELSE safe[x]]
      /\ unflushed' = unflushed \ {f}
      /\ UNCHANGED <<cache, meta, keyPackages, lastResort, version, latest, excused>>
    BY DEF FlushEntry, Visit, At, Unvisited
<1>2. /\ meta = "new" /\ NoOldSuite /\ NewInv /\ StoreType
      /\ \A d \in Calls : Shape(d)
    BY <1>1, LateOK DEF Early
<1>3. PICK r \in CallSet : /\ call' = [call EXCEPT ![c] = r]
                           /\ r.at = "flush" /\ r.store = call[c].store /\ r.read = call[c].read
                           /\ r.seen = call[c].seen \cup {f} /\ r.touched = call[c].touched
  <2> DEFINE q == [call[c] EXCEPT !.seen = @ \cup {f}]
  <2>1. call' = [call EXCEPT ![c] = q]
      BY DEF FlushEntry, Visit
  <2>2. call[c] \in CallSet
      BY <1>2 DEF StoreType
  <2>3. /\ q \in CallSet /\ q.at = "flush" /\ q.store = call[c].store /\ q.read = call[c].read
        /\ q.seen = call[c].seen \cup {f} /\ q.touched = call[c].touched
      BY <1>1, <2>2 DEF CallSet
  <2> QED
      BY <2>1, <2>3
<1>4. /\ call' \in [Calls -> CallSet] /\ call'[c] = r
      /\ \A d \in Calls : d # c => call'[d] = call[d]
    BY <1>2, <1>3 DEF StoreType
<1>5. StoreType'
    BY <1>1, <1>2, <1>4 DEF StoreType
<1>6. \A d \in Calls : Shape(d)'
  <2>1. Shape(c)'
      BY <1>1, <1>2, <1>3, <1>4 DEF Shape
  <2>2. \A d \in Calls : d # c => Shape(d)'
      BY <1>2, <1>4 DEF Shape
  <2> QED
      BY <2>1, <2>2
<1>7. OldInv'
    BY <1>1, <1>2 DEF OldInv
<1>8. NoOldSuite'
  <2>1. \A e \in Entries : idb'[e] \in {idb[e], cache[e]}
      BY <1>1, <1>2 DEF StoreType
  <2>2. \A e \in Entries : safe'[e] \in {idb'[e], safe[e]}
      BY <1>1
  <2>3. \A e \in Entries : OldSuite \notin {cache[e], idb'[e], safe'[e], latest[e]}
      BY <1>2, <2>1, <2>2 DEF NoOldSuite
  <2>4. \A d \in Calls : \A x \in call'[d].read : x[2] # OldSuite
      BY <1>2, <1>3, <1>4 DEF NoOldSuite
  <2> QED
      BY <1>1, <1>2, <2>3, <2>4 DEF NoOldSuite
<1>9. NewInv'
  <2> SUFFICES ASSUME NEW e \in Entries \ excused
               PROVE  EntryInv(e)' /\ \A d \in Calls : CallInv(d, e)'
      BY <1>1 DEF NewInv
  <2>1. EntryInv(e) /\ \A d \in Calls : CallInv(d, e)
      BY <1>2 DEF NewInv
  <2>2. /\ e # f => idb'[e] = idb[e]
        /\ e = f => idb'[e] = latest[e] /\ cache[e] = latest[e]
      BY <1>1, <1>2, <2>1 DEF StoreType, EntryInv
  <2>3. Saved(e) => Saved(e)'
      BY <1>1, <2>1, <2>2 DEF Saved, EntryInv
  <2>4. e = f => Saved(e)'
      BY <1>1, <2>2 DEF Saved
  <2>5. \A d \in Calls : call'[d].touched = call[d].touched
      BY <1>3, <1>4
  <2>6. \A d \in Calls : e \in call'[d].seen => e \in call[d].seen \/ e = f
      BY <1>3, <1>4
  <2>7. EntryInv(e)'
    <3>1. idb'[e] \in {latest'[e], safe'[e]}
        BY <1>1, <2>1, <2>2 DEF EntryInv
    <3>2. idb'[e] = latest'[e] \/ (latest'[e] # Absent /\ cache'[e] = latest'[e])
        BY <1>1, <2>1, <2>2 DEF EntryInv
    <3>3. \/ Saved(e)'
          \/ /\ cache'[e] = latest'[e]
             /\ e \in unflushed' \/ \E d \in Calls : e \in call'[d].touched \ call'[d].seen
        BY <1>1, <2>1, <2>3, <2>4, <2>5, <2>6 DEF EntryInv
    <3> QED
        BY <1>1, <2>1, <3>1, <3>2, <3>3 DEF EntryInv
  <2>8. idb'[e] = idb[e] \/ cache[e] # Absent
      BY <1>1, <2>2
  <2>10. \A d \in Calls : d # c => CallInv(d, e)'
      BY <1>1, <1>4, <2>1, <2>5, <2>8 DEF CallInv
  <2>11. CallInv(c, e)'
      BY <1>1, <1>3, <1>4, <2>1, <2>5, <2>8 DEF CallInv
  <2> QED
      BY <2>7, <2>10, <2>11
<1> QED
    BY <1>5, <1>6, <1>7, <1>8, <1>9 DEF StoreInv

\* One entry cannot be written back: nothing but the place of the flush changes.
LEMMA FlushFailsOK ==
    ASSUME StoreInv, NEW c \in Calls, NEW f \in Entries, FlushFails(c, f),
           UNCHANGED <<made, serverPackages, serverLastResort>>
    PROVE  StoreInv'
<1>1. /\ call[c].at = "flush"
      /\ unflushed' = unflushed \cup (call[c].touched \cap {f})
      /\ UNCHANGED <<cache, idb, safe, meta, keyPackages, lastResort, version, latest, excused>>
    BY DEF FlushFails, Visit, At
<1>2. /\ meta = "new" /\ NoOldSuite /\ NewInv /\ StoreType
      /\ \A d \in Calls : Shape(d)
    BY <1>1, LateOK DEF Early
<1>3. PICK r \in CallSet : /\ call' = [call EXCEPT ![c] = r]
                           /\ r.at = "flush" /\ r.store = call[c].store /\ r.read = call[c].read
                           /\ r.seen = call[c].seen \cup {f} /\ r.touched = call[c].touched
  <2> DEFINE q == [call[c] EXCEPT !.seen = @ \cup {f}]
  <2>1. call' = [call EXCEPT ![c] = q]
      BY DEF FlushFails, Visit
  <2>2. call[c] \in CallSet
      BY <1>2 DEF StoreType
  <2>3. /\ q \in CallSet /\ q.at = "flush" /\ q.store = call[c].store /\ q.read = call[c].read
        /\ q.seen = call[c].seen \cup {f} /\ q.touched = call[c].touched
      BY <1>1, <2>2 DEF CallSet
  <2> QED
      BY <2>1, <2>3
<1>4. /\ call' \in [Calls -> CallSet] /\ call'[c] = r
      /\ \A d \in Calls : d # c => call'[d] = call[d]
    BY <1>2, <1>3 DEF StoreType
<1>5. StoreType'
    BY <1>1, <1>2, <1>4 DEF StoreType
<1>6. \A d \in Calls : Shape(d)'
  <2>1. Shape(c)'
      BY <1>1, <1>2, <1>3, <1>4 DEF Shape
  <2>2. \A d \in Calls : d # c => Shape(d)'
      BY <1>2, <1>4 DEF Shape
  <2> QED
      BY <2>1, <2>2
<1>7. OldInv'
    BY <1>1, <1>2 DEF OldInv
<1>8. NoOldSuite'
  <2>1. \A d \in Calls : call'[d].read = call[d].read
      BY <1>3, <1>4
  <2> QED
      BY <1>1, <1>2, <2>1 DEF NoOldSuite
<1>9. NewInv'
  <2> SUFFICES ASSUME NEW e \in Entries \ excused
               PROVE  EntryInv(e)' /\ \A d \in Calls : CallInv(d, e)'
      BY <1>1 DEF NewInv
  <2>1. EntryInv(e) /\ \A d \in Calls : CallInv(d, e)
      BY <1>2 DEF NewInv
  <2>2. \A d \in Calls : call'[d].touched = call[d].touched
      BY <1>3, <1>4
  <2>3. \A d \in Calls : e \in call'[d].seen => e \in call[d].seen \/ (d = c /\ e = f)
      BY <1>3, <1>4
  <2>4. \/ Saved(e) \/ e \in unflushed'
        \/ \E d \in Calls : e \in call'[d].touched \ call'[d].seen
      BY <1>1, <2>1, <2>2, <2>3 DEF EntryInv
  <2>5. Saved(e)' <=> Saved(e)
      BY <1>1 DEF Saved
  <2>6. EntryInv(e)'
      BY <1>1, <2>1, <2>4, <2>5 DEF EntryInv
  <2>7. \A d \in Calls : d # c => CallInv(d, e)'
      BY <1>1, <1>4, <2>1 DEF CallInv
  <2>8. CallInv(c, e)'
      BY <1>1, <1>3, <1>4, <2>1 DEF CallInv
  <2> QED
      BY <2>6, <2>7, <2>8
<1> QED
    BY <1>5, <1>6, <1>7, <1>8, <1>9 DEF StoreInv

\* The flush is over: what the call had touched it has seen.
LEMMA EndFlushOK ==
    ASSUME StoreInv, NEW c \in Calls, EndFlush(c),
           UNCHANGED <<made, serverPackages, serverLastResort>>
    PROVE  StoreInv'
<1>1. /\ call[c].at = "flush" /\ \A e \in Entries : cache[e] # Absent => e \in call[c].seen
      /\ UNCHANGED <<cache, idb, safe, meta, keyPackages, lastResort, version, latest, excused, unflushed>>
    BY DEF EndFlush, At, Unvisited
<1>2. /\ meta = "new" /\ NoOldSuite /\ NewInv /\ StoreType
      /\ \A d \in Calls : Shape(d)
    BY <1>1, LateOK DEF Early
<1>3. PICK r \in CallSet : /\ call' = [call EXCEPT ![c] = r]
                           /\ r.at = "done" /\ r.store = call[c].store /\ r.read = call[c].read
                           /\ r.seen = {} /\ r.touched = {}
  <2> DEFINE q1 == [call[c] EXCEPT !.at = "done"]
             q2 == [q1 EXCEPT !.seen = {}]
             q3 == [q2 EXCEPT !.touched = {}]
  <2>1. call' = [call EXCEPT ![c] = q3]
      BY DEF EndFlush
  <2>2. call[c] \in CallSet /\ "done" \in Phases
      BY <1>2 DEF StoreType, Phases, Early
  <2>3. q1 \in CallSet /\ q1.at = "done" /\ q1.store = call[c].store /\ q1.read = call[c].read
      BY <2>2 DEF CallSet
  <2> HIDE DEF q1
  <2>4. /\ q2 \in CallSet /\ q2.at = "done" /\ q2.store = call[c].store
        /\ q2.read = call[c].read /\ q2.seen = {}
      BY <2>3 DEF CallSet
  <2> HIDE DEF q2
  <2>5. /\ q3 \in CallSet /\ q3.at = "done" /\ q3.store = call[c].store
        /\ q3.read = call[c].read /\ q3.seen = {} /\ q3.touched = {}
      BY <2>4 DEF CallSet
  <2> QED
      BY <2>1, <2>5
<1>4. /\ call' \in [Calls -> CallSet] /\ call'[c] = r
      /\ \A d \in Calls : d # c => call'[d] = call[d]
    BY <1>2, <1>3 DEF StoreType
<1>5. StoreType'
    BY <1>1, <1>2, <1>4 DEF StoreType
<1>6. \A d \in Calls : Shape(d)'
  <2>1. Shape(c)'
      BY <1>1, <1>2, <1>3, <1>4 DEF Shape
  <2>2. \A d \in Calls : d # c => Shape(d)'
      BY <1>2, <1>4 DEF Shape
  <2> QED
      BY <2>1, <2>2
<1>7. OldInv'
    BY <1>1, <1>2 DEF OldInv
<1>8. NoOldSuite'
  <2>1. \A d \in Calls : call'[d].read = call[d].read
      BY <1>3, <1>4
  <2> QED
      BY <1>1, <1>2, <2>1 DEF NoOldSuite
<1>9. NewInv'
  <2> SUFFICES ASSUME NEW e \in Entries \ excused
               PROVE  EntryInv(e)' /\ \A d \in Calls : CallInv(d, e)'
      BY <1>1 DEF NewInv
  <2>1. EntryInv(e) /\ \A d \in Calls : CallInv(d, e)
      BY <1>2 DEF NewInv
  <2>2. \A d \in Calls : d # c => call'[d].touched = call[d].touched /\ call'[d].seen = call[d].seen
      BY <1>4
  <2>3. e \in call[c].touched \ call[c].seen => Saved(e)
      BY <1>1, <2>1 DEF CallInv, Saved
  <2>4. \/ Saved(e) \/ e \in unflushed
        \/ \E d \in Calls : d # c /\ e \in call[d].touched \ call[d].seen
      BY <2>1, <2>3 DEF EntryInv
  <2>5. Saved(e)' <=> Saved(e)
      BY <1>1 DEF Saved
  <2>6. EntryInv(e)'
      BY <1>1, <2>1, <2>2, <2>4, <2>5 DEF EntryInv
  <2>7. \A d \in Calls : d # c => CallInv(d, e)'
      BY <1>1, <1>4, <2>1 DEF CallInv
  <2>8. CallInv(c, e)'
      BY <1>3, <1>4 DEF CallInv
  <2> QED
      BY <2>6, <2>7, <2>8
<1> QED
    BY <1>5, <1>6, <1>7, <1>8, <1>9 DEF StoreInv

\* Writes reach the disk.
LEMMA CommitWritesOK ==
    ASSUME StoreInv, NEW s \in StoreNames, CommitWrites(s),
           UNCHANGED <<made, serverPackages, serverLastResort>>
    PROVE  StoreInv'
<1>1. /\ safe' = [e \in Entries |-> IF e[2] = s THEN idb[e] ELSE safe[e]]
      /\ UNCHANGED <<cache, idb, meta, keyPackages, lastResort, call, version, latest, excused, unflushed>>
    BY DEF CommitWrites
<1>2. \A e \in Entries : safe'[e] \in {idb[e], safe[e]}
    BY <1>1
<1>3. StoreType'
    BY <1>1 DEF StoreInv, StoreType
<1>4. \A d \in Calls : Shape(d)'
    BY <1>1 DEF StoreInv, Shape
<1>5. OldInv'
  <2> SUFFICES ASSUME meta = "old" PROVE OldInv'
      BY <1>1 DEF OldInv
  <2>1. \A d \in Calls : Emptied(d) => Emptied(d)'
      BY <1>1, <1>2 DEF Emptied
  <2> QED
      BY <1>1, <2>1 DEF StoreInv, OldInv
<1>6. NoOldSuite'
    BY <1>1, <1>2 DEF StoreInv, NoOldSuite
<1>7. NewInv'
  <2> SUFFICES ASSUME meta = "new", NEW e \in Entries \ excused
               PROVE  EntryInv(e)' /\ \A d \in Calls : CallInv(d, e)'
      BY <1>1 DEF NewInv
  <2>1. EntryInv(e) /\ \A d \in Calls : CallInv(d, e)
      BY DEF StoreInv, NewInv
  <2>2. Saved(e) => Saved(e)'
      BY <1>1, <1>2, <2>1 DEF Saved, EntryInv
  <2> QED
      BY <1>1, <2>1, <2>2 DEF EntryInv, CallInv
<1> QED
    BY <1>3, <1>4, <1>5, <1>6, <1>7 DEF StoreInv

\* A write of the bridge is lost.
LEMMA LoseWriteOK ==
    ASSUME StoreInv, NEW f \in Entries, LoseWrite(f),
           UNCHANGED <<made, serverPackages, serverLastResort>>
    PROVE  StoreInv'
<1>1. /\ safe[f] # idb[f]
      /\ idb' = [idb EXCEPT ![f] = safe[f]]
      /\ excused' = IF latest[f] = Absent THEN excused \cup {f} ELSE excused
      /\ UNCHANGED <<cache, safe, meta, keyPackages, lastResort, call, version, latest, unflushed>>
    BY DEF LoseWrite
<1>2. \A e \in Entries : idb'[e] \in {idb[e], safe[e]} /\ (e # f => idb'[e] = idb[e])
    BY <1>1 DEF StoreInv, StoreType
<1>3. StoreType'
    BY <1>1 DEF StoreInv, StoreType
<1>4. \A d \in Calls : Shape(d)'
    BY <1>1 DEF StoreInv, Shape
<1>5. OldInv'
  <2> SUFFICES ASSUME meta = "old" PROVE OldInv'
      BY <1>1 DEF OldInv
  <2>1. \A d \in Calls : Emptied(d) => Emptied(d)'
      BY <1>1, <1>2 DEF Emptied
  <2> QED
      BY <1>1, <2>1 DEF StoreInv, OldInv
<1>6. NoOldSuite'
    BY <1>1, <1>2 DEF StoreInv, NoOldSuite
<1>7. NewInv'
  <2> SUFFICES ASSUME meta = "new", NEW e \in Entries \ excused'
               PROVE  EntryInv(e)' /\ \A d \in Calls : CallInv(d, e)'
      BY <1>1 DEF NewInv
  <2>1. e \notin excused /\ (e = f => latest[f] # Absent)
      BY <1>1
  <2>2. EntryInv(e) /\ \A d \in Calls : CallInv(d, e)
      BY <2>1 DEF StoreInv, NewInv
  <2>3. CASE e # f
    <3>1. idb'[e] = idb[e]
        BY <1>2, <2>3
    <3>2. EntryInv(e)'
        BY <1>1, <2>2, <3>1 DEF EntryInv, Saved
    <3>3. \A d \in Calls : CallInv(d, e)'
        BY <1>1, <2>2, <3>1 DEF CallInv
    <3> QED
        BY <3>2, <3>3
  <2>4. CASE e = f
    <3>1. idb'[e] = safe[e] /\ safe[e] # latest[e] /\ latest[e] # Absent
        BY <1>1, <2>1, <2>2, <2>4 DEF EntryInv, StoreInv, StoreType
    <3>2. cache[e] = latest[e]
        BY <2>2, <3>1 DEF EntryInv, Saved
    <3>3. EntryInv(e)'
        BY <1>1, <2>2, <3>1, <3>2 DEF EntryInv, Saved
    <3>4. \A d \in Calls : CallInv(d, e)'
        BY <1>1, <2>2, <3>1, <3>2 DEF CallInv
    <3> QED
        BY <3>3, <3>4
  <2> QED
      BY <2>3, <2>4
<1> QED
    BY <1>3, <1>4, <1>5, <1>6, <1>7 DEF StoreInv

\* A page load ends every call and keeps what is on disk.
LEMMA ReloadOK ==
    ASSUME StoreInv, ReloadStore, UNCHANGED <<made, serverPackages, serverLastResort>>
    PROVE  StoreInv'
<1>1. /\ cache' = [e \in Entries |-> Absent] /\ idb' = safe
      /\ call' = [c \in Calls |-> IF call[c].at = "idle" THEN Idle ELSE [Idle EXCEPT !.at = "done"]]
      /\ UNCHANGED <<safe, meta, keyPackages, lastResort, version, latest>>
    BY DEF ReloadStore, At
<1>c. \A e : e \in excused' <=>
         \/ e \in excused
         \/ /\ e \in Entries /\ safe[e] # latest[e]
            /\ \/ latest[e] = Absent
               \/ e \in unflushed
               \/ \E c \in Calls : e \in call[c].touched
    BY DEF ReloadStore
<1>2. \A c \in Calls : /\ call'[c] \in CallSet /\ call'[c].at \in {"idle", "done"}
                       /\ call'[c].store = 1 /\ call'[c].read = {}
                       /\ call'[c].seen = {} /\ call'[c].touched = {}
  <2>1. [Idle EXCEPT !.at = "done"] = [at |-> "done", store |-> 1, read |-> {}, seen |-> {},
                                       touched |-> {}]
      BY DEF Idle
  <2> QED
      BY <1>1, <2>1 DEF Idle, CallSet, Phases, Early
<1>3. StoreType'
  <2>2. excused' \in SUBSET Entries
    <3>1. \A e \in excused : e \in Entries
        BY DEF StoreInv, StoreType
    <3>2. \A e \in excused' : e \in Entries
        BY <1>c, <3>1
    <3> QED
        BY <3>2
  <2>3. call' \in [Calls -> CallSet]
      BY <1>1, <1>2
  <2> QED
      BY <1>1, <2>2, <2>3 DEF StoreInv, StoreType, Absent
<1>4. \A d \in Calls : Shape(d)'
    BY <1>2 DEF Shape
<1>5. OldInv'
    BY <1>1, <1>2 DEF StoreInv, OldInv, Early
<1>6. NoOldSuite'
    BY <1>1, <1>2 DEF StoreInv, NoOldSuite, Absent, OldSuite
<1>7. NewInv'
  <2> SUFFICES ASSUME meta = "new", NEW e \in Entries \ excused'
               PROVE  EntryInv(e)' /\ \A d \in Calls : CallInv(d, e)'
      BY <1>1 DEF NewInv
  <2>1. /\ e \notin excused
        /\ \/ safe[e] = latest[e]
           \/ /\ latest[e] # Absent /\ e \notin unflushed
              /\ \A c \in Calls : e \notin call[c].touched
      BY <1>c
  <2>2. safe[e] = latest[e]
      BY <2>1 DEF StoreInv, NewInv, EntryInv, Saved
  <2> QED
      BY <1>1, <1>2, <2>2 DEF EntryInv, CallInv, Saved
<1> QED
    BY <1>3, <1>4, <1>5, <1>6, <1>7 DEF StoreInv

\* A request is refused: the call ends.
LEMMA RejectOK ==
    ASSUME StoreInv, NEW c \in Calls, RejectRequest(c),
           UNCHANGED <<made, serverPackages, serverLastResort>>
    PROVE  StoreInv'
<1> DEFINE r == [Idle EXCEPT !.at = "done"]
<1>1. /\ call[c].at \in {"clear", "mark", "read", "make"}
      /\ call' = [call EXCEPT ![c] = r]
      /\ UNCHANGED <<cache, idb, safe, meta, keyPackages, lastResort, version, latest, excused, unflushed>>
    BY DEF RejectRequest
<1>2. /\ r \in CallSet /\ r.at = "done" /\ r.store = 1 /\ r.read = {} /\ r.seen = {} /\ r.touched = {}
    BY DEF Idle, CallSet, Phases, Early
<1> HIDE DEF r
<1>3. /\ call' \in [Calls -> CallSet] /\ call'[c] = r
      /\ \A d \in Calls : d # c => call'[d] = call[d]
    BY <1>1, <1>2 DEF StoreInv, StoreType
<1>4. StoreType'
    BY <1>1, <1>3 DEF StoreInv, StoreType
<1>5. \A d \in Calls : Shape(d)'
  <2>1. Shape(c)'
      BY <1>2, <1>3 DEF Shape
  <2>2. \A d \in Calls : d # c => Shape(d)'
      BY <1>3 DEF StoreInv, Shape
  <2> QED
      BY <2>1, <2>2
<1>6. OldInv'
  <2> SUFFICES ASSUME meta = "old"
               PROVE  \A d \in Calls : /\ call'[d].at \in Early
                                       /\ call'[d].at \in {"clear", "mark"} => Emptied(d)'
      BY <1>1, <1>3, <1>2 DEF StoreInv, OldInv
  <2> TAKE d \in Calls
  <2>1. CASE d = c
      BY <1>2, <1>3, <2>1 DEF Early
  <2>2. CASE d # c
      BY <1>1, <1>3, <2>2 DEF StoreInv, OldInv, Emptied
  <2> QED
      BY <2>1, <2>2
<1>7. NoOldSuite'
    BY <1>1, <1>2, <1>3 DEF StoreInv, NoOldSuite
<1>8. NewInv'
  <2> SUFFICES ASSUME meta = "new", NEW e \in Entries \ excused
               PROVE  EntryInv(e)' /\ \A d \in Calls : CallInv(d, e)'
      BY <1>1 DEF NewInv
  <2>1. EntryInv(e) /\ \A d \in Calls : CallInv(d, e)
      BY DEF StoreInv, NewInv
  <2>2. call[c].touched = {}
      BY <1>1 DEF StoreInv, Shape
  <2>3. \A d \in Calls : d # c => call'[d].touched = call[d].touched /\ call'[d].seen = call[d].seen
      BY <1>3
  <2>4. EntryInv(e)'
      BY <1>1, <2>1, <2>2, <2>3 DEF EntryInv, Saved
  <2>5. \A d \in Calls : d # c => CallInv(d, e)'
      BY <1>1, <1>3, <2>1 DEF CallInv
  <2>6. CallInv(c, e)'
      BY <1>2, <1>3 DEF CallInv
  <2> QED
      BY <2>4, <2>5, <2>6
<1> QED
    BY <1>4, <1>5, <1>6, <1>7, <1>8 DEF StoreInv

\* A package of a call is none of the old suite's.
LEMMA NotOld ==
    \A c \in Calls : \A i : <<c, i>> # OldPackage /\ <<c, i>> # NoPackage
    BY StoresAssumption DEF OldPackage, NoPackage

\* The steps of the calls that make key packages.
LEMMA MakerOK ==
    ASSUME StoreInv, NEW c \in Calls,
           \/ AskCount(c) \/ FindCredential(c) \/ UploadCredential(c) \/ MakePackage(c)
           \/ MakeLastResort(c) \/ UploadLastResort(c) \/ UploadPackages(c)
    PROVE  StoreInv'
<1>0. StoreType
    BY DEF StoreInv
<1>1. CASE AskCount(c)
  <2>1. GoTo(c, "done") /\ call[c].at = "idle" /\ "done" \in Calm /\ "idle" \in Calm /\ "done" \in Early
      BY <1>1 DEF AskCount, At, Calm, Early
  <2> QED
      BY <1>0, <1>1, <2>1, MovesOK DEF AskCount, StoreRest, serverVars, StoreType
<1>2. CASE FindCredential(c)
  <2>1. PICK p \in {"make", "upload credential", "done"} : GoTo(c, p)
      BY <1>2 DEF FindCredential
  <2>2. p \in Calm /\ call[c].at = "open" /\ call[c].at \in Calm
      BY <1>2 DEF FindCredential, At, Calm, Making
  <2>3. meta = "new"
      BY <2>2, LateOK DEF Early
  <2> QED
      BY <1>0, <1>2, <2>1, <2>2, <2>3, MovesOK DEF FindCredential, StoreRest, serverVars, StoreType
<1>3. CASE UploadCredential(c)
  <2>1. PICK p \in {"make", "done"} : GoTo(c, p)
      BY <1>3 DEF UploadCredential, Answered, Failed
  <2>2. p \in Calm /\ call[c].at = "upload credential" /\ call[c].at \in Calm
      BY <1>3 DEF UploadCredential, At, Calm, Making
  <2>3. meta = "new"
      BY <2>2, LateOK DEF Early
  <2> QED
      BY <1>0, <1>3, <2>1, <2>2, <2>3, MovesOK DEF UploadCredential, StoreRest, serverVars, StoreType
<1>4. CASE MakePackage(c)
  <2>1. meta = "new"
      BY <1>4, LateOK DEF MakePackage, At, Early
  <2>2. made' \in [Calls -> Nat]
      BY <1>0, <1>4 DEF MakePackage, StoreType
  <2>3. OldPackage \in keyPackages' => OldPackage \in keyPackages
      BY <1>4, NotOld DEF MakePackage
  <2>4. UNCHANGED <<cache, idb, safe, meta, latest, excused, unflushed, version, call, lastResort>>
      BY <1>4 DEF MakePackage, StoreRest
  <2>5. StoreType' /\ NoOldSuite' /\ \A d \in Calls : Shape(d)'
      BY <2>2, <2>3, <2>4 DEF StoreInv, StoreType, NoOldSuite, Shape
  <2>6. OldInv'
      BY <2>1, <2>4 DEF OldInv
  <2>7. NewInv'
    <3>1. \A e \in Entries : EntryInv(e)' <=> EntryInv(e)
        BY <2>4 DEF EntryInv, Saved
    <3>2. \A d \in Calls, e \in Entries : CallInv(d, e)' <=> CallInv(d, e)
        BY <2>4 DEF CallInv
    <3> QED
        BY <2>4, <3>1, <3>2 DEF StoreInv, NewInv
  <2> QED
      BY <2>5, <2>6, <2>7 DEF StoreInv
<1>5. CASE MakeLastResort(c)
  <2>1. /\ GoTo(c, "upload last resort") /\ call[c].at = "make"
        /\ "upload last resort" \in Calm /\ "make" \in Calm
      BY <1>5 DEF MakeLastResort, At, Calm, Making
  <2>2. meta = "new"
      BY <2>1, LateOK DEF Early
  <2>3. lastResort' # OldPackage
      BY <1>5, NotOld DEF MakeLastResort, LastResortOf
  <2> QED
      BY <1>0, <1>5, <2>1, <2>2, <2>3, MovesOK DEF MakeLastResort, StoreRest, StoreType
<1>6. CASE UploadLastResort(c)
  <2>1. PICK p \in {"upload packages", "done"} : GoTo(c, p)
      BY <1>6 DEF UploadLastResort, Answered, Failed
  <2>2. p \in Calm /\ call[c].at = "upload last resort" /\ call[c].at \in Calm
      BY <1>6 DEF UploadLastResort, At, Calm, Making
  <2>3. meta = "new"
      BY <2>2, LateOK DEF Early
  <2> QED
      BY <1>0, <1>6, <2>1, <2>2, <2>3, MovesOK DEF UploadLastResort, StoreRest, StoreType
<1>7. CASE UploadPackages(c)
  <2>1. GoTo(c, "done") /\ call[c].at = "upload packages" /\ "done" \in Calm /\ "upload packages" \in Calm
      BY <1>7 DEF UploadPackages, Answered, Failed, At, Calm, Making
  <2>2. meta = "new"
      BY <2>1, LateOK DEF Early
  <2> QED
      BY <1>0, <1>7, <2>1, <2>2, MovesOK DEF UploadPackages, StoreRest, StoreType
<1> QED
    BY <1>1, <1>2, <1>3, <1>4, <1>5, <1>6, <1>7

\* The invariant of the store is inductive.
LEMMA StoreNext == StoreInv /\ [Next]_vars => StoreInv'
<1> SUFFICES ASSUME StoreInv, [Next]_vars PROVE StoreInv'
    OBVIOUS
<1>1. ASSUME NEW c \in Calls, Open(c) PROVE StoreInv'
    BY <1>1, ReadMarkOK, BeginResetOK, ClearStoreOK, MarkSuiteOK DEF Open, OpenStep, serverVars
<1>2. ASSUME NEW c \in Calls, Group(c) PROVE StoreInv'
    BY <1>2, ReadStoreOK, FillCacheOK, EndFlushOK, FlushEntryOK, FlushFailsOK, RunWasmOK
       DEF Group, GroupStep, serverVars
<1>3. CASE PageStep
    BY <1>3, ReloadOK, CommitWritesOK, LoseWriteOK, RejectOK DEF PageStep, Browser
<1>4. ASSUME NEW q \in serverPackages, Take(q) PROVE StoreInv'
  <2>1. meta = "new"
      BY DEF StoreInv, StoreType, OldInv
  <2> QED
      BY <1>4, <2>1, RestOK DEF Take, StoreRest
<1>5. CASE UNCHANGED vars
    BY <1>5, RestOK DEF vars, storeVars
<1> QED
    BY <1>1, <1>2, <1>3, <1>4, <1>5, MakerOK DEF Next

\* It holds at the start, of a fresh database and of one of an old suite.
LEMMA StoreInitOK == Init => StoreInv
<1> SUFFICES ASSUME Init PROVE StoreInv
    OBVIOUS
<1> USE DEF Absent, OldSuite
<1>1. /\ meta \in {"old", "new"}
      /\ idb = [e \in Entries |-> IF meta = "old" THEN OldSuite ELSE Absent]
      /\ safe = idb /\ latest = idb /\ cache = [e \in Entries |-> Absent]
      /\ keyPackages = IF meta = "old" THEN {OldPackage} ELSE {}
      /\ lastResort = IF meta = "old" THEN OldPackage ELSE NoPackage
      /\ call = [c \in Calls |-> Idle] /\ version = OldSuite /\ excused = {}
      /\ made = [c \in Calls |-> 0] /\ serverPackages = {} /\ serverLastResort = NoPackage
    BY DEF Init, StoreInit
<1>2. /\ Idle \in CallSet /\ Idle.at = "idle" /\ Idle.store = 1 /\ Idle.read = {}
      /\ Idle.seen = {} /\ Idle.touched = {}
    BY DEF Idle, CallSet, Phases, Early
<1>3. StoreType
    BY <1>1, <1>2 DEF StoreType
<1>4. \A c \in Calls : Shape(c)
    BY <1>1, <1>2 DEF Shape
<1>5. OldInv
    BY <1>1, <1>2 DEF OldInv, Early
<1>6. NoOldSuite
    BY <1>1, <1>2 DEF NoOldSuite, OldPackage, NoPackage
<1>7. NewInv
    BY <1>1, <1>2 DEF NewInv, EntryInv, CallInv, Saved
<1> QED
    BY <1>3, <1>4, <1>5, <1>6, <1>7 DEF StoreInv

\* A WASM call reads what the last one left, but for the entries excused by name.
THEOREM ReadsHold == Spec => []ReadsAreCurrent
<1>1. StoreInv => ReadsAreCurrent
  <2> SUFFICES ASSUME StoreInv, NEW c \in Calls, call[c].at = "wasm", NEW e \in Entries \ excused
               PROVE  cache[e] = latest[e]
      BY DEF ReadsAreCurrent, At
  <2> QED
      BY LateOK DEF Early, NewInv, CallInv
<1> QED
    BY <1>1, StoreInitOK, StoreNext, PTL DEF Spec

\* What a WASM call wrote is on disk when no call has still to flush it, but for
\* the entries excused by name and those that their flush could not write.
THEOREM FlushHolds == Spec => []FlushIsDurable
<1>1. StoreInv => FlushIsDurable
  <2> SUFFICES ASSUME StoreInv, NEW e \in Entries, e \notin excused, e \notin unflushed,
                      latest[e] \notin {Absent, OldSuite},
                      \A c \in Calls : e \notin call[c].touched
               PROVE  safe[e] = latest[e]
      BY DEF FlushIsDurable
  <2>1. meta = "new"
      BY DEF StoreInv, StoreType, OldInv
  <2> QED
      BY <2>1 DEF StoreInv, NewInv, EntryInv, Saved
<1> QED
    BY <1>1, StoreInitOK, StoreNext, PTL DEF Spec

\* Behind an open store there is nothing of an old suite.
THEOREM SuiteHolds == Spec => []OldSuiteIsGone
<1>1. StoreInv => OldSuiteIsGone
  <2> SUFFICES ASSUME StoreInv, NEW c \in Calls, Opened(c)
               PROVE  /\ \A e \in Entries : OldSuite \notin {cache[e], idb[e], safe[e]}
                      /\ OldPackage \notin keyPackages \union {lastResort}
      BY DEF OldSuiteIsGone
  <2> QED
      BY LateOK DEF Opened, Early, NoOldSuite
<1> QED
    BY <1>1, StoreInitOK, StoreNext, PTL DEF Spec

-----------------------------------------------------------------------------
\* A step of a call outside the uploads leaves the packages as they are.
LEMMA PackKept ==
    ASSUME PackInv, NEW c \in Calls,
           \A d \in Calls : d # c => call'[d].at = call[d].at,
           call[c].at # "upload last resort",
           call'[c].at \notin {"upload last resort", "upload packages"},
           UNCHANGED <<made, keyPackages, lastResort, wiped, serverPackages, serverLastResort, unsure>>
    PROVE  PackInv'
<1>1. \A d \in Calls : MayUpload(d)' <=> MayUpload(d)
    BY DEF MayUpload, LastResortOf
<1>2. \A d \in Calls : call'[d].at = "upload last resort" <=> call[d].at = "upload last resort"
    OBVIOUS
<1>3. PackagesAreHeld'
    BY <1>2 DEF PackInv, PackagesAreHeld, At, LastResortOf
<1> QED
    BY <1>1, <1>2, <1>3 DEF PackInv

\* A reset deletes keys, and remembers them when it comes late.
LEMMA PackReset ==
    ASSUME StoreInv, PackInv, NEW c \in Calls, ClearStore(c),
           UNCHANGED <<made, serverPackages, serverLastResort, unsure>>
    PROVE  PackInv'
<1>1. /\ call[c].at = "clear"
      /\ keyPackages' \in {{}, keyPackages} /\ lastResort' \in {NoPackage, lastResort}
      /\ meta = "new" => /\ keyPackages \cup wiped \subseteq keyPackages' \cup wiped'
                         /\ wiped \subseteq wiped'
                         /\ lastResort' = lastResort
                               \/ (lastResort' = NoPackage /\ lastResort \in wiped')
    BY DEF ClearStore, At
<1>2. call \in [Calls -> CallSet]
    BY DEF StoreInv, StoreType
<1>3. /\ \A d \in Calls : d # c => call'[d] = call[d]
      /\ call'[c].at \in {"mark", "clear"}
    BY <1>2 DEF ClearStore, CallSet
<1>4. CASE meta = "old"
  <2>1. /\ \A d \in Calls : call'[d].at \in Early
        /\ \A d \in Calls : made[d] = 0
        /\ serverPackages = {} /\ serverLastResort = NoPackage
      BY <1>3, <1>4 DEF StoreInv, OldInv, Early
  <2>2. \A i \in 1..0 : FALSE
      OBVIOUS
  <2>3. 0 <= Batch
      BY BatchAssumption
  <2> QED
      BY <2>1, <2>2, <2>3 DEF PackInv, PackagesAreHeld, Early
<1>5. CASE meta = "new"
  <2>1. \A d \in Calls : call'[d].at = "upload last resort" <=> call[d].at = "upload last resort"
      BY <1>1, <1>3
  <2>2. \A d \in Calls : call'[d].at = "upload packages" <=> call[d].at = "upload packages"
      BY <1>1, <1>3
  <2>3. \A d \in Calls : MayUpload(d) => MayUpload(d)'
      BY <1>1, <1>5 DEF MayUpload, LastResortOf
  <2>4. PackagesAreHeld'
      BY <1>1, <1>5, <2>1 DEF PackInv, PackagesAreHeld, At, LastResortOf
  <2> QED
      BY <1>1, <1>5, <2>1, <2>2, <2>3, <2>4 DEF PackInv
<1> QED
    BY <1>4, <1>5 DEF StoreInv, StoreType

\* The steps that open the store.
LEMMA PackOpen ==
    ASSUME StoreInv, PackInv, NEW c \in Calls, OpenStep(c),
           UNCHANGED <<made, serverPackages, serverLastResort, unsure>>
    PROVE  PackInv'
<1>0. StoreType
    BY DEF StoreInv
<1>1. CASE ReadMark(c)
  <2>1. PICK p \in {"open", "stale"} : GoTo(c, p)
      BY <1>1 DEF ReadMark
  <2> QED
      BY <1>0, <1>1, <2>1, GoToOK, PackKept DEF ReadMark, At, Phases, Early
<1>2. CASE BeginReset(c)
  <2>1. call'[c].at = "clear" /\ \A d \in Calls : d # c => call'[d] = call[d]
      BY <1>0, <1>2 DEF BeginReset, StoreType, CallSet
  <2> QED
      BY <1>2, <2>1, PackKept DEF BeginReset, At
<1>3. CASE ClearStore(c)
    BY <1>3, PackReset
<1>4. CASE MarkSuite(c)
  <2>1. GoTo(c, "open") /\ "open" \in Phases
      BY <1>4 DEF MarkSuite, Phases
  <2> QED
      BY <1>0, <1>4, <2>1, GoToOK, PackKept DEF MarkSuite, At
<1> QED
    BY <1>1, <1>2, <1>3, <1>4 DEF OpenStep

\* The steps of a group operation.
LEMMA PackGroup ==
    ASSUME StoreInv, PackInv, NEW c \in Calls, GroupStep(c),
           UNCHANGED <<made, serverPackages, serverLastResort, unsure>>
    PROVE  PackInv'
<1>1. /\ call[c].at \in {"open", "read", "fill", "wasm", "flush"}
      /\ UNCHANGED <<keyPackages, lastResort, wiped>>
    BY DEF GroupStep, ReadStore, FillCache, EndFlush, FlushEntry, FlushFails, Visit, RunWasm, At
<1>2. /\ \A d \in Calls : d # c => call'[d] = call[d]
      /\ call'[c].at \in {"fill", "wasm", "read", "done", "flush"}
  <2>0. call \in [Calls -> CallSet]
      BY DEF StoreInv, StoreType
  <2>1. CASE ReadStore(c)
      BY <2>0, <2>1 DEF ReadStore, CallSet
  <2>2. CASE FillCache(c)
      BY <2>0, <2>2 DEF FillCache, CallSet
  <2>3. CASE EndFlush(c)
      BY <2>0, <2>3 DEF EndFlush, CallSet
  <2>4. ASSUME NEW e \in Entries, FlushEntry(c, e) \/ FlushFails(c, e)
        PROVE  <1>2!1 /\ <1>2!2
      BY <2>0, <2>4 DEF FlushEntry, FlushFails, Visit, CallSet, At
  <2>5. ASSUME NEW g \in Groups, NEW written \in SUBSET StoreNames,
               NEW deleted \in SUBSET StoreNames, RunWasm(c, g, written, deleted)
        PROVE  <1>2!1 /\ <1>2!2
      BY <2>0, <2>5 DEF RunWasm, CallSet
  <2> QED
      BY <2>1, <2>2, <2>3, <2>4, <2>5 DEF GroupStep
<1> QED
    BY <1>1, <1>2, PackKept

\* The browser: a page load or a refused request ends an upload unanswered.
LEMMA PackPage ==
    ASSUME StoreInv, PackInv, PageStep
    PROVE  PackInv'
<1>1. /\ UNCHANGED <<made, serverPackages, serverLastResort, keyPackages, lastResort, wiped>>
      /\ unsure \subseteq unsure'
      /\ call' = call \/ \A c \in Calls : call[c].at = "upload last resort" => c \in unsure'
    BY DEF PageStep, Browser, ReloadStore, CommitWrites, LoseWrite, RejectRequest, At
<1>2. \A c \in Calls : call'[c].at \in {call[c].at, "idle", "done"}
  <2>1. CASE ReloadStore
      BY <2>1 DEF ReloadStore, Idle
  <2>2. ASSUME NEW s \in StoreNames, CommitWrites(s) PROVE <1>2
      BY <2>2 DEF CommitWrites
  <2>3. ASSUME NEW d \in Calls, RejectRequest(d) PROVE <1>2
      BY <2>3 DEF RejectRequest, Idle, StoreInv, StoreType
  <2>4. ASSUME NEW e \in Entries, LoseWrite(e) PROVE <1>2
      BY <2>4 DEF LoseWrite
  <2> QED
      BY <2>1, <2>2, <2>3, <2>4 DEF PageStep, Browser
<1>3. \A c \in Calls : call'[c].at = "upload last resort" => MayUpload(c) /\ MayUpload(c)'
    BY <1>1, <1>2 DEF PackInv, MayUpload, LastResortOf
<1>4. PackagesAreHeld'
  <2>1. serverPackages' \subseteq keyPackages' \cup wiped'
      BY <1>1 DEF PackInv, PackagesAreHeld
  <2>2. CASE serverLastResort \in {NoPackage, lastResort} \cup wiped
               \/ (lastResort = NoPackage /\ wiped # {})
      BY <1>1, <2>1, <2>2 DEF PackagesAreHeld
  <2>3. ASSUME NEW c \in Calls, lastResort = LastResortOf(c),
               call[c].at = "upload last resort" \/ c \in unsure
        PROVE  PackagesAreHeld'
    <3>1. call'[c].at = "upload last resort" \/ c \in unsure'
        BY <1>1, <2>3
    <3> QED
        BY <1>1, <2>1, <2>3, <3>1 DEF PackagesAreHeld, At, LastResortOf
  <2> QED
      BY <2>2, <2>3 DEF PackInv, PackagesAreHeld, At
<1> QED
    BY <1>1, <1>2, <1>3, <1>4 DEF PackInv

\* One more private key is stored.
LEMMA PackMake ==
    ASSUME StoreInv, PackInv, NEW c \in Calls, MakePackage(c)
    PROVE  PackInv'
<1>1. /\ call[c].at = "make" /\ made[c] < Batch /\ made[c] \in Nat
      /\ keyPackages' = keyPackages \cup {<<c, made[c] + 1>>}
      /\ UNCHANGED <<call, lastResort, wiped, serverPackages, serverLastResort, unsure>>
    BY DEF MakePackage, At, StoreRest, serverVars, StoreInv, StoreType
<1>2. made'[c] = made[c] + 1 /\ \A d \in Calls : d # c => made'[d] = made[d]
    BY DEF MakePackage, StoreInv, StoreType
<1>3. \A d \in Calls : made'[d] <= Batch /\ \A i \in 1..made'[d] : <<d, i>> \in keyPackages' \cup wiped'
  <2> TAKE d \in Calls
  <2>1. CASE d # c
      BY <1>1, <1>2, <2>1 DEF PackInv
  <2>2. CASE d = c
    <3>1. \A i \in 1..made'[c] : i \in 1..made[c] \/ i = made[c] + 1
        BY <1>1, <1>2
    <3>2. made'[c] <= Batch
        BY <1>1, <1>2, BatchAssumption
    <3>3. ASSUME NEW i \in 1..made[c] PROVE <<c, i>> \in keyPackages' \cup wiped'
        BY <1>1 DEF PackInv
    <3> QED
        BY <1>1, <1>2, <2>2, <3>1, <3>2, <3>3
  <2> QED
      BY <2>1, <2>2
<1>4. \A d \in Calls : MayUpload(d)' <=> MayUpload(d)
    BY <1>1 DEF MayUpload, LastResortOf
<1>5. PackagesAreHeld'
    BY <1>1 DEF PackInv, PackagesAreHeld, At, LastResortOf
<1> QED
    BY <1>1, <1>2, <1>3, <1>4, <1>5 DEF PackInv

\* The last resort is stored: an upload under way is now one of an older last resort.
LEMMA PackLastResort ==
    ASSUME StoreInv, PackInv, NEW c \in Calls, MakeLastResort(c)
    PROVE  PackInv'
<1>1. /\ call[c].at = "make" /\ made[c] = Batch /\ lastResort' = LastResortOf(c)
      /\ unsure \subseteq unsure'
      /\ (\E d \in Calls : call[d].at = "upload last resort") => c \in unsure'
      /\ UNCHANGED <<made, keyPackages, wiped, serverPackages, serverLastResort>>
    BY DEF MakeLastResort, At, AllMade, StoreRest
<1>2. call'[c].at = "upload last resort" /\ \A d \in Calls : d # c => call'[d] = call[d]
    BY GoToOK DEF MakeLastResort, StoreInv, Phases, Making
<1>3. \A d \in Calls : call'[d].at = "upload last resort" => MayUpload(d)'
    BY <1>1, <1>2 DEF MayUpload, LastResortOf
<1>4. PackagesAreHeld'
    BY <1>1, <1>2 DEF PackInv, PackagesAreHeld, At, LastResortOf
<1> QED
    BY <1>1, <1>2, <1>3, <1>4 DEF PackInv

\* The answers of the server, or a request that failed before or after its effect.
LEMMA PackUpload ==
    ASSUME StoreInv, PackInv, NEW c \in Calls, UploadLastResort(c) \/ UploadPackages(c)
    PROVE  PackInv'
<1>0. call \in [Calls -> CallSet]
    BY DEF StoreInv, StoreType
<1>1. CASE UploadLastResort(c)
  <2>1. /\ call[c].at = "upload last resort" /\ MayUpload(c) /\ made[c] = Batch
        /\ UNCHANGED <<made, keyPackages, lastResort, wiped, serverPackages>>
        /\ unsure \subseteq unsure'
        /\ \A d \in Calls : d # c => call'[d] = call[d]
      BY <1>0, <1>1 DEF UploadLastResort, Answered, Failed, GoTo, At, StoreRest, PackInv
  <2>2. /\ call'[c].at \in {"upload packages", "done"}
        /\ \/ serverLastResort' = LastResortOf(c) /\ unsure' = unsure
           \/ serverLastResort' \in {serverLastResort, LastResortOf(c)} /\ c \in unsure'
      BY <1>0, <1>1 DEF UploadLastResort, Answered, Failed, GoTo, CallSet
  <2>3. \A d \in Calls : MayUpload(d) => MayUpload(d)'
      BY <2>1 DEF MayUpload, LastResortOf
  <2>4. \A d \in Calls : call[d].at = "upload last resort" => call'[d].at = "upload last resort" \/ d = c
      BY <2>1
  <2>5. PackagesAreHeld'
    <3>1. serverPackages' \subseteq keyPackages' \cup wiped'
        BY <2>1 DEF PackInv, PackagesAreHeld
    <3>2. CASE serverLastResort' = LastResortOf(c)
        BY <2>1, <2>2, <3>1, <3>2 DEF MayUpload, PackagesAreHeld, LastResortOf
    <3>3. CASE serverLastResort' = serverLastResort /\ c \in unsure'
        BY <2>1, <2>4, <3>1, <3>3 DEF PackInv, PackagesAreHeld, At, LastResortOf
    <3> QED
        BY <2>2, <3>2, <3>3
  <2> QED
      BY <2>1, <2>2, <2>3, <2>5 DEF PackInv
<1>2. CASE UploadPackages(c)
  <2>1. /\ call[c].at = "upload packages" /\ made[c] = Batch
        /\ UNCHANGED <<made, keyPackages, lastResort, wiped, serverLastResort, unsure>>
        /\ serverPackages' \in {serverPackages, serverPackages \cup PackagesOf(c)}
        /\ call'[c].at = "done" /\ \A d \in Calls : d # c => call'[d] = call[d]
      BY <1>0, <1>2 DEF UploadPackages, Answered, Failed, GoTo, CallSet, At, StoreRest, PackInv
  <2>2. PackagesOf(c) \subseteq keyPackages \cup wiped
      BY <2>1 DEF PackInv, PackagesOf
  <2>3. serverPackages' \subseteq keyPackages' \cup wiped'
      BY <2>1, <2>2 DEF PackInv, PackagesAreHeld
  <2>4. \A d \in Calls : MayUpload(d) <=> MayUpload(d)'
      BY <2>1 DEF MayUpload, LastResortOf
  <2>5. PackagesAreHeld'
      BY <2>1, <2>3 DEF PackInv, PackagesAreHeld, At, LastResortOf
  <2> QED
      BY <2>1, <2>4, <2>5 DEF PackInv
<1> QED
    BY <1>1, <1>2

\* The invariant of the packages is inductive beside the store's.
LEMMA PackNext == StoreInv /\ PackInv /\ [Next]_vars => PackInv'
<1> SUFFICES ASSUME StoreInv, PackInv, [Next]_vars PROVE PackInv'
    OBVIOUS
<1>0. StoreType
    BY DEF StoreInv
<1>1. ASSUME NEW c \in Calls, Open(c) PROVE PackInv'
    BY <1>1, PackOpen DEF Open, serverVars
<1>2. ASSUME NEW c \in Calls, Group(c) PROVE PackInv'
    BY <1>2, PackGroup DEF Group, serverVars
<1>3. ASSUME NEW c \in Calls, AskCount(c) PROVE PackInv'
  <2>1. GoTo(c, "done") /\ "done" \in Phases /\ call[c].at = "idle"
      BY <1>3 DEF AskCount, At, Phases, Early
  <2> QED
      BY <1>0, <1>3, <2>1, GoToOK, PackKept DEF AskCount, StoreRest
<1>4. ASSUME NEW c \in Calls, FindCredential(c) PROVE PackInv'
  <2>1. PICK p \in {"make", "upload credential", "done"} : GoTo(c, p)
      BY <1>4 DEF FindCredential
  <2>2. p \in Phases /\ call[c].at = "open"
      BY <1>4 DEF FindCredential, At, Phases, Making, Early
  <2> QED
      BY <1>0, <1>4, <2>1, <2>2, GoToOK, PackKept DEF FindCredential, StoreRest, serverVars
<1>5. ASSUME NEW c \in Calls, UploadCredential(c) PROVE PackInv'
  <2>1. PICK p \in {"make", "done"} : GoTo(c, p)
      BY <1>5 DEF UploadCredential, Answered, Failed
  <2>2. p \in Phases /\ call[c].at = "upload credential"
      BY <1>5 DEF UploadCredential, At, Phases, Making, Early
  <2> QED
      BY <1>0, <1>5, <2>1, <2>2, GoToOK, PackKept DEF UploadCredential, StoreRest
<1>6. ASSUME NEW q \in serverPackages, Take(q) PROVE PackInv'
  <2>1. UNCHANGED <<made, call, keyPackages, lastResort, wiped, serverLastResort, unsure>>
      BY <1>6 DEF Take, StoreRest
  <2>2. serverPackages' \subseteq serverPackages
      BY <1>6 DEF Take
  <2>3. \A d \in Calls : MayUpload(d) <=> MayUpload(d)'
      BY <2>1 DEF MayUpload, LastResortOf
  <2>4. PackagesAreHeld'
      BY <2>1, <2>2 DEF PackInv, PackagesAreHeld, At, LastResortOf
  <2> QED
      BY <2>1, <2>3, <2>4 DEF PackInv
<1>7. CASE UNCHANGED vars
  <2>1. UNCHANGED <<made, call, keyPackages, lastResort, wiped, serverPackages, serverLastResort, unsure>>
      BY <1>7 DEF vars, storeVars
  <2>2. \A d \in Calls : MayUpload(d) <=> MayUpload(d)'
      BY <2>1 DEF MayUpload, LastResortOf
  <2>3. PackagesAreHeld'
      BY <2>1 DEF PackInv, PackagesAreHeld, At, LastResortOf
  <2> QED
      BY <2>1, <2>2, <2>3 DEF PackInv
<1> QED
    BY <1>1, <1>2, <1>3, <1>4, <1>5, <1>6, <1>7, PackPage, PackMake, PackLastResort, PackUpload DEF Next

\* The device holds the private key of every package that others can take.
THEOREM PackagesHold == Spec => []PackagesAreHeld
<1>1. Init => PackInv
  <2> SUFFICES ASSUME Init PROVE PackInv
      OBVIOUS
  <2>1. /\ \A c \in Calls : call[c].at = "idle" /\ made[c] = 0
        /\ serverPackages = {} /\ serverLastResort = NoPackage
      BY DEF Init, StoreInit, Idle
  <2>2. \A i \in 1..0 : FALSE
      OBVIOUS
  <2>3. 0 <= Batch
      BY BatchAssumption
  <2>4. PackagesAreHeld
      BY <2>1 DEF PackagesAreHeld
  <2> QED
      BY <2>1, <2>2, <2>3, <2>4 DEF PackInv
<1>2. PackInv => PackagesAreHeld
    BY DEF PackInv
<1> QED
    BY <1>1, <1>2, StoreInitOK, StoreNext, PackNext, PTL DEF Spec
=============================================================================

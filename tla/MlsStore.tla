------------------------------ MODULE MlsStore ------------------------------
(***************************************************************************)
(* The device's MLS store (src/src/lib/mlsStore.js): one IndexedDB database *)
(* and one synchronous cache shared by every call of the page.  The WASM    *)
(* code reads and writes the cache; a call first copies the database into   *)
(* it (preloadGroupState), runs the WASM operation, and then writes it back *)
(* (flushStorageCache).  Every call opens the store anew, and the first     *)
(* opening after a change of the MLS ciphersuite empties what belongs to    *)
(* the old suite, store by store, before it marks the database as current.  *)
(*                                                                          *)
(* A value of the cache or the database is a number: Absent, OldSuite, or   *)
(* the serial number of the WASM operation that wrote it.  Requests that    *)
(* the code awaits are durable when they answer; the writes of the bridge   *)
(* are not awaited and reach the disk later, in order, store by store, or   *)
(* fail unnoticed, and the flush goes on past an entry it cannot write.     *)
(***************************************************************************)
EXTENDS Naturals, Sequences, FiniteSets

CONSTANTS
    Groups,        \* MLS groups of the device (channels, voice rooms, guilds)
    Stores,        \* the WASM code's object stores, in preload order
    Calls          \* calls that open the store, each made at most once

ASSUME StoresAssumption ==
    /\ Stores \in Seq({Stores[i] : i \in DOMAIN Stores}) /\ Len(Stores) > 0
    /\ Calls \cap {"old", "none"} = {}

VARIABLES
    cache,         \* storageCache
    idb,           \* the provider stores, as a request sees them
    safe,          \* what of `idb` is on disk
    meta,          \* the suite the database is marked with
    keyPackages,   \* private keys of key packages
    lastResort,    \* the last-resort package's row
    call,          \* the calls of this page
    version,       \* WASM operations so far
    latest,        \* history: what the WASM code last left in an entry
    excused,       \* history: entries that a named race or reload took back
    unflushed,     \* history: entries whose last flush could not write them
    wiped,         \* history: key packages that a late reset deleted
    budget         \* bound: WASM operations, page loads and failures left

storeVars == <<cache, idb, safe, meta, keyPackages, lastResort, call, version,
               latest, excused, unflushed, wiped, budget>>

Absent == 0
OldSuite == 1
StoreNames == {Stores[i] : i \in DOMAIN Stores}
Entries == Groups \X StoreNames
ScopedStores == <<"keyPackages", "lastResort">> \o Stores
NoPackage == <<"none", 0>>     \* a package is <<the call that made it, its number>>
OldPackage == <<"old", 0>>

EntriesOf(s) == Groups \X {s}
Idle == [at |-> "idle", store |-> 1, read |-> {}, seen |-> {},
         touched |-> {}]

StoreInit ==
    /\ meta \in {"old", "new"}
    /\ idb = [e \in Entries |-> IF meta = "old" THEN OldSuite ELSE Absent]
    /\ safe = idb
    /\ cache = [e \in Entries |-> Absent]
    /\ keyPackages = IF meta = "old" THEN {OldPackage} ELSE {}
    /\ lastResort = IF meta = "old" THEN OldPackage ELSE NoPackage
    /\ call = [c \in Calls |-> Idle]
    /\ version = OldSuite
    /\ latest = idb
    /\ excused = {} /\ unflushed = {} /\ wiped = {}

At(c, p) == call[c].at = p
GoTo(c, p) == call' = [call EXCEPT ![c].at = p]
Spend(what) == budget[what] > 0 /\ budget' = [budget EXCEPT ![what] = @ - 1]

-----------------------------------------------------------------------------
(* openStore and ensureCurrentCiphersuite *)

\* The mark is read; a database of the current suite opens at once.
ReadMark(c) ==
    /\ At(c, "idle")
    /\ GoTo(c, IF meta = "new" THEN "open" ELSE "stale")
    /\ UNCHANGED <<cache, idb, safe, meta, keyPackages, lastResort, version,
                   latest, excused, unflushed, wiped, budget>>

BeginReset_MarksFirst(c) ==
    /\ At(c, "stale")
    /\ cache' = [e \in Entries |-> Absent]
    /\ meta' = "new"
    /\ call' = [call EXCEPT ![c].at = "clear", ![c].store = 1]
    /\ UNCHANGED <<idb, safe, keyPackages, lastResort, version, latest, excused,
                   unflushed, wiped, budget>>

\* The call found the old mark: it empties the cache and starts to clear.
BeginReset(c) ==
    /\ At(c, "stale")
    /\ cache' = [e \in Entries |-> Absent]
    /\ excused' = IF meta = "new" THEN Entries ELSE excused
    /\ latest' = IF meta = "new" THEN latest ELSE [e \in Entries |-> Absent]
    /\ call' = [call EXCEPT ![c].at = "clear", ![c].store = 1]
    /\ UNCHANGED <<idb, safe, meta, keyPackages, lastResort, version, unflushed, wiped,
                   budget>>

\* One object store is cleared per request.
ClearStore(c) ==
    LET s == ScopedStores[call[c].store]
        late == meta = "new"
        Emptied(f) == [e \in Entries |-> IF e[2] = s THEN Absent ELSE f[e]]
    IN  /\ At(c, "clear")
        /\ idb' = Emptied(idb)
        /\ safe' = Emptied(safe)
        /\ keyPackages' = IF s = "keyPackages" THEN {} ELSE keyPackages
        /\ lastResort' = IF s = "lastResort" THEN NoPackage ELSE lastResort
        /\ excused' = IF late /\ s \in StoreNames THEN excused \union EntriesOf(s)
                      ELSE excused
        /\ wiped' = IF ~late THEN wiped
                    ELSE wiped \union (IF s = "keyPackages" THEN keyPackages ELSE {})
                               \union (IF s = "lastResort" THEN {lastResort} ELSE {})
        /\ call' = [call EXCEPT
              ![c].at = IF call[c].store = Len(ScopedStores) THEN "mark" ELSE "clear",
              ![c].store = IF call[c].store = Len(ScopedStores) THEN 1 ELSE @ + 1]
        /\ UNCHANGED <<cache, meta, version, latest, unflushed, budget>>

\* The mark of the current suite is written last.
MarkSuite(c) ==
    /\ At(c, "mark")
    /\ meta' = "new"
    /\ GoTo(c, "open")
    /\ UNCHANGED <<cache, idb, safe, keyPackages, lastResort, version, latest,
                   excused, unflushed, wiped, budget>>

-----------------------------------------------------------------------------
(* One operation of mlsGroup.js on a group *)

\* preloadGroupState: the request for the rows of one store ...
ReadStore(c) ==
    LET s == Stores[call[c].store]
    IN  /\ call[c].at \in {"open", "read"}
        /\ call' = [call EXCEPT ![c].at = "fill",
              ![c].read = {<<e, idb[e]>> : e \in {x \in EntriesOf(s) : idb[x] # Absent}}]
        /\ UNCHANGED <<cache, idb, safe, meta, keyPackages, lastResort, version,
                       latest, excused, unflushed, wiped, budget>>

Rows_Clobbering(c) == call[c].read

\* Only entries that the cache does not have are filled: its own are newer.
Rows(c) == {r \in call[c].read : cache[r[1]] = Absent}

\* ... and its answer.  An entry deleted since the request comes back: that race
\* is excused by name.
FillCache(c) ==
    LET rows == Rows(c)
        Row(e) == CHOOSE r \in rows : r[1] = e
        filled == {r[1] : r \in rows}
        last == call[c].store = Len(Stores)
    IN  /\ At(c, "fill")
        /\ cache' = [e \in Entries |-> IF e \in filled THEN Row(e)[2] ELSE cache[e]]
        /\ excused' = excused \union {e \in filled : idb[e] = Absent}
        /\ call' = [call EXCEPT ![c].at = IF last THEN "wasm" ELSE "read",
                                ![c].store = IF last THEN 1 ELSE @ + 1,
                                ![c].read = {}]
        /\ UNCHANGED <<idb, safe, meta, keyPackages, lastResort, version, latest,
                       unflushed, wiped, budget>>

\* The WASM call on group g, in one go: it writes and deletes entries of g in
\* the cache, and issues the same writes to the database without awaiting them.
\* A call that only derives a secret (nothing written) is not flushed.
RunWasm(c, g, written, deleted) ==
    LET After(f) == [e \in Entries |->
            IF e[1] = g /\ e[2] \in written THEN version + 1
            ELSE IF e[1] = g /\ e[2] \in deleted THEN Absent ELSE f[e]]
        changed == {g} \X (written \union deleted)
    IN  /\ At(c, "wasm")
        /\ written \intersect deleted = {}
        /\ Spend("operations")
        /\ cache' = After(cache)
        /\ idb' = After(idb)
        /\ latest' = After(latest)
        /\ version' = IF changed = {} THEN version ELSE version + 1
        /\ excused' = excused \ changed
        /\ unflushed' = unflushed \ changed
        /\ call' = [call EXCEPT ![c].at = IF changed = {} THEN "done" ELSE "flush",
                                ![c].touched = changed]
        /\ UNCHANGED <<safe, meta, keyPackages, lastResort, wiped>>

\* The iteration over the live cache has these entries before it.
Unvisited(c) == {e \in Entries : cache[e] # Absent /\ e \notin call[c].seen}

Visit(c, e) ==
    /\ At(c, "flush") /\ e \in Unvisited(c)
    /\ call' = [call EXCEPT ![c].seen = @ \union {e}]
    /\ UNCHANGED <<cache, meta, keyPackages, lastResort, version, latest, excused,
                   wiped>>

\* flushStorageCache: one entry of the live cache is written and awaited.  The
\* store's earlier writes are on disk when a later one of the same store is.
FlushEntry(c, e) ==
    /\ Visit(c, e)
    /\ idb' = [idb EXCEPT ![e] = cache[e]]
    /\ safe' = [x \in Entries |-> IF x[2] = e[2] THEN idb'[x] ELSE safe[x]]
    /\ unflushed' = unflushed \ {e}
    /\ UNCHANGED budget

\* The write throws or fails: the catch is empty and the flush goes on.
FlushFails(c, e) ==
    /\ Visit(c, e)
    /\ Spend("failures")
    /\ unflushed' = unflushed \union (call[c].touched \intersect {e})
    /\ UNCHANGED <<idb, safe>>

\* The iteration over the cache ends when every entry it holds was visited.
EndFlush(c) ==
    /\ At(c, "flush")
    /\ Unvisited(c) = {}
    /\ call' = [call EXCEPT ![c].at = "done", ![c].seen = {}, ![c].touched = {}]
    /\ UNCHANGED <<cache, idb, safe, meta, keyPackages, lastResort, version,
                   latest, excused, unflushed, wiped, budget>>

-----------------------------------------------------------------------------
(* The browser *)

\* The writes issued to a store so far reach the disk.
CommitWrites(s) ==
    /\ \E e \in EntriesOf(s) : safe[e] # idb[e]
    /\ safe' = [e \in Entries |-> IF e[2] = s THEN idb[e] ELSE safe[e]]
    /\ UNCHANGED <<cache, idb, meta, keyPackages, lastResort, call, version,
                   latest, excused, unflushed, wiped, budget>>

\* A write or a deletion of the bridge, which nobody awaits, fails.
LoseWrite(e) ==
    /\ safe[e] # idb[e]
    /\ Spend("failures")
    /\ idb' = [idb EXCEPT ![e] = safe[e]]
    /\ excused' = IF latest[e] = Absent THEN excused \union {e} ELSE excused
    /\ UNCHANGED <<cache, safe, meta, keyPackages, lastResort, call, version,
                   latest, unflushed, wiped>>

\* The page is left: running calls end, the cache and what is not on disk go.
\* What is lost was deleted, or written by a call whose flush had not come to
\* it yet or could not write it.
ReloadStore ==
    /\ Spend("reloads")
    /\ cache' = [e \in Entries |-> Absent]
    /\ idb' = safe
    /\ LET pending(e) == e \in unflushed \/ \E c \in Calls : e \in call[c].touched
       IN  excused' = excused \union
             {e \in Entries : safe[e] # latest[e] /\ (latest[e] = Absent \/ pending(e))}
    /\ unflushed' = {}
    /\ call' = [c \in Calls |-> IF At(c, "idle") THEN Idle ELSE [Idle EXCEPT !.at = "done"]]
    /\ UNCHANGED <<safe, meta, keyPackages, lastResort, version, latest, wiped>>

\* A request that the store awaits rejects: the call ends where it is.
RejectRequest(c) ==
    /\ call[c].at \in {"clear", "mark", "read", "make"}
    /\ Spend("failures")
    /\ call' = [call EXCEPT ![c] = [Idle EXCEPT !.at = "done"]]
    /\ UNCHANGED <<cache, idb, safe, meta, keyPackages, lastResort, version,
                   latest, excused, unflushed, wiped>>

OpenStep(c) == ReadMark(c) \/ BeginReset(c) \/ ClearStore(c) \/ MarkSuite(c)

GroupStep(c) ==
    \/ ReadStore(c) \/ FillCache(c) \/ EndFlush(c)
    \/ \E e \in Entries : FlushEntry(c, e) \/ FlushFails(c, e)
    \/ \E g \in Groups : \E written, deleted \in SUBSET StoreNames :
          RunWasm(c, g, written, deleted)

Browser ==
    \/ ReloadStore
    \/ \E s \in StoreNames : CommitWrites(s)
    \/ \E e \in Entries : LoseWrite(e)
    \/ \E c \in Calls : RejectRequest(c)

-----------------------------------------------------------------------------
(* Properties *)

Opened(c) == call[c].at \in {"open", "read", "fill", "wasm", "flush"}

\* A WASM call reads what the last WASM call left, whichever preloads and
\* flushes of other calls ran in between, whichever writes failed unnoticed, and
\* across a page load, for every entry of every group.  Excused by name
\* (`excused`): an entry that a second, late reset of the suite emptied; one
\* deleted between another call's request and its answer; one whose deletion
\* failed, or was not on disk at a page load; one whose call was cut off by a
\* page load before its flush was over; and one that its flush could not write
\* and that no later write or flush had brought to disk at a page load.
ReadsAreCurrent ==
    \A c \in Calls : At(c, "wasm") =>
        \A e \in Entries : cache[e] = latest[e] \/ e \in excused

\* Once a call has an open store, nothing of the old suite is in the cache, the
\* database, or the key packages, however resets overlap, fail, or are cut off.
OldSuiteIsGone ==
    (\E c \in Calls : Opened(c)) =>
        /\ \A e \in Entries : OldSuite \notin {cache[e], idb[e], safe[e]}
        /\ OldPackage \notin keyPackages \union {lastResort}

\* What a WASM call wrote is on disk when its flush is over, but for the entries
\* that this flush could not write: it does not say so, and only a later write or
\* flush of the entry makes up for it.
FlushIsDurable ==
    \A e \in Entries :
        \/ latest[e] \in {Absent, OldSuite}
        \/ e \in excused \union unflushed
        \/ \E c \in Calls : e \in call[c].touched
        \/ safe[e] = latest[e]
=============================================================================

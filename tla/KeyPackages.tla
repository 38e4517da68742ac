---------------------------- MODULE KeyPackages -----------------------------
(***************************************************************************)
(* The key packages of the device: their private keys are in the MLS store, *)
(* their public halves on the server, where other users take them.  They    *)
(* are made by the sign-in (src/src/lib/uploadKeyPackages.js) and by the    *)
(* maintenance hook (src/src/hooks/useKeyPackageMaintenance.js), beside the *)
(* group operations of module MlsStore and its reset of an old suite.       *)
(***************************************************************************)
EXTENDS MlsStore

CONSTANTS
    Batch,         \* packages a call makes (50 in the code)
    Threshold,     \* server-side count below which more are made
    Stories        \* which calls are made, with the bounds of each story

Kinds == {"group", "login", "replenish"}
Bounds == [{"operations", "reloads", "failures", "taken", "lost"} -> Nat]

ASSUME BatchAssumption == Batch \in Nat \ {0} /\ Threshold \in Nat
ASSUME StoriesAssumption ==
    \A s \in Stories : s.kind \in [Calls -> Kinds] /\ s.budget \in Bounds

VARIABLES
    kind,          \* what each call is: "group", "login" or "replenish"
    credential,    \* the device has a credential, and the server has it
    made,          \* packages a call has made so far
    serverPackages, serverLastResort,
    unsure         \* history: calls whose last resort was not uploaded before
                   \* they ended, or was stored beside another call's upload

vars == <<storeVars, kind, credential, made, serverPackages, serverLastResort,
          unsure>>
serverVars == <<serverPackages, serverLastResort, unsure>>

LastResortOf(c) == <<c, 0>>
PackagesOf(c) == {<<c, i>> : i \in 1..Batch}
StoreRest == <<cache, idb, safe, meta, version, latest, excused, unflushed, wiped>>

Init ==
    /\ StoreInit
    /\ \E s \in Stories : kind = s.kind /\ budget = s.budget
    /\ credential \in {[local |-> FALSE, server |-> FALSE],
                       [local |-> TRUE, server |-> TRUE]}
    /\ made = [c \in Calls |-> 0]
    /\ serverPackages = {} /\ serverLastResort = NoPackage
    /\ unsure = {}

\* One sign-in at a time: a form, or the re-authentication, waits for the other.
LoginMayStart(c) ==
    \A d \in Calls : kind[d] = "login" /\ d # c => call[d].at \in {"idle", "done"}

\* Maintenance asks for the count first and ends when there are enough packages,
\* or, silently, when the request fails.
AskCount(c) ==
    /\ kind[c] = "replenish" /\ At(c, "idle")
    /\ \/ /\ Cardinality(serverPackages) >= Threshold
          /\ UNCHANGED budget
       \/ Spend("lost")
    /\ GoTo(c, "done")
    /\ UNCHANGED <<StoreRest, keyPackages, lastResort, kind, credential, made,
                   serverPackages, serverLastResort, unsure>>

\* Every call opens the store first; a replenishment only below the threshold.
Open(c) ==
    /\ OpenStep(c)
    /\ At(c, "idle") =>
          /\ kind[c] = "login" => LoginMayStart(c)
          /\ kind[c] = "replenish" => Cardinality(serverPackages) < Threshold
    /\ UNCHANGED <<kind, credential, made, serverVars>>

\* The sign-in makes and stores a credential when there is none, and then
\* uploads it; maintenance without a credential ends.
FindCredential(c) ==
    /\ kind[c] \in {"login", "replenish"} /\ At(c, "open")
    /\ GoTo(c, IF credential.local THEN "make"
               ELSE IF kind[c] = "login" THEN "upload credential" ELSE "done")
    /\ credential' = [credential EXCEPT !.local = @ \/ kind[c] = "login"]
    /\ UNCHANGED <<StoreRest, keyPackages, lastResort, kind, made, serverVars, budget>>

\* A request to the server answers, or it fails, before or after its effect, and
\* the call ends: the sign-in reports the error, maintenance swallows it.
Answered(c, next) == GoTo(c, next) /\ UNCHANGED budget
Failed(c) == GoTo(c, "done") /\ Spend("lost")

\* The credential is uploaded once, right after it was stored: after a failure
\* the next sign-in finds it stored and goes on without the upload.
UploadCredential(c) ==
    /\ At(c, "upload credential")
    /\ \/ Answered(c, "make") /\ credential' = [credential EXCEPT !.server = TRUE]
       \/ Failed(c) /\ credential' \in {credential, [credential EXCEPT !.server = TRUE]}
    /\ UNCHANGED <<StoreRest, keyPackages, lastResort, kind, made, serverPackages,
                   serverLastResort, unsure>>

AllMade_OneShort(c) == made[c] >= Batch - 1

AllMade(c) == made[c] = Batch

\* The private key of each package is stored before any of them is uploaded.
MakePackage(c) ==
    /\ At(c, "make") /\ made[c] < Batch
    /\ made' = [made EXCEPT ![c] = @ + 1]
    /\ keyPackages' = keyPackages \union {<<c, made[c] + 1>>}
    /\ UNCHANGED <<StoreRest, lastResort, call, kind, credential, serverVars, budget>>

\* The new last-resort package replaces the stored one before it is uploaded.
MakeLastResort(c) ==
    /\ At(c, "make") /\ AllMade(c)
    /\ lastResort' = LastResortOf(c)
    /\ unsure' = IF \E d \in Calls : At(d, "upload last resort") THEN unsure \union {c}
                 ELSE unsure
    /\ GoTo(c, "upload last resort")
    /\ UNCHANGED <<StoreRest, keyPackages, kind, credential, made, serverPackages,
                   serverLastResort, budget>>

UploadLastResort(c) ==
    /\ At(c, "upload last resort")
    /\ \/ /\ Answered(c, "upload packages")
          /\ serverLastResort' = LastResortOf(c)
          /\ UNCHANGED unsure
       \/ /\ Failed(c)
          /\ serverLastResort' \in {serverLastResort, LastResortOf(c)}
          /\ unsure' = unsure \union {c}
    /\ UNCHANGED <<StoreRest, keyPackages, lastResort, kind, credential, made,
                   serverPackages>>

UploadPackages(c) ==
    /\ At(c, "upload packages")
    /\ \/ /\ Answered(c, "done")
          /\ serverPackages' = serverPackages \union PackagesOf(c)
       \/ /\ Failed(c)
          /\ serverPackages' \in {serverPackages, serverPackages \union PackagesOf(c)}
    /\ UNCHANGED <<StoreRest, keyPackages, lastResort, kind, credential, made,
                   serverLastResort, unsure>>

\* Another user takes a package to add this device to a group.
Take(p) ==
    /\ p \in serverPackages /\ Spend("taken")
    /\ serverPackages' = serverPackages \ {p}
    /\ UNCHANGED <<StoreRest, keyPackages, lastResort, call, kind, credential, made, serverLastResort, unsure>>

Group(c) ==
    /\ kind[c] = "group" /\ GroupStep(c)
    /\ UNCHANGED <<kind, credential, made, serverVars>>

PageStep ==
    /\ Browser
    /\ unsure' = IF call' = call THEN unsure
                 ELSE unsure \union {c \in Calls : At(c, "upload last resort")}
    /\ UNCHANGED <<kind, credential, made, serverPackages, serverLastResort>>

Next ==
    \/ \E c \in Calls :
          \/ AskCount(c) \/ Open(c) \/ Group(c) \/ FindCredential(c)
          \/ UploadCredential(c) \/ MakePackage(c) \/ MakeLastResort(c)
          \/ UploadLastResort(c) \/ UploadPackages(c)
    \/ \E p \in serverPackages : Take(p)
    \/ PageStep

Spec == Init /\ [][Next]_vars

-----------------------------------------------------------------------------
(* Properties *)

\* Whoever takes a package, or the last resort, from the server takes one whose
\* private key the device holds: the keys are stored before the upload, however
\* the calls overlap, fail or are cut off by a page load.  Excused by name: what
\* a second, late reset of the suite deleted (`wiped`), and a last resort whose
\* replacement was stored but not yet, or not surely, uploaded (`unsure`).
PackagesAreHeld ==
    /\ serverPackages \subseteq keyPackages \union wiped
    /\ \/ serverLastResort \in {NoPackage, lastResort} \union wiped
       \/ lastResort = NoPackage /\ wiped # {}
       \/ \E c \in Calls : /\ lastResort = LastResortOf(c)
                           /\ At(c, "upload last resort") \/ c \in unsure
=============================================================================

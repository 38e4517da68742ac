------------------------------- MODULE Vault -------------------------------
(***************************************************************************)
(* Sign-in and the local vault of one browser tab: hooks/useAuth.js with   *)
(* its planners (lib/authLifecycle.js), the session record that lets a     *)
(* reload go on without the PIN (lib/vaultSessionKey.ts) and the           *)
(* inactivity deadline (lib/vaultInactivityDeadline.js).                   *)
(*                                                                         *)
(* The boot effect, a PIN unlock, a recovery or registration, the offline  *)
(* re-authentication, the check of a tab that becomes visible and a logout *)
(* are asynchronous functions on the same state; each waits for the server *)
(* or for IndexedDB between its steps, and writes to the session record    *)
(* are started and left to themselves.                                     *)
(*                                                                         *)
(* One account and one tab of the web build; no guests.  What a function   *)
(* does between two awaits is one operator from device state to device     *)
(* state.                                                                  *)
(***************************************************************************)
EXTENDS Naturals, FiniteSets

CONSTANTS
  MaxFailures,   \* MAX_PIN_FAILURES
  MaxWrites,     \* bound: writes, and wipes, of the session record outstanding
  Stories        \* what the browser holds when the tab opens, and bounds: reloads and closings, PINs, locks, logouts, phrases,
                 \* policy changes, sessions ended, revocations, outages, visible
                 \* checks, deadlines and mishaps (storage or requests that fail)

Policies == {"browser_close", "refresh", "never", "minutes"}
Bounds == {"reloads", "pins", "locks", "logouts", "phrases", "policies", "ends", "revokes",
           "outages", "checks", "deadlines", "mishaps"}

ASSUME VaultAssumption ==
  /\ MaxFailures \in Nat \ {0} /\ MaxWrites \in Nat \ {0}
  /\ \A s \in Stories :
       /\ {s.blob, s.last, s.seal} \subseteq BOOLEAN /\ s.jwt \in {"none", "good"}
       /\ s.policy \in Policies /\ s.left \in [Bounds -> Nat]

VARIABLES
  dev,       \* the device: what is stored, what the tab stores, what the hook holds
  up,        \* the server answers
  tasks,     \* the asynchronous functions under way
  since,     \* (history) what happened since the PIN or the phrase was last given
  hurt,      \* (history) which of the named races may have broken a lock
  guesses,   \* (history) wrong PINs tried on this blob since the last right one
  left       \* what is left of the bounds

vars == <<dev, up, tasks, since, hurt, guesses, left>>

Spend(what) == left[what] > 0 /\ left' = [left EXCEPT ![what] = @ - 1]
Mishap == Spend("mishaps")
More(n) == IF n = MaxWrites THEN n ELSE n + 1

\* blob: the PIN-encrypted key; marker and last: the hints in localStorage; tomb: the
\* persisted invalidation, also held by the hook; seal: the session record; dl: the
\* inactivity deadline; banned: the server has revoked the
\* device id.  jwt, alive (the tab's marker) and setup are sessionStorage.
\* sealing, wiping and dropping are IndexedDB work nobody waits for.
FreshTab(x) ==
  [x EXCEPT !.key = FALSE, !.vs = "none", !.loading = TRUE, !.user = FALSE, !.token = FALSE,
            !.has = FALSE, !.timer = FALSE, !.rerun = TRUE,
            !.sealing = 0, !.wiping = 0, !.dropping = FALSE]
Stored(s) ==
  [blob |-> s.blob, marker |-> s.blob, last |-> s.last, tomb |-> "none", tries |-> 0,
   seal |-> s.seal, policy |-> s.policy, dl |-> IF s.policy = "minutes" THEN "ahead" ELSE "none",
   banned |-> FALSE,
   jwt |-> s.jwt, alive |-> s.jwt # "none", setup |-> FALSE,
   key |-> FALSE, vs |-> "none", loading |-> TRUE, user |-> FALSE, token |-> FALSE,
   has |-> FALSE, timer |-> FALSE, rerun |-> TRUE, sealing |-> 0, wiping |-> 0, dropping |-> FALSE]

Task(kind, at, tok) == [kind |-> kind, at |-> at, run |-> TRUE, tok |-> tok, right |-> TRUE]
Kinds == {"boot", "unlock", "recover", "register", "reauth", "rotate", "logout", "check"}
Kind(k) == {t \in tasks : t.kind = k}
Goto(t, at) == tasks' = (tasks \ {t}) \cup {[t EXCEPT !.at = at]}
Ends(t) == tasks' = tasks \ {t}
\* A function that may end with the vault unlocked.
WillUnlock(t) == t.kind \in {"boot", "unlock", "recover", "register", "reauth"}

Init ==
  /\ \E s \in Stories : dev = Stored(s) /\ left = s.left
  /\ up = TRUE
  /\ tasks = {}
  /\ since = {} /\ hurt = {} /\ guesses = 0

-----------------------------------------------------------------------------
(* What one synchronous stretch does to the device                          *)

Unlocked(x) == x.vs = "unlocked" /\ x.key
HasSession(x) == x.user /\ (x.token \/ Unlocked(x))
NeedsUnlock(x) ==
  /\ x.has \/ x.vs # "none"
  /\ ~Unlocked(x)
  /\ x.tomb = "none" \/ HasSession(x)
Screen(x) ==
  CASE x.tomb = "revoked" -> "login"
    [] x.tomb # "revoked" /\ x.loading -> "loading"
    [] x.tomb # "revoked" /\ ~x.loading /\ NeedsUnlock(x) -> "pin"
    [] x.tomb # "revoked" /\ ~x.loading /\ ~NeedsUnlock(x) /\ ~HasSession(x) -> "login"
    [] OTHER -> IF x.setup THEN "setup" ELSE "app"

NoTimer(x) == [x EXCEPT !.timer = FALSE, !.dl = IF x.user THEN "none" ELSE @]
\* setVaultState, with the effect that drops the timeout of a vault not unlocked.
SetVs(x, v) == [(IF v # "unlocked" /\ x.vs # v THEN NoTimer(x) ELSE x) EXCEPT !.vs = v]
ClearSessionKey(x) == [x EXCEPT !.alive = FALSE, !.wiping = More(@)]
ClearSession(x) == [x EXCEPT !.jwt = "none", !.setup = FALSE]
Reset(x) ==
  SetVs([NoTimer(x) EXCEPT !.key = FALSE, !.token = FALSE, !.user = FALSE, !.has = FALSE,
                           !.setup = FALSE], "none")
Planned(x, v, has) == [SetVs(x, v) EXCEPT !.has = has]

Locked(x) == SetVs(ClearSessionKey([NoTimer(x) EXCEPT !.key = FALSE]), "locked")

Named(x) == x.user \/ x.last \/ x.marker
\* destroyRevokedDeviceLocalState: the tombstone first, then everything it can name.
Destroyed(x) ==
  LET y == [x EXCEPT !.tomb = "revoked", !.rerun = @ \/ x.tomb # "revoked", !.banned = FALSE]
      z == ClearSessionKey([y EXCEPT !.dl = "none", !.dropping = TRUE, !.marker = FALSE,
                                     !.last = FALSE, !.policy = "browser_close"])
  IN ClearSession(Reset(IF Named(x) THEN z ELSE y))

Invalidated_NotSticky(x, reason) ==
  IF reason = "revoked"
  THEN Destroyed(x)
  ELSE LET y == ClearSession([NoTimer(x) EXCEPT !.tomb = "invalid", !.rerun = TRUE, !.key = FALSE,
                                                !.token = FALSE, !.user = FALSE])
       IN Planned(y, IF x.marker THEN "locked" ELSE "none", x.marker)

Invalidated(x, reason) ==
  IF x.tomb = "revoked" \/ reason = "revoked"
  THEN Destroyed(x)
  ELSE LET y == ClearSession([NoTimer(x) EXCEPT !.tomb = "invalid", !.rerun = TRUE, !.key = FALSE,
                                                !.token = FALSE, !.user = FALSE])
       IN Planned(y, IF x.marker THEN "locked" ELSE "none", x.marker)

\* publishAuthenticatedSession, the marker and hasLocalVault.
Published(x, t) ==
  [x EXCEPT !.tomb = "none", !.rerun = @ \/ x.tomb # "none", !.jwt = t.tok, !.token = TRUE,
            !.user = TRUE, !.marker = TRUE, !.has = TRUE]
\* setVaultState('unlocked'), applyVaultTimeout and the write left to itself.
Opened(x) ==
  [x EXCEPT !.vs = "unlocked", !.timer = x.policy = "minutes",
            !.dl = IF x.policy = "minutes" THEN "ahead" ELSE "none", !.sealing = More(@)]
\* The in-memory unlock, when a token is there or the server cannot be reached.
InMemory(x) == [x EXCEPT !.key = TRUE, !.has = TRUE, !.user = TRUE, !.setup = FALSE]
SignInFailed(x) ==
  [Planned(ClearSession(x), "none", FALSE) EXCEPT !.token = FALSE, !.user = FALSE, !.loading = FALSE]
Loaded(x, t) == IF t.run THEN [x EXCEPT !.loading = FALSE] ELSE x
NotResumed_KeepsLoading(x, t) == IF t.run THEN Planned(x, "locked", TRUE) ELSE x
NotResumed(x, t) ==
  IF t.run
  THEN [Planned(IF t.tok # "none" THEN [x EXCEPT !.setup = FALSE] ELSE x, "locked", TRUE)
        EXCEPT !.loading = FALSE]
  ELSE x

\* An unlock keeps its connection to the vault database until it has tried the PIN; a
\* deletion waits for it, and whoever opens the database later waits for the deletion.
HoldsVault == \E t \in Kind("unlock") : t.at = "decrypt"

Told(d) == IF d.banned THEN "revoked" ELSE "invalid"
\* A session over by its policy once the page is loaded again (in a new tab if closed).
Over(x, closed) ==
  IF \/ x.policy = "refresh"
     \/ x.policy = "browser_close" /\ closed
     \/ x.policy = "minutes" /\ x.dl = "past"
  THEN {"ended"} ELSE {}
\* What the histories record when a lock, a logout or a revocation meets work under way.
Racing == IF \E t \in tasks : WillUnlock(t) THEN {"inflight"} ELSE {}
Sealing == IF dev.sealing > 0 \/ Kind("rotate") # {} THEN {"seal"} ELSE {}
Unfinished ==
  (IF ("lock" \in since /\ (dev.wiping > 0 \/ dev.dropping)) \/ Kind("logout") # {}
   THEN {"crash"} ELSE {})
  \cup (IF dev.dropping THEN {"dropped"} ELSE {})
TellRevoked(x) ==
  IF x.tomb = "revoked" /\ dev.tomb # "revoked"
  THEN /\ since' = since \cup {"revoked"}
       /\ hurt' = hurt \cup (IF Racing' # {} THEN {"revoking"} ELSE {})
                        \cup (IF Named(dev) THEN {} ELSE {"nameless"})
  ELSE UNCHANGED <<since, hurt>>
History == UNCHANGED <<since, hurt, guesses>>


-----------------------------------------------------------------------------
(* The startup effect                                                       *)

CancelBoot == {[t EXCEPT !.run = IF t.kind = "boot" THEN FALSE ELSE @] : t \in tasks}

BootStarts ==
  /\ dev.rerun
  /\ LET x == [dev EXCEPT !.rerun = FALSE] IN
     \/ /\ x.jwt # "none"
        /\ dev' = x
        /\ tasks' = CancelBoot \cup {Task("boot", "me", x.jwt)}
     \/ /\ x.jwt = "none" /\ x.tomb = "revoked"
        /\ dev' = [Destroyed([x EXCEPT !.setup = FALSE]) EXCEPT !.loading = FALSE]
        /\ tasks' = CancelBoot
     \/ /\ x.jwt = "none" /\ x.tomb = "invalid" /\ x.marker
        /\ dev' = [Planned([x EXCEPT !.setup = FALSE, !.last = TRUE], "locked", TRUE)
                   EXCEPT !.loading = FALSE]
        /\ tasks' = CancelBoot
     \/ /\ x.jwt = "none" /\ x.tomb = "none" /\ x.marker
        /\ dev' = [x EXCEPT !.setup = FALSE, !.last = TRUE]
        /\ tasks' = CancelBoot \cup {Task("boot", "find", "none")}
     \/ /\ x.jwt = "none" /\ x.tomb # "revoked" /\ ~x.marker
        /\ dev' = [x EXCEPT !.setup = FALSE]
        /\ tasks' = CancelBoot \cup {Task("boot", "scan", "none")}
  /\ History /\ UNCHANGED <<up, left>>

\* The answer of /api/auth/me; only its failure is acted on by a cancelled boot.
BootAsks(t) ==
  /\ t.kind = "boot" /\ t.at = "me"
  /\ \/ /\ ~up
        /\ dev' = Loaded([Planned(dev, "locked", dev.marker) EXCEPT !.token = TRUE], t)
        /\ Ends(t) /\ UNCHANGED <<since, hurt, left>>
     \/ /\ up /\ ~t.run
        /\ Ends(t) /\ UNCHANGED <<dev, since, hurt, left>>
     \/ /\ up /\ t.run /\ t.tok = "dead"
        /\ dev' = Loaded(Invalidated(Invalidated(dev, Told(dev)), "invalid"), t)
        /\ Ends(t) /\ TellRevoked(dev') /\ UNCHANGED left
     \/ /\ up /\ t.run /\ Mishap
        /\ dev' = Loaded([dev EXCEPT !.token = TRUE], t)
        /\ Ends(t) /\ UNCHANGED <<since, hurt>>
     \/ /\ up /\ t.run /\ t.tok = "good" /\ (dev.marker \/ ~dev.dropping)
        /\ LET x == [dev EXCEPT !.token = TRUE, !.user = TRUE, !.marker = @ \/ dev.blob] IN
           IF x.marker
           THEN dev' = [x EXCEPT !.has = TRUE] /\ Goto(t, "find")
           ELSE dev' = Loaded(Planned(x, "unlocked", FALSE), t) /\ Ends(t)
        /\ UNCHANGED <<since, hurt, left>>
  /\ UNCHANGED <<up, guesses>>

\* The marker is checked against the blob.
BootFinds(t) ==
  /\ t.kind = "boot" /\ t.at = "find"
  /\ \/ /\ ~t.run
        /\ Ends(t) /\ UNCHANGED <<dev, left>>
     \/ /\ t.run /\ ~dev.dropping /\ dev.blob
        /\ Goto(t, "resume") /\ UNCHANGED <<dev, left>>
     \/ /\ t.run /\ ~dev.dropping /\ ~dev.blob
        /\ dev' = Loaded(Planned([dev EXCEPT !.marker = FALSE],
                                 IF t.tok = "none" THEN "none" ELSE "unlocked", FALSE), t)
        /\ Ends(t) /\ UNCHANGED left
     \/ /\ t.run /\ Mishap
        /\ dev' = NotResumed(dev, t) /\ Ends(t)
  /\ History /\ UNCHANGED up

\* No marker: IndexedDB is searched for a vault.
BootScans(t) ==
  /\ t.kind = "boot" /\ t.at = "scan" /\ ~dev.dropping
  /\ \/ /\ ~t.run
        /\ Ends(t) /\ UNCHANGED dev
     \/ /\ t.run /\ dev.blob /\ dev.tomb # "none"
        /\ dev' = Loaded(Planned(dev, "locked", TRUE), t) /\ Ends(t)
     \/ /\ t.run /\ dev.blob /\ dev.tomb = "none"
        /\ dev' = [dev EXCEPT !.marker = TRUE, !.last = TRUE] /\ Goto(t, "resume")
     \/ /\ t.run /\ ~dev.blob
        /\ dev' = Loaded(IF dev.jwt # "none" THEN dev ELSE Planned(dev, "none", FALSE), t)
        /\ Ends(t)
  /\ History /\ UNCHANGED <<up, left>>

\* tryVaultSessionResume under the policy: the session record, or nothing.  It is read
\* after the wipes asked before.
Allowed_AnyTab ==
  CASE dev.policy = "minutes" -> dev.dl = "ahead"
    [] OTHER -> dev.policy # "refresh"
Allowed ==
  CASE dev.policy = "never" -> TRUE
    [] dev.policy = "browser_close" -> dev.alive
    [] dev.policy = "minutes" -> dev.dl = "ahead"
    [] OTHER -> FALSE
BootResumes(t) ==
  /\ t.kind = "boot" /\ t.at = "resume"
  /\ \/ /\ Allowed /\ dev.wiping = 0 /\ dev.seal
        /\ Goto(t, "resumed") /\ UNCHANGED dev
     \/ /\ Allowed /\ dev.wiping = 0 /\ ~dev.seal
        /\ dev' = NotResumed(dev, t) /\ Ends(t)
     \/ /\ ~Allowed
        /\ dev' = NotResumed(CASE dev.policy = "refresh" -> ClearSessionKey(dev)
                               [] dev.policy = "minutes" ->
                                    [dev EXCEPT !.dl = "none", !.alive = FALSE, !.seal = FALSE]
                               [] OTHER -> dev, t)
        /\ Ends(t)
  /\ History /\ UNCHANGED <<up, left>>
BootHasIdentity(t) ==
  /\ t.kind = "boot" /\ t.at = "resumed"
  /\ IF t.tok = "none"
     THEN Goto(t, "challenge") /\ UNCHANGED dev
     ELSE Goto(t, "hydrate") /\ dev' = InMemory(dev)
  /\ History /\ UNCHANGED <<up, left>>

-----------------------------------------------------------------------------
(* performChallengeResponse and registration, shared by their callers       *)

SignInFails_NoRetry(t, why) ==
  IF t.kind = "reauth" THEN Goto(t, "stuck") /\ UNCHANGED <<dev, since, hurt>>
  ELSE /\ dev' = InMemory(dev) /\ Goto(t, "hydrate") /\ UNCHANGED <<since, hurt>>

\* What a caller does when the sign-in fails: "away" is a server that did not answer,
\* "unknown" one that does not know the device, "refused" any other answer.
SignInFails(t, why) ==
  \/ /\ t.kind = "boot" /\ why = "away"
     /\ dev' = InMemory(dev) /\ Goto(t, "hydrate") /\ UNCHANGED <<since, hurt>>
  \/ /\ t.kind = "boot" /\ why # "away"
     /\ dev' = NotResumed(dev, t) /\ Ends(t) /\ UNCHANGED <<since, hurt>>
  \/ /\ t.kind = "unlock" /\ why = "away"
     /\ dev' = InMemory([dev EXCEPT !.token = FALSE]) /\ Goto(t, "hydrate")
     /\ UNCHANGED <<since, hurt>>
  \/ /\ t.kind \in {"unlock", "reauth"} /\ why = "unknown"
     /\ dev' = Invalidated(dev, "invalid") /\ Ends(t) /\ TellRevoked(dev')
  \/ /\ \/ t.kind = "unlock" /\ why = "refused"
        \/ t.kind = "reauth" /\ why # "unknown"
     /\ Ends(t) /\ UNCHANGED <<dev, since, hurt>>
  \/ /\ t.kind \in {"recover", "register"}
     /\ dev' = SignInFailed(dev) /\ Ends(t) /\ UNCHANGED <<since, hurt>>

SignsIn(t) ==
  /\ t.at = "challenge"
  /\ \/ /\ ~up /\ SignInFails(t, "away") /\ UNCHANGED left
     \/ /\ up /\ Mishap /\ SignInFails(t, "refused")
     \/ /\ up /\ dev.banned /\ t.kind # "register"
        /\ SignInFails(t, "unknown") /\ UNCHANGED left
     \/ /\ up /\ (~dev.banned \/ t.kind = "register")
        /\ dev' = [dev EXCEPT !.key = TRUE]
        /\ tasks' = (tasks \ {t}) \cup {[t EXCEPT !.at = "upload", !.tok = "good"]}
        /\ UNCHANGED <<since, hurt, left>>
  /\ UNCHANGED <<up, guesses>>

Uploads(t) ==
  /\ t.at = "upload"
  /\ \/ /\ up /\ t.tok = "good"
        /\ dev' = Published(dev, t) /\ Goto(t, "hydrate") /\ UNCHANGED <<since, hurt>>
     \/ /\ ~up \/ t.tok = "dead"
        /\ SignInFails(t, "away")
  /\ UNCHANGED <<up, guesses, left>>

\* The transcript cache is read; then the vault counts as unlocked.
Hydrates(t) ==
  /\ t.at = "hydrate"
  /\ dev' = CASE t.kind = "boot" -> Loaded(Opened(dev), t)
              [] t.kind \in {"recover", "register"} ->
                   [Opened(dev) EXCEPT !.setup = TRUE, !.loading = FALSE]
              [] OTHER -> Opened(dev)
  /\ Ends(t) /\ History /\ UNCHANGED <<up, left>>

-----------------------------------------------------------------------------
(* The user                                                                 *)

\* unlockVault: the attempt is charged before the PIN is tried.
EntersPin(right) ==
  /\ Spend("pins")
  /\ Screen(dev) = "pin" /\ dev.tomb = "none" /\ Kind("unlock") = {}
  /\ dev.user \/ dev.last
  /\ tasks' = tasks \cup {[Task("unlock", "charge", "none") EXCEPT !.right = right]}
  /\ History /\ UNCHANGED <<dev, up>>

Charge_Later(t) == IF t.right THEN [dev EXCEPT !.tries = @ + 1] ELSE dev
Charge(t) == [dev EXCEPT !.tries = @ + 1]
Charges(t) ==
  /\ t.kind = "unlock" /\ t.at = "charge"
  /\ IF dev.blob
     THEN dev' = Charge(t) /\ Goto(t, "decrypt")
     ELSE Ends(t) /\ UNCHANGED dev
  /\ History /\ UNCHANGED <<up, left>>

Decrypts(t) ==
  /\ t.kind = "unlock" /\ t.at = "decrypt"
  /\ \/ /\ t.right
        /\ LET x == [dev EXCEPT !.tries = 0, !.key = TRUE, !.has = TRUE] IN
           IF dev.jwt = "none"
           THEN dev' = x /\ Goto(t, "challenge")
           ELSE dev' = InMemory(x) /\ Goto(t, "hydrate")
        /\ guesses' = 0 /\ since' = since \cap {"revoked"}
        /\ hurt' = hurt \cap {"revoking", "nameless", "dropped"}
     \/ /\ ~t.right /\ dev.tries < MaxFailures
        /\ Ends(t) /\ guesses' = guesses + 1 /\ UNCHANGED <<dev, since, hurt>>
     \/ /\ ~t.right /\ dev.tries >= MaxFailures
        /\ dev' = [Planned(ClearSession(dev), "none", FALSE) EXCEPT
                     !.blob = FALSE, !.tries = 0, !.marker = FALSE, !.token = FALSE,
                     !.user = FALSE, !.key = FALSE]
        /\ Ends(t) /\ guesses' = 0 /\ UNCHANGED <<since, hurt>>
  /\ UNCHANGED <<up, left>>

\* The phrase: performRecovery, or performRegister for a new account.
EntersPhrase ==
  /\ Spend("phrases")
  /\ Screen(dev) \in {"login", "pin"} /\ ~dev.loading
  /\ Kind("recover") \cup Kind("register") = {}
  /\ \E kind \in {"recover", "register"} :
       /\ kind = "register" => ~dev.marker /\ ~dev.blob
       /\ tasks' = tasks \cup {Task(kind, "challenge", "none")}
  /\ dev' = [dev EXCEPT !.loading = TRUE]
  /\ since' = {} /\ hurt' = {} /\ UNCHANGED <<up, guesses>>

\* "Back to PIN" of a sign-in screen that reports an invalidation.
GoesBackToPin ==
  /\ Screen(dev) \in {"login", "pin"} /\ dev.tomb # "none"
  /\ dev' = [dev EXCEPT !.tomb = "none", !.rerun = TRUE]
  /\ since' = since \ {"revoked"}
  /\ UNCHANGED <<up, tasks, hurt, guesses, left>>

\* setPIN: the blob, then the session record is wiped and written anew.
SetsPin ==
  /\ dev.key /\ dev.user /\ Screen(dev) = "setup" /\ Kind("rotate") = {} /\ ~dev.dropping
  /\ dev' = [dev EXCEPT !.blob = TRUE, !.has = TRUE, !.setup = FALSE, !.alive = FALSE]
  /\ tasks' = tasks \cup {Task("rotate", "wipe", "none")}
  /\ guesses' = 0 /\ UNCHANGED <<up, since, hurt, left>>
Rotates(t) ==
  /\ t.kind = "rotate"
  /\ dev' = [dev EXCEPT !.seal = FALSE, !.sealing = More(@)]
  /\ Ends(t) /\ History /\ UNCHANGED <<up, left>>

ChangesPolicy ==
  /\ Spend("policies")
  /\ Screen(dev) = "app" /\ dev.vs = "unlocked"
  /\ \E p \in Policies \ {dev.policy} :
       dev' = [dev EXCEPT !.policy = p, !.timer = p = "minutes",
                          !.dl = IF p = "minutes" THEN "ahead" ELSE "none"]
  /\ History /\ UNCHANGED <<up, tasks>>

LockVault ==
  /\ Spend("locks")
  /\ Screen(dev) = "app" /\ dev.key
  /\ dev' = Locked(dev)
  /\ since' = since \cup {"lock"}
  /\ hurt' = hurt \cup Racing \cup Sealing
  /\ UNCHANGED <<up, tasks, guesses>>

LogsOut ==
  /\ Spend("logouts")
  /\ Screen(dev) = "app" /\ Kind("logout") = {}
  /\ dev' = [dev EXCEPT !.loading = TRUE]
  /\ tasks' = tasks \cup {Task("logout", "ask", dev.jwt)}
  /\ since' = since \cup {"lock"}
  /\ hurt' = hurt \cup Racing \cup Sealing
  /\ UNCHANGED <<up, guesses>>
LogoutGoesOn(t) ==
  /\ t.kind = "logout"
  /\ \/ /\ t.at = "ask"
        /\ dev' = [ClearSessionKey(dev) EXCEPT !.dropping = TRUE]
        /\ Goto(t, "wipe") /\ UNCHANGED <<since, hurt>>
     \/ /\ t.at = "wipe" /\ (~dev.dropping \/ HoldsVault)
        /\ dev' = [ClearSession(dev) EXCEPT !.marker = FALSE, !.last = FALSE, !.tomb = "none",
                     !.policy = "browser_close", !.dl = "none", !.alive = FALSE]
        /\ Goto(t, "reset") /\ since' = since \ {"revoked"} /\ UNCHANGED hurt
     \/ /\ t.at = "reset"
        /\ dev' = [Reset(dev) EXCEPT !.loading = FALSE] /\ Ends(t)
        /\ hurt' = hurt \cup Racing /\ UNCHANGED since
  /\ UNCHANGED <<up, guesses, left>>

\* The page is loaded again, or the tab is closed and opened.  Under "refresh" the
\* unload handler drops the tab's marker and may still wipe the session record.
Leaves(x, closed) ==
  IF closed THEN FreshTab([x EXCEPT !.jwt = "none", !.alive = FALSE, !.setup = FALSE]) ELSE FreshTab(x)
Unloaded ==
  IF Unlocked(dev) /\ dev.policy = "refresh"
  THEN {[dev EXCEPT !.alive = FALSE, !.seal = @ /\ ~wiped] : wiped \in BOOLEAN}
  ELSE {dev}
Reloads(closed) ==
  /\ Spend("reloads")
  /\ \E x \in Unloaded : dev' = Leaves(x, closed)
  /\ tasks' = {}
  /\ since' = since \cup Over(dev, closed)
  /\ hurt' = hurt \cup Unfinished
  /\ UNCHANGED <<up, guesses>>

-----------------------------------------------------------------------------
(* Time, the server, and IndexedDB                                          *)

DeadlinePasses ==
  /\ Spend("deadlines")
  /\ dev.dl = "ahead"
  /\ dev' = [dev EXCEPT !.dl = "past"]
  /\ IF dev.policy = "minutes" /\ ~dev.timer /\ ~dev.key /\ Racing = {}
     THEN since' = since \cup {"ended"} /\ hurt' = hurt \cup Sealing
     ELSE UNCHANGED <<since, hurt>>
  /\ UNCHANGED <<up, tasks, guesses>>
\* The timer, or handleResume; and an input that comes first, which sets a new deadline.
TimeoutLocks ==
  /\ dev.timer /\ dev.dl = "past"
  /\ dev' = Locked(dev)
  /\ since' = since \cup {"lock"}
  /\ hurt' = hurt \cup Racing \cup Sealing
  /\ UNCHANGED <<up, tasks, guesses, left>>
InputComesFirst ==
  /\ dev.timer /\ dev.dl = "past"
  /\ dev' = [dev EXCEPT !.dl = "ahead"]
  /\ History /\ UNCHANGED <<up, tasks, left>>

\* sealIdentityIntoSession lands, clearSessionKey lands, the vault database is deleted.
SealLands ==
  /\ dev.sealing > 0
  /\ dev' = [dev EXCEPT !.seal = TRUE, !.alive = TRUE, !.sealing = @ - 1]
  /\ History /\ UNCHANGED <<up, tasks, left>>
WipeLands ==
  /\ dev.wiping > 0
  /\ dev' = [dev EXCEPT !.seal = FALSE, !.wiping = @ - 1]
  /\ History /\ UNCHANGED <<up, tasks, left>>
DropLands ==
  /\ dev.dropping /\ ~HoldsVault
  /\ dev' = [dev EXCEPT !.blob = FALSE, !.tries = 0, !.dropping = FALSE]
  /\ guesses' = 0
  /\ UNCHANGED <<up, tasks, since, hurt, left>>

OfflineSession == dev.vs = "unlocked" /\ dev.key /\ ~dev.token
Reauth ==
  /\ OfflineSession /\ Kind("reauth") = {}
  /\ tasks' = tasks \cup {Task("reauth", "challenge", "none")}
  /\ History /\ UNCHANGED <<dev, up, left>>

Killed(ts) == {[t EXCEPT !.tok = IF @ = "good" THEN "dead" ELSE @] : t \in ts}
EndsSessions(revokes) ==
  /\ Spend(IF revokes THEN "revokes" ELSE "ends")
  /\ ~dev.banned
  /\ dev' = [dev EXCEPT !.banned = revokes, !.jwt = IF @ = "good" THEN "dead" ELSE @]
  /\ tasks' = Killed(tasks)
  /\ UNCHANGED <<up, since, hurt, guesses>>
\* hush_auth_invalid: a request, or the close frame of the socket, tells.
HandleAuthInvalid ==
  /\ dev.jwt = "dead" /\ up /\ dev.token
  /\ dev' = Invalidated(dev, Told(dev))
  /\ UNCHANGED <<up, tasks, guesses, left>>
  /\ TellRevoked(dev')

\* The tab becomes visible; the answer is about the token it held then.
OnVisible ==
  /\ Spend("checks")
  /\ dev.jwt # "none" /\ Kind("check") = {}
  /\ tasks' = tasks \cup {Task("check", "me", dev.jwt)}
  /\ History /\ UNCHANGED <<dev, up>>
CheckAnswers(t) ==
  /\ t.kind = "check"
  /\ \/ /\ up /\ t.tok = "dead"
        /\ LET x == Invalidated(Invalidated(dev, Told(dev)), "invalid") IN
           /\ dev' = FreshTab(x)
           /\ since' = since \cup Over(x, FALSE)
                              \cup (IF x.tomb = "revoked" /\ dev.tomb # "revoked" THEN {"revoked"} ELSE {})
           /\ hurt' = hurt \cup Unfinished
                            \cup (IF x.tomb = "revoked" /\ dev.tomb # "revoked" THEN {"dropped"} ELSE {})
        /\ tasks' = {}
     \/ /\ ~up \/ t.tok # "dead"
        /\ Ends(t) /\ UNCHANGED <<dev, since, hurt>>
  /\ UNCHANGED <<up, guesses, left>>

GoesDown == Spend("outages") /\ up /\ up' = FALSE
            /\ History /\ UNCHANGED <<dev, tasks>>
ComesUp == ~up /\ up' = TRUE
           /\ History /\ UNCHANGED <<dev, tasks, left>>

-----------------------------------------------------------------------------
Steps(t) ==
  \/ BootAsks(t) \/ BootFinds(t) \/ BootScans(t) \/ BootResumes(t) \/ BootHasIdentity(t)
  \/ SignsIn(t) \/ Uploads(t) \/ Hydrates(t)
  \/ Charges(t) \/ Decrypts(t) \/ Rotates(t) \/ LogoutGoesOn(t) \/ CheckAnswers(t)
Background == SealLands \/ WipeLands \/ DropLands
User ==
  \/ \E right \in BOOLEAN : EntersPin(right)
  \/ EntersPhrase \/ GoesBackToPin \/ SetsPin \/ ChangesPolicy \/ LockVault \/ LogsOut
  \/ \E closed \in BOOLEAN : Reloads(closed)
World ==
  \/ DeadlinePasses \/ InputComesFirst \/ HandleAuthInvalid
  \/ \E revokes \in BOOLEAN : EndsSessions(revokes)
  \/ OnVisible \/ GoesDown \/ ComesUp

Next ==
  \/ BootStarts \/ (\E t \in tasks : Steps(t)) \/ Background
  \/ User \/ TimeoutLocks \/ Reauth \/ World

\* An effect runs after its render; a request, a decryption and a transaction end;
\* the interval of the offline re-authentication fires.
Fairness ==
  /\ WF_vars(BootStarts) /\ WF_vars(Reauth) /\ WF_vars(WipeLands) /\ WF_vars(DropLands)
  /\ \A k \in Kinds : WF_vars(\E t \in Kind(k) : Steps(t))
Spec == Init /\ [][Next]_vars /\ Fairness

-----------------------------------------------------------------------------
(* What must hold                                                           *)

\* Once the vault has been locked, or its policy has ended the session (the page was
\* loaded again, or the deadline passed with the vault locked), it is unlocked again only
\* by the PIN or the phrase: no reload, no answer that was on its way and no write to the
\* session record opens it.  Named exceptions: the lock met a function that held the
\* identity already ("inflight") or a session record still being written ("seal"); the
\* page was left before the wipe or the deletion landed ("crash").
Closed == since \cap {"lock", "ended"} # {} /\ hurt \cap {"inflight", "seal", "crash"} = {}
LockHolds == Closed => ~Unlocked(dev) \/ Kind("logout") # {}

\* Every wrong PIN tried on the vault has been charged, whatever was reloaded when, so
\* never more than MAX_PIN_FAILURES are tried.
GuessesAreCharged ==
  dev.blob => guesses <= dev.tries /\ guesses < MaxFailures

\* Once this device has been told that it is revoked, nothing takes it back: the
\* tombstone stays, no identity is in memory, the vault is gone or being deleted, until
\* the user gives the phrase, dismisses the notice or has logged out.  Named exceptions:
\* it met a function that may unlock ("revoking"); nothing named the user whose vault to
\* delete ("nameless"); the page was left before the deletion landed ("dropped").
RevocationSticks ==
  "revoked" \in since /\ "revoking" \notin hurt =>
    /\ dev.tomb = "revoked" /\ ~dev.key
    /\ dev.blob => dev.dropping \/ hurt \cap {"dropped", "nameless"} # {}

\* The loading screen of a boot, a sign-in or a logout ends.
LoadingEnds == dev.loading ~> ~dev.loading

\* A vault unlocked while the server was away gets its session when it is back.
SessionIsMinted == <>[]up => [](OfflineSession => <>~OfflineSession)

\* The PIN screen of an existing vault can be used, whatever the server does.
PinCanBeTried == Screen(dev) = "pin" /\ dev.blob /\ dev.tomb = "none" => dev.user \/ dev.last
=============================================================================

----------------------------- MODULE VaultProofs -----------------------------
(***************************************************************************)
(* Proofs about the vault (Vault): a PIN tried is a PIN charged, a device  *)
(* told that it is revoked stays so, and a vault that was locked, or whose *)
(* session its policy has ended, is opened by the PIN or the phrase alone. *)
(*                                                                         *)
(* What the functions of the hook do to the device between two awaits is a *)
(* chain of a dozen operators.  All but the few that open the vault are    *)
(* Tame: they take away and never give.  The three invariants are about    *)
(* what a tame step cannot break, so that only the other steps need an     *)
(* argument.                                                               *)
(***************************************************************************)
EXTENDS Vault, TLAPS

Tokens == {"none", "good", "dead"}
Stages == {"me", "find", "scan", "resume", "resumed", "challenge", "upload", "hydrate",
           "charge", "decrypt", "ask", "wipe", "reset"}
Devices ==
  [blob : BOOLEAN, marker : BOOLEAN, last : BOOLEAN, tomb : {"none", "invalid", "revoked"},
   tries : Nat, seal : BOOLEAN, policy : Policies, dl : {"none", "ahead", "past"},
   banned : BOOLEAN, jwt : Tokens, alive : BOOLEAN, setup : BOOLEAN, key : BOOLEAN,
   vs : {"none", "locked", "unlocked"}, loading : BOOLEAN, user : BOOLEAN, token : BOOLEAN,
   has : BOOLEAN, timer : BOOLEAN, rerun : BOOLEAN, sealing : 0 .. MaxWrites,
   wiping : 0 .. MaxWrites, dropping : BOOLEAN]
Functions == [kind : Kinds, at : Stages, run : BOOLEAN, tok : Tokens, right : BOOLEAN]

\* A function at one of these has the identity, or gets it from the user or the record.
Holders == {"resumed", "challenge", "upload", "hydrate"}

Placed(t) == t.at \in Holders \cup {"resume"} => WillUnlock(t)
Types ==
  /\ dev \in Devices
  /\ up \in BOOLEAN
  /\ tasks \subseteq Functions /\ \A t \in tasks : Placed(t)
  /\ guesses \in Nat
  /\ left \in [Bounds -> Nat]

\* A PIN is tried by one function at a time, and has been charged by then.
OneUnlock == \A t, u \in Kind("unlock") : t = u
GuessInv ==
  /\ OneUnlock
  /\ guesses <= dev.tries /\ guesses < MaxFailures
  /\ HoldsVault => guesses < dev.tries

\* A device told that it is revoked has no session and nothing under way that gives it one.
RevokedInv ==
  "revoked" \in since /\ "revoking" \notin hurt =>
    /\ dev.tomb = "revoked" /\ ~dev.key /\ dev.jwt = "none"
    /\ \A t \in tasks : ~WillUnlock(t)
    /\ dev.blob => dev.dropping \/ hurt \cap {"dropped", "nameless"} # {}

\* A vault that was closed: no identity in memory, none on its way, and either the session
\* record is not to be had, now or later, or the vault itself is not.
NoRecord ==
  \/ "lock" \in since /\ (dev.seal => dev.wiping > 0)
  \/ dev.policy = "refresh"
  \/ dev.policy = "browser_close" /\ ~dev.alive
  \/ dev.policy = "minutes" /\ dev.dl # "ahead" /\ ~dev.timer
NoneToCome == dev.sealing = 0 /\ Kind("rotate") = {}
NoVault == (dev.blob => dev.dropping /\ "lock" \in since) /\ \A t \in tasks : t.at # "resume"
Shut ==
  /\ ~dev.key
  /\ \A t \in tasks : t.at \notin Holders
  /\ (NoRecord /\ NoneToCome) \/ NoVault
\* A logout under way has asked for the deletion of the vault before it forgets the rest,
\* and nobody makes a new one.
Leaving ==
  /\ "lock" \in since /\ Kind("logout") # {}
  /\ Kind("recover") \cup Kind("register") = {} /\ ~dev.setup
  /\ \A t \in Kind("logout") : t.at # "ask" => (dev.blob => dev.dropping)
ClosedInv == Closed => Shut \/ Leaving

\* y is x with nothing opened: what a stretch that only locks, forgets or waits does.
Tame(x, y) ==
  /\ y \in Devices
  /\ y.blob = x.blob /\ y.tries = x.tries /\ y.sealing = x.sealing
  /\ y.key => x.key
  /\ y.seal => x.seal
  /\ y.timer => x.timer
  /\ y.setup => x.setup
  /\ x.dropping => y.dropping
  /\ x.wiping > 0 => y.wiping > 0
  /\ x.tomb = "revoked" => y.tomb = "revoked"
  /\ y.jwt \in {x.jwt, "none"}
  /\ \/ y.policy = x.policy /\ (y.alive => x.alive) /\ (y.dl = "ahead" => x.dl = "ahead")
     \/ y.policy = "browser_close" /\ ~y.alive

\* The part of Tame that matters for a closed vault.
Shuts(x, y) ==
  /\ y \in Devices
  /\ y.blob => x.blob
  /\ y.sealing = x.sealing
  /\ y.key => x.key
  /\ y.seal => x.seal
  /\ y.timer => x.timer
  /\ y.setup => x.setup
  /\ x.dropping => y.dropping
  /\ x.wiping > 0 => y.wiping > 0
  /\ \/ y.policy = x.policy /\ (y.alive => x.alive) /\ (y.dl = "ahead" => x.dl = "ahead")
     \/ y.policy = "browser_close" /\ ~y.alive

\* What Tame is about is left as it is.
Same(x, y) ==
  /\ y.blob = x.blob /\ y.tries = x.tries /\ y.sealing = x.sealing /\ y.key = x.key
  /\ y.seal = x.seal /\ y.timer = x.timer /\ y.setup = x.setup /\ y.dropping = x.dropping
  /\ y.wiping = x.wiping /\ y.tomb = x.tomb /\ y.jwt = x.jwt /\ y.policy = x.policy
  /\ y.alive = x.alive /\ y.dl = x.dl

-----------------------------------------------------------------------------
(* What each stretch does                                                    *)

LEMMA TameRefl == ASSUME NEW x \in Devices PROVE Tame(x, x)
BY DEF Tame, Devices

LEMMA TameTrans ==
  ASSUME NEW x \in Devices, NEW y, NEW z, Tame(x, y), Tame(y, z)
  PROVE  Tame(x, z)
BY DEF Tame, Devices

LEMMA MoreFacts ==
  ASSUME NEW n \in 0 .. MaxWrites PROVE More(n) \in 0 .. MaxWrites /\ More(n) > 0
BY VaultAssumption DEF More

LEMMA NoTimerTame ==
  ASSUME NEW x \in Devices
  PROVE  /\ Tame(x, NoTimer(x))
         /\ NoTimer(x).key = x.key /\ ~NoTimer(x).timer /\ NoTimer(x).jwt = x.jwt
         /\ NoTimer(x).tomb = x.tomb
<1> DEFINE y == NoTimer(x)
<1>1. y \in Devices
  BY DEF Devices, NoTimer
<1>2. /\ y.blob = x.blob /\ y.tries = x.tries /\ y.sealing = x.sealing /\ y.key = x.key
      /\ y.seal = x.seal /\ y.setup = x.setup /\ y.dropping = x.dropping
      /\ y.wiping = x.wiping /\ y.tomb = x.tomb /\ y.jwt = x.jwt /\ y.policy = x.policy
      /\ y.alive = x.alive
  BY DEF Devices, NoTimer
<1>3. y.timer = FALSE /\ (y.dl = "ahead" => x.dl = "ahead")
  BY DEF Devices, NoTimer
<1> QED
  BY <1>1, <1>2, <1>3 DEF Tame

LEMMA SetVsTame ==
  ASSUME NEW x \in Devices, NEW v \in {"none", "locked", "unlocked"}
  PROVE  /\ Tame(x, SetVs(x, v))
         /\ SetVs(x, v).key = x.key /\ SetVs(x, v).jwt = x.jwt /\ SetVs(x, v).tomb = x.tomb
         /\ ~x.timer => ~SetVs(x, v).timer
<1> DEFINE z == IF v # "unlocked" /\ x.vs # v THEN NoTimer(x) ELSE x
<1>1. Tame(x, z) /\ z.key = x.key /\ z.jwt = x.jwt /\ z.tomb = x.tomb
  BY NoTimerTame, TameRefl
<1>2. SetVs(x, v) = [z EXCEPT !.vs = v]
  BY DEF SetVs
<1> HIDE DEF z
<1>3. z \in Devices
  BY <1>1 DEF Tame
<1> DEFINE y == [z EXCEPT !.vs = v]
<1>4. y \in Devices
  BY <1>3 DEF Devices
<1>5. /\ y.blob = z.blob /\ y.tries = z.tries /\ y.sealing = z.sealing /\ y.key = z.key
      /\ y.seal = z.seal /\ y.timer = z.timer /\ y.setup = z.setup /\ y.dropping = z.dropping
      /\ y.wiping = z.wiping /\ y.tomb = z.tomb /\ y.jwt = z.jwt /\ y.policy = z.policy
      /\ y.alive = z.alive /\ y.dl = z.dl
  BY <1>3 DEF Devices
<1>6. Tame(z, y)
  BY <1>4, <1>5 DEF Tame
<1>7. Tame(x, y)
  BY <1>1, <1>3, <1>6, TameTrans
<1> QED
  BY <1>1, <1>2, <1>5, <1>7 DEF Tame

LEMMA ClearSessionKeyTame ==
  ASSUME NEW x \in Devices
  PROVE  /\ Tame(x, ClearSessionKey(x))
         /\ ~ClearSessionKey(x).alive /\ ClearSessionKey(x).wiping > 0
         /\ ClearSessionKey(x).policy = x.policy /\ ClearSessionKey(x).key = x.key
         /\ ClearSessionKey(x).timer = x.timer /\ ClearSessionKey(x).dropping = x.dropping
         /\ ClearSessionKey(x).jwt = x.jwt
<1> DEFINE y == ClearSessionKey(x)
<1>0. x.wiping \in 0 .. MaxWrites
  BY DEF Devices
<1>1. y \in Devices
  BY <1>0, MoreFacts DEF Devices, ClearSessionKey
<1>2. /\ y.blob = x.blob /\ y.tries = x.tries /\ y.sealing = x.sealing /\ y.key = x.key
      /\ y.seal = x.seal /\ y.timer = x.timer /\ y.setup = x.setup /\ y.dropping = x.dropping
      /\ y.tomb = x.tomb /\ y.jwt = x.jwt /\ y.policy = x.policy /\ y.dl = x.dl
  BY DEF Devices, ClearSessionKey
<1>3. y.alive = FALSE /\ y.wiping > 0
  BY <1>0, MoreFacts DEF Devices, ClearSessionKey
<1> QED
  BY <1>1, <1>2, <1>3 DEF Tame

LEMMA ClearSessionTame ==
  ASSUME NEW x \in Devices
  PROVE  Tame(x, ClearSession(x)) /\ ClearSession(x).jwt = "none" /\ ClearSession(x).key = x.key
                                 /\ ~ClearSession(x).setup /\ ClearSession(x).tomb = x.tomb
<1> DEFINE y == ClearSession(x)
<1>1. y \in Devices
  BY DEF Devices, ClearSession, Tokens
<1>2. /\ y.blob = x.blob /\ y.tries = x.tries /\ y.sealing = x.sealing /\ y.key = x.key
      /\ y.seal = x.seal /\ y.timer = x.timer /\ y.dropping = x.dropping
      /\ y.wiping = x.wiping /\ y.tomb = x.tomb /\ y.policy = x.policy /\ y.alive = x.alive
      /\ y.dl = x.dl
  BY DEF Devices, ClearSession, Tokens
<1>3. y.jwt = "none" /\ y.setup = FALSE
  BY DEF Devices, ClearSession, Tokens
<1> QED
  BY <1>1, <1>2, <1>3 DEF Tame

LEMMA SameTame ==
  ASSUME NEW x \in Devices, NEW y \in Devices, Same(x, y)
  PROVE  Tame(x, y)
BY DEF Same, Tame

LEMMA PlannedTame ==
  ASSUME NEW x \in Devices, NEW v \in {"none", "locked", "unlocked"}, NEW h \in BOOLEAN
  PROVE  Tame(x, Planned(x, v, h)) /\ Planned(x, v, h).key = x.key
                                   /\ Planned(x, v, h).jwt = x.jwt
                                   /\ Planned(x, v, h).tomb = x.tomb
<1> DEFINE z == SetVs(x, v)
           y == [z EXCEPT !.has = h]
<1>1. Tame(x, z) /\ z.key = x.key /\ z.jwt = x.jwt /\ z.tomb = x.tomb
  BY SetVsTame
<1> HIDE DEF z
<1>2. z \in Devices
  BY <1>1 DEF Tame
<1>3. y \in Devices /\ Same(z, y)
  BY <1>2 DEF Devices, Same
<1>4. Tame(x, y)
  BY <1>1, <1>2, <1>3, SameTame, TameTrans
<1>5. y = Planned(x, v, h)
  BY DEF Planned, z
<1> QED
  BY <1>1, <1>3, <1>4, <1>5 DEF Same

LEMMA ResetTame ==
  ASSUME NEW x \in Devices
  PROVE  Tame(x, Reset(x)) /\ ~Reset(x).key /\ Reset(x).jwt = x.jwt /\ ~Reset(x).setup
<1> DEFINE a == NoTimer(x)
           b == [a EXCEPT !.key = FALSE, !.token = FALSE]
           c == [b EXCEPT !.user = FALSE, !.has = FALSE, !.setup = FALSE]
<1>1. Tame(x, a) /\ a.jwt = x.jwt
  BY NoTimerTame
<1>2. Reset(x) = SetVs(c, "none")
  BY DEF Reset
<1> HIDE DEF a
<1>3. a \in Devices
  BY <1>1 DEF Tame
<1>4. b \in Devices /\ Tame(a, b) /\ b.jwt = a.jwt /\ ~b.key
  <2>1. b \in Devices
    BY <1>3 DEF Devices
  <2>2. /\ b.blob = a.blob /\ b.tries = a.tries /\ b.sealing = a.sealing /\ b.seal = a.seal
        /\ b.timer = a.timer /\ b.setup = a.setup /\ b.dropping = a.dropping
        /\ b.wiping = a.wiping /\ b.tomb = a.tomb /\ b.jwt = a.jwt /\ b.policy = a.policy
        /\ b.alive = a.alive /\ b.dl = a.dl /\ b.key = FALSE
    BY <1>3 DEF Devices
  <2> QED
    BY <2>1, <2>2 DEF Tame
<1> HIDE DEF b
<1>5. c \in Devices /\ Tame(b, c) /\ c.jwt = b.jwt /\ ~c.key /\ ~c.setup
  <2>1. c \in Devices
    BY <1>4 DEF Devices
  <2>2. /\ c.blob = b.blob /\ c.tries = b.tries /\ c.sealing = b.sealing /\ c.seal = b.seal
        /\ c.timer = b.timer /\ c.key = b.key /\ c.dropping = b.dropping
        /\ c.wiping = b.wiping /\ c.tomb = b.tomb /\ c.jwt = b.jwt /\ c.policy = b.policy
        /\ c.alive = b.alive /\ c.dl = b.dl /\ c.setup = FALSE
    BY <1>4 DEF Devices
  <2> QED
    BY <1>4, <2>1, <2>2 DEF Tame
<1> HIDE DEF c
<1>6. Tame(c, SetVs(c, "none")) /\ SetVs(c, "none").key = c.key /\ SetVs(c, "none").jwt = c.jwt
  BY <1>5, SetVsTame
<1>7. Tame(x, b)
  BY <1>1, <1>4, TameTrans
<1>8. Tame(x, c)
  BY <1>4, <1>5, <1>7, TameTrans
<1>9. Tame(x, SetVs(c, "none"))
  BY <1>5, <1>6, <1>8, TameTrans
<1>10. ~SetVs(c, "none").setup
  BY <1>5, <1>6 DEF Tame
<1> QED
  BY <1>1, <1>2, <1>4, <1>5, <1>6, <1>9, <1>10

LEMMA KeyGone ==
  ASSUME NEW x \in Devices
  PROVE  LET y == [x EXCEPT !.key = FALSE]
         IN  Tame(x, y) /\ ~y.key /\ y.jwt = x.jwt /\ y.timer = x.timer
<1> DEFINE y == [x EXCEPT !.key = FALSE]
<1>1. y \in Devices
  BY DEF Devices
<1>2. /\ y.blob = x.blob /\ y.tries = x.tries /\ y.sealing = x.sealing /\ y.seal = x.seal
      /\ y.timer = x.timer /\ y.setup = x.setup /\ y.dropping = x.dropping
      /\ y.wiping = x.wiping /\ y.tomb = x.tomb /\ y.jwt = x.jwt /\ y.policy = x.policy
      /\ y.alive = x.alive /\ y.dl = x.dl /\ y.key = FALSE
  BY DEF Devices
<1> QED
  BY <1>1, <1>2 DEF Tame

LEMMA LockedTame ==
  ASSUME NEW x \in Devices
  PROVE  /\ Tame(x, Locked(x))
         /\ ~Locked(x).key /\ ~Locked(x).timer /\ Locked(x).wiping > 0
<1> DEFINE a == NoTimer(x)
           b == [a EXCEPT !.key = FALSE]
           c == ClearSessionKey(b)
           d == SetVs(c, "locked")
<1>1. a \in Devices /\ Tame(x, a) /\ ~a.timer
  BY NoTimerTame DEF Tame
<1> HIDE DEF a
<1>2. b \in Devices /\ Tame(a, b) /\ ~b.key /\ ~b.timer
  BY <1>1, KeyGone DEF Tame
<1> HIDE DEF b
<1>3. c \in Devices /\ Tame(b, c) /\ ~c.key /\ ~c.timer /\ c.wiping > 0
  BY <1>2, ClearSessionKeyTame DEF Tame
<1> HIDE DEF c
<1>4. Tame(c, d) /\ ~d.key /\ ~d.timer
  BY <1>3, SetVsTame
<1>5. d.wiping > 0
  BY <1>3, <1>4 DEF Tame
<1>6. Tame(x, b)
  BY <1>1, <1>2, TameTrans
<1>7. Tame(x, c)
  BY <1>2, <1>3, <1>6, TameTrans
<1>8. Tame(x, d)
  BY <1>3, <1>4, <1>7, TameTrans
<1>9. d = Locked(x)
  BY DEF Locked, a, b, c
<1> QED
  BY <1>4, <1>5, <1>8, <1>9

LEMMA DestroyedTame ==
  ASSUME NEW x \in Devices
  PROVE  /\ Tame(x, Destroyed(x))
         /\ ~Destroyed(x).key /\ Destroyed(x).jwt = "none" /\ Destroyed(x).tomb = "revoked"
         /\ Named(x) => Destroyed(x).dropping
<1> DEFINE y == [x EXCEPT !.tomb = "revoked", !.rerun = @ \/ x.tomb # "revoked",
                          !.banned = FALSE]
           a == [y EXCEPT !.dl = "none", !.dropping = TRUE, !.marker = FALSE]
           b == [a EXCEPT !.last = FALSE, !.policy = "browser_close"]
           z == ClearSessionKey(b)
           w == IF Named(x) THEN z ELSE y
           r == Reset(w)
           d == ClearSession(r)
<1>0. Destroyed(x) = d
  BY DEF Destroyed
<1>1. /\ y \in Devices /\ Tame(x, y) /\ y.tomb = "revoked"
  <2>0. PICK again \in BOOLEAN :
          y = [x EXCEPT !.tomb = "revoked", !.rerun = again, !.banned = FALSE]
    OBVIOUS
  <2>1. y \in Devices
    <3>1. [x EXCEPT !.tomb = "revoked", !.rerun = again, !.banned = FALSE] \in Devices
      BY DEF Devices
    <3> QED
      BY <2>0, <3>1
  <2>2. /\ y.blob = x.blob /\ y.tries = x.tries /\ y.sealing = x.sealing /\ y.seal = x.seal
        /\ y.timer = x.timer /\ y.setup = x.setup /\ y.dropping = x.dropping
        /\ y.wiping = x.wiping /\ y.jwt = x.jwt /\ y.policy = x.policy
        /\ y.alive = x.alive /\ y.dl = x.dl /\ y.key = x.key /\ y.tomb = "revoked"
    BY DEF Devices
  <2> QED
    BY <2>1, <2>2 DEF Tame
<1> HIDE DEF y
<1>2. /\ a \in Devices
      /\ a.blob = y.blob /\ a.tries = y.tries /\ a.sealing = y.sealing /\ a.seal = y.seal
      /\ a.timer = y.timer /\ a.setup = y.setup /\ a.dropping = TRUE
      /\ a.wiping = y.wiping /\ a.jwt = y.jwt /\ a.key = y.key /\ a.tomb = y.tomb
  <2>1. a \in Devices
    BY <1>1 DEF Devices
  <2>2. /\ a.blob = y.blob /\ a.tries = y.tries /\ a.sealing = y.sealing /\ a.seal = y.seal
        /\ a.timer = y.timer /\ a.setup = y.setup /\ a.dropping = TRUE
        /\ a.wiping = y.wiping /\ a.jwt = y.jwt /\ a.key = y.key /\ a.tomb = y.tomb
    BY <1>1 DEF Devices
  <2> QED
    BY <2>1, <2>2
<1> HIDE DEF a
<1>3. /\ b \in Devices
      /\ b.blob = a.blob /\ b.tries = a.tries /\ b.sealing = a.sealing /\ b.seal = a.seal
      /\ b.timer = a.timer /\ b.setup = a.setup /\ b.dropping = a.dropping
      /\ b.wiping = a.wiping /\ b.jwt = a.jwt /\ b.key = a.key /\ b.tomb = a.tomb
      /\ b.policy = "browser_close"
  <2>1. b \in Devices
    BY <1>2 DEF Devices, Policies
  <2>2. /\ b.blob = a.blob /\ b.tries = a.tries /\ b.sealing = a.sealing /\ b.seal = a.seal
        /\ b.timer = a.timer /\ b.setup = a.setup /\ b.dropping = a.dropping
        /\ b.wiping = a.wiping /\ b.jwt = a.jwt /\ b.key = a.key /\ b.tomb = a.tomb
        /\ b.policy = "browser_close"
    BY <1>2 DEF Devices
  <2> QED
    BY <2>1, <2>2
<1> HIDE DEF b
<1>4. /\ z \in Devices /\ Tame(b, z) /\ z.policy = "browser_close" /\ ~z.alive
      /\ z.dropping = b.dropping
  BY <1>3, ClearSessionKeyTame DEF Tame
<1> HIDE DEF z
<1>5. Tame(y, z) /\ z.dropping
  BY <1>2, <1>3, <1>4 DEF Tame
<1>6. w \in Devices /\ Tame(y, w) /\ (Named(x) => w.dropping)
  BY <1>1, <1>4, <1>5, TameRefl
<1> HIDE DEF w
<1>7. r \in Devices /\ Tame(w, r) /\ ~r.key
  BY <1>6, ResetTame DEF Tame
<1> HIDE DEF r
<1>8. Tame(r, d) /\ ~d.key /\ d.jwt = "none"
  BY <1>7, ClearSessionTame
<1>9. Tame(x, w)
  BY <1>1, <1>6, TameTrans
<1>10. Tame(x, r)
  BY <1>6, <1>7, <1>9, TameTrans
<1>11. Tame(x, d)
  BY <1>7, <1>8, <1>10, TameTrans
<1>12. d.tomb = "revoked"
  BY <1>1, <1>6, <1>7, <1>8 DEF Tame
<1>13. Named(x) => d.dropping
  BY <1>6, <1>7, <1>8 DEF Tame
<1> HIDE DEF d
<1> QED
  BY <1>0, <1>8, <1>11, <1>12, <1>13

LEMMA InvalidatedTame ==
  ASSUME NEW x \in Devices, NEW reason
  PROVE  /\ Tame(x, Invalidated(x, reason))
         /\ ~Invalidated(x, reason).key /\ Invalidated(x, reason).jwt = "none"
         /\ reason = "revoked" => Invalidated(x, reason).tomb = "revoked"
         /\ Invalidated(x, reason).tomb = "revoked" /\ Named(x)
              => Invalidated(x, reason).dropping
<1>1. CASE x.tomb = "revoked" \/ reason = "revoked"
  BY <1>1, DestroyedTame DEF Invalidated
<1>2. CASE ~(x.tomb = "revoked" \/ reason = "revoked")
  <2> DEFINE a == NoTimer(x)
             b == [a EXCEPT !.tomb = "invalid", !.rerun = TRUE, !.key = FALSE]
             c == [b EXCEPT !.token = FALSE, !.user = FALSE]
             d == ClearSession(c)
             v == IF x.marker THEN "locked" ELSE "none"
             e == Planned(d, v, x.marker)
  <2>0. Invalidated(x, reason) = e
    BY <1>2 DEF Invalidated
  <2>1. a \in Devices /\ Tame(x, a)
    BY NoTimerTame DEF Tame
  <2> HIDE DEF a
  <2>2. b \in Devices /\ ~b.key /\ b.tomb = "invalid" /\ Tame(x, b)
    <3>1. b \in Devices
      BY <2>1 DEF Devices
    <3>2. /\ b.blob = a.blob /\ b.tries = a.tries /\ b.sealing = a.sealing /\ b.seal = a.seal
          /\ b.timer = a.timer /\ b.setup = a.setup /\ b.dropping = a.dropping
          /\ b.wiping = a.wiping /\ b.jwt = a.jwt /\ b.policy = a.policy
          /\ b.alive = a.alive /\ b.dl = a.dl /\ b.key = FALSE /\ b.tomb = "invalid"
      BY <2>1 DEF Devices
    <3> QED
      BY <1>2, <2>1, <3>1, <3>2 DEF Tame
  <2> HIDE DEF b
  <2>3. c \in Devices /\ Same(b, c)
    BY <2>2 DEF Devices, Same
  <2>4. Tame(b, c) /\ ~c.key /\ c.tomb = "invalid"
    BY <2>2, <2>3, SameTame DEF Same
  <2> HIDE DEF c
  <2>5. d \in Devices /\ Tame(c, d) /\ ~d.key /\ d.jwt = "none" /\ d.tomb = c.tomb
    <3>1. Tame(c, d) /\ ~d.key /\ d.jwt = "none" /\ d.tomb = c.tomb
      BY <2>3, <2>4, ClearSessionTame
    <3> HIDE DEF d
    <3> QED
      BY <3>1 DEF Tame
  <2> HIDE DEF d
  <2>6. Tame(d, e) /\ ~e.key /\ e.jwt = "none" /\ e.tomb = d.tomb
    <3>1. v \in {"none", "locked", "unlocked"} /\ x.marker \in BOOLEAN
      BY DEF Devices
    <3> HIDE DEF v
    <3> QED
      BY <2>5, <3>1, PlannedTame
  <2>7. Tame(x, c)
    BY <2>2, <2>3, <2>4, TameTrans
  <2>8. Tame(x, d)
    BY <2>3, <2>5, <2>7, TameTrans
  <2>9. Tame(x, e)
    BY <2>5, <2>6, <2>8, TameTrans
  <2> HIDE DEF e
  <2> QED
    BY <1>2, <2>0, <2>4, <2>5, <2>6, <2>9
<1> QED
  BY <1>1, <1>2

LEMMA SignInFailedTame ==
  ASSUME NEW x \in Devices
  PROVE  Tame(x, SignInFailed(x))
<1> DEFINE a == ClearSession(x)
           b == Planned(a, "none", FALSE)
           c == [b EXCEPT !.token = FALSE, !.user = FALSE, !.loading = FALSE]
<1>0. SignInFailed(x) = c
  BY DEF SignInFailed
<1>1. a \in Devices /\ Tame(x, a)
  BY ClearSessionTame DEF Tame
<1> HIDE DEF a
<1>2. Tame(a, b)
  BY <1>1, PlannedTame
<1> HIDE DEF b
<1>3. b \in Devices
  BY <1>2 DEF Tame
<1>4. c \in Devices
  BY <1>3 DEF Devices
<1>5. Same(b, c)
  BY <1>3 DEF Devices, Same
<1> HIDE DEF c
<1> QED
  BY <1>0, <1>1, <1>2, <1>3, <1>4, <1>5, SameTame, TameTrans

LEMMA LoadedSame ==
  ASSUME NEW x \in Devices, NEW t
  PROVE  Loaded(x, t) \in Devices /\ Same(x, Loaded(x, t)) /\ Tame(x, Loaded(x, t))
<1>1. CASE t.run
  <2>1. [x EXCEPT !.loading = FALSE] \in Devices /\ Same(x, [x EXCEPT !.loading = FALSE])
    BY DEF Devices, Same
  <2> QED
    BY <1>1, <2>1, SameTame DEF Loaded
<1>2. CASE ~t.run
  BY <1>2, TameRefl DEF Loaded, Same
<1> QED
  BY <1>1, <1>2

LEMMA NotResumedTame ==
  ASSUME NEW x \in Devices, NEW t
  PROVE  Tame(x, NotResumed(x, t))
<1>1. CASE t.run
  <2> DEFINE a == IF t.tok # "none" THEN [x EXCEPT !.setup = FALSE] ELSE x
             b == Planned(a, "locked", TRUE)
             c == [b EXCEPT !.loading = FALSE]
  <2>0. NotResumed(x, t) = c
    BY <1>1 DEF NotResumed
  <2>1. a \in Devices /\ Tame(x, a)
    <3> DEFINE y == [x EXCEPT !.setup = FALSE]
    <3>1. y \in Devices
      BY DEF Devices
    <3>2. /\ y.blob = x.blob /\ y.tries = x.tries /\ y.sealing = x.sealing /\ y.key = x.key
          /\ y.seal = x.seal /\ y.timer = x.timer /\ y.dropping = x.dropping
          /\ y.wiping = x.wiping /\ y.tomb = x.tomb /\ y.jwt = x.jwt /\ y.policy = x.policy
          /\ y.alive = x.alive /\ y.dl = x.dl
          /\ y.setup = FALSE
      BY DEF Devices
    <3>3. Tame(x, y)
      BY <3>1, <3>2 DEF Tame
    <3> HIDE DEF y
    <3> QED
      BY <3>1, <3>3, TameRefl DEF y
  <2> HIDE DEF a
  <2>2. Tame(a, b)
    BY <2>1, PlannedTame
  <2> HIDE DEF b
  <2>3. b \in Devices
    BY <2>2 DEF Tame
  <2>4. c \in Devices /\ Same(b, c)
    BY <2>3 DEF Devices, Same
  <2> HIDE DEF c
  <2> QED
    BY <2>0, <2>1, <2>2, <2>3, <2>4, SameTame, TameTrans
<1>2. CASE ~t.run
  BY <1>2, TameRefl DEF NotResumed
<1> QED
  BY <1>1, <1>2

\* A page that is loaded again forgets what the hook held and what was being written.
LEMMA FreshTabFacts ==
  ASSUME NEW x \in Devices
  PROVE  LET y == FreshTab(x)
         IN  /\ y \in Devices
             /\ y.blob = x.blob /\ y.tries = x.tries /\ y.seal = x.seal /\ y.setup = x.setup
             /\ y.tomb = x.tomb /\ y.jwt = x.jwt /\ y.policy = x.policy /\ y.alive = x.alive
             /\ y.dl = x.dl
             /\ ~y.key /\ ~y.timer /\ y.sealing = 0 /\ ~y.dropping
<1> DEFINE a == [x EXCEPT !.key = FALSE, !.vs = "none", !.loading = TRUE]
           b == [a EXCEPT !.user = FALSE, !.token = FALSE, !.has = FALSE]
           c == [b EXCEPT !.timer = FALSE, !.rerun = TRUE]
           d == [c EXCEPT !.sealing = 0, !.wiping = 0, !.dropping = FALSE]
<1>0. FreshTab(x) = d
  BY DEF FreshTab
<1>1. a \in Devices
  BY DEF Devices
<1>2. /\ a.blob = x.blob /\ a.tries = x.tries /\ a.sealing = x.sealing /\ a.seal = x.seal
      /\ a.timer = x.timer /\ a.setup = x.setup /\ a.dropping = x.dropping
      /\ a.wiping = x.wiping /\ a.tomb = x.tomb /\ a.jwt = x.jwt /\ a.policy = x.policy
      /\ a.alive = x.alive /\ a.dl = x.dl
      /\ a.key = FALSE
  BY DEF Devices
<1> HIDE DEF a
<1>3. b \in Devices
  BY <1>1 DEF Devices
<1>4. /\ b.blob = a.blob /\ b.tries = a.tries /\ b.sealing = a.sealing /\ b.key = a.key
      /\ b.seal = a.seal /\ b.timer = a.timer /\ b.setup = a.setup /\ b.dropping = a.dropping
      /\ b.wiping = a.wiping /\ b.tomb = a.tomb /\ b.jwt = a.jwt /\ b.policy = a.policy
      /\ b.alive = a.alive /\ b.dl = a.dl
  BY <1>1 DEF Devices
<1> HIDE DEF b
<1>5. c \in Devices
  BY <1>3 DEF Devices
<1>6. /\ c.blob = b.blob /\ c.tries = b.tries /\ c.sealing = b.sealing /\ c.key = b.key
      /\ c.seal = b.seal /\ c.setup = b.setup /\ c.dropping = b.dropping
      /\ c.wiping = b.wiping /\ c.tomb = b.tomb /\ c.jwt = b.jwt /\ c.policy = b.policy
      /\ c.alive = b.alive /\ c.dl = b.dl
      /\ c.timer = FALSE
  BY <1>3 DEF Devices
<1> HIDE DEF c
<1>7. d \in Devices
  <2>1. 0 \in 0 .. MaxWrites
    BY VaultAssumption
  <2> QED
    BY <1>5, <2>1 DEF Devices
<1>8. /\ d.blob = c.blob /\ d.tries = c.tries /\ d.key = c.key /\ d.seal = c.seal
      /\ d.timer = c.timer /\ d.setup = c.setup /\ d.tomb = c.tomb /\ d.jwt = c.jwt
      /\ d.policy = c.policy /\ d.alive = c.alive /\ d.dl = c.dl
      /\ d.sealing = 0 /\ d.wiping = 0 /\ d.dropping = FALSE
  BY <1>5 DEF Devices
<1> HIDE DEF d
<1> QED
  BY <1>0, <1>2, <1>4, <1>6, <1>7, <1>8

LEMMA PublishedFacts ==
  ASSUME NEW x \in Devices, NEW t \in Functions
  PROVE  LET y == Published(x, t)
         IN  /\ y \in Devices
             /\ y.blob = x.blob /\ y.tries = x.tries /\ y.dropping = x.dropping
             /\ y.setup = x.setup
<1> DEFINE a == [x EXCEPT !.tomb = "none", !.rerun = @ \/ x.tomb # "none"]
           b == [a EXCEPT !.jwt = t.tok, !.token = TRUE]
           c == [b EXCEPT !.user = TRUE, !.marker = TRUE, !.has = TRUE]
<1>0. Published(x, t) = c
  BY DEF Published
<1>1. a \in Devices
  <2>1. PICK again \in BOOLEAN : a = [x EXCEPT !.tomb = "none", !.rerun = again]
    OBVIOUS
  <2>2. [x EXCEPT !.tomb = "none", !.rerun = again] \in Devices
    BY DEF Devices
  <2> QED
    BY <2>1, <2>2
<1>2. /\ a.blob = x.blob /\ a.tries = x.tries /\ a.dropping = x.dropping /\ a.setup = x.setup
  BY DEF Devices
<1> HIDE DEF a
<1>3. t.tok \in Tokens
  BY DEF Functions
<1>4. b \in Devices
  BY <1>1, <1>3 DEF Devices
<1>5. /\ b.blob = a.blob /\ b.tries = a.tries /\ b.dropping = a.dropping /\ b.setup = a.setup
  BY <1>1 DEF Devices
<1> HIDE DEF b
<1>6. c \in Devices
  BY <1>4 DEF Devices
<1>7. /\ c.blob = b.blob /\ c.tries = b.tries /\ c.dropping = b.dropping /\ c.setup = b.setup
  BY <1>4 DEF Devices
<1> HIDE DEF c
<1> QED
  BY <1>0, <1>2, <1>5, <1>6, <1>7

LEMMA OpenedFacts ==
  ASSUME NEW x \in Devices
  PROVE  LET y == Opened(x)
         IN  /\ y \in Devices
             /\ y.blob = x.blob /\ y.tries = x.tries /\ y.dropping = x.dropping
             /\ y.setup = x.setup
<1> DEFINE a == [x EXCEPT !.vs = "unlocked", !.timer = x.policy = "minutes"]
           b == [a EXCEPT !.dl = IF x.policy = "minutes" THEN "ahead" ELSE "none",
                          !.sealing = More(@)]
<1>0. Opened(x) = b
  BY DEF Opened
<1>1. a \in Devices
  <2>1. PICK armed \in BOOLEAN : a = [x EXCEPT !.vs = "unlocked", !.timer = armed]
    OBVIOUS
  <2>2. [x EXCEPT !.vs = "unlocked", !.timer = armed] \in Devices
    BY DEF Devices
  <2> QED
    BY <2>1, <2>2
<1>2. /\ a.blob = x.blob /\ a.tries = x.tries /\ a.dropping = x.dropping /\ a.setup = x.setup
  BY DEF Devices
<1> HIDE DEF a
<1>3. a.sealing \in 0 .. MaxWrites
  BY <1>1 DEF Devices
<1>4. b \in Devices
  <2>1. PICK n \in 0 .. MaxWrites : n = More(a.sealing)
    BY <1>3, MoreFacts
  <2>2. \A d \in {"none", "ahead", "past"} : [a EXCEPT !.dl = d, !.sealing = n] \in Devices
    BY <1>1 DEF Devices
  <2> QED
    BY <2>1, <2>2
<1>5. /\ b.blob = a.blob /\ b.tries = a.tries /\ b.dropping = a.dropping /\ b.setup = a.setup
  BY <1>1 DEF Devices
<1> HIDE DEF b
<1> QED
  BY <1>0, <1>2, <1>4, <1>5

LEMMA InMemoryFacts ==
  ASSUME NEW x \in Devices
  PROVE  LET y == InMemory(x)
         IN  /\ y \in Devices
             /\ y.blob = x.blob /\ y.tries = x.tries /\ y.dropping = x.dropping /\ ~y.setup
<1> DEFINE a == [x EXCEPT !.key = TRUE, !.has = TRUE]
           b == [a EXCEPT !.user = TRUE, !.setup = FALSE]
<1>0. InMemory(x) = b
  BY DEF InMemory
<1>1. a \in Devices
  BY DEF Devices
<1>2. /\ a.blob = x.blob /\ a.tries = x.tries /\ a.dropping = x.dropping
  BY DEF Devices
<1> HIDE DEF a
<1>3. b \in Devices
  BY <1>1 DEF Devices
<1>4. b.blob = a.blob /\ b.tries = a.tries /\ b.dropping = a.dropping /\ ~b.setup
  BY <1>1 DEF Devices
<1> HIDE DEF b
<1> QED
  BY <1>0, <1>2, <1>3, <1>4

-----------------------------------------------------------------------------
(* What a step does to the functions under way                               *)

\* u is t, or t further on, and neither has nor soon gets an identity by that.
Follows(u, t) == u.kind = t.kind /\ u.at = t.at
Harmless(u) ==
  /\ u.kind \in {"boot", "unlock", "check"} /\ u.at \notin Holders
  /\ u.at = "resume" => dev.blob /\ ~dev.dropping
\* No function of ts' is new, but for harmless ones; a logout stays where it is.
Calm ==
  /\ \A u \in tasks' : Harmless(u) \/ \E t \in tasks : Follows(u, t)
  /\ \A t \in tasks : t.kind = "logout" => \E u \in tasks' : Follows(u, t)
  /\ tasks' \subseteq Functions /\ \A u \in tasks' : Placed(u)
\* A logout may go on as well.
Settles ==
  \A u \in tasks' : \/ Harmless(u) \/ \E t \in tasks : Follows(u, t)
                    \/ u.kind = "logout" /\ u.at \notin Holders \cup {"resume"}

LEMMA TaskType ==
  ASSUME NEW kind \in Kinds, NEW at \in Stages, NEW tok \in Tokens
  PROVE  /\ Task(kind, at, tok) \in Functions
         /\ Task(kind, at, tok).kind = kind /\ Task(kind, at, tok).at = at
         /\ Task(kind, at, tok).tok = tok
BY DEF Task, Functions

LEMMA GotoType ==
  ASSUME NEW t \in Functions, NEW at \in Stages
  PROVE  LET u == [t EXCEPT !.at = at]
         IN  u \in Functions /\ u.kind = t.kind /\ u.at = at /\ u.tok = t.tok /\ u.right = t.right
BY DEF Functions

LEMMA EndsCalm ==
  ASSUME Types, NEW t \in tasks, Ends(t), t.kind # "logout"
  PROVE  Calm
BY DEF Types, Ends, Calm, Follows

LEMMA GotoCalm ==
  ASSUME Types, NEW t \in tasks, NEW at \in Stages, Goto(t, at),
         t.kind = "boot", at \notin Holders, at = "resume" => dev.blob /\ ~dev.dropping
  PROVE  Calm
<1>1. [t EXCEPT !.at = at] \in Functions /\ [t EXCEPT !.at = at].kind = "boot"
      /\ [t EXCEPT !.at = at].at = at
  BY GotoType DEF Types
<1>2. Harmless([t EXCEPT !.at = at]) /\ Placed([t EXCEPT !.at = at])
  BY <1>1 DEF Harmless, Placed, WillUnlock
<1> QED
  BY <1>1, <1>2 DEF Types, Goto, Calm, Follows

LEMMA SameCalm ==
  ASSUME Types, UNCHANGED tasks
  PROVE  Calm
BY DEF Types, Calm, Follows

LEMMA AddCalm ==
  ASSUME Types, NEW u \in Functions, Harmless(u), Placed(u), tasks' = tasks \cup {u}
  PROVE  Calm
BY DEF Types, Calm, Follows

LEMMA CancelFacts ==
  ASSUME Types, NEW u \in CancelBoot
  PROVE  /\ u \in Functions /\ Placed(u)
         /\ \E t \in tasks : Follows(u, t)
         /\ u.kind = "unlock" => u \in tasks
<1>1. PICK t \in tasks : u = [t EXCEPT !.run = IF t.kind = "boot" THEN FALSE ELSE @]
  BY DEF CancelBoot
<1>2. t \in Functions /\ Placed(t)
  BY DEF Types
<1>3. u \in Functions /\ u.kind = t.kind /\ u.at = t.at
  BY <1>1, <1>2 DEF Functions
<1>4. u.kind = "unlock" => u = t
  BY <1>1, <1>2, <1>3 DEF Functions
<1> QED
  BY <1>2, <1>3, <1>4 DEF Follows, Placed, WillUnlock

LEMMA CancelKeeps ==
  ASSUME Types, NEW t \in tasks
  PROVE  \E u \in CancelBoot : Follows(u, t)
<1> DEFINE u == [t EXCEPT !.run = IF t.kind = "boot" THEN FALSE ELSE @]
<1>1. u \in CancelBoot
  BY DEF CancelBoot
<1>2. u.kind = t.kind /\ u.at = t.at
  BY DEF Types, Functions
<1> QED
  BY <1>1, <1>2 DEF Follows

LEMMA KilledFacts ==
  ASSUME Types, NEW u \in Killed(tasks)
  PROVE  /\ u \in Functions /\ Placed(u)
         /\ \E t \in tasks : Follows(u, t)
                           /\ u = [t EXCEPT !.tok = IF @ = "good" THEN "dead" ELSE @]
<1>1. PICK t \in tasks : u = [t EXCEPT !.tok = IF @ = "good" THEN "dead" ELSE @]
  BY DEF Killed
<1>2. t \in Functions /\ Placed(t)
  BY DEF Types
<1>3. u \in Functions /\ u.kind = t.kind /\ u.at = t.at
  BY <1>1, <1>2 DEF Functions, Tokens
<1> QED
  BY <1>1, <1>2, <1>3 DEF Follows, Placed, WillUnlock

LEMMA KilledKeeps ==
  ASSUME Types, NEW t \in tasks
  PROVE  \E u \in Killed(tasks) : Follows(u, t)
<1> DEFINE u == [t EXCEPT !.tok = IF @ = "good" THEN "dead" ELSE @]
<1>1. u \in Killed(tasks)
  BY DEF Killed
<1>2. u.kind = t.kind /\ u.at = t.at
  BY DEF Types, Functions
<1> QED
  BY <1>1, <1>2 DEF Follows

LEMMA SpendLeft ==
  ASSUME Types, NEW what \in Bounds, Spend(what)
  PROVE  left' \in [Bounds -> Nat]
<1>1. left \in [Bounds -> Nat] /\ left[what] > 0 /\ left' = [left EXCEPT ![what] = @ - 1]
  BY DEF Types, Spend
<1>2. left[what] - 1 \in Nat
  BY <1>1
<1> QED
  BY <1>1, <1>2

-----------------------------------------------------------------------------
(* A step that opens nothing keeps a closed vault closed                     *)

Quiet ==
  /\ Shuts(dev, dev')
  /\ Calm
  /\ since \subseteq since' \cup {"revoked"} /\ since' \subseteq since \cup {"revoked"}
  /\ hurt \subseteq hurt'

LEMMA ShutsKeeps ==
  ASSUME Types, Shut, Shuts(dev, dev'), Settles, "lock" \in since => "lock" \in since'
  PROVE  Shut'
<1>1. dev \in Devices /\ dev' \in Devices
  BY DEF Types, Shuts
<1>2. ~dev'.key
  BY DEF Shut, Shuts
<1>3. \A u \in tasks' : u.at \notin Holders
  BY DEF Shut, Settles, Harmless, Follows
<1>4. CASE NoRecord /\ NoneToCome
  <2>1. dev'.sealing = 0
    BY <1>4 DEF NoneToCome, Shuts
  <2>2. \A u \in tasks' : u.kind # "rotate"
    BY <1>4 DEF NoneToCome, Kind, Settles, Harmless, Follows
  <2>3. NoneToCome'
    BY <2>1, <2>2 DEF NoneToCome, Kind
  <2>4. NoRecord'
    <3>1. CASE "lock" \in since /\ (dev.seal => dev.wiping > 0)
      BY <3>1 DEF Shuts, NoRecord
    <3>2. CASE dev'.policy = "browser_close" /\ ~dev'.alive
      BY <3>2 DEF NoRecord
    <3>3. CASE /\ dev'.policy = dev.policy /\ (dev'.alive => dev.alive)
               /\ (dev'.dl = "ahead" => dev.dl = "ahead")
               /\ ~("lock" \in since /\ (dev.seal => dev.wiping > 0))
      BY <1>4, <3>3 DEF NoRecord, Shuts
    <3> QED
      BY <3>1, <3>2, <3>3 DEF Shuts
  <2> QED
    BY <1>2, <1>3, <2>3, <2>4 DEF Shut
<1>5. CASE NoVault
  <2>1. dev'.blob => dev'.dropping /\ "lock" \in since'
    BY <1>5 DEF NoVault, Shuts
  <2>2. \A u \in tasks' : u.at # "resume"
    BY <1>5 DEF NoVault, Settles, Harmless, Follows
  <2> QED
    BY <1>2, <1>3, <2>1, <2>2 DEF Shut, NoVault
<1> QED
  BY <1>4, <1>5 DEF Shut

LEMMA ShutsLeaving ==
  ASSUME Leaving, Calm, "lock" \in since', dev'.setup => dev.setup,
         dev'.blob => dev.blob, dev'.blob => (dev.dropping => dev'.dropping)
  PROVE  Leaving'
<1>1. Kind("logout")' # {}
  BY DEF Leaving, Calm, Kind, Follows
<1>2. \A u \in tasks' : u.kind \notin {"recover", "register"}
  BY DEF Leaving, Calm, Kind, Harmless, Follows
<1>3. \A u \in tasks' : u.kind = "logout" /\ u.at # "ask" => (dev'.blob => dev'.dropping)
  <2> SUFFICES ASSUME NEW u \in tasks', u.kind = "logout", u.at # "ask"
               PROVE  dev'.blob => dev'.dropping
    OBVIOUS
  <2>1. PICK t \in tasks : Follows(u, t)
    BY DEF Calm, Harmless
  <2>2. t \in Kind("logout") /\ t.at # "ask"
    BY <2>1 DEF Follows, Kind
  <2> QED
    BY <2>2 DEF Leaving
<1> QED
  BY <1>1, <1>2, <1>3 DEF Leaving, Kind

LEMMA QuietClosed ==
  ASSUME Types, ClosedInv, Quiet
  PROVE  ClosedInv'
<1> SUFFICES ASSUME Closed' PROVE Shut' \/ Leaving'
  BY DEF ClosedInv
<1>1. Closed
  BY DEF Closed, Quiet
<1>2. "lock" \in since => "lock" \in since'
  BY DEF Quiet
<1>3. CASE Shut
  <2>1. Settles
    BY DEF Quiet, Calm, Settles
  <2> QED
    BY <1>2, <1>3, <2>1, ShutsKeeps DEF Quiet
<1>4. CASE Leaving
  <2>1. "lock" \in since'
    BY <1>2, <1>4 DEF Leaving
  <2>2. /\ dev'.setup => dev.setup
        /\ dev'.blob => dev.blob
        /\ dev.dropping => dev'.dropping
    BY DEF Quiet, Shuts
  <2> QED
    BY <1>4, <2>1, <2>2, ShutsLeaving DEF Quiet
<1> QED
  BY <1>1, <1>3, <1>4 DEF ClosedInv

-----------------------------------------------------------------------------
(* The steps that open nothing                                               *)

Still ==
  /\ Types' /\ Quiet
  /\ dev'.tries = dev.tries /\ UNCHANGED guesses
  /\ \A u \in tasks' : u.kind = "unlock" => u \in tasks

LEMMA TameShuts ==
  ASSUME NEW x, NEW y, Tame(x, y)
  PROVE  Shuts(x, y) /\ y.tries = x.tries
BY DEF Tame, Shuts

LEMMA TellFacts ==
  ASSUME NEW x, TellRevoked(x)
  PROVE  /\ since \subseteq since' /\ since' \subseteq since \cup {"revoked"}
         /\ hurt \subseteq hurt'
BY DEF TellRevoked

LEMMA StillStep ==
  ASSUME Types, Tame(dev, dev'), Calm, up' \in BOOLEAN, left' \in [Bounds -> Nat],
         UNCHANGED guesses, hurt \subseteq hurt',
         since \subseteq since', since' \subseteq since \cup {"revoked"},
         \A u \in tasks' : u.kind = "unlock" => u \in tasks
  PROVE  Still
<1>1. Shuts(dev, dev') /\ dev'.tries = dev.tries
  BY TameShuts
<1>2. Types'
  BY DEF Types, Calm, Tame
<1> QED
  BY <1>1, <1>2 DEF Still, Quiet

LEMMA BootStartsStill ==
  ASSUME Types, BootStarts
  PROVE  Still /\ Tame(dev, dev')
<1> DEFINE x == [dev EXCEPT !.rerun = FALSE]
<1>0. dev \in Devices /\ left \in [Bounds -> Nat] /\ up \in BOOLEAN
  BY DEF Types
<1>1. x \in Devices /\ Tame(dev, x)
  <2>1. x \in Devices /\ Same(dev, x)
    BY <1>0 DEF Devices, Same
  <2> QED
    BY <1>0, <2>1, SameTame
<1>2. UNCHANGED <<up, left, since, hurt, guesses>>
  BY DEF BootStarts, History
<1>3. Tame(dev, dev') /\ Calm /\ \A u \in tasks' : u.kind = "unlock" => u \in tasks
  <2>0. \A tok \in Tokens, at \in {"me", "find", "scan"} :
          tasks' = CancelBoot \cup {Task("boot", at, tok)}
            => Calm /\ \A u \in tasks' : u.kind = "unlock" => u \in tasks
    <3> SUFFICES ASSUME NEW tok \in Tokens, NEW at \in {"me", "find", "scan"},
                        tasks' = CancelBoot \cup {Task("boot", at, tok)}
                 PROVE  Calm /\ \A u \in tasks' : u.kind = "unlock" => u \in tasks
      OBVIOUS
    <3> DEFINE n == Task("boot", at, tok)
    <3>1. n \in Functions /\ n.kind = "boot" /\ n.at = at
      <4>1. "boot" \in Kinds /\ at \in Stages
        BY DEF Kinds, Stages
      <4> QED
        BY <4>1, TaskType
    <3> HIDE DEF n
    <3>2. Harmless(n) /\ Placed(n)
      BY <3>1 DEF Harmless, Placed, Holders, WillUnlock
    <3>3. tasks' = CancelBoot \cup {n}
      BY DEF n
    <3> QED
      BY <3>1, <3>2, <3>3, CancelFacts, CancelKeeps DEF Calm
  <2>1. tasks' = CancelBoot => Calm /\ \A u \in tasks' : u.kind = "unlock" => u \in tasks
    BY CancelFacts, CancelKeeps DEF Calm
  <2> DEFINE y == [x EXCEPT !.setup = FALSE]
             z == [x EXCEPT !.setup = FALSE, !.last = TRUE]
  <2>2. y \in Devices /\ Tame(dev, y) /\ z \in Devices /\ Tame(dev, z)
    <3> HIDE DEF x
    <3>1. y \in Devices
      BY <1>1 DEF Devices
    <3>2. /\ y.blob = x.blob /\ y.tries = x.tries /\ y.sealing = x.sealing /\ y.key = x.key
          /\ y.seal = x.seal /\ y.timer = x.timer /\ y.dropping = x.dropping
          /\ y.wiping = x.wiping /\ y.tomb = x.tomb /\ y.jwt = x.jwt /\ y.policy = x.policy
          /\ y.alive = x.alive /\ y.dl = x.dl
          /\ y.setup = FALSE
      BY <1>1 DEF Devices
    <3>3. Tame(x, y)
      BY <3>1, <3>2 DEF Tame
    <3>4. Tame(dev, y)
      BY <1>0, <1>1, <3>3, TameTrans
    <3>5. z = [y EXCEPT !.last = TRUE]
      OBVIOUS
    <3> HIDE DEF y, z
    <3>6. z \in Devices /\ Same(y, z)
      BY <3>1, <3>5 DEF Devices, Same
    <3> QED
      BY <1>0, <3>1, <3>4, <3>6, SameTame, TameTrans
  <2>3. x.jwt \in Tokens
    BY <1>1 DEF Devices
  <2>4. \A w \in Devices : Tame(w, [w EXCEPT !.loading = FALSE])
    <3> SUFFICES ASSUME NEW w \in Devices PROVE Tame(w, [w EXCEPT !.loading = FALSE])
      OBVIOUS
    <3>1. [w EXCEPT !.loading = FALSE] \in Devices /\ Same(w, [w EXCEPT !.loading = FALSE])
      BY DEF Devices, Same
    <3> QED
      BY <3>1, SameTame
  <2>5. CASE dev' = x /\ tasks' = CancelBoot \cup {Task("boot", "me", x.jwt)}
    <3> HIDE DEF x
    <3> QED
      BY <1>1, <2>0, <2>3, <2>5
  <2>6. CASE dev' = [Destroyed(y) EXCEPT !.loading = FALSE] /\ tasks' = CancelBoot
    <3> HIDE DEF y
    <3>1. Tame(y, Destroyed(y)) /\ Destroyed(y) \in Devices
      BY <2>2, DestroyedTame DEF Tame
    <3>2. Tame(Destroyed(y), dev')
      BY <2>4, <2>6, <3>1
    <3>3. Tame(dev, Destroyed(y))
      BY <1>0, <2>2, <3>1, TameTrans
    <3>4. Tame(dev, dev')
      BY <1>0, <3>1, <3>2, <3>3, TameTrans
    <3> QED
      BY <2>1, <2>6, <3>4
  <2>7. CASE dev' = [Planned(z, "locked", TRUE) EXCEPT !.loading = FALSE] /\ tasks' = CancelBoot
    <3> HIDE DEF z
    <3>1. Tame(z, Planned(z, "locked", TRUE)) /\ Planned(z, "locked", TRUE) \in Devices
      <4>1. Tame(z, Planned(z, "locked", TRUE))
        BY <2>2, PlannedTame
      <4> QED
        BY <4>1 DEF Tame
    <3>2. Tame(Planned(z, "locked", TRUE), dev')
      BY <2>4, <2>7, <3>1
    <3>3. Tame(dev, Planned(z, "locked", TRUE))
      BY <1>0, <2>2, <3>1, TameTrans
    <3>4. Tame(dev, dev')
      BY <1>0, <3>1, <3>2, <3>3, TameTrans
    <3> QED
      BY <2>1, <2>7, <3>4
  <2>8. CASE dev' = z /\ tasks' = CancelBoot \cup {Task("boot", "find", "none")}
    <3> HIDE DEF z
    <3> QED
      BY <2>0, <2>2, <2>8 DEF Tokens
  <2>9. CASE dev' = y /\ tasks' = CancelBoot \cup {Task("boot", "scan", "none")}
    <3> HIDE DEF y
    <3> QED
      BY <2>0, <2>2, <2>9 DEF Tokens
  <2> QED
    BY <2>5, <2>6, <2>7, <2>8, <2>9 DEF BootStarts
<1> QED
  BY <1>0, <1>2, <1>3, StillStep

LEMMA ThenLoaded ==
  ASSUME NEW x \in Devices, NEW y, NEW t, Tame(x, y)
  PROVE  Tame(x, Loaded(y, t))
<1>1. y \in Devices
  BY DEF Tame
<1> QED
  BY <1>1, LoadedSame, TameTrans

LEMMA TokenTame ==
  ASSUME NEW x \in Devices
  PROVE  Tame(x, [x EXCEPT !.token = TRUE])
<1>1. [x EXCEPT !.token = TRUE] \in Devices /\ Same(x, [x EXCEPT !.token = TRUE])
  BY DEF Devices, Same
<1> QED
  BY <1>1, SameTame

LEMMA ToldTame ==
  ASSUME NEW x \in Devices, NEW a, NEW b
  PROVE  LET y == Invalidated(Invalidated(x, a), b)
         IN  /\ Tame(x, y) /\ ~y.key /\ y.jwt = "none"
             /\ b # "revoked" /\ y.tomb = "revoked" /\ Named(x) => y.dropping
<1> DEFINE d == Invalidated(x, a)
           y == Invalidated(d, b)
<1>1. /\ Tame(x, d)
      /\ d.tomb = "revoked" /\ Named(x) => d.dropping
  BY InvalidatedTame
<1>2. d \in Devices
  BY <1>1 DEF Tame
<1>3. b # "revoked" /\ d.tomb # "revoked" => y.tomb # "revoked"
  <2> SUFFICES ASSUME b # "revoked", d.tomb # "revoked" PROVE y.tomb # "revoked"
    OBVIOUS
  <2> HIDE DEF d
  <2> DEFINE e == [NoTimer(d) EXCEPT !.tomb = "invalid", !.rerun = TRUE, !.key = FALSE,
                                     !.token = FALSE, !.user = FALSE]
             f == ClearSession(e)
  <2>1. NoTimer(d) \in Devices
    BY <1>2, NoTimerTame DEF Tame
  <2>2. e \in Devices /\ e.tomb = "invalid"
    <3> DEFINE g == [NoTimer(d) EXCEPT !.tomb = "invalid", !.rerun = TRUE, !.key = FALSE]
    <3>1. g \in Devices /\ g.tomb = "invalid"
      BY <2>1 DEF Devices
    <3>2. e = [g EXCEPT !.token = FALSE, !.user = FALSE]
      OBVIOUS
    <3> HIDE DEF g, e
    <3> QED
      BY <3>1, <3>2 DEF Devices
  <2> HIDE DEF e
  <2>3. f \in Devices /\ f.tomb = "invalid"
    <3>1. Tame(e, f) /\ f.tomb = e.tomb
      BY <2>2, ClearSessionTame
    <3> HIDE DEF f
    <3> QED
      BY <2>2, <3>1 DEF Tame
  <2> HIDE DEF f
  <2>4. d.marker \in BOOLEAN
    BY <1>2 DEF Devices
  <2>5. y = Planned(f, IF d.marker THEN "locked" ELSE "none", d.marker)
    BY DEF Invalidated, e, f
  <2> QED
    BY <2>3, <2>4, <2>5, PlannedTame
<1> HIDE DEF d
<1>4. /\ Tame(d, y) /\ ~y.key /\ y.jwt = "none"
  BY <1>2, InvalidatedTame
<1>5. Tame(x, y)
  BY <1>1, <1>2, <1>4, TameTrans
<1>6. d.dropping => y.dropping
  BY <1>4 DEF Tame
<1> HIDE DEF y
<1>7. b # "revoked" /\ y.tomb = "revoked" /\ Named(x) => y.dropping
  BY <1>1, <1>3, <1>6
<1> QED
  BY <1>4, <1>5, <1>7 DEF y, d

LEMMA BootAsksStill ==
  ASSUME Types, NEW t \in tasks, BootAsks(t)
  PROVE  Still
<1>0. dev \in Devices /\ left \in [Bounds -> Nat] /\ up \in BOOLEAN /\ t \in Functions
  BY DEF Types
<1>1. t.kind = "boot" /\ UNCHANGED <<up, guesses>>
  BY DEF BootAsks
<1> DEFINE Found == [dev EXCEPT !.token = TRUE, !.user = TRUE, !.marker = @ \/ dev.blob]
<1>2. Found \in Devices /\ Tame(dev, Found)
  <2>1. PICK m \in BOOLEAN : Found = [dev EXCEPT !.token = TRUE, !.user = TRUE, !.marker = m]
    OBVIOUS
  <2> HIDE DEF Found
  <2>2. Found \in Devices /\ Same(dev, Found)
    BY <1>0, <2>1 DEF Devices, Same
  <2> QED
    BY <1>0, <2>2, SameTame
<1>3. Ends(t) => Calm /\ \A u \in tasks' : u.kind = "unlock" => u \in tasks
  BY <1>1, EndsCalm DEF Ends
<1>4. Goto(t, "find") => Calm /\ \A u \in tasks' : u.kind = "unlock" => u \in tasks
  <2>1. "find" \in Stages
    BY DEF Stages
  <2>2. [t EXCEPT !.at = "find"].kind = "boot"
    BY <1>0, <1>1, <2>1, GotoType
  <2> QED
    BY <1>1, <2>1, <2>2, GotoCalm DEF Goto, Holders
<1>5. CASE /\ dev' = Loaded([Planned(dev, "locked", dev.marker) EXCEPT !.token = TRUE], t)
           /\ Ends(t) /\ UNCHANGED <<since, hurt, left>>
  <2> DEFINE p == Planned(dev, "locked", dev.marker)
  <2>1. Tame(dev, p) /\ p \in Devices
    <3>1. dev.marker \in BOOLEAN
      BY <1>0 DEF Devices
    <3>2. Tame(dev, p)
      BY <1>0, <3>1, PlannedTame
    <3> QED
      BY <3>2 DEF Tame
  <2> HIDE DEF p
  <2>2. Tame(dev, [p EXCEPT !.token = TRUE])
    BY <1>0, <2>1, TokenTame, TameTrans
  <2>3. Tame(dev, dev')
    BY <1>0, <1>5, <2>2, ThenLoaded DEF p
  <2> QED
    BY <1>0, <1>1, <1>3, <1>5, <2>3, StillStep
<1>6. CASE Ends(t) /\ UNCHANGED <<dev, since, hurt, left>>
  <2>1. Tame(dev, dev')
    BY <1>0, <1>6, TameRefl
  <2> QED
    BY <1>0, <1>1, <1>3, <1>6, <2>1, StillStep
<1>7. CASE /\ dev' = Loaded(Invalidated(Invalidated(dev, Told(dev)), "invalid"), t)
           /\ Ends(t) /\ TellRevoked(dev') /\ UNCHANGED left
  <2>1. Tame(dev, dev')
    BY <1>0, <1>7, ToldTame, ThenLoaded
  <2> QED
    BY <1>0, <1>1, <1>3, <1>7, <2>1, TellFacts, StillStep
<1>8. CASE /\ Mishap /\ dev' = Loaded([dev EXCEPT !.token = TRUE], t)
           /\ Ends(t) /\ UNCHANGED <<since, hurt>>
  <2>1. Tame(dev, dev')
    BY <1>0, <1>8, TokenTame, ThenLoaded
  <2>2. left' \in [Bounds -> Nat]
    BY <1>8, SpendLeft DEF Mishap, Bounds
  <2> QED
    BY <1>0, <1>1, <1>3, <1>8, <2>1, <2>2, StillStep
<1>9. CASE /\ dev' = [Found EXCEPT !.has = TRUE] /\ Goto(t, "find")
           /\ UNCHANGED <<since, hurt, left>>
  <2> HIDE DEF Found
  <2>1. [Found EXCEPT !.has = TRUE] \in Devices /\ Same(Found, [Found EXCEPT !.has = TRUE])
    BY <1>2 DEF Devices, Same
  <2>2. Tame(dev, dev')
    BY <1>0, <1>2, <1>9, <2>1, SameTame, TameTrans
  <2> QED
    BY <1>0, <1>1, <1>4, <1>9, <2>2, StillStep
<1>10. CASE /\ dev' = Loaded(Planned(Found, "unlocked", FALSE), t) /\ Ends(t)
            /\ UNCHANGED <<since, hurt, left>>
  <2> HIDE DEF Found
  <2>1. Tame(Found, Planned(Found, "unlocked", FALSE))
    BY <1>2, PlannedTame
  <2>2. Tame(dev, dev')
    BY <1>0, <1>2, <1>10, <2>1, TameTrans, ThenLoaded
  <2> QED
    BY <1>0, <1>1, <1>3, <1>10, <2>2, StillStep
<1> QED
  BY <1>5, <1>6, <1>7, <1>8, <1>9, <1>10 DEF BootAsks

LEMMA BootGoes ==
  ASSUME Types, NEW t \in tasks, t.kind = "boot", NEW at \in {"find", "resume"}, Goto(t, at),
         at = "resume" => dev.blob /\ ~dev.dropping
  PROVE  Calm /\ \A u \in tasks' : u.kind = "unlock" => u \in tasks
<1>1. at \in Stages /\ at \notin Holders
  BY DEF Stages, Holders
<1>2. [t EXCEPT !.at = at].kind = "boot"
  BY <1>1, GotoType DEF Types
<1> QED
  BY <1>1, <1>2, GotoCalm DEF Goto

LEMMA BootEnds ==
  ASSUME Types, NEW t \in tasks, t.kind # "logout", Ends(t)
  PROVE  Calm /\ \A u \in tasks' : u.kind = "unlock" => u \in tasks
BY EndsCalm DEF Ends

LEMMA BootFindsStill ==
  ASSUME Types, NEW t \in tasks, BootFinds(t)
  PROVE  Still
<1>0. dev \in Devices /\ left \in [Bounds -> Nat] /\ up \in BOOLEAN /\ t \in Functions
  BY DEF Types
<1>1. t.kind = "boot" /\ UNCHANGED <<up, guesses, since, hurt>>
  BY DEF BootFinds, History
<1>2. CASE Ends(t) /\ UNCHANGED <<dev, left>>
  <2>1. Tame(dev, dev')
    BY <1>0, <1>2, TameRefl
  <2> QED
    BY <1>0, <1>1, <1>2, <2>1, BootEnds, StillStep
<1>3. CASE ~dev.dropping /\ dev.blob /\ Goto(t, "resume") /\ UNCHANGED <<dev, left>>
  <2>1. Tame(dev, dev')
    BY <1>0, <1>3, TameRefl
  <2> QED
    BY <1>0, <1>1, <1>3, <2>1, BootGoes, StillStep
<1>4. CASE /\ dev' = Loaded(Planned([dev EXCEPT !.marker = FALSE],
                                   IF t.tok = "none" THEN "none" ELSE "unlocked", FALSE), t)
           /\ Ends(t) /\ UNCHANGED left
  <2> DEFINE a == [dev EXCEPT !.marker = FALSE]
             s == IF t.tok = "none" THEN "none" ELSE "unlocked"
  <2>1. a \in Devices /\ Tame(dev, a)
    <3>1. a \in Devices /\ Same(dev, a)
      BY <1>0 DEF Devices, Same
    <3> QED
      BY <1>0, <3>1, SameTame
  <2>2. s \in {"none", "locked", "unlocked"}
    OBVIOUS
  <2> HIDE DEF a, s
  <2>3. Tame(dev, Planned(a, s, FALSE))
    BY <1>0, <2>1, <2>2, PlannedTame, TameTrans
  <2>4. Tame(dev, dev')
    BY <1>0, <1>4, <2>3, ThenLoaded DEF a, s
  <2> QED
    BY <1>0, <1>1, <1>4, <2>4, BootEnds, StillStep
<1>5. CASE Mishap /\ dev' = NotResumed(dev, t) /\ Ends(t)
  <2>1. Tame(dev, dev')
    BY <1>0, <1>5, NotResumedTame
  <2>2. left' \in [Bounds -> Nat]
    BY <1>5, SpendLeft DEF Mishap, Bounds
  <2> QED
    BY <1>0, <1>1, <1>5, <2>1, <2>2, BootEnds, StillStep
<1> QED
  BY <1>2, <1>3, <1>4, <1>5 DEF BootFinds

LEMMA BootScansStill ==
  ASSUME Types, NEW t \in tasks, BootScans(t)
  PROVE  Still
<1>0. dev \in Devices /\ left \in [Bounds -> Nat] /\ up \in BOOLEAN /\ t \in Functions
  BY DEF Types
<1>1. t.kind = "boot" /\ ~dev.dropping /\ UNCHANGED <<up, left, guesses, since, hurt>>
  BY DEF BootScans, History
<1>2. CASE Ends(t) /\ UNCHANGED dev
  <2>1. Tame(dev, dev')
    BY <1>0, <1>2, TameRefl
  <2> QED
    BY <1>0, <1>1, <1>2, <2>1, BootEnds, StillStep
<1>3. CASE dev' = Loaded(Planned(dev, "locked", TRUE), t) /\ Ends(t)
  <2>1. Tame(dev, dev')
    BY <1>0, <1>3, PlannedTame, ThenLoaded
  <2> QED
    BY <1>0, <1>1, <1>3, <2>1, BootEnds, StillStep
<1>4. CASE dev.blob /\ dev' = [dev EXCEPT !.marker = TRUE, !.last = TRUE] /\ Goto(t, "resume")
  <2> DEFINE a == [dev EXCEPT !.marker = TRUE, !.last = TRUE]
  <2>1. a \in Devices /\ Same(dev, a)
    BY <1>0 DEF Devices, Same
  <2> HIDE DEF a
  <2>2. Tame(dev, dev')
    BY <1>0, <1>4, <2>1, SameTame DEF a
  <2> QED
    BY <1>0, <1>1, <1>4, <2>2, BootGoes, StillStep
<1>5. CASE /\ dev' = Loaded(IF dev.jwt # "none" THEN dev ELSE Planned(dev, "none", FALSE), t)
           /\ Ends(t)
  <2>1. Tame(dev, IF dev.jwt # "none" THEN dev ELSE Planned(dev, "none", FALSE))
    BY <1>0, TameRefl, PlannedTame
  <2>2. Tame(dev, dev')
    BY <1>0, <1>5, <2>1, ThenLoaded
  <2> QED
    BY <1>0, <1>1, <1>5, <2>2, BootEnds, StillStep
<1> QED
  BY <1>2, <1>3, <1>4, <1>5 DEF BootScans

LEMMA BootResumesStill ==
  ASSUME Types, NEW t \in tasks, BootResumes(t)
  PROVE  \/ Still
         \/ /\ Allowed /\ dev.wiping = 0 /\ dev.seal /\ Goto(t, "resumed")
            /\ UNCHANGED <<dev, up, left, since, hurt, guesses>>
<1>0. dev \in Devices /\ left \in [Bounds -> Nat] /\ up \in BOOLEAN /\ t \in Functions
  BY DEF Types
<1>1. t.kind = "boot" /\ UNCHANGED <<up, left, guesses, since, hurt>>
  BY DEF BootResumes, History
<1>2. CASE dev' = NotResumed(dev, t) /\ Ends(t)
  <2>1. Tame(dev, dev')
    BY <1>0, <1>2, NotResumedTame
  <2> QED
    BY <1>0, <1>1, <1>2, <2>1, BootEnds, StillStep
<1>3. CASE dev' = NotResumed(ClearSessionKey(dev), t) /\ Ends(t)
  <2>1. Tame(dev, ClearSessionKey(dev)) /\ ClearSessionKey(dev) \in Devices
    BY <1>0, ClearSessionKeyTame DEF Tame
  <2>2. Tame(dev, dev')
    BY <1>0, <1>3, <2>1, NotResumedTame, TameTrans
  <2> QED
    BY <1>0, <1>1, <1>3, <2>2, BootEnds, StillStep
<1>4. CASE /\ dev' = NotResumed([dev EXCEPT !.dl = "none", !.alive = FALSE, !.seal = FALSE], t)
           /\ Ends(t)
  <2> DEFINE a == [dev EXCEPT !.dl = "none", !.alive = FALSE, !.seal = FALSE]
  <2>1. a \in Devices
    BY <1>0 DEF Devices
  <2>2. /\ a.blob = dev.blob /\ a.tries = dev.tries /\ a.sealing = dev.sealing
        /\ a.key = dev.key /\ a.timer = dev.timer /\ a.setup = dev.setup
        /\ a.dropping = dev.dropping /\ a.wiping = dev.wiping /\ a.tomb = dev.tomb
        /\ a.jwt = dev.jwt /\ a.policy = dev.policy
        /\ a.dl = "none" /\ a.alive = FALSE /\ a.seal = FALSE
    BY <1>0 DEF Devices
  <2>3. Tame(dev, a)
    BY <2>1, <2>2 DEF Tame
  <2> HIDE DEF a
  <2>4. Tame(dev, dev')
    BY <1>0, <1>4, <2>1, <2>3, NotResumedTame, TameTrans DEF a
  <2> QED
    BY <1>0, <1>1, <1>4, <2>4, BootEnds, StillStep
<1>5. CASE Allowed /\ dev.wiping = 0 /\ dev.seal /\ Goto(t, "resumed") /\ UNCHANGED dev
  BY <1>1, <1>5
<1> QED
  BY <1>2, <1>3, <1>4, <1>5 DEF BootResumes

LEMMA HandleAuthInvalidStill ==
  ASSUME Types, HandleAuthInvalid
  PROVE  Still
<1>0. dev \in Devices /\ left \in [Bounds -> Nat] /\ up \in BOOLEAN
  BY DEF Types
<1>1. Tame(dev, dev')
  BY <1>0, InvalidatedTame DEF HandleAuthInvalid
<1>2. /\ UNCHANGED <<up, tasks, guesses, left>>
      /\ since \subseteq since' /\ since' \subseteq since \cup {"revoked"}
      /\ hurt \subseteq hurt'
  BY TellFacts DEF HandleAuthInvalid
<1> QED
  BY <1>0, <1>1, <1>2, SameCalm, StillStep

LEMMA GoesBackToPinStill ==
  ASSUME Types, GoesBackToPin
  PROVE  Still
<1>0. dev \in Devices /\ left \in [Bounds -> Nat] /\ up \in BOOLEAN
  BY DEF Types
<1>1. /\ dev' = [dev EXCEPT !.tomb = "none", !.rerun = TRUE]
      /\ since' = since \ {"revoked"} /\ UNCHANGED <<up, tasks, hurt, guesses, left>>
  BY DEF GoesBackToPin
<1>2. dev' \in Devices
  BY <1>0, <1>1 DEF Devices
<1>3. /\ dev'.blob = dev.blob /\ dev'.tries = dev.tries /\ dev'.sealing = dev.sealing
      /\ dev'.key = dev.key /\ dev'.seal = dev.seal /\ dev'.timer = dev.timer
      /\ dev'.setup = dev.setup /\ dev'.dropping = dev.dropping /\ dev'.wiping = dev.wiping
      /\ dev'.jwt = dev.jwt /\ dev'.policy = dev.policy /\ dev'.alive = dev.alive
      /\ dev'.dl = dev.dl
  BY <1>0, <1>1 DEF Devices
<1>4. Shuts(dev, dev')
  BY <1>2, <1>3 DEF Shuts
<1>5. Types'
  BY <1>1, <1>2 DEF Types, Placed, WillUnlock
<1>6. Quiet
  BY <1>1, <1>4, SameCalm DEF Quiet
<1> QED
  BY <1>1, <1>3, <1>5, <1>6 DEF Still

LEMMA OnVisibleStill ==
  ASSUME Types, OnVisible
  PROVE  Still
<1>0. dev \in Devices /\ up \in BOOLEAN
  BY DEF Types
<1> DEFINE n == Task("check", "me", dev.jwt)
<1>1. n \in Functions /\ n.kind = "check" /\ n.at = "me"
  <2>1. dev.jwt \in Tokens /\ "check" \in Kinds /\ "me" \in Stages
    BY <1>0 DEF Devices, Kinds, Stages
  <2> QED
    BY <2>1, TaskType
<1>2. tasks' = tasks \cup {n} /\ UNCHANGED <<dev, up, since, hurt, guesses>> /\ Spend("checks")
  BY DEF OnVisible, History
<1> HIDE DEF n
<1>3. Calm /\ \A u \in tasks' : u.kind = "unlock" => u \in tasks
  <2>1. Harmless(n) /\ Placed(n)
    BY <1>1 DEF Harmless, Placed, Holders, WillUnlock
  <2> QED
    BY <1>1, <1>2, <2>1, AddCalm
<1>4. left' \in [Bounds -> Nat]
  BY <1>2, SpendLeft DEF Bounds
<1>5. Tame(dev, dev')
  BY <1>0, <1>2, TameRefl
<1> QED
  BY <1>0, <1>2, <1>3, <1>4, <1>5, StillStep

LEMMA OutageStill ==
  ASSUME Types, GoesDown \/ ComesUp
  PROVE  Still
<1>0. dev \in Devices /\ left \in [Bounds -> Nat]
  BY DEF Types
<1>1. up' \in BOOLEAN /\ UNCHANGED <<dev, tasks, since, hurt, guesses>>
  BY DEF GoesDown, ComesUp, History
<1>2. left' \in [Bounds -> Nat]
  <2>1. CASE GoesDown
    BY <2>1, SpendLeft DEF GoesDown, Bounds
  <2>2. CASE ComesUp
    BY <1>0, <2>2 DEF ComesUp
  <2> QED
    BY <2>1, <2>2
<1>3. Tame(dev, dev')
  BY <1>0, <1>1, TameRefl
<1> QED
  BY <1>1, <1>2, <1>3, SameCalm, StillStep

LEMMA EndsStill ==
  ASSUME Types, NEW t \in tasks, t.kind # "logout", Ends(t),
         UNCHANGED <<dev, since, hurt, up, guesses>>, left' \in [Bounds -> Nat]
  PROVE  Still
<1>1. dev \in Devices /\ up \in BOOLEAN
  BY DEF Types
<1>2. Tame(dev, dev')
  BY <1>1, TameRefl
<1> QED
  BY <1>1, <1>2, BootEnds, StillStep

-----------------------------------------------------------------------------
(* The steps of a function that has the identity                             *)

Opens(t) ==
  /\ Types'
  /\ t.at \in Holders
  /\ dev'.blob = dev.blob /\ dev'.tries = dev.tries /\ dev'.dropping = dev.dropping
  /\ dev'.setup => dev.setup \/ t.kind \in {"recover", "register"}
  /\ UNCHANGED <<since, hurt, guesses>>
  /\ \/ Ends(t)
     \/ \E u : u.kind = t.kind /\ u.at \in Holders /\ tasks' = (tasks \ {t}) \cup {u}

LEMMA OpensStep ==
  ASSUME Types, NEW t \in tasks, t.at \in Holders, NEW at \in Holders \ {"resumed"}, NEW u,
         \/ Ends(t)
         \/ /\ u \in Functions /\ u.kind = t.kind /\ u.at = at
            /\ tasks' = (tasks \ {t}) \cup {u},
         dev' \in Devices, dev'.blob = dev.blob, dev'.tries = dev.tries,
         dev'.dropping = dev.dropping,
         dev'.setup => dev.setup \/ t.kind \in {"recover", "register"},
         UNCHANGED <<since, hurt, guesses, up>>, left' \in [Bounds -> Nat]
  PROVE  Opens(t)
<1>1. WillUnlock(t)
  BY DEF Types, Placed
<1>2. tasks' \subseteq Functions /\ \A v \in tasks' : Placed(v)
  BY <1>1 DEF Types, Ends, Placed, WillUnlock
<1>3. Types'
  BY <1>2 DEF Types
<1>4. \/ Ends(t)
      \/ \E v : v.kind = t.kind /\ v.at \in Holders /\ tasks' = (tasks \ {t}) \cup {v}
  OBVIOUS
<1> QED
  BY <1>3, <1>4 DEF Opens

LEMMA OpensGoto ==
  ASSUME Types, NEW t \in tasks, t.at \in Holders, NEW at \in Holders \ {"resumed"},
         Goto(t, at),
         dev' \in Devices, dev'.blob = dev.blob, dev'.tries = dev.tries,
         dev'.dropping = dev.dropping,
         dev'.setup => dev.setup \/ t.kind \in {"recover", "register"},
         UNCHANGED <<since, hurt, guesses, up>>, left' \in [Bounds -> Nat]
  PROVE  Opens(t)
<1> DEFINE u == [t EXCEPT !.at = at]
<1>1. u \in Functions /\ u.kind = t.kind /\ u.at = at
  <2>1. t \in Functions /\ at \in Stages
    BY DEF Types, Holders, Stages
  <2> QED
    BY <2>1, GotoType
<1>2. tasks' = (tasks \ {t}) \cup {u}
  BY DEF Goto
<1> HIDE DEF u
<1> QED
  BY <1>1, <1>2, OpensStep

LEMMA BootHasIdentityOpens ==
  ASSUME Types, NEW t \in tasks, BootHasIdentity(t)
  PROVE  Opens(t)
<1>0. dev \in Devices /\ left \in [Bounds -> Nat]
  BY DEF Types
<1>1. t.at \in Holders /\ UNCHANGED <<up, left, since, hurt, guesses>>
  BY DEF BootHasIdentity, History, Holders
<1>2. CASE Goto(t, "challenge") /\ UNCHANGED dev
  BY <1>0, <1>1, <1>2, OpensGoto DEF Holders
<1>3. CASE Goto(t, "hydrate") /\ dev' = InMemory(dev)
  <2>1. /\ dev' \in Devices /\ dev'.blob = dev.blob /\ dev'.tries = dev.tries
        /\ dev'.dropping = dev.dropping /\ ~dev'.setup
    BY <1>0, <1>3, InMemoryFacts
  <2> QED
    BY <1>0, <1>1, <1>3, <2>1, OpensGoto DEF Holders
<1> QED
  BY <1>2, <1>3 DEF BootHasIdentity

LEMMA SignInFailsOpens ==
  ASSUME Types, NEW t \in tasks, t.at \in Holders, NEW why, SignInFails(t, why),
         UNCHANGED <<up, guesses>>, left' \in [Bounds -> Nat]
  PROVE  Still \/ Opens(t)
<1>0. dev \in Devices /\ up \in BOOLEAN
  BY DEF Types
<1>1. CASE t.kind = "boot" /\ dev' = InMemory(dev) /\ Goto(t, "hydrate") /\ UNCHANGED <<since, hurt>>
  <2>1. /\ dev' \in Devices /\ dev'.blob = dev.blob /\ dev'.tries = dev.tries
        /\ dev'.dropping = dev.dropping /\ ~dev'.setup
    BY <1>0, <1>1, InMemoryFacts
  <2> QED
    BY <1>1, <2>1, OpensGoto DEF Holders
<1>2. CASE t.kind = "boot" /\ dev' = NotResumed(dev, t) /\ Ends(t) /\ UNCHANGED <<since, hurt>>
  <2>1. Tame(dev, dev')
    BY <1>0, <1>2, NotResumedTame
  <2> QED
    BY <1>0, <1>2, <2>1, BootEnds, StillStep
<1>3. CASE /\ t.kind = "unlock" /\ dev' = InMemory([dev EXCEPT !.token = FALSE])
           /\ Goto(t, "hydrate") /\ UNCHANGED <<since, hurt>>
  <2> DEFINE a == [dev EXCEPT !.token = FALSE]
  <2>1. a \in Devices /\ a.blob = dev.blob /\ a.tries = dev.tries /\ a.dropping = dev.dropping
    BY <1>0 DEF Devices
  <2>2. dev' = InMemory(a)
    BY <1>3
  <2> HIDE DEF a
  <2>3. /\ dev' \in Devices /\ dev'.blob = dev.blob /\ dev'.tries = dev.tries
        /\ dev'.dropping = dev.dropping /\ ~dev'.setup
    BY <2>1, <2>2, InMemoryFacts
  <2> QED
    BY <1>3, <2>3, OpensGoto DEF Holders
<1>4. CASE /\ t.kind \in {"unlock", "reauth"}
           /\ dev' = Invalidated(dev, "invalid") /\ Ends(t) /\ TellRevoked(dev')
  <2>1. Tame(dev, dev')
    BY <1>0, <1>4, InvalidatedTame
  <2> QED
    BY <1>0, <1>4, <2>1, BootEnds, TellFacts, StillStep
<1>5. CASE t.kind \in {"unlock", "reauth"} /\ Ends(t) /\ UNCHANGED <<dev, since, hurt>>
  BY <1>5, EndsStill
<1>6. CASE /\ t.kind \in {"recover", "register"}
           /\ dev' = SignInFailed(dev) /\ Ends(t) /\ UNCHANGED <<since, hurt>>
  <2>1. Tame(dev, dev')
    BY <1>0, <1>6, SignInFailedTame
  <2> QED
    BY <1>0, <1>6, <2>1, BootEnds, StillStep
<1> QED
  BY <1>1, <1>2, <1>3, <1>4, <1>5, <1>6 DEF SignInFails

LEMMA SignsInOpens ==
  ASSUME Types, NEW t \in tasks, SignsIn(t)
  PROVE  Still \/ Opens(t)
<1>0. dev \in Devices /\ left \in [Bounds -> Nat]
  BY DEF Types
<1>1. t.at \in Holders /\ UNCHANGED <<up, guesses>>
  BY DEF SignsIn, Holders
<1>2. CASE \E why \in {"away", "refused", "unknown"} :
             SignInFails(t, why) /\ (Mishap \/ UNCHANGED left)
  <2>1. PICK why \in {"away", "refused", "unknown"} :
          SignInFails(t, why) /\ (Mishap \/ UNCHANGED left)
    BY <1>2
  <2>2. left' \in [Bounds -> Nat]
    <3>1. CASE Mishap
      BY <3>1, SpendLeft DEF Mishap, Bounds
    <3>2. CASE UNCHANGED left
      BY <1>0, <3>2
    <3> QED
      BY <2>1, <3>1, <3>2
  <2> QED
    BY <1>1, <2>1, <2>2, SignInFailsOpens
<1>3. CASE /\ dev' = [dev EXCEPT !.key = TRUE]
           /\ tasks' = (tasks \ {t}) \cup {[t EXCEPT !.at = "upload", !.tok = "good"]}
           /\ UNCHANGED <<since, hurt, left>>
  <2> DEFINE u == [t EXCEPT !.at = "upload", !.tok = "good"]
  <2>1. u \in Functions /\ u.kind = t.kind /\ u.at = "upload"
    BY DEF Types, Functions, Stages, Tokens
  <2>2. tasks' = (tasks \ {t}) \cup {u}
    BY <1>3
  <2> HIDE DEF u
  <2>3. /\ dev' \in Devices /\ dev'.blob = dev.blob /\ dev'.tries = dev.tries
        /\ dev'.dropping = dev.dropping /\ dev'.setup = dev.setup
    BY <1>0, <1>3 DEF Devices
  <2> QED
    BY <1>0, <1>1, <1>3, <2>1, <2>2, <2>3, OpensStep DEF Holders
<1> QED
  BY <1>2, <1>3 DEF SignsIn

LEMMA UploadsOpens ==
  ASSUME Types, NEW t \in tasks, Uploads(t)
  PROVE  Still \/ Opens(t)
<1>0. dev \in Devices /\ left \in [Bounds -> Nat] /\ t \in Functions
  BY DEF Types
<1>1. t.at \in Holders /\ UNCHANGED <<up, guesses, left>>
  BY DEF Uploads, Holders
<1>2. CASE dev' = Published(dev, t) /\ Goto(t, "hydrate") /\ UNCHANGED <<since, hurt>>
  <2>1. /\ dev' \in Devices /\ dev'.blob = dev.blob /\ dev'.tries = dev.tries
        /\ dev'.dropping = dev.dropping /\ dev'.setup = dev.setup
    BY <1>0, <1>2, PublishedFacts
  <2> QED
    BY <1>0, <1>1, <1>2, <2>1, OpensGoto DEF Holders
<1>3. CASE SignInFails(t, "away")
  BY <1>0, <1>1, <1>3, SignInFailsOpens
<1> QED
  BY <1>2, <1>3 DEF Uploads

LEMMA HydratesOpens ==
  ASSUME Types, NEW t \in tasks, Hydrates(t)
  PROVE  Opens(t)
<1>0. dev \in Devices /\ left \in [Bounds -> Nat]
  BY DEF Types
<1>1. t.at \in Holders /\ Ends(t) /\ UNCHANGED <<up, left, since, hurt, guesses>>
  BY DEF Hydrates, History, Holders
<1> DEFINE o == Opened(dev)
<1>2. o \in Devices /\ o.blob = dev.blob /\ o.tries = dev.tries /\ o.dropping = dev.dropping
      /\ o.setup = dev.setup
  BY <1>0, OpenedFacts
<1>3. CASE dev' = Loaded(o, t)
  <2> HIDE DEF o
  <2>1. dev' \in Devices /\ Same(o, dev')
    BY <1>2, <1>3, LoadedSame
  <2>2. /\ dev'.blob = dev.blob /\ dev'.tries = dev.tries
        /\ dev'.dropping = dev.dropping /\ dev'.setup = dev.setup
    BY <1>2, <2>1 DEF Same
  <2> QED
    BY <1>0, <1>1, <2>1, <2>2, OpensStep DEF Holders
<1>4. CASE dev' = [o EXCEPT !.setup = TRUE, !.loading = FALSE]
           /\ t.kind \in {"recover", "register"}
  <2> HIDE DEF o
  <2>1. dev' \in Devices /\ dev'.blob = o.blob /\ dev'.tries = o.tries
        /\ dev'.dropping = o.dropping
    BY <1>2, <1>4 DEF Devices
  <2> QED
    BY <1>0, <1>1, <1>2, <1>4, <2>1, OpensStep DEF Holders
<1>5. CASE dev' = o
  BY <1>0, <1>1, <1>2, <1>5, OpensStep DEF Holders
<1> QED
  BY <1>3, <1>4, <1>5 DEF Hydrates

-----------------------------------------------------------------------------
(* What the other steps do                                                   *)

LEMMA EntersPinFacts ==
  ASSUME Types, NEW right \in BOOLEAN, EntersPin(right)
  PROVE  /\ Types' /\ Quiet
         /\ UNCHANGED <<dev, since, hurt, guesses>> /\ Kind("unlock") = {}
         /\ dev.tomb = "none"
         /\ \E u : u.kind = "unlock" /\ u.at = "charge" /\ tasks' = tasks \cup {u}
<1>0. dev \in Devices /\ up \in BOOLEAN /\ left \in [Bounds -> Nat]
  BY DEF Types
<1> DEFINE n == [Task("unlock", "charge", "none") EXCEPT !.right = right]
<1>1. n \in Functions /\ n.kind = "unlock" /\ n.at = "charge"
  <2>1. "unlock" \in Kinds /\ "charge" \in Stages /\ "none" \in Tokens
    BY DEF Kinds, Stages, Tokens
  <2> DEFINE m == Task("unlock", "charge", "none")
  <2>2. m \in Functions /\ m.kind = "unlock" /\ m.at = "charge"
    BY <2>1, TaskType
  <2> HIDE DEF m
  <2>3. n = [m EXCEPT !.right = right]
    BY DEF m
  <2> QED
    BY <2>2, <2>3 DEF Functions
<1>2. /\ tasks' = tasks \cup {n} /\ UNCHANGED <<dev, up, since, hurt, guesses>>
      /\ Spend("pins") /\ Kind("unlock") = {} /\ dev.tomb = "none"
  BY DEF EntersPin, History
<1> HIDE DEF n
<1>3. Calm
  <2>1. Harmless(n) /\ Placed(n)
    BY <1>1 DEF Harmless, Placed, Holders, WillUnlock
  <2> QED
    BY <1>1, <1>2, <2>1, AddCalm
<1>4. left' \in [Bounds -> Nat]
  BY <1>2, SpendLeft DEF Bounds
<1>5. Shuts(dev, dev')
  BY <1>0, <1>2, TameRefl, TameShuts
<1>6. Types'
  BY <1>2, <1>3, <1>4 DEF Types, Calm
<1> QED
  BY <1>1, <1>2, <1>3, <1>5, <1>6 DEF Quiet

LEMMA ChargesFacts ==
  ASSUME Types, NEW t \in tasks, Charges(t)
  PROVE  /\ Types' /\ Quiet
         /\ UNCHANGED <<since, hurt, guesses>>
         /\ t.kind = "unlock"
         /\ \/ Ends(t) /\ dev'.tries = dev.tries
            \/ /\ dev'.tries = dev.tries + 1
               /\ \E u : u.kind = "unlock" /\ u.at = "decrypt" /\ tasks' = (tasks \ {t}) \cup {u}
<1>0. dev \in Devices /\ up \in BOOLEAN /\ left \in [Bounds -> Nat] /\ t \in Functions
  BY DEF Types
<1>1. t.kind = "unlock" /\ UNCHANGED <<since, hurt, guesses, up, left>>
  BY DEF Charges, History
<1>2. CASE Ends(t) /\ UNCHANGED dev
  <2>1. Still
    BY <1>0, <1>1, <1>2, EndsStill
  <2> QED
    BY <1>1, <1>2, <2>1 DEF Still
<1>3. CASE dev' = Charge(t) /\ Goto(t, "decrypt")
  <2> DEFINE u == [t EXCEPT !.at = "decrypt"]
  <2>1. u \in Functions /\ u.kind = "unlock" /\ u.at = "decrypt"
    <3>1. "decrypt" \in Stages
      BY DEF Stages
    <3> QED
      BY <1>0, <1>1, <3>1, GotoType
  <2>2. tasks' = (tasks \ {t}) \cup {u}
    BY <1>3 DEF Goto
  <2> HIDE DEF u
  <2>3. Calm
    <3>1. Harmless(u) /\ Placed(u)
      BY <2>1 DEF Harmless, Placed, Holders, WillUnlock
    <3>2. \A v \in tasks : v.kind = "logout" => v \in tasks'
      BY <1>1, <2>2
    <3> QED
      BY <2>1, <2>2, <3>1, <3>2 DEF Types, Calm, Follows
  <2>4. dev' = [dev EXCEPT !.tries = @ + 1]
    BY <1>3 DEF Charge
  <2>5. dev' \in Devices /\ dev'.tries = dev.tries + 1
    <3>1. dev.tries + 1 \in Nat
      BY <1>0 DEF Devices
    <3> QED
      BY <1>0, <2>4, <3>1 DEF Devices
  <2>6. /\ dev'.blob = dev.blob /\ dev'.sealing = dev.sealing /\ dev'.key = dev.key
        /\ dev'.seal = dev.seal /\ dev'.timer = dev.timer /\ dev'.setup = dev.setup
        /\ dev'.dropping = dev.dropping /\ dev'.wiping = dev.wiping /\ dev'.tomb = dev.tomb
        /\ dev'.jwt = dev.jwt /\ dev'.policy = dev.policy /\ dev'.alive = dev.alive
        /\ dev'.dl = dev.dl
    BY <1>0, <2>4 DEF Devices
  <2>7. Shuts(dev, dev')
    BY <2>5, <2>6 DEF Shuts
  <2>8. Types'
    BY <1>0, <1>1, <2>3, <2>5 DEF Types, Calm
  <2> QED
    BY <1>1, <2>1, <2>2, <2>3, <2>5, <2>7, <2>8 DEF Quiet
<1> QED
  BY <1>2, <1>3 DEF Charges

LEMMA DecryptsFacts ==
  ASSUME Types, NEW t \in tasks, Decrypts(t)
  PROVE  /\ Types'
         /\ t.kind = "unlock" /\ t.at = "decrypt"
         /\ \/ /\ guesses' = 0 /\ dev'.tries = 0 /\ since' = since \cap {"revoked"}
               /\ \E u : u.kind = "unlock" /\ u.at \in Holders /\ tasks' = (tasks \ {t}) \cup {u}
            \/ /\ dev.tries < MaxFailures /\ UNCHANGED <<dev, since, hurt>>
               /\ guesses' = guesses + 1 /\ Ends(t) /\ Quiet
            \/ /\ UNCHANGED <<since, hurt>> /\ guesses' = 0 /\ Ends(t)
               /\ Quiet /\ ~dev'.blob /\ dev'.tries = 0
<1>0. dev \in Devices /\ up \in BOOLEAN /\ left \in [Bounds -> Nat] /\ t \in Functions
  BY DEF Types
<1>1. t.kind = "unlock" /\ t.at = "decrypt" /\ UNCHANGED <<up, left>>
  BY DEF Decrypts
<1> DEFINE x == [dev EXCEPT !.tries = 0, !.key = TRUE, !.has = TRUE]
<1>2. x \in Devices /\ x.tries = 0
  BY <1>0 DEF Devices
<1>3. \A at \in {"challenge", "hydrate"} : dev' \in Devices /\ guesses' = 0 /\ Goto(t, at) =>
        /\ Types'
        /\ \E u : u.kind = "unlock" /\ u.at \in Holders /\ tasks' = (tasks \ {t}) \cup {u}
  <2> SUFFICES ASSUME NEW at \in {"challenge", "hydrate"}, dev' \in Devices, guesses' = 0,
                      Goto(t, at)
               PROVE  /\ Types'
                      /\ \E u : /\ u.kind = "unlock" /\ u.at \in Holders
                                /\ tasks' = (tasks \ {t}) \cup {u}
    OBVIOUS
  <2> DEFINE u == [t EXCEPT !.at = at]
  <2>1. u \in Functions /\ u.kind = "unlock" /\ u.at = at
    <3>1. at \in Stages
      BY DEF Stages
    <3> QED
      BY <1>0, <1>1, <3>1, GotoType
  <2>2. tasks' = (tasks \ {t}) \cup {u}
    BY DEF Goto
  <2> HIDE DEF u
  <2>3. Placed(u) /\ u.at \in Holders
    BY <2>1 DEF Placed, WillUnlock, Holders
  <2>4. Types'
    BY <1>0, <1>1, <2>1, <2>2, <2>3 DEF Types
  <2> QED
    BY <2>1, <2>2, <2>3, <2>4
<1>4. CASE /\ guesses' = 0 /\ since' = since \cap {"revoked"}
           /\ \/ dev' = x /\ Goto(t, "challenge")
              \/ dev' = InMemory(x) /\ Goto(t, "hydrate")
  <2>1. dev' \in Devices /\ dev'.tries = 0
    <3>1. CASE dev' = x
      BY <1>2, <3>1
    <3>2. CASE dev' = InMemory(x)
      <4> HIDE DEF x
      <4> QED
        BY <1>2, <3>2, InMemoryFacts
    <3> QED
      BY <1>4, <3>1, <3>2
  <2> HIDE DEF x
  <2> QED
    BY <1>1, <1>3, <1>4, <2>1
<1>5. CASE /\ dev.tries < MaxFailures /\ UNCHANGED <<dev, since, hurt>>
           /\ guesses' = guesses + 1 /\ Ends(t)
  <2>1. Calm
    BY <1>1, <1>5, EndsCalm
  <2>2. Shuts(dev, dev')
    BY <1>0, <1>5, TameRefl, TameShuts
  <2>3. Types'
    BY <1>0, <1>1, <1>5, <2>1 DEF Types, Calm
  <2> QED
    BY <1>1, <1>5, <2>1, <2>2, <2>3 DEF Quiet
<1>6. CASE /\ dev' = [Planned(ClearSession(dev), "none", FALSE) EXCEPT
                       !.blob = FALSE, !.tries = 0, !.marker = FALSE, !.token = FALSE,
                       !.user = FALSE, !.key = FALSE]
           /\ Ends(t) /\ guesses' = 0 /\ UNCHANGED <<since, hurt>>
  <2> DEFINE a == ClearSession(dev)
             b == Planned(a, "none", FALSE)
             c == [b EXCEPT !.marker = FALSE, !.token = FALSE, !.user = FALSE]
             d == [c EXCEPT !.key = FALSE]
             e == [d EXCEPT !.blob = FALSE, !.tries = 0]
  <2>1. a \in Devices /\ Tame(dev, a)
    BY <1>0, ClearSessionTame DEF Tame
  <2>0. dev' = e
    BY <1>6
  <2> HIDE DEF a
  <2>2. Tame(a, b)
    BY <2>1, PlannedTame
  <2> HIDE DEF b
  <2>3. b \in Devices
    BY <2>2 DEF Tame
  <2>4. c \in Devices /\ Same(b, c)
    BY <2>3 DEF Devices, Same
  <2> HIDE DEF c
  <2>5. Tame(c, d)
    BY <2>4, KeyGone
  <2>6. Tame(dev, b)
    BY <1>0, <2>1, <2>2, TameTrans
  <2>7. Tame(dev, c)
    BY <1>0, <2>3, <2>4, <2>6, SameTame, TameTrans
  <2>8. Tame(dev, d)
    BY <1>0, <2>4, <2>5, <2>7, TameTrans
  <2> HIDE DEF d
  <2>9. d \in Devices /\ Shuts(dev, d)
    BY <2>8, TameShuts DEF Tame
  <2>10. e \in Devices /\ e.blob = FALSE /\ e.tries = 0
    BY <2>9 DEF Devices
  <2>11. /\ e.sealing = d.sealing /\ e.key = d.key /\ e.seal = d.seal /\ e.timer = d.timer
         /\ e.setup = d.setup /\ e.dropping = d.dropping /\ e.wiping = d.wiping
         /\ e.tomb = d.tomb /\ e.jwt = d.jwt /\ e.policy = d.policy /\ e.alive = d.alive
         /\ e.dl = d.dl
    BY <2>9 DEF Devices
  <2> HIDE DEF e
  <2>12. Shuts(dev, dev')
    BY <2>0, <2>9, <2>10, <2>11 DEF Shuts
  <2>13. Calm
    BY <1>1, <1>6, EndsCalm
  <2>14. Types'
    BY <1>0, <1>1, <1>6, <2>0, <2>10, <2>13 DEF Types, Calm
  <2>15. Quiet
    BY <1>6, <2>12, <2>13 DEF Quiet
  <2> QED
    BY <1>1, <1>6, <2>0, <2>10, <2>14, <2>15
<1> QED
  BY <1>4, <1>5, <1>6 DEF Decrypts

LEMMA AddType ==
  ASSUME Types, NEW kind \in Kinds, NEW at \in Stages, NEW tok \in Tokens,
         at \in Holders \cup {"resume"} => kind \in {"boot", "unlock", "recover", "register", "reauth"},
         tasks' = tasks \cup {Task(kind, at, tok)}
  PROVE  /\ tasks' \subseteq Functions /\ \A u \in tasks' : Placed(u)
         /\ \E u : u.kind = kind /\ u.at = at /\ tasks' = tasks \cup {u}
<1> DEFINE n == Task(kind, at, tok)
<1>1. n \in Functions /\ n.kind = kind /\ n.at = at
  BY TaskType
<1> HIDE DEF n
<1>2. Placed(n)
  BY <1>1 DEF Placed, WillUnlock
<1>3. tasks' = tasks \cup {n}
  BY DEF n
<1> QED
  BY <1>1, <1>2, <1>3 DEF Types

LEMMA EntersPhraseFacts ==
  ASSUME Types, EntersPhrase
  PROVE  /\ Types' /\ dev'.tries = dev.tries /\ since' = {} /\ UNCHANGED guesses
         /\ \A u \in tasks' : u.kind = "unlock" => u \in tasks
<1>0. dev \in Devices /\ up \in BOOLEAN
  BY DEF Types
<1>1. /\ Spend("phrases") /\ dev' = [dev EXCEPT !.loading = TRUE] /\ since' = {}
      /\ UNCHANGED <<up, guesses>>
  BY DEF EntersPhrase
<1>2. PICK kind \in {"recover", "register"} : tasks' = tasks \cup {Task(kind, "challenge", "none")}
  BY DEF EntersPhrase
<1>3. kind \in Kinds /\ "challenge" \in Stages /\ "none" \in Tokens
  BY DEF Kinds, Stages, Tokens
<1>4. /\ tasks' \subseteq Functions /\ \A u \in tasks' : Placed(u)
      /\ \E u : u.kind = kind /\ u.at = "challenge" /\ tasks' = tasks \cup {u}
  BY <1>2, <1>3, AddType
<1>5. left' \in [Bounds -> Nat]
  BY <1>1, SpendLeft DEF Bounds
<1>6. dev' \in Devices /\ dev'.tries = dev.tries
  BY <1>0, <1>1 DEF Devices
<1>7. Types'
  BY <1>0, <1>1, <1>4, <1>5, <1>6 DEF Types
<1> QED
  BY <1>1, <1>4, <1>6, <1>7

LEMMA SetsPinFacts ==
  ASSUME Types, SetsPin
  PROVE  /\ Types' /\ dev'.tries = dev.tries /\ guesses' = 0 /\ UNCHANGED <<since, hurt>>
         /\ dev.key /\ dev.setup
         /\ \E u : u.kind = "rotate" /\ u.at = "wipe" /\ tasks' = tasks \cup {u}
<1>0. dev \in Devices /\ up \in BOOLEAN /\ left \in [Bounds -> Nat]
  BY DEF Types
<1> DEFINE a == [dev EXCEPT !.blob = TRUE, !.has = TRUE]
<1>1. /\ dev' = [a EXCEPT !.setup = FALSE, !.alive = FALSE]
      /\ tasks' = tasks \cup {Task("rotate", "wipe", "none")}
      /\ guesses' = 0 /\ UNCHANGED <<up, since, hurt, left>> /\ dev.key
  BY DEF SetsPin
<1>2. dev.setup
  BY DEF SetsPin, Screen
<1>3. a \in Devices /\ a.tries = dev.tries
  BY <1>0 DEF Devices
<1> HIDE DEF a
<1>4. dev' \in Devices /\ dev'.tries = dev.tries
  BY <1>1, <1>3 DEF Devices
<1>5. /\ tasks' \subseteq Functions /\ \A u \in tasks' : Placed(u)
      /\ \E u : u.kind = "rotate" /\ u.at = "wipe" /\ tasks' = tasks \cup {u}
  <2>1. "rotate" \in Kinds /\ "wipe" \in Stages \ (Holders \cup {"resume"}) /\ "none" \in Tokens
    BY DEF Kinds, Stages, Tokens, Holders
  <2> QED
    BY <1>1, <2>1, AddType
<1>6. Types'
  BY <1>0, <1>1, <1>4, <1>5 DEF Types
<1> QED
  BY <1>1, <1>2, <1>4, <1>5, <1>6

LEMMA RotatesFacts ==
  ASSUME Types, NEW t \in tasks, Rotates(t)
  PROVE  /\ Types' /\ Calm /\ t.kind = "rotate" /\ Ends(t) /\ UNCHANGED <<since, hurt, guesses>>
         /\ dev'.blob = dev.blob /\ dev'.tries = dev.tries /\ dev'.key = dev.key
            /\ dev'.timer = dev.timer /\ dev'.setup = dev.setup
            /\ dev'.dropping = dev.dropping /\ dev'.wiping = dev.wiping
            /\ dev'.tomb = dev.tomb /\ dev'.jwt = dev.jwt /\ dev'.policy = dev.policy
            /\ dev'.alive = dev.alive /\ dev'.dl = dev.dl
<1>0. dev \in Devices /\ up \in BOOLEAN /\ left \in [Bounds -> Nat] /\ t \in Functions
  BY DEF Types
<1>1. /\ t.kind = "rotate" /\ Ends(t) /\ UNCHANGED <<since, hurt, guesses, up, left>>
      /\ dev' = [dev EXCEPT !.seal = FALSE, !.sealing = More(@)]
  BY DEF Rotates, History
<1>2. PICK n \in 0 .. MaxWrites : n = More(dev.sealing)
  <2>1. dev.sealing \in 0 .. MaxWrites
    BY <1>0 DEF Devices
  <2> QED
    BY <2>1, MoreFacts
<1>3. dev' = [dev EXCEPT !.seal = FALSE, !.sealing = n]
  BY <1>1, <1>2
<1>4. dev' \in Devices
  BY <1>0, <1>3 DEF Devices
<1>5. /\ dev'.blob = dev.blob /\ dev'.tries = dev.tries /\ dev'.key = dev.key
        /\ dev'.timer = dev.timer /\ dev'.setup = dev.setup /\ dev'.dropping = dev.dropping
        /\ dev'.wiping = dev.wiping /\ dev'.tomb = dev.tomb /\ dev'.jwt = dev.jwt
        /\ dev'.policy = dev.policy /\ dev'.alive = dev.alive /\ dev'.dl = dev.dl
  BY <1>0, <1>3 DEF Devices
<1>6. Calm
  BY <1>1, EndsCalm
<1>7. Types'
  BY <1>0, <1>1, <1>4, <1>6 DEF Types, Calm
<1> QED
  BY <1>1, <1>5, <1>6, <1>7

LEMMA ChangesPolicyFacts ==
  ASSUME Types, ChangesPolicy
  PROVE  /\ Types' /\ Calm /\ UNCHANGED <<tasks, since, hurt, guesses>> /\ dev.key
         /\ dev'.blob = dev.blob /\ dev'.tries = dev.tries /\ dev'.sealing = dev.sealing
            /\ dev'.key = dev.key /\ dev'.seal = dev.seal /\ dev'.setup = dev.setup
            /\ dev'.dropping = dev.dropping /\ dev'.wiping = dev.wiping
            /\ dev'.tomb = dev.tomb /\ dev'.jwt = dev.jwt /\ dev'.alive = dev.alive
<1>0. dev \in Devices /\ up \in BOOLEAN
  BY DEF Types
<1>1. Spend("policies") /\ UNCHANGED <<up, tasks, since, hurt, guesses>>
  BY DEF ChangesPolicy, History
<1>2. dev.key
  BY DEF ChangesPolicy, Screen, NeedsUnlock, HasSession, Unlocked
<1>3. PICK p \in Policies :
        dev' = [dev EXCEPT !.policy = p, !.timer = p = "minutes",
                           !.dl = IF p = "minutes" THEN "ahead" ELSE "none"]
  BY DEF ChangesPolicy
<1>4. PICK b \in BOOLEAN, d \in {"none", "ahead", "past"} :
        dev' = [dev EXCEPT !.policy = p, !.timer = b, !.dl = d]
  <2>1. CASE p = "minutes"
    <3>1. dev' = [dev EXCEPT !.policy = p, !.timer = TRUE, !.dl = "ahead"]
      BY <1>3, <2>1
    <3> QED
      BY <3>1
  <2>2. CASE p # "minutes"
    <3>1. dev' = [dev EXCEPT !.policy = p, !.timer = FALSE, !.dl = "none"]
      BY <1>3, <2>2
    <3> QED
      BY <3>1
  <2> QED
    BY <2>1, <2>2
<1>5. dev' \in Devices
  BY <1>0, <1>4 DEF Devices
<1>6. /\ dev'.blob = dev.blob /\ dev'.tries = dev.tries /\ dev'.sealing = dev.sealing
        /\ dev'.key = dev.key /\ dev'.seal = dev.seal /\ dev'.setup = dev.setup
        /\ dev'.dropping = dev.dropping /\ dev'.wiping = dev.wiping /\ dev'.tomb = dev.tomb
        /\ dev'.jwt = dev.jwt /\ dev'.alive = dev.alive
  BY <1>0, <1>4 DEF Devices
<1>7. left' \in [Bounds -> Nat]
  BY <1>1, SpendLeft DEF Bounds
<1>8. Calm
  BY <1>1, SameCalm
<1>9. Types'
  BY <1>0, <1>1, <1>5, <1>7, <1>8 DEF Types, Calm
<1> QED
  BY <1>1, <1>2, <1>6, <1>8, <1>9

LEMMA LocksFacts ==
  ASSUME Types, LockVault \/ TimeoutLocks
  PROVE  /\ Types' /\ Calm /\ UNCHANGED <<tasks, guesses>>
         /\ Tame(dev, dev') /\ ~dev'.key /\ ~dev'.timer /\ dev'.wiping > 0
         /\ since' = since \cup {"lock"} /\ hurt' = hurt \cup Racing \cup Sealing
<1>0. dev \in Devices /\ up \in BOOLEAN /\ left \in [Bounds -> Nat]
  BY DEF Types
<1>1. /\ dev' = Locked(dev) /\ UNCHANGED <<up, tasks, guesses>>
      /\ since' = since \cup {"lock"} /\ hurt' = hurt \cup Racing \cup Sealing
  BY DEF LockVault, TimeoutLocks
<1>2. left' \in [Bounds -> Nat]
  <2>1. CASE LockVault
    BY <2>1, SpendLeft DEF LockVault, Bounds
  <2>2. CASE TimeoutLocks
    BY <1>0, <2>2 DEF TimeoutLocks
  <2> QED
    BY <2>1, <2>2
<1>3. Tame(dev, dev') /\ ~dev'.key /\ ~dev'.timer /\ dev'.wiping > 0
  BY <1>0, <1>1, LockedTame
<1>4. Calm
  BY <1>1, SameCalm
<1>5. Types'
  BY <1>0, <1>1, <1>2, <1>3, <1>4 DEF Types, Calm, Tame
<1> QED
  BY <1>1, <1>3, <1>4, <1>5

LEMMA LogsOutFacts ==
  ASSUME Types, LogsOut
  PROVE  /\ Types' /\ UNCHANGED guesses /\ Same(dev, dev')
         /\ ~dev.setup /\ Kind("logout") = {}
         /\ since' = since \cup {"lock"} /\ hurt' = hurt \cup Racing \cup Sealing
         /\ \E u : u.kind = "logout" /\ u.at = "ask" /\ tasks' = tasks \cup {u}
<1>0. dev \in Devices /\ up \in BOOLEAN
  BY DEF Types
<1>1. /\ dev' = [dev EXCEPT !.loading = TRUE] /\ Spend("logouts") /\ Kind("logout") = {}
      /\ tasks' = tasks \cup {Task("logout", "ask", dev.jwt)} /\ UNCHANGED <<up, guesses>>
      /\ since' = since \cup {"lock"} /\ hurt' = hurt \cup Racing \cup Sealing
  BY DEF LogsOut
<1>2. ~dev.setup
  BY DEF LogsOut, Screen
<1>3. dev' \in Devices /\ Same(dev, dev')
  BY <1>0, <1>1 DEF Devices, Same
<1>4. left' \in [Bounds -> Nat]
  BY <1>1, SpendLeft DEF Bounds
<1>5. /\ tasks' \subseteq Functions /\ \A u \in tasks' : Placed(u)
      /\ \E u : u.kind = "logout" /\ u.at = "ask" /\ tasks' = tasks \cup {u}
  <2>1. "logout" \in Kinds /\ "ask" \in Stages \ (Holders \cup {"resume"})
    BY DEF Kinds, Stages, Holders
  <2>2. dev.jwt \in Tokens
    BY <1>0 DEF Devices
  <2> QED
    BY <1>1, <2>1, <2>2, AddType
<1>6. Types'
  BY <1>0, <1>1, <1>3, <1>4, <1>5 DEF Types
<1> QED
  BY <1>1, <1>2, <1>3, <1>5, <1>6

LEMMA LogoutFacts ==
  ASSUME Types, NEW t \in tasks, LogoutGoesOn(t)
  PROVE  /\ Types' /\ Settles /\ UNCHANGED guesses /\ t.kind = "logout"
         /\ Shuts(dev, dev') /\ dev'.tries = dev.tries
         /\ \/ /\ t.at = "ask" /\ dev'.dropping /\ Tame(dev, dev') /\ UNCHANGED <<since, hurt>>
               /\ \E u : u.kind = "logout" /\ u.at = "wipe" /\ tasks' = (tasks \ {t}) \cup {u}
            \/ /\ t.at = "wipe" /\ since' = since \ {"revoked"} /\ UNCHANGED hurt
               /\ \E u : u.kind = "logout" /\ u.at = "reset" /\ tasks' = (tasks \ {t}) \cup {u}
            \/ /\ t.at = "reset" /\ ~dev'.key /\ Tame(dev, dev') /\ UNCHANGED since
               /\ hurt' = hurt \cup Racing /\ Ends(t)
<1>0. dev \in Devices /\ up \in BOOLEAN /\ left \in [Bounds -> Nat] /\ t \in Functions
  BY DEF Types
<1>1. t.kind = "logout" /\ UNCHANGED <<up, guesses, left>>
  BY DEF LogoutGoesOn
<1>2. \A at \in {"wipe", "reset"} : Goto(t, at) =>
        /\ tasks' \subseteq Functions /\ (\A v \in tasks' : Placed(v)) /\ Settles
        /\ \E u : u.kind = "logout" /\ u.at = at /\ tasks' = (tasks \ {t}) \cup {u}
  <2> SUFFICES ASSUME NEW at \in {"wipe", "reset"}, Goto(t, at)
               PROVE  /\ tasks' \subseteq Functions /\ (\A v \in tasks' : Placed(v)) /\ Settles
                      /\ \E u : /\ u.kind = "logout" /\ u.at = at
                                /\ tasks' = (tasks \ {t}) \cup {u}
    OBVIOUS
  <2> DEFINE u == [t EXCEPT !.at = at]
  <2>1. u \in Functions /\ u.kind = "logout" /\ u.at = at
    <3>1. at \in Stages
      BY DEF Stages
    <3> QED
      BY <1>0, <1>1, <3>1, GotoType
  <2>2. tasks' = (tasks \ {t}) \cup {u}
    BY DEF Goto
  <2> HIDE DEF u
  <2>3. Placed(u) /\ u.at \notin Holders \cup {"resume"}
    BY <2>1 DEF Placed, Holders
  <2>4. Settles
    BY <2>1, <2>2, <2>3 DEF Settles, Follows
  <2> QED
    BY <2>1, <2>2, <2>3, <2>4 DEF Types
<1>3. CASE /\ t.at = "ask" /\ dev' = [ClearSessionKey(dev) EXCEPT !.dropping = TRUE]
           /\ Goto(t, "wipe") /\ UNCHANGED <<since, hurt>>
  <2> DEFINE a == ClearSessionKey(dev)
  <2>1. Tame(dev, a)
    BY <1>0, ClearSessionKeyTame
  <2> HIDE DEF a
  <2>2. a \in Devices
    BY <2>1 DEF Tame
  <2>3. dev' \in Devices /\ dev'.dropping = TRUE
    BY <1>3, <2>2 DEF Devices, a
  <2>4. /\ dev'.blob = a.blob /\ dev'.tries = a.tries /\ dev'.sealing = a.sealing
        /\ dev'.key = a.key /\ dev'.seal = a.seal /\ dev'.timer = a.timer
        /\ dev'.setup = a.setup /\ dev'.wiping = a.wiping /\ dev'.tomb = a.tomb
        /\ dev'.jwt = a.jwt /\ dev'.policy = a.policy /\ dev'.alive = a.alive
        /\ dev'.dl = a.dl
    BY <1>3, <2>2 DEF Devices, a
  <2>5. Tame(a, dev')
    BY <2>3, <2>4 DEF Tame
  <2>6. Tame(dev, dev')
    BY <1>0, <2>1, <2>2, <2>5, TameTrans
  <2>7. Types'
    BY <1>0, <1>1, <1>2, <1>3, <2>3 DEF Types
  <2> QED
    BY <1>1, <1>2, <1>3, <2>3, <2>6, <2>7, TameShuts
<1>4. CASE /\ t.at = "wipe"
           /\ dev' = [ClearSession(dev) EXCEPT !.marker = FALSE, !.last = FALSE, !.tomb = "none",
                       !.policy = "browser_close", !.dl = "none", !.alive = FALSE]
           /\ Goto(t, "reset") /\ since' = since \ {"revoked"} /\ UNCHANGED hurt
  <2> DEFINE a == ClearSession(dev)
             b == [a EXCEPT !.marker = FALSE, !.last = FALSE, !.tomb = "none"]
  <2>0. dev' = [b EXCEPT !.policy = "browser_close", !.dl = "none", !.alive = FALSE]
    BY <1>4
  <2>1. Tame(dev, a)
    BY <1>0, ClearSessionTame
  <2> HIDE DEF a
  <2>2. a \in Devices
    BY <2>1 DEF Tame
  <2>3. b \in Devices
    BY <2>2 DEF Devices
  <2>4. /\ b.blob = a.blob /\ b.tries = a.tries /\ b.sealing = a.sealing /\ b.key = a.key
        /\ b.seal = a.seal /\ b.timer = a.timer /\ b.setup = a.setup
        /\ b.dropping = a.dropping /\ b.wiping = a.wiping /\ b.jwt = a.jwt
        /\ b.policy = a.policy /\ b.alive = a.alive /\ b.dl = a.dl
    BY <2>2 DEF Devices
  <2> HIDE DEF b
  <2>5. dev' \in Devices /\ dev'.policy = "browser_close" /\ ~dev'.alive
    BY <2>0, <2>3 DEF Devices, Policies
  <2>6. /\ dev'.blob = b.blob /\ dev'.tries = b.tries /\ dev'.sealing = b.sealing
        /\ dev'.key = b.key /\ dev'.seal = b.seal /\ dev'.timer = b.timer
        /\ dev'.setup = b.setup /\ dev'.dropping = b.dropping /\ dev'.wiping = b.wiping
        /\ dev'.jwt = b.jwt
    BY <2>0, <2>3 DEF Devices
  <2>7. Shuts(dev, dev') /\ dev'.tries = dev.tries
    BY <2>1, <2>4, <2>5, <2>6 DEF Tame, Shuts
  <2>8. Types'
    BY <1>0, <1>1, <1>2, <1>4, <2>5 DEF Types
  <2> QED
    BY <1>1, <1>2, <1>4, <2>7, <2>8
<1>5. CASE /\ t.at = "reset" /\ dev' = [Reset(dev) EXCEPT !.loading = FALSE] /\ Ends(t)
           /\ hurt' = hurt \cup Racing /\ UNCHANGED since
  <2> DEFINE a == Reset(dev)
  <2>1. Tame(dev, a) /\ ~a.key
    BY <1>0, ResetTame
  <2> HIDE DEF a
  <2>2. a \in Devices
    BY <2>1 DEF Tame
  <2>3. dev' \in Devices /\ Same(a, dev')
    BY <1>5, <2>2 DEF Devices, Same, a
  <2>4. Tame(dev, dev') /\ ~dev'.key
    <3>1. Tame(a, dev')
      BY <2>2, <2>3, SameTame
    <3>2. Tame(dev, dev')
      BY <1>0, <2>1, <2>2, <3>1, TameTrans
    <3> QED
      BY <2>1, <2>3, <3>2 DEF Same
  <2>5. Settles /\ Types'
    <3>1. Settles
      BY <1>5 DEF Ends, Settles, Follows
    <3> QED
      BY <1>0, <1>1, <1>5, <2>3, <3>1 DEF Types, Ends
  <2> QED
    BY <1>1, <1>5, <2>4, <2>5, TameShuts
<1> QED
  BY <1>3, <1>4, <1>5 DEF LogoutGoesOn

LEMMA ReloadsFacts ==
  ASSUME Types, NEW closed \in BOOLEAN, Reloads(closed)
  PROVE  /\ Types' /\ UNCHANGED guesses /\ tasks' = {}
         /\ since' = since \cup Over(dev, closed) /\ hurt' = hurt \cup Unfinished
         /\ \E y \in Devices : /\ Tame(dev, y) /\ dev' = FreshTab(y)
                               /\ y.policy = dev.policy /\ y.dl = dev.dl
                               /\ closed => ~y.alive
<1>0. dev \in Devices /\ up \in BOOLEAN
  BY DEF Types
<1>1. /\ Spend("reloads") /\ tasks' = {} /\ UNCHANGED <<up, guesses>>
      /\ since' = since \cup Over(dev, closed) /\ hurt' = hurt \cup Unfinished
  BY DEF Reloads
<1>2. PICK x \in Unloaded : dev' = Leaves(x, closed)
  BY DEF Reloads
<1>3. x \in Devices /\ Tame(dev, x) /\ x.policy = dev.policy /\ x.dl = dev.dl
  <2>1. CASE x = dev
    BY <1>0, <2>1, TameRefl
  <2>2. CASE \E wiped \in BOOLEAN : x = [dev EXCEPT !.alive = FALSE, !.seal = @ /\ ~wiped]
    <3>1. PICK wiped \in BOOLEAN : x = [dev EXCEPT !.alive = FALSE, !.seal = @ /\ ~wiped]
      BY <2>2
    <3>2. PICK b \in BOOLEAN : b = (dev.seal /\ ~wiped)
      OBVIOUS
    <3>3. x = [dev EXCEPT !.alive = FALSE, !.seal = b]
      BY <3>1, <3>2
    <3>4. x \in Devices
      BY <1>0, <3>3 DEF Devices
    <3>5. /\ x.blob = dev.blob /\ x.tries = dev.tries /\ x.sealing = dev.sealing
          /\ x.key = dev.key /\ x.timer = dev.timer /\ x.setup = dev.setup
          /\ x.dropping = dev.dropping /\ x.wiping = dev.wiping /\ x.tomb = dev.tomb
          /\ x.jwt = dev.jwt /\ x.policy = dev.policy /\ x.dl = dev.dl
          /\ x.alive = FALSE /\ x.seal = b
      BY <1>0, <3>3 DEF Devices
    <3>6. x.seal => dev.seal
      BY <3>2, <3>5
    <3> QED
      BY <3>4, <3>5, <3>6 DEF Tame
  <2> QED
    BY <1>2, <2>1, <2>2 DEF Unloaded
<1> DEFINE z == [x EXCEPT !.jwt = "none", !.alive = FALSE, !.setup = FALSE]
<1>4. z \in Devices /\ Tame(dev, z) /\ z.policy = dev.policy /\ z.dl = dev.dl /\ ~z.alive
  <2>1. z \in Devices
    BY <1>3 DEF Devices, Tokens
  <2>2. /\ z.blob = x.blob /\ z.tries = x.tries /\ z.sealing = x.sealing /\ z.key = x.key
        /\ z.seal = x.seal /\ z.timer = x.timer /\ z.dropping = x.dropping
        /\ z.wiping = x.wiping /\ z.tomb = x.tomb /\ z.policy = x.policy /\ z.dl = x.dl
        /\ z.jwt = "none" /\ z.alive = FALSE /\ z.setup = FALSE
    BY <1>3 DEF Devices
  <2>3. Tame(x, z)
    BY <2>1, <2>2 DEF Tame
  <2> HIDE DEF z
  <2> QED
    BY <1>0, <1>3, <2>1, <2>2, <2>3, TameTrans
<1>5. left' \in [Bounds -> Nat]
  BY <1>1, SpendLeft DEF Bounds
<1>6. \E y \in Devices : /\ Tame(dev, y) /\ dev' = FreshTab(y)
                         /\ y.policy = dev.policy /\ y.dl = dev.dl
                         /\ closed => ~y.alive
  <2>1. CASE closed
    <3>1. dev' = FreshTab(z)
      BY <1>2, <2>1 DEF Leaves
    <3> QED
      BY <1>4, <3>1
  <2>2. CASE ~closed
    <3>1. dev' = FreshTab(x)
      BY <1>2, <2>2 DEF Leaves
    <3> QED
      BY <1>3, <2>2, <3>1
  <2> QED
    BY <2>1, <2>2
<1>7. dev' \in Devices
  BY <1>6, FreshTabFacts
<1>8. Types'
  BY <1>0, <1>1, <1>5, <1>7 DEF Types
<1> QED
  BY <1>1, <1>6, <1>8

LEMMA CheckAnswersFacts ==
  ASSUME Types, NEW t \in tasks, CheckAnswers(t)
  PROVE  \/ Still /\ Ends(t) /\ UNCHANGED <<dev, since, hurt>>
         \/ /\ Types' /\ UNCHANGED guesses /\ tasks' = {}
            /\ \E y \in Devices :
                 /\ Tame(dev, y) /\ dev' = FreshTab(y) /\ y.jwt = "none"
                 /\ since' = since \cup Over(y, FALSE)
                      \cup (IF y.tomb = "revoked" /\ dev.tomb # "revoked" THEN {"revoked"} ELSE {})
                 /\ hurt' = hurt \cup Unfinished
                      \cup (IF y.tomb = "revoked" /\ dev.tomb # "revoked" THEN {"dropped"} ELSE {})
<1>0. dev \in Devices /\ up \in BOOLEAN /\ left \in [Bounds -> Nat]
  BY DEF Types
<1>1. t.kind = "check" /\ UNCHANGED <<up, guesses, left>>
  BY DEF CheckAnswers
<1>2. CASE Ends(t) /\ UNCHANGED <<dev, since, hurt>>
  BY <1>0, <1>1, <1>2, EndsStill
<1> DEFINE x == Invalidated(Invalidated(dev, Told(dev)), "invalid")
<1>3. CASE /\ dev' = FreshTab(x) /\ tasks' = {}
           /\ since' = since \cup Over(x, FALSE)
                \cup (IF x.tomb = "revoked" /\ dev.tomb # "revoked" THEN {"revoked"} ELSE {})
           /\ hurt' = hurt \cup Unfinished
                \cup (IF x.tomb = "revoked" /\ dev.tomb # "revoked" THEN {"dropped"} ELSE {})
  <2>1. Tame(dev, x) /\ x.jwt = "none"
    BY <1>0, ToldTame
  <2> HIDE DEF x
  <2>2. x \in Devices
    BY <2>1 DEF Tame
  <2>3. dev' \in Devices
    BY <1>3, <2>2, FreshTabFacts
  <2>4. Types'
    BY <1>0, <1>1, <1>3, <2>3 DEF Types
  <2> QED
    BY <1>1, <1>3, <2>1, <2>2, <2>4
<1> QED
  BY <1>2, <1>3 DEF CheckAnswers

LEMMA DeadlinePassesFacts ==
  ASSUME Types, DeadlinePasses
  PROVE  /\ Types' /\ Calm /\ UNCHANGED <<tasks, guesses>> /\ Tame(dev, dev')
         /\ \/ UNCHANGED <<since, hurt>>
            \/ /\ dev'.policy = "minutes" /\ ~dev'.timer /\ ~dev'.key /\ dev'.dl = "past"
               /\ dev'.sealing = dev.sealing
               /\ Racing = {} /\ since' = since \cup {"ended"} /\ hurt' = hurt \cup Sealing
<1>0. dev \in Devices /\ up \in BOOLEAN
  BY DEF Types
<1>1. /\ Spend("deadlines") /\ dev.dl = "ahead" /\ dev' = [dev EXCEPT !.dl = "past"]
      /\ UNCHANGED <<up, tasks, guesses>>
  BY DEF DeadlinePasses
<1>2. dev' \in Devices /\ dev'.dl = "past"
  BY <1>0, <1>1 DEF Devices
<1>3. /\ dev'.blob = dev.blob /\ dev'.tries = dev.tries /\ dev'.sealing = dev.sealing
        /\ dev'.key = dev.key /\ dev'.seal = dev.seal /\ dev'.timer = dev.timer
        /\ dev'.setup = dev.setup /\ dev'.dropping = dev.dropping /\ dev'.wiping = dev.wiping
        /\ dev'.tomb = dev.tomb /\ dev'.jwt = dev.jwt /\ dev'.policy = dev.policy
        /\ dev'.alive = dev.alive
  BY <1>0, <1>1 DEF Devices
<1>4. Tame(dev, dev')
  BY <1>1, <1>2, <1>3 DEF Tame
<1>5. left' \in [Bounds -> Nat]
  BY <1>1, SpendLeft DEF Bounds
<1>6. Calm
  BY <1>1, SameCalm
<1>7. Types'
  BY <1>0, <1>1, <1>2, <1>5, <1>6 DEF Types, Calm
<1> QED
  BY <1>1, <1>2, <1>3, <1>4, <1>6, <1>7 DEF DeadlinePasses

LEMMA InputFacts ==
  ASSUME Types, InputComesFirst
  PROVE  /\ Types' /\ Calm /\ UNCHANGED <<tasks, since, hurt, guesses>> /\ dev.timer
         /\ dev'.blob = dev.blob /\ dev'.tries = dev.tries /\ dev'.sealing = dev.sealing
            /\ dev'.key = dev.key /\ dev'.seal = dev.seal /\ dev'.timer = dev.timer
            /\ dev'.setup = dev.setup /\ dev'.dropping = dev.dropping
            /\ dev'.wiping = dev.wiping /\ dev'.tomb = dev.tomb /\ dev'.jwt = dev.jwt
            /\ dev'.policy = dev.policy /\ dev'.alive = dev.alive
<1>0. dev \in Devices /\ up \in BOOLEAN /\ left \in [Bounds -> Nat]
  BY DEF Types
<1>1. /\ dev.timer /\ dev' = [dev EXCEPT !.dl = "ahead"]
      /\ UNCHANGED <<up, tasks, left, since, hurt, guesses>>
  BY DEF InputComesFirst, History
<1>2. dev' \in Devices
  BY <1>0, <1>1 DEF Devices
<1>3. /\ dev'.blob = dev.blob /\ dev'.tries = dev.tries /\ dev'.sealing = dev.sealing
        /\ dev'.key = dev.key /\ dev'.seal = dev.seal /\ dev'.timer = dev.timer
        /\ dev'.setup = dev.setup /\ dev'.dropping = dev.dropping /\ dev'.wiping = dev.wiping
        /\ dev'.tomb = dev.tomb /\ dev'.jwt = dev.jwt /\ dev'.policy = dev.policy
        /\ dev'.alive = dev.alive
  BY <1>0, <1>1 DEF Devices
<1>4. Calm
  BY <1>1, SameCalm
<1>5. Types'
  BY <1>0, <1>1, <1>2, <1>4 DEF Types, Calm
<1> QED
  BY <1>1, <1>3, <1>4, <1>5

LEMMA SealFacts ==
  ASSUME Types, SealLands
  PROVE  /\ Types' /\ Calm /\ UNCHANGED <<tasks, since, hurt, guesses>> /\ dev.sealing > 0
         /\ dev'.blob = dev.blob /\ dev'.tries = dev.tries /\ dev'.key = dev.key
            /\ dev'.timer = dev.timer /\ dev'.setup = dev.setup
            /\ dev'.dropping = dev.dropping /\ dev'.wiping = dev.wiping
            /\ dev'.tomb = dev.tomb /\ dev'.jwt = dev.jwt /\ dev'.policy = dev.policy
            /\ dev'.dl = dev.dl
<1>0. dev \in Devices /\ up \in BOOLEAN /\ left \in [Bounds -> Nat]
  BY DEF Types
<1>1. /\ dev.sealing > 0
      /\ dev' = [dev EXCEPT !.seal = TRUE, !.alive = TRUE, !.sealing = @ - 1]
      /\ UNCHANGED <<up, tasks, left, since, hurt, guesses>>
  BY DEF SealLands, History
<1>2. PICK n \in 0 .. MaxWrites : n = dev.sealing - 1
  BY <1>0, <1>1, VaultAssumption DEF Devices
<1>3. dev' = [dev EXCEPT !.seal = TRUE, !.alive = TRUE, !.sealing = n]
  BY <1>1, <1>2
<1>4. dev' \in Devices
  BY <1>0, <1>3 DEF Devices
<1>5. /\ dev'.blob = dev.blob /\ dev'.tries = dev.tries /\ dev'.key = dev.key
        /\ dev'.timer = dev.timer /\ dev'.setup = dev.setup /\ dev'.dropping = dev.dropping
        /\ dev'.wiping = dev.wiping /\ dev'.tomb = dev.tomb /\ dev'.jwt = dev.jwt
        /\ dev'.policy = dev.policy /\ dev'.dl = dev.dl
  BY <1>0, <1>3 DEF Devices
<1>6. Calm
  BY <1>1, SameCalm
<1>7. Types'
  BY <1>0, <1>1, <1>4, <1>6 DEF Types, Calm
<1> QED
  BY <1>1, <1>5, <1>6, <1>7

LEMMA WipeFacts ==
  ASSUME Types, WipeLands
  PROVE  /\ Types' /\ Calm /\ UNCHANGED <<tasks, since, hurt, guesses>> /\ ~dev'.seal
         /\ dev'.blob = dev.blob /\ dev'.tries = dev.tries /\ dev'.sealing = dev.sealing
            /\ dev'.key = dev.key /\ dev'.timer = dev.timer /\ dev'.setup = dev.setup
            /\ dev'.dropping = dev.dropping /\ dev'.tomb = dev.tomb /\ dev'.jwt = dev.jwt
            /\ dev'.policy = dev.policy /\ dev'.alive = dev.alive /\ dev'.dl = dev.dl
<1>0. dev \in Devices /\ up \in BOOLEAN /\ left \in [Bounds -> Nat]
  BY DEF Types
<1>1. /\ dev.wiping > 0 /\ dev' = [dev EXCEPT !.seal = FALSE, !.wiping = @ - 1]
      /\ UNCHANGED <<up, tasks, left, since, hurt, guesses>>
  BY DEF WipeLands, History
<1>2. PICK n \in 0 .. MaxWrites : n = dev.wiping - 1
  BY <1>0, <1>1, VaultAssumption DEF Devices
<1>3. dev' = [dev EXCEPT !.seal = FALSE, !.wiping = n]
  BY <1>1, <1>2
<1>4. dev' \in Devices
  BY <1>0, <1>3 DEF Devices
<1>5. /\ dev'.blob = dev.blob /\ dev'.tries = dev.tries /\ dev'.sealing = dev.sealing
        /\ dev'.key = dev.key /\ dev'.timer = dev.timer /\ dev'.setup = dev.setup
        /\ dev'.dropping = dev.dropping /\ dev'.tomb = dev.tomb /\ dev'.jwt = dev.jwt
        /\ dev'.policy = dev.policy /\ dev'.alive = dev.alive /\ dev'.dl = dev.dl
      /\ ~dev'.seal
  BY <1>0, <1>3 DEF Devices
<1>6. Calm
  BY <1>1, SameCalm
<1>7. Types'
  BY <1>0, <1>1, <1>4, <1>6 DEF Types, Calm
<1> QED
  BY <1>1, <1>5, <1>6, <1>7

LEMMA DropFacts ==
  ASSUME Types, DropLands
  PROVE  /\ Types' /\ Calm /\ UNCHANGED <<tasks, since, hurt>> /\ ~HoldsVault
         /\ guesses' = 0 /\ ~dev'.blob /\ dev'.tries = 0
         /\ dev'.sealing = dev.sealing /\ dev'.key = dev.key /\ dev'.seal = dev.seal
            /\ dev'.timer = dev.timer /\ dev'.setup = dev.setup /\ dev'.wiping = dev.wiping
            /\ dev'.tomb = dev.tomb /\ dev'.jwt = dev.jwt /\ dev'.policy = dev.policy
            /\ dev'.alive = dev.alive /\ dev'.dl = dev.dl
<1>0. dev \in Devices /\ up \in BOOLEAN /\ left \in [Bounds -> Nat]
  BY DEF Types
<1>1. /\ ~HoldsVault /\ guesses' = 0
      /\ dev' = [dev EXCEPT !.blob = FALSE, !.tries = 0, !.dropping = FALSE]
      /\ UNCHANGED <<up, tasks, left, since, hurt>>
  BY DEF DropLands
<1>2. dev' \in Devices
  BY <1>0, <1>1 DEF Devices
<1>3. /\ dev'.sealing = dev.sealing /\ dev'.key = dev.key /\ dev'.seal = dev.seal
        /\ dev'.timer = dev.timer /\ dev'.setup = dev.setup /\ dev'.wiping = dev.wiping
        /\ dev'.tomb = dev.tomb /\ dev'.jwt = dev.jwt /\ dev'.policy = dev.policy
        /\ dev'.alive = dev.alive /\ dev'.dl = dev.dl
      /\ ~dev'.blob /\ dev'.tries = 0
  BY <1>0, <1>1 DEF Devices
<1>4. Calm
  BY <1>1, SameCalm
<1>5. Types'
  BY <1>0, <1>1, <1>2, <1>4 DEF Types, Calm
<1> QED
  BY <1>1, <1>3, <1>4, <1>5

LEMMA ReauthFacts ==
  ASSUME Types, Reauth
  PROVE  /\ Types' /\ UNCHANGED <<dev, since, hurt, guesses>> /\ dev.key
         /\ \E u : u.kind = "reauth" /\ u.at = "challenge" /\ tasks' = tasks \cup {u}
<1>0. dev \in Devices /\ up \in BOOLEAN /\ left \in [Bounds -> Nat]
  BY DEF Types
<1>1. /\ tasks' = tasks \cup {Task("reauth", "challenge", "none")} /\ dev.key
      /\ UNCHANGED <<dev, up, left, since, hurt, guesses>>
  BY DEF Reauth, OfflineSession, History
<1>2. "reauth" \in Kinds /\ "challenge" \in Stages /\ "none" \in Tokens
  BY DEF Kinds, Stages, Tokens
<1>3. /\ tasks' \subseteq Functions /\ \A u \in tasks' : Placed(u)
      /\ \E u : u.kind = "reauth" /\ u.at = "challenge" /\ tasks' = tasks \cup {u}
  BY <1>1, <1>2, AddType
<1>4. Types'
  BY <1>0, <1>1, <1>3 DEF Types
<1> QED
  BY <1>1, <1>3, <1>4

LEMMA EndsSessionsFacts ==
  ASSUME Types, NEW revokes \in BOOLEAN, EndsSessions(revokes)
  PROVE  /\ Types' /\ Quiet /\ UNCHANGED <<since, hurt, guesses>> /\ tasks' = Killed(tasks)
         /\ dev'.tries = dev.tries /\ dev'.tomb = dev.tomb
         /\ dev.jwt = "none" => dev'.jwt = "none"
         /\ dev'.dropping = dev.dropping
<1>0. dev \in Devices /\ up \in BOOLEAN
  BY DEF Types
<1>1. /\ dev' = [dev EXCEPT !.banned = revokes, !.jwt = IF @ = "good" THEN "dead" ELSE @]
      /\ tasks' = Killed(tasks) /\ UNCHANGED <<up, since, hurt, guesses>>
      /\ Spend(IF revokes THEN "revokes" ELSE "ends")
  BY DEF EndsSessions
<1>2. PICK j \in Tokens : j = IF dev.jwt = "good" THEN "dead" ELSE dev.jwt
  BY <1>0 DEF Devices, Tokens
<1>3. dev' = [dev EXCEPT !.banned = revokes, !.jwt = j]
  BY <1>1, <1>2
<1>4. dev' \in Devices
  BY <1>0, <1>3 DEF Devices
<1>5. /\ dev'.blob = dev.blob /\ dev'.tries = dev.tries /\ dev'.sealing = dev.sealing
        /\ dev'.key = dev.key /\ dev'.seal = dev.seal /\ dev'.timer = dev.timer
        /\ dev'.setup = dev.setup /\ dev'.dropping = dev.dropping /\ dev'.wiping = dev.wiping
        /\ dev'.tomb = dev.tomb /\ dev'.policy = dev.policy /\ dev'.alive = dev.alive
        /\ dev'.dl = dev.dl
      /\ dev'.jwt = j
  BY <1>0, <1>3 DEF Devices
<1>6. Shuts(dev, dev')
  BY <1>4, <1>5 DEF Shuts
<1>7. left' \in [Bounds -> Nat]
  <2>1. (IF revokes THEN "revokes" ELSE "ends") \in Bounds
    BY DEF Bounds
  <2> QED
    BY <1>1, <2>1, SpendLeft
<1>8. Calm
  BY <1>1, KilledFacts, KilledKeeps DEF Calm
<1>9. Types'
  BY <1>0, <1>1, <1>4, <1>7, <1>8 DEF Types, Calm
<1>10. dev.jwt = "none" => dev'.jwt = "none"
  BY <1>2, <1>5
<1> QED
  BY <1>1, <1>5, <1>6, <1>8, <1>9, <1>10 DEF Quiet

LEMMA ResumedFacts ==
  ASSUME Types, NEW t \in tasks, t.kind = "boot", Goto(t, "resumed"),
         UNCHANGED <<dev, up, left, since, hurt, guesses>>
  PROVE  /\ Types'
         /\ \E u : u.kind = "boot" /\ u.at = "resumed" /\ tasks' = (tasks \ {t}) \cup {u}
<1> DEFINE u == [t EXCEPT !.at = "resumed"]
<1>1. u \in Functions /\ u.kind = "boot" /\ u.at = "resumed"
  <2>1. t \in Functions /\ "resumed" \in Stages
    BY DEF Types, Stages
  <2> QED
    BY <2>1, GotoType
<1>2. tasks' = (tasks \ {t}) \cup {u}
  BY DEF Goto
<1> HIDE DEF u
<1>3. Placed(u)
  BY <1>1 DEF Placed, WillUnlock
<1>4. Types'
  BY <1>1, <1>2, <1>3 DEF Types
<1> QED
  BY <1>1, <1>2, <1>4

LEMMA StutterStill ==
  ASSUME Types, UNCHANGED vars
  PROVE  Still
<1>1. dev \in Devices /\ up \in BOOLEAN /\ left \in [Bounds -> Nat]
  BY DEF Types
<1>2. UNCHANGED <<dev, up, tasks, since, hurt, guesses, left>>
  BY DEF vars
<1>3. Tame(dev, dev')
  BY <1>1, <1>2, TameRefl
<1> QED
  BY <1>1, <1>2, <1>3, SameCalm, StillStep

-----------------------------------------------------------------------------
(* The types                                                                 *)

LEMMA InitTypes == Init => Types
<1> SUFFICES ASSUME Init PROVE Types
  OBVIOUS
<1>1. PICK s \in Stories : dev = Stored(s) /\ left = s.left
  BY DEF Init
<1>2. /\ s.blob \in BOOLEAN /\ s.last \in BOOLEAN /\ s.seal \in BOOLEAN
      /\ s.jwt \in {"none", "good"} /\ s.policy \in Policies /\ s.left \in [Bounds -> Nat]
  BY VaultAssumption
<1>3. 0 \in 0 .. MaxWrites
  BY VaultAssumption
<1>4. Stored(s) \in Devices
  BY <1>2, <1>3 DEF Stored, Devices, Tokens
<1> QED
  BY <1>1, <1>2, <1>4 DEF Init, Types

LEMMA TypesStep ==
  ASSUME Types, [Next]_vars
  PROVE  Types'
<1>1. CASE BootStarts
  BY <1>1, BootStartsStill DEF Still
<1>2. ASSUME NEW t \in tasks, Steps(t)
      PROVE  Types'
  <2>1. CASE BootAsks(t)
    BY <2>1, BootAsksStill DEF Still
  <2>2. CASE BootFinds(t)
    BY <2>2, BootFindsStill DEF Still
  <2>3. CASE BootScans(t)
    BY <2>3, BootScansStill DEF Still
  <2>4. CASE BootResumes(t)
    <3>1. t.kind = "boot"
      BY <2>4 DEF BootResumes
    <3>2. CASE Still
      BY <3>2 DEF Still
    <3>3. CASE Goto(t, "resumed") /\ UNCHANGED <<dev, up, left, since, hurt, guesses>>
      BY <3>1, <3>3, ResumedFacts
    <3> QED
      BY <2>4, <3>2, <3>3, BootResumesStill
  <2>5. CASE BootHasIdentity(t)
    BY <2>5, BootHasIdentityOpens DEF Opens
  <2>6. CASE SignsIn(t)
    BY <2>6, SignsInOpens DEF Opens, Still
  <2>7. CASE Uploads(t)
    BY <2>7, UploadsOpens DEF Opens, Still
  <2>8. CASE Hydrates(t)
    BY <2>8, HydratesOpens DEF Opens
  <2>9. CASE Charges(t)
    BY <2>9, ChargesFacts
  <2>10. CASE Decrypts(t)
    BY <2>10, DecryptsFacts
  <2>11. CASE Rotates(t)
    BY <2>11, RotatesFacts
  <2>12. CASE LogoutGoesOn(t)
    BY <2>12, LogoutFacts
  <2>13. CASE CheckAnswers(t)
    BY <2>13, CheckAnswersFacts DEF Still
  <2> QED
    BY <1>2, <2>1, <2>2, <2>3, <2>4, <2>5, <2>6, <2>7, <2>8, <2>9, <2>10, <2>11, <2>12, <2>13
       DEF Steps
<1>3. CASE Background
  BY <1>3, SealFacts, WipeFacts, DropFacts DEF Background
<1>4. CASE User
  <2>1. ASSUME NEW right \in BOOLEAN, EntersPin(right) PROVE Types'
    BY <2>1, EntersPinFacts
  <2>2. CASE EntersPhrase
    BY <2>2, EntersPhraseFacts
  <2>3. CASE GoesBackToPin
    BY <2>3, GoesBackToPinStill DEF Still
  <2>4. CASE SetsPin
    BY <2>4, SetsPinFacts
  <2>5. CASE ChangesPolicy
    BY <2>5, ChangesPolicyFacts
  <2>6. CASE LockVault
    BY <2>6, LocksFacts
  <2>7. CASE LogsOut
    BY <2>7, LogsOutFacts
  <2>8. ASSUME NEW closed \in BOOLEAN, Reloads(closed) PROVE Types'
    BY <2>8, ReloadsFacts
  <2> QED
    BY <1>4, <2>1, <2>2, <2>3, <2>4, <2>5, <2>6, <2>7, <2>8 DEF User
<1>5. CASE TimeoutLocks
  BY <1>5, LocksFacts
<1>6. CASE Reauth
  BY <1>6, ReauthFacts
<1>7. CASE World
  <2>1. CASE DeadlinePasses
    BY <2>1, DeadlinePassesFacts
  <2>2. CASE InputComesFirst
    BY <2>2, InputFacts
  <2>3. CASE HandleAuthInvalid
    BY <2>3, HandleAuthInvalidStill DEF Still
  <2>4. ASSUME NEW revokes \in BOOLEAN, EndsSessions(revokes) PROVE Types'
    BY <2>4, EndsSessionsFacts
  <2>5. CASE OnVisible
    BY <2>5, OnVisibleStill DEF Still
  <2>6. CASE GoesDown \/ ComesUp
    BY <2>6, OutageStill DEF Still
  <2> QED
    BY <1>7, <2>1, <2>2, <2>3, <2>4, <2>5, <2>6 DEF World
<1>8. CASE UNCHANGED vars
  BY <1>8, StutterStill DEF Still
<1> QED
  BY <1>1, <1>2, <1>3, <1>4, <1>5, <1>6, <1>7, <1>8 DEF Next

\* Every variable keeps its type, for any bounds and any stories.
THEOREM VaultTypes == Spec => []Types
<1>1. Init => Types
  BY InitTypes
<1>2. Types /\ [Next]_vars => Types'
  BY TypesStep
<1> QED
  BY <1>1, <1>2, PTL DEF Spec

-----------------------------------------------------------------------------
(* A PIN tried is a PIN charged                                              *)

LEMMA GuessKept ==
  ASSUME GuessInv, dev'.tries = dev.tries, UNCHANGED guesses,
         \A u \in tasks' : u.kind = "unlock" => u \in tasks
  PROVE  GuessInv'
<1>1. OneUnlock'
  BY DEF GuessInv, OneUnlock, Kind
<1>2. HoldsVault' => HoldsVault
  BY DEF HoldsVault, Kind
<1> QED
  BY <1>1, <1>2 DEF GuessInv

\* The function that tries the PIN goes on to u.
LEMMA GuessGoes ==
  ASSUME OneUnlock, NEW t \in tasks, t.kind = "unlock", NEW u, u.kind = "unlock",
         tasks' = (tasks \ {t}) \cup {u}
  PROVE  /\ OneUnlock'
         /\ HoldsVault' => u.at = "decrypt"
<1>1. Kind("unlock")' = {u}
  BY DEF OneUnlock, Kind
<1> QED
  BY <1>1 DEF OneUnlock, HoldsVault

LEMMA GuessEnds ==
  ASSUME OneUnlock, NEW t \in tasks, t.kind = "unlock", Ends(t)
  PROVE  OneUnlock' /\ ~HoldsVault'
<1>1. Kind("unlock")' = {}
  BY DEF OneUnlock, Kind, Ends
<1> QED
  BY <1>1 DEF OneUnlock, HoldsVault

LEMMA GuessOpens ==
  ASSUME Types, GuessInv, NEW t \in tasks, Opens(t)
  PROVE  GuessInv'
<1>1. dev'.tries = dev.tries /\ UNCHANGED guesses /\ OneUnlock
  BY DEF Opens, GuessInv
<1>2. CASE Ends(t) \/ t.kind # "unlock"
  <2>1. \A u \in tasks' : u.kind = "unlock" => u \in tasks
    BY <1>2 DEF Opens, Ends
  <2> QED
    BY <1>1, <2>1, GuessKept
<1>3. CASE t.kind = "unlock" /\ ~Ends(t)
  <2>1. PICK u : u.kind = t.kind /\ u.at \in Holders /\ tasks' = (tasks \ {t}) \cup {u}
    BY <1>3 DEF Opens
  <2>2. OneUnlock' /\ ~HoldsVault'
    <3>1. u.at # "decrypt"
      BY <2>1 DEF Holders
    <3> QED
      BY <1>1, <1>3, <2>1, <3>1, GuessGoes
  <2> QED
    BY <1>1, <2>2 DEF GuessInv
<1> QED
  BY <1>2, <1>3

LEMMA GuessFresh ==
  ASSUME Types, GuessInv, tasks' = {}, UNCHANGED guesses,
         NEW y \in Devices, Tame(dev, y), dev' = FreshTab(y)
  PROVE  GuessInv'
<1>1. dev'.tries = dev.tries
  <2>1. dev'.tries = y.tries
    BY FreshTabFacts
  <2> QED
    BY <2>1 DEF Tame
<1> QED
  BY <1>1, GuessKept

LEMMA GuessCharges ==
  ASSUME Types, GuessInv, NEW t \in tasks, Charges(t)
  PROVE  GuessInv'
<1>0. /\ t.kind = "unlock" /\ UNCHANGED guesses /\ OneUnlock
      /\ dev.tries \in Nat /\ guesses \in Nat /\ guesses <= dev.tries /\ guesses < MaxFailures
  BY ChargesFacts DEF GuessInv, Types, Devices
<1>1. CASE Ends(t) /\ dev'.tries = dev.tries
  <2>1. OneUnlock' /\ ~HoldsVault'
    BY <1>0, <1>1, GuessEnds
  <2> QED
    BY <1>0, <1>1, <2>1 DEF GuessInv
<1>2. CASE /\ dev'.tries = dev.tries + 1
           /\ \E u : u.kind = "unlock" /\ u.at = "decrypt" /\ tasks' = (tasks \ {t}) \cup {u}
  <2>1. OneUnlock'
    BY <1>0, <1>2, GuessGoes
  <2>2. guesses' <= dev'.tries /\ guesses' < MaxFailures /\ guesses' < dev'.tries
    BY <1>0, <1>2
  <2> QED
    BY <2>1, <2>2 DEF GuessInv
<1> QED
  BY <1>1, <1>2, ChargesFacts

LEMMA GuessDecrypts ==
  ASSUME Types, GuessInv, NEW t \in tasks, Decrypts(t)
  PROVE  GuessInv'
<1>0. /\ t.kind = "unlock" /\ t.at = "decrypt" /\ OneUnlock
      /\ dev.tries \in Nat /\ guesses \in Nat /\ MaxFailures \in Nat \ {0}
  BY DecryptsFacts, VaultAssumption DEF GuessInv, Types, Devices
<1>1. guesses < dev.tries
  BY <1>0 DEF GuessInv, HoldsVault, Kind
<1>2. CASE /\ guesses' = 0 /\ dev'.tries = 0
           /\ \E u : u.kind = "unlock" /\ u.at \in Holders /\ tasks' = (tasks \ {t}) \cup {u}
  <2>1. PICK u : u.kind = "unlock" /\ u.at \in Holders /\ tasks' = (tasks \ {t}) \cup {u}
    BY <1>2
  <2>2. u.at # "decrypt"
    BY <2>1 DEF Holders
  <2>3. OneUnlock' /\ ~HoldsVault'
    BY <1>0, <2>1, <2>2, GuessGoes
  <2> QED
    BY <1>0, <1>2, <2>3 DEF GuessInv
<1>3. CASE dev.tries < MaxFailures /\ UNCHANGED dev /\ guesses' = guesses + 1 /\ Ends(t)
  <2>1. OneUnlock' /\ ~HoldsVault'
    BY <1>0, <1>3, GuessEnds
  <2>2. guesses' <= dev'.tries /\ guesses' < MaxFailures
    BY <1>0, <1>1, <1>3
  <2> QED
    BY <2>1, <2>2 DEF GuessInv
<1>4. CASE guesses' = 0 /\ Ends(t) /\ dev'.tries = 0
  <2>1. OneUnlock' /\ ~HoldsVault'
    BY <1>0, <1>4, GuessEnds
  <2> QED
    BY <1>0, <1>4, <2>1 DEF GuessInv
<1> QED
  BY <1>2, <1>3, <1>4, DecryptsFacts

LEMMA GuessSetsPin ==
  ASSUME Types, GuessInv, SetsPin
  PROVE  GuessInv'
<1>0. /\ dev'.tries = dev.tries /\ guesses' = 0
      /\ dev.tries \in Nat /\ guesses \in Nat /\ MaxFailures \in Nat \ {0}
  BY SetsPinFacts, VaultAssumption DEF Types, Devices
<1>1. \A u \in tasks' : u.kind = "unlock" => u \in tasks
  BY SetsPinFacts
<1>2. OneUnlock' /\ (HoldsVault' => HoldsVault)
  BY <1>1 DEF GuessInv, OneUnlock, HoldsVault, Kind
<1>3. HoldsVault' => guesses' < dev'.tries
  BY <1>0, <1>2 DEF GuessInv
<1> QED
  BY <1>0, <1>2, <1>3 DEF GuessInv

LEMMA GuessEndsSessions ==
  ASSUME Types, GuessInv, NEW revokes \in BOOLEAN, EndsSessions(revokes)
  PROVE  GuessInv'
<1>0. dev'.tries = dev.tries /\ UNCHANGED guesses /\ tasks' = Killed(tasks)
  BY EndsSessionsFacts
<1>1. \A u \in tasks' : \E t \in tasks :
        /\ u.kind = t.kind /\ u.at = t.at
        /\ u = [t EXCEPT !.tok = IF @ = "good" THEN "dead" ELSE @]
  BY <1>0, KilledFacts DEF Follows
<1>2. OneUnlock'
  <2> SUFFICES ASSUME NEW u \in tasks', NEW v \in tasks', u.kind = "unlock", v.kind = "unlock"
               PROVE  u = v
    BY DEF OneUnlock, Kind
  <2>1. PICK t \in tasks : /\ u.kind = t.kind
                           /\ u = [t EXCEPT !.tok = IF @ = "good" THEN "dead" ELSE @]
    BY <1>1
  <2>2. PICK s \in tasks : /\ v.kind = s.kind
                           /\ v = [s EXCEPT !.tok = IF @ = "good" THEN "dead" ELSE @]
    BY <1>1
  <2>3. s = t
    BY <2>1, <2>2 DEF GuessInv, OneUnlock, Kind
  <2> QED
    BY <2>1, <2>2, <2>3
<1>3. HoldsVault' => HoldsVault
  BY <1>1 DEF HoldsVault, Kind
<1> QED
  BY <1>0, <1>2, <1>3 DEF GuessInv

LEMMA GuessStep ==
  ASSUME Types, GuessInv, [Next]_vars
  PROVE  GuessInv'
<1>0. ASSUME Still PROVE GuessInv'
  BY <1>0, GuessKept DEF Still
<1>1. CASE BootStarts
  BY <1>0, <1>1, BootStartsStill
<1>2. ASSUME NEW t \in tasks, Steps(t)
      PROVE  GuessInv'
  <2>1. CASE BootAsks(t)
    BY <1>0, <2>1, BootAsksStill
  <2>2. CASE BootFinds(t)
    BY <1>0, <2>2, BootFindsStill
  <2>3. CASE BootScans(t)
    BY <1>0, <2>3, BootScansStill
  <2>4. CASE BootResumes(t)
    <3>1. t.kind = "boot"
      BY <2>4 DEF BootResumes
    <3>2. CASE Goto(t, "resumed") /\ UNCHANGED <<dev, up, left, since, hurt, guesses>>
      <4>1. \A u \in tasks' : u.kind = "unlock" => u \in tasks
        BY <3>1, <3>2, ResumedFacts
      <4> QED
        BY <3>2, <4>1, GuessKept
    <3> QED
      BY <1>0, <2>4, <3>2, BootResumesStill
  <2>5. CASE BootHasIdentity(t)
    BY <2>5, BootHasIdentityOpens, GuessOpens
  <2>6. CASE SignsIn(t)
    BY <1>0, <2>6, SignsInOpens, GuessOpens
  <2>7. CASE Uploads(t)
    BY <1>0, <2>7, UploadsOpens, GuessOpens
  <2>8. CASE Hydrates(t)
    BY <2>8, HydratesOpens, GuessOpens
  <2>9. CASE Charges(t)
    BY <2>9, GuessCharges
  <2>10. CASE Decrypts(t)
    BY <2>10, GuessDecrypts
  <2>11. CASE Rotates(t)
    <3>1. dev'.tries = dev.tries /\ UNCHANGED guesses /\ Ends(t)
      BY <2>11, RotatesFacts
    <3> QED
      BY <3>1, GuessKept DEF Ends
  <2>12. CASE LogoutGoesOn(t)
    <3>1. dev'.tries = dev.tries /\ UNCHANGED guesses
      BY <2>12, LogoutFacts
    <3>2. \A u \in tasks' : u.kind = "unlock" => u \in tasks
      BY <2>12, LogoutFacts DEF Ends
    <3> QED
      BY <3>1, <3>2, GuessKept
  <2>13. CASE CheckAnswers(t)
    BY <1>0, <2>13, CheckAnswersFacts, GuessFresh
  <2> QED
    BY <1>2, <2>1, <2>2, <2>3, <2>4, <2>5, <2>6, <2>7, <2>8, <2>9, <2>10, <2>11, <2>12, <2>13
       DEF Steps
<1>3. CASE Background
  <2>1. CASE SealLands
    BY <2>1, SealFacts, GuessKept
  <2>2. CASE WipeLands
    BY <2>2, WipeFacts, GuessKept
  <2>3. CASE DropLands
    <3>1. UNCHANGED tasks /\ ~HoldsVault /\ guesses' = 0 /\ dev'.tries = 0
      BY <2>3, DropFacts
    <3>2. OneUnlock' /\ ~HoldsVault'
      BY <3>1 DEF GuessInv, OneUnlock, HoldsVault, Kind
    <3> QED
      BY <3>1, <3>2, VaultAssumption DEF GuessInv
  <2> QED
    BY <1>3, <2>1, <2>2, <2>3 DEF Background
<1>4. CASE User
  <2>1. ASSUME NEW right \in BOOLEAN, EntersPin(right) PROVE GuessInv'
    <3>1. UNCHANGED <<dev, guesses>> /\ Kind("unlock") = {}
      BY <2>1, EntersPinFacts
    <3>2. PICK u : u.kind = "unlock" /\ u.at = "charge" /\ tasks' = tasks \cup {u}
      BY <2>1, EntersPinFacts
    <3>3. Kind("unlock")' = {u}
      BY <3>1, <3>2 DEF Kind
    <3>4. OneUnlock' /\ ~HoldsVault'
      BY <3>2, <3>3 DEF OneUnlock, HoldsVault
    <3> QED
      BY <3>1, <3>4 DEF GuessInv
  <2>2. CASE EntersPhrase
    BY <2>2, EntersPhraseFacts, GuessKept
  <2>3. CASE GoesBackToPin
    BY <1>0, <2>3, GoesBackToPinStill
  <2>4. CASE SetsPin
    BY <2>4, GuessSetsPin
  <2>5. CASE ChangesPolicy
    BY <2>5, ChangesPolicyFacts, GuessKept
  <2>6. CASE LockVault
    BY <2>6, LocksFacts, GuessKept DEF Tame
  <2>7. CASE LogsOut
    <3>1. dev'.tries = dev.tries /\ UNCHANGED guesses
      BY <2>7, LogsOutFacts DEF Same
    <3>2. \A u \in tasks' : u.kind = "unlock" => u \in tasks
      BY <2>7, LogsOutFacts
    <3> QED
      BY <3>1, <3>2, GuessKept
  <2>8. ASSUME NEW closed \in BOOLEAN, Reloads(closed) PROVE GuessInv'
    BY <2>8, ReloadsFacts, GuessFresh
  <2> QED
    BY <1>4, <2>1, <2>2, <2>3, <2>4, <2>5, <2>6, <2>7, <2>8 DEF User
<1>5. CASE TimeoutLocks
  BY <1>5, LocksFacts, GuessKept DEF Tame
<1>6. CASE Reauth
  <2>1. UNCHANGED <<dev, guesses>>
    BY <1>6, ReauthFacts
  <2>2. \A u \in tasks' : u.kind = "unlock" => u \in tasks
    BY <1>6, ReauthFacts
  <2> QED
    BY <2>1, <2>2, GuessKept
<1>7. CASE World
  <2>1. CASE DeadlinePasses
    BY <2>1, DeadlinePassesFacts, GuessKept DEF Tame
  <2>2. CASE InputComesFirst
    BY <2>2, InputFacts, GuessKept
  <2>3. CASE HandleAuthInvalid
    BY <1>0, <2>3, HandleAuthInvalidStill
  <2>4. ASSUME NEW revokes \in BOOLEAN, EndsSessions(revokes) PROVE GuessInv'
    BY <2>4, GuessEndsSessions
  <2>5. CASE OnVisible
    BY <1>0, <2>5, OnVisibleStill
  <2>6. CASE GoesDown \/ ComesUp
    BY <1>0, <2>6, OutageStill
  <2> QED
    BY <1>7, <2>1, <2>2, <2>3, <2>4, <2>5, <2>6 DEF World
<1>8. CASE UNCHANGED vars
  BY <1>0, <1>8, StutterStill
<1> QED
  BY <1>1, <1>2, <1>3, <1>4, <1>5, <1>6, <1>7, <1>8 DEF Next

\* Every wrong PIN tried on the vault has been charged, and never more than
\* MAX_PIN_FAILURES are tried, whatever is reloaded, locked, revoked or deleted between the
\* charge and the attempt (unlockVault).
THEOREM PinsAreCharged == Spec => []GuessesAreCharged
<1>1. Init => GuessInv
  BY VaultAssumption DEF Init, GuessInv, OneUnlock, HoldsVault, Kind, Stored
<1>2. Types /\ GuessInv /\ [Next]_vars => GuessInv'
  BY GuessStep
<1>3. GuessInv => GuessesAreCharged
  BY DEF GuessInv, GuessesAreCharged
<1> QED
  BY <1>1, <1>2, <1>3, VaultTypes, PTL DEF Spec

-----------------------------------------------------------------------------
(* Told that it is revoked, a device stays so                                *)

LEMMA RevokedKept ==
  ASSUME RevokedInv, "revoked" \in since' => "revoked" \in since, hurt \subseteq hurt',
         dev.tomb = "revoked" => dev'.tomb = "revoked", dev'.key => dev.key,
         dev.jwt = "none" => dev'.jwt = "none",
         dev'.blob => dev.blob /\ (dev.dropping => dev'.dropping),
         \A u \in tasks' : WillUnlock(u) => \E t \in tasks : WillUnlock(t)
  PROVE  RevokedInv'
<1> SUFFICES ASSUME ("revoked" \in since)', ("revoking" \notin hurt)'
             PROVE  /\ dev'.tomb = "revoked" /\ ~dev'.key /\ dev'.jwt = "none"
                    /\ \A t \in tasks' : ~WillUnlock(t)
                    /\ dev'.blob => dev'.dropping \/ hurt' \cap {"dropped", "nameless"} # {}
  BY DEF RevokedInv, WillUnlock
<1> QED
  BY DEF RevokedInv

LEMMA RevokedTame ==
  ASSUME Types, RevokedInv, "revoked" \in since' => "revoked" \in since, hurt \subseteq hurt',
         Tame(dev, dev'),
         \A u \in tasks' : WillUnlock(u) => \E t \in tasks : WillUnlock(t)
  PROVE  RevokedInv'
<1>1. /\ dev.tomb = "revoked" => dev'.tomb = "revoked"
      /\ dev'.key => dev.key
      /\ dev.jwt = "none" => dev'.jwt = "none"
      /\ dev'.blob => dev.blob /\ (dev.dropping => dev'.dropping)
  BY DEF Tame
<1> QED
  BY <1>1, RevokedKept

LEMMA RevokedVacuous ==
  ASSUME RevokedInv, NEW t \in tasks, WillUnlock(t),
         "revoked" \in since' => "revoked" \in since, "revoking" \in hurt => "revoking" \in hurt'
  PROVE  RevokedInv'
BY DEF RevokedInv

LEMMA RevokedOpens ==
  ASSUME Types, RevokedInv, NEW t \in tasks, Opens(t)
  PROVE  RevokedInv'
<1>1. WillUnlock(t)
  BY DEF Types, Placed, Opens
<1> QED
  BY <1>1, RevokedVacuous DEF Opens

\* The one way to become revoked while the tab stays.
LEMMA RevokedTold ==
  ASSUME Types, RevokedInv, TellRevoked(dev'), Tame(dev, dev'),
         dev'.tomb = "revoked" =>
           ~dev'.key /\ dev'.jwt = "none" /\ (Named(dev) => dev'.dropping),
         \A u \in tasks' : WillUnlock(u) => \E t \in tasks : WillUnlock(t)
  PROVE  RevokedInv'
<1>1. CASE UNCHANGED <<since, hurt>>
  BY <1>1, RevokedTame
<1>2. CASE /\ dev'.tomb = "revoked" /\ dev.tomb # "revoked"
           /\ since' = since \cup {"revoked"}
           /\ hurt' = hurt \cup (IF Racing' # {} THEN {"revoking"} ELSE {})
                           \cup (IF Named(dev) THEN {} ELSE {"nameless"})
  <2> SUFFICES ASSUME "revoking" \notin hurt'
               PROVE  /\ dev'.tomb = "revoked" /\ ~dev'.key /\ dev'.jwt = "none"
                      /\ \A t \in tasks' : ~WillUnlock(t)
                      /\ dev'.blob => dev'.dropping \/ hurt' \cap {"dropped", "nameless"} # {}
    BY DEF RevokedInv, WillUnlock
  <2>1. Racing' = {}
    BY <1>2
  <2>2. \A t \in tasks' : ~WillUnlock(t)
    BY <2>1 DEF Racing, WillUnlock
  <2>3. dev'.blob => dev'.dropping \/ hurt' \cap {"dropped", "nameless"} # {}
    BY <1>2
  <2> QED
    BY <1>2, <2>2, <2>3
<1> QED
  BY <1>1, <1>2 DEF TellRevoked

LEMMA RevokedBootStarts ==
  ASSUME Types, RevokedInv, BootStarts
  PROVE  RevokedInv'
<1>1. UNCHANGED <<since, hurt>>
  BY DEF BootStarts, History
<1>2. Tame(dev, dev')
  BY BootStartsStill
<1> SUFFICES ASSUME "revoked" \in since, "revoking" \notin hurt
             PROVE  \A u \in tasks' : WillUnlock(u) => \E t \in tasks : WillUnlock(t)
  BY <1>1, <1>2, RevokedTame DEF RevokedInv
<1>3. dev.tomb = "revoked" /\ dev.jwt = "none"
  BY DEF RevokedInv
<1> DEFINE x == [dev EXCEPT !.rerun = FALSE]
<1>4. x.jwt = "none" /\ x.tomb = "revoked"
  BY <1>3 DEF Types, Devices
<1>5. tasks' = CancelBoot
  <2> HIDE DEF x
  <2>1. \/ x.jwt # "none"
        \/ tasks' = CancelBoot
        \/ x.tomb \in {"none", "invalid"}
        \/ x.tomb # "revoked"
    BY DEF BootStarts, x
  <2> QED
    BY <1>4, <2>1
<1> QED
  BY <1>5, CancelFacts DEF Follows, WillUnlock

LEMMA RevokedBootAsks ==
  ASSUME Types, RevokedInv, NEW t \in tasks, BootAsks(t)
  PROVE  RevokedInv'
<1>0. dev \in Devices /\ WillUnlock(t)
  BY DEF Types, BootAsks, WillUnlock
<1>1. CASE UNCHANGED <<since, hurt>>
  BY <1>0, <1>1, RevokedVacuous
<1>2. CASE /\ dev' = Loaded(Invalidated(Invalidated(dev, Told(dev)), "invalid"), t)
           /\ Ends(t) /\ TellRevoked(dev')
  <2> DEFINE y == Invalidated(Invalidated(dev, Told(dev)), "invalid")
  <2>1. /\ Tame(dev, y) /\ ~y.key /\ y.jwt = "none"
        /\ y.tomb = "revoked" /\ Named(dev) => y.dropping
    BY <1>0, ToldTame
  <2>2. dev' = Loaded(y, t)
    BY <1>2
  <2> HIDE DEF y
  <2>3. Tame(dev, dev')
    BY <1>0, <2>1, <2>2, ThenLoaded
  <2>4. y \in Devices
    BY <2>1 DEF Tame
  <2>5. Same(y, dev')
    BY <2>2, <2>4, LoadedSame
  <2>6. dev'.tomb = "revoked" =>
          ~dev'.key /\ dev'.jwt = "none" /\ (Named(dev) => dev'.dropping)
    BY <2>1, <2>5 DEF Same
  <2>7. \A u \in tasks' : WillUnlock(u) => \E v \in tasks : WillUnlock(v)
    BY <1>0
  <2> QED
    BY <1>2, <2>3, <2>6, <2>7, RevokedTold
<1> QED
  BY <1>1, <1>2 DEF BootAsks

LEMMA RevokedSignInFails ==
  ASSUME Types, RevokedInv, NEW t \in tasks, t.at \in Holders, NEW why, SignInFails(t, why)
  PROVE  RevokedInv'
<1>0. dev \in Devices /\ WillUnlock(t)
  BY DEF Types, Placed
<1>1. CASE UNCHANGED <<since, hurt>>
  BY <1>0, <1>1, RevokedVacuous
<1>2. CASE dev' = Invalidated(dev, "invalid") /\ Ends(t) /\ TellRevoked(dev')
  <2>1. /\ Tame(dev, dev') /\ ~dev'.key /\ dev'.jwt = "none"
        /\ dev'.tomb = "revoked" /\ Named(dev) => dev'.dropping
    BY <1>0, <1>2, InvalidatedTame
  <2>2. \A u \in tasks' : WillUnlock(u) => \E v \in tasks : WillUnlock(v)
    BY <1>0
  <2>3. dev'.tomb = "revoked" =>
          ~dev'.key /\ dev'.jwt = "none" /\ (Named(dev) => dev'.dropping)
    BY <2>1
  <2> QED
    BY <1>2, <2>1, <2>2, <2>3, RevokedTold
<1> QED
  BY <1>1, <1>2 DEF SignInFails

LEMMA RevokedReloads ==
  ASSUME Types, RevokedInv, NEW closed \in BOOLEAN, Reloads(closed)
  PROVE  RevokedInv'
<1>0. /\ tasks' = {} /\ since' = since \cup Over(dev, closed) /\ hurt' = hurt \cup Unfinished
  BY ReloadsFacts
<1>1. PICK y \in Devices : Tame(dev, y) /\ dev' = FreshTab(y)
  BY ReloadsFacts
<1>2. /\ dev'.blob = dev.blob /\ dev'.tomb = y.tomb /\ dev'.jwt = y.jwt /\ ~dev'.key
  <2>1. dev'.blob = y.blob /\ dev'.tomb = y.tomb /\ dev'.jwt = y.jwt /\ ~dev'.key
    BY <1>1, FreshTabFacts
  <2> QED
    BY <1>1, <2>1 DEF Tame
<1> SUFFICES ASSUME "revoked" \in since', "revoking" \notin hurt'
             PROVE  /\ dev'.tomb = "revoked" /\ ~dev'.key /\ dev'.jwt = "none"
                    /\ \A t \in tasks' : ~WillUnlock(t)
                    /\ dev'.blob => dev'.dropping \/ hurt' \cap {"dropped", "nameless"} # {}
  BY DEF RevokedInv, WillUnlock
<1>3. "revoked" \in since /\ "revoking" \notin hurt
  BY <1>0 DEF Over
<1>4. /\ dev.tomb = "revoked" /\ dev.jwt = "none"
      /\ dev.blob => dev.dropping \/ hurt \cap {"dropped", "nameless"} # {}
  BY <1>3 DEF RevokedInv
<1>5. y.tomb = "revoked" /\ y.jwt = "none"
  BY <1>1, <1>4 DEF Tame
<1>6. dev.dropping => "dropped" \in hurt'
  BY <1>0 DEF Unfinished
<1>7. dev'.blob => hurt' \cap {"dropped", "nameless"} # {}
  BY <1>0, <1>2, <1>4, <1>6
<1> QED
  BY <1>0, <1>2, <1>5, <1>7

LEMMA RevokedCheckAnswers ==
  ASSUME Types, RevokedInv, NEW t \in tasks, CheckAnswers(t)
  PROVE  RevokedInv'
<1>1. CASE Ends(t) /\ UNCHANGED <<dev, since, hurt>>
  <2>1. \A u \in tasks' : WillUnlock(u) => \E v \in tasks : WillUnlock(v)
    BY <1>1 DEF Ends
  <2> QED
    BY <1>1, <2>1, RevokedKept
<1>2. CASE /\ tasks' = {}
           /\ \E y \in Devices :
                /\ Tame(dev, y) /\ dev' = FreshTab(y) /\ y.jwt = "none"
                /\ since' = since \cup Over(y, FALSE)
                     \cup (IF y.tomb = "revoked" /\ dev.tomb # "revoked" THEN {"revoked"} ELSE {})
                /\ hurt' = hurt \cup Unfinished
                     \cup (IF y.tomb = "revoked" /\ dev.tomb # "revoked" THEN {"dropped"} ELSE {})
  <2>1. PICK y \in Devices :
          /\ Tame(dev, y) /\ dev' = FreshTab(y) /\ y.jwt = "none"
          /\ since' = since \cup Over(y, FALSE)
               \cup (IF y.tomb = "revoked" /\ dev.tomb # "revoked" THEN {"revoked"} ELSE {})
          /\ hurt' = hurt \cup Unfinished
               \cup (IF y.tomb = "revoked" /\ dev.tomb # "revoked" THEN {"dropped"} ELSE {})
    BY <1>2
  <2>2. /\ dev'.blob = dev.blob /\ dev'.tomb = y.tomb /\ dev'.jwt = "none" /\ ~dev'.key
    <3>1. dev'.blob = y.blob /\ dev'.tomb = y.tomb /\ dev'.jwt = y.jwt /\ ~dev'.key
      BY <2>1, FreshTabFacts
    <3> QED
      BY <2>1, <3>1 DEF Tame
  <2> SUFFICES ASSUME "revoked" \in since', "revoking" \notin hurt'
               PROVE  /\ dev'.tomb = "revoked" /\ ~dev'.key /\ dev'.jwt = "none"
                      /\ \A u \in tasks' : ~WillUnlock(u)
                      /\ dev'.blob => dev'.dropping \/ hurt' \cap {"dropped", "nameless"} # {}
    BY DEF RevokedInv, WillUnlock
  <2>3. CASE "revoked" \in since
    <3>1. /\ dev.tomb = "revoked"
          /\ dev.blob => dev.dropping \/ hurt \cap {"dropped", "nameless"} # {}
      BY <2>1, <2>3 DEF RevokedInv
    <3>2. y.tomb = "revoked"
      BY <2>1, <3>1 DEF Tame
    <3>3. dev.dropping => "dropped" \in hurt'
      BY <2>1 DEF Unfinished
    <3>4. dev'.blob => hurt' \cap {"dropped", "nameless"} # {}
      BY <2>1, <2>2, <3>1, <3>3
    <3> QED
      BY <1>2, <2>2, <3>2, <3>4
  <2>4. CASE "revoked" \notin since
    <3>1. y.tomb = "revoked" /\ dev.tomb # "revoked"
      BY <2>1, <2>4 DEF Over
    <3>2. "dropped" \in hurt'
      BY <2>1, <3>1
    <3> QED
      BY <1>2, <2>2, <3>1, <3>2
  <2> QED
    BY <2>3, <2>4
<1> QED
  BY <1>1, <1>2, CheckAnswersFacts

LEMMA RevokedLogout ==
  ASSUME Types, RevokedInv, NEW t \in tasks, LogoutGoesOn(t)
  PROVE  RevokedInv'
<1>1. CASE "revoked" \notin since'
  BY <1>1 DEF RevokedInv
<1>2. CASE /\ Tame(dev, dev') /\ since' = since /\ hurt \subseteq hurt'
           /\ \A u \in tasks' : u \in tasks \/ u.kind = "logout"
  <2>1. \A u \in tasks' : WillUnlock(u) => \E v \in tasks : WillUnlock(v)
    BY <1>2 DEF WillUnlock
  <2> QED
    BY <1>2, <2>1, RevokedTame
<1>3. \/ "revoked" \notin since'
      \/ /\ Tame(dev, dev') /\ since' = since /\ hurt \subseteq hurt'
         /\ \A u \in tasks' : u \in tasks \/ u.kind = "logout"
  BY LogoutFacts DEF Ends
<1> QED
  BY <1>1, <1>2, <1>3

LEMMA RevokedStep ==
  ASSUME Types, RevokedInv, [Next]_vars
  PROVE  RevokedInv'
<1>0. ASSUME "revoked" \in since => dev.key, "revoked" \in since' => "revoked" \in since,
             "revoking" \in hurt => "revoking" \in hurt'
      PROVE  RevokedInv'
  BY <1>0 DEF RevokedInv
<1>1. CASE BootStarts
  BY <1>1, RevokedBootStarts
<1>2. ASSUME NEW t \in tasks, Steps(t)
      PROVE  RevokedInv'
  <2>0. ASSUME t.kind \in {"boot", "unlock"}, UNCHANGED <<since, hurt>> PROVE RevokedInv'
    <3>1. WillUnlock(t)
      BY <2>0 DEF WillUnlock
    <3> QED
      BY <2>0, <3>1, RevokedVacuous
  <2>1. CASE BootAsks(t)
    BY <2>1, RevokedBootAsks
  <2>2. CASE BootFinds(t)
    BY <2>0, <2>2 DEF BootFinds, History
  <2>3. CASE BootScans(t)
    BY <2>0, <2>3 DEF BootScans, History
  <2>4. CASE BootResumes(t)
    BY <2>0, <2>4 DEF BootResumes, History
  <2>5. CASE BootHasIdentity(t)
    BY <2>0, <2>5 DEF BootHasIdentity, History
  <2>6. CASE SignsIn(t)
    <3>1. t.at \in Holders
      BY <2>6 DEF SignsIn, Holders
    <3>2. CASE \E why \in {"away", "refused", "unknown"} : SignInFails(t, why)
      BY <3>1, <3>2, RevokedSignInFails
    <3>3. CASE UNCHANGED <<since, hurt>>
      <4>1. WillUnlock(t)
        BY <3>1 DEF Types, Placed
      <4> QED
        BY <3>3, <4>1, RevokedVacuous
    <3> QED
      BY <2>6, <3>2, <3>3 DEF SignsIn
  <2>7. CASE Uploads(t)
    <3>1. t.at \in Holders
      BY <2>7 DEF Uploads, Holders
    <3>2. CASE SignInFails(t, "away")
      BY <3>1, <3>2, RevokedSignInFails
    <3>3. CASE UNCHANGED <<since, hurt>>
      <4>1. WillUnlock(t)
        BY <3>1 DEF Types, Placed
      <4> QED
        BY <3>3, <4>1, RevokedVacuous
    <3> QED
      BY <2>7, <3>2, <3>3 DEF Uploads
  <2>8. CASE Hydrates(t)
    BY <2>8, HydratesOpens, RevokedOpens
  <2>9. CASE Charges(t)
    BY <2>0, <2>9 DEF Charges, History
  <2>10. CASE Decrypts(t)
    <3>1. WillUnlock(t)
      BY <2>10 DEF Decrypts, WillUnlock
    <3>2. /\ "revoked" \in since' => "revoked" \in since
          /\ "revoking" \in hurt => "revoking" \in hurt'
      BY <2>10 DEF Decrypts
    <3> QED
      BY <3>1, <3>2, RevokedVacuous
  <2>11. CASE Rotates(t)
    <3>1. \A u \in tasks' : WillUnlock(u) => \E v \in tasks : WillUnlock(v)
      BY <2>11, RotatesFacts DEF Ends
    <3> QED
      BY <2>11, <3>1, RotatesFacts, RevokedKept
  <2>12. CASE LogoutGoesOn(t)
    BY <2>12, RevokedLogout
  <2>13. CASE CheckAnswers(t)
    BY <2>13, RevokedCheckAnswers
  <2> QED
    BY <1>2, <2>1, <2>2, <2>3, <2>4, <2>5, <2>6, <2>7, <2>8, <2>9, <2>10, <2>11, <2>12, <2>13
       DEF Steps
<1>3. ASSUME UNCHANGED tasks
      PROVE  \A u \in tasks' : WillUnlock(u) => \E t \in tasks : WillUnlock(t)
  BY <1>3
<1>4. CASE Background
  <2>1. CASE SealLands
    BY <1>3, <2>1, SealFacts, RevokedKept
  <2>2. CASE WipeLands
    BY <1>3, <2>2, WipeFacts, RevokedKept
  <2>3. CASE DropLands
    BY <1>3, <2>3, DropFacts, RevokedKept
  <2> QED
    BY <1>4, <2>1, <2>2, <2>3 DEF Background
<1>5. CASE User
  <2>1. ASSUME NEW right \in BOOLEAN, EntersPin(right) PROVE RevokedInv'
    BY <2>1, EntersPinFacts DEF RevokedInv
  <2>2. CASE EntersPhrase
    BY <2>2, EntersPhraseFacts DEF RevokedInv
  <2>3. CASE GoesBackToPin
    BY <2>3 DEF GoesBackToPin, RevokedInv
  <2>4. CASE SetsPin
    BY <1>0, <2>4, SetsPinFacts
  <2>5. CASE ChangesPolicy
    BY <1>0, <2>5, ChangesPolicyFacts
  <2>6. CASE LockVault
    BY <1>3, <2>6, LocksFacts, RevokedTame
  <2>7. CASE LogsOut
    <3>1. \A u \in tasks' : WillUnlock(u) => \E v \in tasks : WillUnlock(v)
      BY <2>7, LogsOutFacts DEF WillUnlock
    <3> QED
      BY <2>7, <3>1, LogsOutFacts, RevokedKept DEF Same
  <2>8. ASSUME NEW closed \in BOOLEAN, Reloads(closed) PROVE RevokedInv'
    BY <2>8, RevokedReloads
  <2> QED
    BY <1>5, <2>1, <2>2, <2>3, <2>4, <2>5, <2>6, <2>7, <2>8 DEF User
<1>6. CASE TimeoutLocks
  BY <1>3, <1>6, LocksFacts, RevokedTame
<1>7. CASE Reauth
  BY <1>0, <1>7, ReauthFacts
<1>8. CASE World
  <2>1. CASE DeadlinePasses
    BY <1>3, <2>1, DeadlinePassesFacts, RevokedTame
  <2>2. CASE InputComesFirst
    BY <1>3, <2>2, InputFacts, RevokedKept
  <2>3. CASE HandleAuthInvalid
    <3>1. /\ dev \in Devices /\ dev' = Invalidated(dev, Told(dev)) /\ UNCHANGED tasks
          /\ TellRevoked(dev')
      BY <2>3 DEF Types, HandleAuthInvalid
    <3>2. /\ Tame(dev, dev') /\ ~dev'.key /\ dev'.jwt = "none"
          /\ dev'.tomb = "revoked" /\ Named(dev) => dev'.dropping
      BY <3>1, InvalidatedTame
    <3>3. dev'.tomb = "revoked" =>
            ~dev'.key /\ dev'.jwt = "none" /\ (Named(dev) => dev'.dropping)
      BY <3>2
    <3> QED
      BY <1>3, <3>1, <3>2, <3>3, RevokedTold
  <2>4. ASSUME NEW revokes \in BOOLEAN, EndsSessions(revokes) PROVE RevokedInv'
    <3>1. /\ UNCHANGED <<since, hurt>> /\ tasks' = Killed(tasks)
          /\ dev'.tomb = dev.tomb
          /\ dev.jwt = "none" => dev'.jwt = "none"
          /\ dev'.dropping = dev.dropping
      BY <2>4, EndsSessionsFacts
    <3>2. (dev'.blob => dev.blob) /\ (dev'.key => dev.key)
      BY <2>4, EndsSessionsFacts DEF Quiet, Shuts
    <3>3. \A u \in tasks' : WillUnlock(u) => \E t \in tasks : WillUnlock(t)
      BY <3>1, KilledFacts DEF Follows, WillUnlock
    <3> QED
      BY <3>1, <3>2, <3>3, RevokedKept
  <2>5. CASE OnVisible
    <3>1. UNCHANGED <<dev, since, hurt>> /\ tasks' = tasks \cup {Task("check", "me", dev.jwt)}
      BY <2>5 DEF OnVisible, History
    <3>2. \A u \in tasks' : WillUnlock(u) => \E t \in tasks : WillUnlock(t)
      BY <3>1 DEF Task, WillUnlock
    <3> QED
      BY <3>1, <3>2, RevokedKept
  <2>6. CASE GoesDown \/ ComesUp
    <3>1. UNCHANGED <<dev, since, hurt, tasks>>
      BY <2>6 DEF GoesDown, ComesUp, History
    <3> QED
      BY <1>3, <3>1, RevokedKept
  <2> QED
    BY <1>8, <2>1, <2>2, <2>3, <2>4, <2>5, <2>6 DEF World
<1>9. CASE UNCHANGED vars
  BY <1>3, <1>9, RevokedKept DEF vars
<1> QED
  BY <1>1, <1>2, <1>4, <1>5, <1>6, <1>7, <1>8, <1>9 DEF Next

\* Once the device has been told that it is revoked, the tombstone stays, no identity is in
\* memory and the vault is gone or being deleted, until the user gives the phrase, dismisses
\* the notice or has logged out (destroyRevokedDeviceLocalState), the named races aside.
THEOREM RevocationHolds == Spec => []RevocationSticks
<1>1. Init => RevokedInv
  BY DEF Init, RevokedInv
<1>2. Types /\ RevokedInv /\ [Next]_vars => RevokedInv'
  BY RevokedStep
<1>3. RevokedInv => RevocationSticks
  BY DEF RevokedInv, RevocationSticks
<1> QED
  BY <1>1, <1>2, <1>3, VaultTypes, PTL DEF Spec

-----------------------------------------------------------------------------
(* A vault that was closed stays closed                                      *)

LEMMA ClosedOpens ==
  ASSUME Types, ClosedInv, NEW t \in tasks, Opens(t)
  PROVE  ClosedInv'
<1> SUFFICES ASSUME Closed' PROVE Leaving'
  BY DEF ClosedInv
<1>1. Closed
  BY DEF Closed, Opens
<1>2. Leaving
  BY <1>1 DEF ClosedInv, Shut, Opens
<1>3. WillUnlock(t)
  BY DEF Types, Placed, Opens
<1>4. t.kind \notin {"logout", "recover", "register"}
  BY <1>2, <1>3 DEF Leaving, Kind, WillUnlock
<1>5. \A u \in tasks' : u \in tasks \/ u.kind = t.kind
  BY DEF Opens, Ends
<1>6. \A u \in tasks : u.kind = "logout" => u \in tasks'
  BY <1>4 DEF Opens, Ends
<1>7. Kind("logout")' = Kind("logout")
  BY <1>4, <1>5, <1>6 DEF Kind
<1>8. (Kind("recover") \cup Kind("register"))' = {}
  BY <1>2, <1>4, <1>5 DEF Leaving, Kind
<1>9. /\ dev'.setup => dev.setup
      /\ dev'.blob = dev.blob /\ dev'.dropping = dev.dropping /\ since' = since
  BY <1>4 DEF Opens
<1> QED
  BY <1>2, <1>7, <1>8, <1>9 DEF Leaving

\* The session record of a closed vault is not given to a boot that asks for it.
LEMMA ClosedResumed ==
  ASSUME Types, ClosedInv, NEW t \in tasks, t.kind = "boot", t.at = "resume",
         Allowed, dev.wiping = 0, dev.seal, Goto(t, "resumed"),
         UNCHANGED <<dev, up, left, since, hurt, guesses>>
  PROVE  ClosedInv'
<1> SUFFICES ASSUME Closed' PROVE Leaving'
  BY DEF ClosedInv
<1>1. Closed
  BY DEF Closed
<1>2. ~NoRecord /\ ~NoVault
  BY DEF Allowed, NoRecord, NoVault
<1>3. Leaving
  BY <1>1, <1>2 DEF ClosedInv, Shut
<1>4. PICK u : u.kind = "boot" /\ tasks' = (tasks \ {t}) \cup {u}
  BY ResumedFacts
<1>5. Kind("logout")' = Kind("logout") /\ (Kind("recover") \cup Kind("register"))' = {}
  BY <1>3, <1>4 DEF Leaving, Kind
<1> QED
  BY <1>3, <1>5 DEF Leaving

\* What is still to be written, or about to be, is written on a vault that is gone.
LEMMA ClosedWritten ==
  ASSUME Types, ClosedInv, Calm, tasks' \subseteq tasks, UNCHANGED <<since, hurt>>,
         ~NoneToCome, dev'.key = dev.key, dev'.setup = dev.setup, dev'.blob = dev.blob,
         dev'.dropping = dev.dropping
  PROVE  ClosedInv'
<1> SUFFICES ASSUME Closed' PROVE Shut' \/ Leaving'
  BY DEF ClosedInv
<1>1. Closed
  BY DEF Closed
<1>2. CASE Shut
  <2>1. NoVault /\ ~dev.key /\ \A t \in tasks : t.at \notin Holders
    BY <1>2 DEF Shut
  <2>2. NoVault'
    BY <2>1 DEF NoVault
  <2>3. ~dev'.key /\ \A t \in tasks' : t.at \notin Holders
    BY <2>1
  <2> QED
    BY <2>2, <2>3 DEF Shut
<1>3. CASE Leaving
  <2>1. "lock" \in since'
    BY <1>3 DEF Leaving
  <2> QED
    BY <1>3, <2>1, ShutsLeaving
<1> QED
  BY <1>1, <1>2, <1>3 DEF ClosedInv

LEMMA ClosedRotates ==
  ASSUME Types, ClosedInv, NEW t \in tasks, Rotates(t)
  PROVE  ClosedInv'
<1>1. ~NoneToCome
  BY DEF Rotates, NoneToCome, Kind
<1>2. tasks' \subseteq tasks
  BY DEF Rotates, Ends
<1> QED
  BY <1>1, <1>2, RotatesFacts, ClosedWritten

LEMMA ClosedSeals ==
  ASSUME Types, ClosedInv, SealLands
  PROVE  ClosedInv'
<1>1. ~NoneToCome
  BY SealFacts DEF NoneToCome, Types, Devices
<1>2. tasks' \subseteq tasks
  BY SealFacts
<1> QED
  BY <1>1, <1>2, SealFacts, ClosedWritten

\* A lock, or the end of a session, with nothing under way that it could miss.
LEMMA ClosedAnew ==
  ASSUME Types, UNCHANGED tasks, ~dev'.key, dev'.sealing = dev.sealing, NoRecord',
         Racing = {}, Sealing = {}
  PROVE  Shut'
<1>1. \A t \in tasks : ~WillUnlock(t)
  BY DEF Racing
<1>2. \A t \in tasks' : t.at \notin Holders
  BY <1>1 DEF Types, Placed
<1>3. dev.sealing = 0 /\ Kind("rotate") = {}
  <2>1. dev.sealing \in Nat
    BY DEF Types, Devices
  <2> QED
    BY <2>1 DEF Sealing
<1>4. NoneToCome'
  BY <1>3 DEF NoneToCome, Kind
<1> QED
  BY <1>2, <1>4 DEF Shut

LEMMA ClosedLocks ==
  ASSUME Types, ClosedInv, LockVault \/ TimeoutLocks
  PROVE  ClosedInv'
<1>0. /\ UNCHANGED tasks /\ Tame(dev, dev') /\ ~dev'.key /\ dev'.wiping > 0
      /\ since' = since \cup {"lock"} /\ hurt' = hurt \cup Racing \cup Sealing
  BY LocksFacts
<1> SUFFICES ASSUME Closed' PROVE Shut'
  BY DEF ClosedInv
<1>1. Racing = {} /\ Sealing = {}
  BY <1>0 DEF Closed, Racing, Sealing
<1>2. NoRecord'
  BY <1>0 DEF NoRecord
<1>3. dev'.sealing = dev.sealing
  BY <1>0 DEF Tame
<1> QED
  BY <1>0, <1>1, <1>2, <1>3, ClosedAnew

LEMMA ClosedDeadline ==
  ASSUME Types, ClosedInv, DeadlinePasses
  PROVE  ClosedInv'
<1>0. Calm /\ UNCHANGED tasks /\ Tame(dev, dev')
  BY DeadlinePassesFacts
<1>1. CASE UNCHANGED <<since, hurt>>
  <2>1. Quiet
    BY <1>0, <1>1, TameShuts DEF Quiet
  <2> QED
    BY <2>1, QuietClosed
<1>2. CASE /\ dev'.policy = "minutes" /\ ~dev'.timer /\ ~dev'.key /\ dev'.dl = "past"
           /\ dev'.sealing = dev.sealing
           /\ Racing = {} /\ since' = since \cup {"ended"} /\ hurt' = hurt \cup Sealing
  <2> SUFFICES ASSUME Closed' PROVE Shut'
    BY DEF ClosedInv
  <2>1. Sealing = {}
    BY <1>2 DEF Closed, Sealing
  <2>2. NoRecord'
    BY <1>2 DEF NoRecord
  <2> QED
    BY <1>0, <1>2, <2>1, <2>2, ClosedAnew
<1> QED
  BY <1>1, <1>2, DeadlinePassesFacts

LEMMA ClosedLogsOut ==
  ASSUME Types, ClosedInv, LogsOut
  PROVE  ClosedInv'
<1>0. /\ Same(dev, dev') /\ ~dev.setup /\ Kind("logout") = {}
      /\ since' = since \cup {"lock"} /\ hurt' = hurt \cup Racing \cup Sealing
  BY LogsOutFacts
<1>1. PICK u : u.kind = "logout" /\ u.at = "ask" /\ tasks' = tasks \cup {u}
  BY LogsOutFacts
<1> SUFFICES ASSUME Closed' PROVE Leaving'
  BY DEF ClosedInv
<1>2. Racing = {}
  BY <1>0 DEF Closed, Racing
<1>3. \A t \in tasks : ~WillUnlock(t)
  BY <1>2 DEF Racing
<1>4. (Kind("recover") \cup Kind("register"))' = {}
  BY <1>1, <1>3 DEF Kind, WillUnlock
<1>5. Kind("logout")' = {u}
  BY <1>0, <1>1 DEF Kind
<1>6. ~dev'.setup /\ "lock" \in since'
  BY <1>0 DEF Same
<1> QED
  BY <1>1, <1>4, <1>5, <1>6 DEF Leaving

LEMMA ClosedLogout ==
  ASSUME Types, ClosedInv, NEW t \in tasks, LogoutGoesOn(t)
  PROVE  ClosedInv'
<1>0. t.kind = "logout" /\ Settles /\ Shuts(dev, dev') /\ hurt \subseteq hurt'
      /\ since' \in {since, since \ {"revoked"}}
  BY LogoutFacts
<1> SUFFICES ASSUME Closed' PROVE Shut' \/ Leaving'
  BY DEF ClosedInv
<1>1. Closed
  BY <1>0 DEF Closed
<1>2. CASE Shut
  BY <1>0, <1>2, ShutsKeeps
<1>3. CASE Leaving
  <2>0. /\ "lock" \in since' /\ ~dev'.setup
        /\ dev'.blob => dev.blob
        /\ dev.dropping => dev'.dropping
        /\ t.at # "ask" => (dev.blob => dev.dropping)
    BY <1>0, <1>3 DEF Leaving, Shuts, Kind
  <2>1. ASSUME t.at = "ask" => dev'.dropping, NEW at \in Stages,
               \E u : u.kind = "logout" /\ u.at = at /\ tasks' = (tasks \ {t}) \cup {u}
        PROVE  Leaving'
    <3>1. PICK u : u.kind = "logout" /\ u.at = at /\ tasks' = (tasks \ {t}) \cup {u}
      BY <2>1
    <3>2. u \in Kind("logout")' /\ (Kind("recover") \cup Kind("register"))' = {}
      BY <1>3, <3>1 DEF Leaving, Kind
    <3>3. dev'.blob => dev'.dropping
      BY <2>0, <2>1
    <3> QED
      BY <2>0, <3>2, <3>3 DEF Leaving
  <2>2. CASE t.at = "ask" /\ dev'.dropping
    BY <2>1, <2>2, LogoutFacts DEF Stages
  <2>3. CASE t.at = "wipe"
    BY <2>1, <2>3, LogoutFacts DEF Stages
  <2>4. CASE t.at = "reset" /\ ~dev'.key /\ hurt' = hurt \cup Racing /\ Ends(t)
    <3>1. Racing = {}
      BY <2>4 DEF Closed, Racing
    <3>2. \A u \in tasks' : u.at \notin Holders \cup {"resume"}
      BY <2>4, <3>1 DEF Racing, Ends, Types, Placed
    <3>3. NoVault'
      BY <2>0, <2>4, <3>2 DEF NoVault
    <3> QED
      BY <2>4, <3>2, <3>3 DEF Shut
  <2> QED
    BY <2>2, <2>3, <2>4, LogoutFacts
<1> QED
  BY <1>1, <1>2, <1>3 DEF ClosedInv

LEMMA ClosedInput ==
  ASSUME Types, ClosedInv, InputComesFirst
  PROVE  ClosedInv'
<1>0. /\ Calm /\ UNCHANGED <<tasks, since, hurt>> /\ dev.timer
      /\ dev'.blob = dev.blob /\ dev'.sealing = dev.sealing /\ dev'.key = dev.key
      /\ dev'.seal = dev.seal /\ dev'.setup = dev.setup /\ dev'.dropping = dev.dropping
      /\ dev'.wiping = dev.wiping /\ dev'.policy = dev.policy /\ dev'.alive = dev.alive
  BY InputFacts
<1> SUFFICES ASSUME Closed' PROVE Shut' \/ Leaving'
  BY DEF ClosedInv
<1>1. Closed
  BY <1>0 DEF Closed
<1>2. CASE Shut
  <2>1. NoRecord => NoRecord'
    BY <1>0 DEF NoRecord
  <2>2. (NoneToCome => NoneToCome') /\ (NoVault => NoVault')
    BY <1>0 DEF NoneToCome, NoVault, Kind
  <2> QED
    BY <1>0, <1>2, <2>1, <2>2 DEF Shut
<1>3. CASE Leaving
  <2>1. "lock" \in since'
    BY <1>0, <1>3 DEF Leaving
  <2> QED
    BY <1>0, <1>3, <2>1, ShutsLeaving
<1> QED
  BY <1>1, <1>2, <1>3 DEF ClosedInv

LEMMA ClosedWipes ==
  ASSUME Types, ClosedInv, WipeLands
  PROVE  ClosedInv'
<1>0. /\ Calm /\ UNCHANGED <<tasks, since, hurt>> /\ ~dev'.seal
      /\ dev'.blob = dev.blob /\ dev'.sealing = dev.sealing /\ dev'.key = dev.key
      /\ dev'.setup = dev.setup /\ dev'.dropping = dev.dropping /\ dev'.timer = dev.timer
      /\ dev'.policy = dev.policy /\ dev'.alive = dev.alive /\ dev'.dl = dev.dl
  BY WipeFacts
<1> SUFFICES ASSUME Closed' PROVE Shut' \/ Leaving'
  BY DEF ClosedInv
<1>1. Closed
  BY <1>0 DEF Closed
<1>2. CASE Shut
  <2>1. NoRecord => NoRecord'
    BY <1>0 DEF NoRecord
  <2>2. (NoneToCome => NoneToCome') /\ (NoVault => NoVault')
    BY <1>0 DEF NoneToCome, NoVault, Kind
  <2> QED
    BY <1>0, <1>2, <2>1, <2>2 DEF Shut
<1>3. CASE Leaving
  <2>1. "lock" \in since'
    BY <1>0, <1>3 DEF Leaving
  <2> QED
    BY <1>0, <1>3, <2>1, ShutsLeaving
<1> QED
  BY <1>1, <1>2, <1>3 DEF ClosedInv

LEMMA ClosedDrops ==
  ASSUME Types, ClosedInv, DropLands
  PROVE  ClosedInv'
<1>0. /\ Calm /\ UNCHANGED <<tasks, since, hurt>> /\ ~dev'.blob
      /\ dev'.seal = dev.seal /\ dev'.sealing = dev.sealing /\ dev'.key = dev.key
      /\ dev'.setup = dev.setup /\ dev'.wiping = dev.wiping /\ dev'.timer = dev.timer
      /\ dev'.policy = dev.policy /\ dev'.alive = dev.alive /\ dev'.dl = dev.dl
  BY DropFacts
<1> SUFFICES ASSUME Closed' PROVE Shut' \/ Leaving'
  BY DEF ClosedInv
<1>1. Closed
  BY <1>0 DEF Closed
<1>2. CASE Shut
  <2>1. NoRecord => NoRecord'
    BY <1>0 DEF NoRecord
  <2>2. (NoneToCome => NoneToCome') /\ (NoVault => NoVault')
    BY <1>0 DEF NoneToCome, NoVault, Kind
  <2> QED
    BY <1>0, <1>2, <2>1, <2>2 DEF Shut
<1>3. CASE Leaving
  <2>1. "lock" \in since'
    BY <1>0, <1>3 DEF Leaving
  <2> QED
    BY <1>0, <1>3, <2>1, ShutsLeaving
<1> QED
  BY <1>1, <1>2, <1>3 DEF ClosedInv

\* The page is loaded again: what was not finished is a crash, the rest is as it was.
LEMMA ClosedFresh ==
  ASSUME Types, ClosedInv, tasks' = {}, since \subseteq since',
         hurt \cup Unfinished \subseteq hurt',
         NEW y \in Devices, Tame(dev, y), dev' = FreshTab(y),
         "ended" \in since' \ since =>
              \/ y.policy = "refresh"
              \/ y.policy = "browser_close" /\ ~y.alive
              \/ y.policy = "minutes" /\ y.dl = "past",
         "lock" \in since' => "lock" \in since
  PROVE  ClosedInv'
<1>0. /\ ~dev'.key /\ ~dev'.timer /\ dev'.sealing = 0 /\ dev'.blob = y.blob
      /\ dev'.policy = y.policy /\ dev'.alive = y.alive /\ dev'.dl = y.dl /\ dev'.seal = y.seal
  BY FreshTabFacts
<1> SUFFICES ASSUME Closed' PROVE NoRecord' \/ NoVault'
  BY <1>0 DEF ClosedInv, Shut, NoneToCome, Kind
<1>1. CASE since \cap {"lock", "ended"} # {}
  <2>1. Closed /\ "crash" \notin hurt'
    BY <1>1 DEF Closed
  <2>2. /\ Kind("logout") = {}
        /\ "lock" \in since => ~(dev.wiping > 0) /\ ~dev.dropping
    BY <2>1 DEF Unfinished
  <2>3. Shut
    BY <2>1, <2>2 DEF ClosedInv, Leaving
  <2>4. CASE NoVault
    BY <1>0, <2>2, <2>4 DEF NoVault, Tame
  <2>5. CASE NoRecord
    <3>1. CASE "lock" \in since /\ (dev.seal => dev.wiping > 0)
      BY <1>0, <2>2, <3>1 DEF NoRecord, Tame
    <3>2. CASE y.policy = "browser_close" /\ ~y.alive
      BY <1>0, <3>2 DEF NoRecord
    <3>3. CASE /\ y.policy = dev.policy /\ (y.alive => dev.alive)
               /\ (y.dl = "ahead" => dev.dl = "ahead")
               /\ ~("lock" \in since /\ (dev.seal => dev.wiping > 0))
      BY <1>0, <2>5, <3>3 DEF NoRecord
    <3> QED
      BY <3>1, <3>2, <3>3 DEF Tame
  <2> QED
    BY <2>3, <2>4, <2>5 DEF Shut
<1>2. CASE "ended" \in since' \ since
  BY <1>0, <1>2 DEF NoRecord
<1> QED
  BY <1>1, <1>2 DEF Closed

LEMMA ClosedReloads ==
  ASSUME Types, ClosedInv, NEW closed \in BOOLEAN, Reloads(closed)
  PROVE  ClosedInv'
<1>0. /\ tasks' = {} /\ since' = since \cup Over(dev, closed) /\ hurt' = hurt \cup Unfinished
  BY ReloadsFacts
<1>1. PICK y \in Devices : /\ Tame(dev, y) /\ dev' = FreshTab(y)
                           /\ y.policy = dev.policy /\ y.dl = dev.dl
                           /\ closed => ~y.alive
  BY ReloadsFacts
<1>2. "ended" \in since' \ since =>
        \/ y.policy = "refresh"
        \/ y.policy = "browser_close" /\ ~y.alive
        \/ y.policy = "minutes" /\ y.dl = "past"
  BY <1>0, <1>1 DEF Over
<1>3. "lock" \in since' => "lock" \in since
  BY <1>0 DEF Over
<1>4. since \subseteq since' /\ hurt \cup Unfinished \subseteq hurt'
  BY <1>0
<1> QED
  BY <1>0, <1>1, <1>2, <1>3, <1>4, ClosedFresh

LEMMA ClosedCheckAnswers ==
  ASSUME Types, ClosedInv, NEW t \in tasks, CheckAnswers(t)
  PROVE  ClosedInv'
<1>1. CASE Still
  BY <1>1, QuietClosed DEF Still
<1>2. CASE /\ tasks' = {}
           /\ \E y \in Devices :
                /\ Tame(dev, y) /\ dev' = FreshTab(y) /\ y.jwt = "none"
                /\ since' = since \cup Over(y, FALSE)
                     \cup (IF y.tomb = "revoked" /\ dev.tomb # "revoked" THEN {"revoked"} ELSE {})
                /\ hurt' = hurt \cup Unfinished
                     \cup (IF y.tomb = "revoked" /\ dev.tomb # "revoked" THEN {"dropped"} ELSE {})
  <2>1. PICK y \in Devices :
          /\ Tame(dev, y) /\ dev' = FreshTab(y)
          /\ since' = since \cup Over(y, FALSE)
               \cup (IF y.tomb = "revoked" /\ dev.tomb # "revoked" THEN {"revoked"} ELSE {})
          /\ hurt' = hurt \cup Unfinished
               \cup (IF y.tomb = "revoked" /\ dev.tomb # "revoked" THEN {"dropped"} ELSE {})
    BY <1>2
  <2>2. "ended" \in since' \ since =>
          \/ y.policy = "refresh"
          \/ y.policy = "browser_close" /\ ~y.alive
          \/ y.policy = "minutes" /\ y.dl = "past"
    BY <2>1 DEF Over
  <2>3. "lock" \in since' => "lock" \in since
    BY <2>1 DEF Over
  <2>4. since \subseteq since' /\ hurt \cup Unfinished \subseteq hurt'
    BY <2>1
  <2> QED
    BY <1>2, <2>1, <2>2, <2>3, <2>4, ClosedFresh
<1> QED
  BY <1>1, <1>2, CheckAnswersFacts

LEMMA ClosedStep ==
  ASSUME Types, ClosedInv, [Next]_vars
  PROVE  ClosedInv'
<1>0. ASSUME Still PROVE ClosedInv'
  BY <1>0, QuietClosed DEF Still
<1>1. CASE BootStarts
  BY <1>0, <1>1, BootStartsStill
<1>2. ASSUME NEW t \in tasks, Steps(t)
      PROVE  ClosedInv'
  <2>1. CASE BootAsks(t)
    BY <1>0, <2>1, BootAsksStill
  <2>2. CASE BootFinds(t)
    BY <1>0, <2>2, BootFindsStill
  <2>3. CASE BootScans(t)
    BY <1>0, <2>3, BootScansStill
  <2>4. CASE BootResumes(t)
    <3>1. t.kind = "boot" /\ t.at = "resume"
      BY <2>4 DEF BootResumes
    <3>2. CASE /\ Allowed /\ dev.wiping = 0 /\ dev.seal /\ Goto(t, "resumed")
               /\ UNCHANGED <<dev, up, left, since, hurt, guesses>>
      BY <3>1, <3>2, ClosedResumed
    <3> QED
      BY <1>0, <2>4, <3>2, BootResumesStill
  <2>5. CASE BootHasIdentity(t)
    BY <2>5, BootHasIdentityOpens, ClosedOpens
  <2>6. CASE SignsIn(t)
    BY <1>0, <2>6, SignsInOpens, ClosedOpens
  <2>7. CASE Uploads(t)
    BY <1>0, <2>7, UploadsOpens, ClosedOpens
  <2>8. CASE Hydrates(t)
    BY <2>8, HydratesOpens, ClosedOpens
  <2>9. CASE Charges(t)
    BY <2>9, ChargesFacts, QuietClosed
  <2>10. CASE Decrypts(t)
    <3>1. CASE since' = since \cap {"revoked"}
      BY <3>1 DEF ClosedInv, Closed
    <3>2. CASE Quiet
      BY <3>2, QuietClosed
    <3> QED
      BY <2>10, <3>1, <3>2, DecryptsFacts
  <2>11. CASE Rotates(t)
    BY <2>11, ClosedRotates
  <2>12. CASE LogoutGoesOn(t)
    BY <2>12, ClosedLogout
  <2>13. CASE CheckAnswers(t)
    BY <2>13, ClosedCheckAnswers
  <2> QED
    BY <1>2, <2>1, <2>2, <2>3, <2>4, <2>5, <2>6, <2>7, <2>8, <2>9, <2>10, <2>11, <2>12, <2>13
       DEF Steps
<1>3. CASE Background
  BY <1>3, ClosedSeals, ClosedWipes, ClosedDrops DEF Background
<1>4. CASE User
  <2>1. ASSUME NEW right \in BOOLEAN, EntersPin(right) PROVE ClosedInv'
    BY <2>1, EntersPinFacts, QuietClosed
  <2>2. CASE EntersPhrase
    <3>1. since' = {}
      BY <2>2, EntersPhraseFacts
    <3> QED
      BY <3>1 DEF ClosedInv, Closed
  <2>3. CASE GoesBackToPin
    BY <1>0, <2>3, GoesBackToPinStill
  <2>4. CASE SetsPin
    <3>1. dev.key /\ dev.setup /\ UNCHANGED <<since, hurt>>
      BY <2>4, SetsPinFacts
    <3>2. ~Closed
      BY <3>1 DEF ClosedInv, Shut, Leaving
    <3> QED
      BY <3>1, <3>2 DEF ClosedInv, Closed
  <2>5. CASE ChangesPolicy
    <3>1. /\ Calm /\ UNCHANGED <<tasks, since, hurt>> /\ dev.key
          /\ dev'.blob = dev.blob /\ dev'.dropping = dev.dropping /\ dev'.setup = dev.setup
      BY <2>5, ChangesPolicyFacts
    <3> SUFFICES ASSUME Closed' PROVE Leaving'
      BY DEF ClosedInv
    <3>2. Leaving
      BY <3>1 DEF Closed, ClosedInv, Shut
    <3>3. "lock" \in since'
      BY <3>1, <3>2 DEF Leaving
    <3> QED
      BY <3>1, <3>2, <3>3, ShutsLeaving
  <2>6. CASE LockVault
    BY <2>6, ClosedLocks
  <2>7. CASE LogsOut
    BY <2>7, ClosedLogsOut
  <2>8. ASSUME NEW closed \in BOOLEAN, Reloads(closed) PROVE ClosedInv'
    BY <2>8, ClosedReloads
  <2> QED
    BY <1>4, <2>1, <2>2, <2>3, <2>4, <2>5, <2>6, <2>7, <2>8 DEF User
<1>5. CASE TimeoutLocks
  BY <1>5, ClosedLocks
<1>6. CASE Reauth
  <2>1. UNCHANGED <<dev, since, hurt>> /\ dev.key
    BY <1>6, ReauthFacts
  <2>2. PICK u : u.kind = "reauth" /\ tasks' = tasks \cup {u}
    BY <1>6, ReauthFacts
  <2> SUFFICES ASSUME Closed' PROVE Leaving'
    BY DEF ClosedInv
  <2>3. Leaving
    BY <2>1 DEF Closed, ClosedInv, Shut
  <2>4. Kind("logout")' = Kind("logout") /\ (Kind("recover") \cup Kind("register"))' = {}
    BY <2>2, <2>3 DEF Leaving, Kind
  <2> QED
    BY <2>1, <2>3, <2>4 DEF Leaving
<1>7. CASE World
  <2>1. CASE DeadlinePasses
    BY <2>1, ClosedDeadline
  <2>2. CASE InputComesFirst
    BY <2>2, ClosedInput
  <2>3. CASE HandleAuthInvalid
    BY <1>0, <2>3, HandleAuthInvalidStill
  <2>4. ASSUME NEW revokes \in BOOLEAN, EndsSessions(revokes) PROVE ClosedInv'
    BY <2>4, EndsSessionsFacts, QuietClosed
  <2>5. CASE OnVisible
    BY <1>0, <2>5, OnVisibleStill
  <2>6. CASE GoesDown \/ ComesUp
    BY <1>0, <2>6, OutageStill
  <2> QED
    BY <1>7, <2>1, <2>2, <2>3, <2>4, <2>5, <2>6 DEF World
<1>8. CASE UNCHANGED vars
  BY <1>0, <1>8, StutterStill
<1> QED
  BY <1>1, <1>2, <1>3, <1>4, <1>5, <1>6, <1>7, <1>8 DEF Next

\* A vault that was locked, or whose session its policy has ended, is opened by the PIN or
\* the phrase alone: no reload, no answer that was on its way and no write to the session
\* record opens it (tryVaultSessionResume, clearSessionKey, lockVault), the named races
\* aside.
THEOREM LocksHold == Spec => []LockHolds
<1>1. Init => ClosedInv
  BY DEF Init, ClosedInv, Closed
<1>2. Types /\ ClosedInv /\ [Next]_vars => ClosedInv'
  BY ClosedStep
<1>3. ClosedInv => LockHolds
  BY DEF ClosedInv, LockHolds, Shut, Leaving, Unlocked
<1> QED
  BY <1>1, <1>2, <1>3, VaultTypes, PTL DEF Spec

=============================================================================

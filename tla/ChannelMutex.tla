---------------------------- MODULE ChannelMutex ----------------------------
(***************************************************************************)
(* withChannelMLSMutex of src/src/lib/channelMLSMutex.js: a chain of       *)
(* promises per key.  A Task is one call; KeyOf[t] is the key it passes.   *)
(*                                                                         *)
(* A call reads the registered tail of its key, hangs its operation fn     *)
(* behind that promise and registers a tail of its own, in one synchronous *)
(* step.  The operation starts in a microtask once the previous tail has   *)
(* resolved, settles later (well or badly), and its own tail resolves in a *)
(* microtask after that, removing the map entry when it is still its own.  *)
(* Other calls can fall between any two of these steps.                    *)
(***************************************************************************)
EXTENDS Naturals

CONSTANTS Key, Task, KeyOf, NoTask

ASSUME MutexAssumption ==
    /\ KeyOf \in [Task -> Key]
    /\ NoTask \notin Task

VARIABLES
    tails,      \* _tails: the registered tail of a key, named by its call
    prev,       \* the tail a call found when it was made
    phase,      \* how far the promises of a call have got
    failed,     \* the calls whose operation rejected
    arrival,    \* history: the place of a call in the order of calls
    clock       \* history: the number of calls made

mutexVars == <<tails, prev, phase, failed, arrival, clock>>

Phase == {"idle", "queued", "running", "settled", "drained"}

\* A call that was made and whose tail has not resolved.
Active(t) == phase[t] \in {"queued", "running", "settled"}

MutexTypeOK ==
    /\ tails \in [Key -> Task \cup {NoTask}]
    /\ prev \in [Task -> Task \cup {NoTask}]
    /\ phase \in [Task -> Phase]
    /\ failed \in SUBSET Task
    /\ arrival \in [Task -> Nat]
    /\ clock \in Nat

MutexInit ==
    /\ tails = [k \in Key |-> NoTask]
    /\ prev = [t \in Task |-> NoTask]
    /\ phase = [t \in Task |-> "idle"]
    /\ failed = {}
    /\ arrival = [t \in Task |-> 0]
    /\ clock = 0

-----------------------------------------------------------------------------
(* Plausible bugs, one per property; none of the modules uses them. *)

\* The entry is removed without looking whose it is.
Drain_NoIdentityTest(t) ==
    /\ phase[t] = "settled"
    /\ phase' = [phase EXCEPT ![t] = "drained"]
    /\ tails' = [tails EXCEPT ![KeyOf[t]] = NoTask]
    /\ UNCHANGED <<prev, failed, arrival, clock>>

\* prev is chained without a catch: a rejection is inherited.
PrevResolved_NoCatch(t) ==
    prev[t] \in {NoTask} \cup {u \in Task \ failed : phase[u] = "drained"}

-----------------------------------------------------------------------------
(* The actions. *)

\* The synchronous part: const prev = _tails.get(key) ?? ...; _tails.set(...).
Call(t) ==
    /\ phase[t] = "idle"
    /\ prev' = [prev EXCEPT ![t] = tails[KeyOf[t]]]
    /\ tails' = [tails EXCEPT ![KeyOf[t]] = t]
    /\ phase' = [phase EXCEPT ![t] = "queued"]
    /\ arrival' = [arrival EXCEPT ![t] = clock]
    /\ clock' = clock + 1
    /\ UNCHANGED failed

\* Whether prev.catch(() => undefined) has resolved: a tail never rejects.
PrevResolved(t) == prev[t] \in {NoTask} \cup {u \in Task : phase[u] = "drained"}

Run(t) ==
    /\ phase[t] = "queued"
    /\ PrevResolved(t)
    /\ phase' = [phase EXCEPT ![t] = "running"]
    /\ UNCHANGED <<tails, prev, failed, arrival, clock>>

\* fn's promise fulfils or rejects; the caller gets the same outcome.
Settle(t) ==
    /\ phase[t] = "running"
    /\ phase' = [phase EXCEPT ![t] = "settled"]
    /\ failed' \in {failed, failed \cup {t}}
    /\ UNCHANGED <<tails, prev, arrival, clock>>

\* The continuation of the tail: delete the entry if it is still this one.
Drain(t) ==
    /\ phase[t] = "settled"
    /\ phase' = [phase EXCEPT ![t] = "drained"]
    /\ tails' = IF tails[KeyOf[t]] = t
                  THEN [tails EXCEPT ![KeyOf[t]] = NoTask]
                  ELSE tails
    /\ UNCHANGED <<prev, failed, arrival, clock>>

MutexNext == \E t \in Task : Call(t) \/ Run(t) \/ Settle(t) \/ Drain(t)

\* Microtasks always run; that fn settles is the callers' part (each one is a
\* bounded number of fetches and IndexedDB transactions).
MutexFairness ==
    \A t \in Task :
        WF_mutexVars(Run(t)) /\ WF_mutexVars(Settle(t)) /\ WF_mutexVars(Drain(t))

MutexSpec == MutexInit /\ [][MutexNext]_mutexVars /\ MutexFairness

-----------------------------------------------------------------------------
(* Properties. *)

\* Two operations on one channel's group state never overlap, the next one
\* starts only when the promise of the previous one is fully settled: the
\* interleaved read of epoch N by two handlers, the reason for the module.
MutualExclusion ==
    \A t, u \in Task :
        (KeyOf[t] = KeyOf[u] /\ phase[t] \in {"running", "settled"}
                             /\ phase[u] \in {"running", "settled"}) => t = u

\* The map holds an entry for a key exactly while a call on it is pending, and
\* the entry is the latest such call: nothing leaks, and no removal makes a new
\* call overtake the ones that wait (the identity test before _tails.delete).
TailIsLatestPending ==
    \A k \in Key :
        LET Pending == {t \in Task : KeyOf[t] = k /\ Active(t)} IN
        IF Pending = {} THEN tails[k] = NoTask
        ELSE /\ tails[k] \in Pending
             /\ \A t \in Pending : arrival[t] <= arrival[tails[k]]

\* Operations on one key start in the order of their calls: a commit received
\* first is processed first.
StartsInCallOrder ==
    [][\A t, u \in Task :
        (/\ KeyOf[t] = KeyOf[u]
         /\ Active(u)
         /\ phase[t] = "queued" /\ phase'[t] = "running")
            => arrival[t] <= arrival[u]]_mutexVars

-----------------------------------------------------------------------------
(* The promise chain implements the abstract lock: a pending call waits for *)
(* the earlier ones of its key; the holder is one that runs or has settled. *)

Ahead(t) == {u \in Task : KeyOf[u] = KeyOf[t] /\ Active(u) /\ arrival[u] < arrival[t]}

Lock == INSTANCE FifoLock WITH
    pending <- {t \in Task : Active(t)},
    ahead <- [t \in Task |-> IF Active(t) THEN Ahead(t) ELSE {}],
    holding <- {t \in Task : phase[t] \in {"running", "settled"}}

\* Every behaviour of the chain is one of the lock, the fairness included.
ImplementsFifoLock == Lock!LockSpec

=============================================================================

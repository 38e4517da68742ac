------------------------------ MODULE FifoLock ------------------------------
(***************************************************************************)
(* What the per-channel queue of src/src/lib/channelMLSMutex.js promises:  *)
(* operations on one key run one at a time, in the order of their calls,   *)
(* whatever the outcome of the earlier ones; keys do not wait for each     *)
(* other; and an operation whose predecessors end gets its turn.           *)
(***************************************************************************)
CONSTANTS Key, Task, KeyOf

VARIABLES
    pending,    \* the calls that are not over
    ahead,      \* the pending calls that a pending call has to wait for
    holding     \* the calls whose operation is in progress or just settled

lockVars == <<pending, ahead, holding>>

LockInit ==
    /\ pending = {} /\ holding = {}
    /\ ahead = [t \in Task |-> {}]

\* A call waits for those on its key that came before it, and for no other.
Enqueue(t) ==
    /\ t \notin pending
    /\ pending' = pending \cup {t}
    /\ ahead' = [ahead EXCEPT ![t] = {u \in pending : KeyOf[u] = KeyOf[t]}]
    /\ UNCHANGED holding

Acquire(t) ==
    /\ t \in pending \ holding
    /\ ahead[t] = {}
    /\ holding' = holding \cup {t}
    /\ UNCHANGED <<pending, ahead>>

Release(t) ==
    /\ t \in holding
    /\ holding' = holding \ {t}
    /\ pending' = pending \ {t}
    /\ ahead' = [u \in Task |-> ahead[u] \ {t}]

LockNext == \E t \in Task : Enqueue(t) \/ Acquire(t) \/ Release(t)

LockFairness ==
    \A t \in Task : WF_lockVars(Acquire(t)) /\ WF_lockVars(Release(t))

LockSafety == LockInit /\ [][LockNext]_lockVars
LockSpec == LockSafety /\ LockFairness
=============================================================================

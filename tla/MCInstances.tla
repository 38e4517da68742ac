----------------------------- MODULE MCInstances -----------------------------
(***************************************************************************)
(* Small instances of module Instances for TLC, and statements of the      *)
(* comments in useInstances.js that no listed run checks: TLC refutes each *)
(* with the constants of Instances.cfg.                                    *)
(***************************************************************************)
EXTENDS Instances

\* disconnectInstance "closes the WS connection, removes the instance from IDB,
\* and clears state": it stays so until somebody asks for the instance.
RemovedStaysRemoved == (removed /\ Quiet) => entry = NoEntry /\ ~stored

\* "Create and connect WS client. Close any existing WS first."
OneClient == Quiet => Cardinality({c \in Client : Live(c)}) <= 1

\* "Mark as offline but keep entry so reconnect can retry."
OfflineIsRetried == (entry # NoEntry /\ Unconnected) ~> (entry = NoEntry \/ ~Unconnected)

==============================================================================

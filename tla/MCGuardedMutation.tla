--------------------------- MODULE MCGuardedMutation ---------------------------
(* Small instances of GuardedMutation for TLC. *)
EXTENDS GuardedMutation, TLC

CONSTANTS r1, r2, r3, runtime1, runtime2, key1, key2

\* One task.
OneRuntime == [r \in Runs |-> runtime1]
OneKey == [r \in Runs |-> key1]

\* Two Runtimes that share a ledger; the third task has the idempotency key of the
\* first, and runs in the other Runtime.
TwoRuntimes == [r \in Runs |-> IF r = r3 THEN runtime2 ELSE runtime1]
SharedKey == [r \in Runs |-> IF r = r2 THEN key2 ELSE key1]

EveryHostWithStore == {h \in SUBSET Features : "intent_store" \in h}
FullHost == {Features}
StorelessHosts == {{"authorizer", "reconcile"}, {"authorizer", "durable_required"}}
================================================================================

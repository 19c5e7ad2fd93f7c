-------------------------- MODULE RemoteRefinement --------------------------
(***************************************************************************)
(* RemoteThread implements HandlePromise, and its streams behave as        *)
(* StreamPropagation says: a child that is not started yet is one that has *)
(* not taken a step.                                                       *)
(***************************************************************************)
EXTENDS RemoteThread

\* How the spawn turn ended, as the parent's store holds it.
SpawnTruth ==
    IF Durable("completed") THEN "completed"
    ELSE IF Durable("failed") THEN "failed" ELSE "open"

HP == INSTANCE HandlePromise
      WITH truth <- SpawnTruth, record <- joins, Ends <- Terminals,
           Observers <- {"recovery"}, Watchers <- {"tail"},
           Bystanders <- {"monitor", "executor"}

\* append_thread_joined_first_wins and fold_child_terminal_truth: whatever
\* crashes, re-pushed batches, replacements and rival settlements do, the
\* durable end of the spawn turn never changes, the first join stays the
\* only one, the tail and the recovery sweep join with that end, and only
\* the process monitor and a failing spawn may report a failure unseen.
ImplementsHandlePromise == HP!Spec

Placed ==
    [p \in Propagators |-> IF p = First /\ pc[p] = "off" THEN "idle" ELSE pc[p]]

SP == INSTANCE StreamPropagation WITH pc <- Placed

\* run_remote_child and the executor use the propagator as propagator.rs
\* means it: every step of the whole remote thread is a step of its
\* propagators or leaves them alone.
ImplementsPropagation == SP!Spec
=============================================================================

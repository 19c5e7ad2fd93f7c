------------------------- MODULE IngressRefinement --------------------------
(***************************************************************************)
(* The ingress outcome protocol implements IngressPromise: the outcome of  *)
(* an envelope is the fold over every control stream, and it has left the  *)
(* queue when its message is archived.                                     *)
(***************************************************************************)
EXTENDS IngressOutcome

Outcome == [e \in Envelopes |-> OutcomeFold(e, Threads)]
Archived == {e \in Envelopes : queue[e].state = "archived"}

Promise == INSTANCE IngressPromise
    WITH Streams <- Threads, Decisions <- AllPolicies,
         outcome <- Outcome, archived <- Archived

\* Every step of every worker, runtime, error path and restart is a step of
\* the promise or leaves it unchanged: a claim is never doubled, moved,
\* re-decided or withdrawn, a settle never undone, and no message leaves the
\* queue before its outcome is durable.
ImplementsPromise == Promise!Spec
=============================================================================

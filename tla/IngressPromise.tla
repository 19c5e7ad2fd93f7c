--------------------------- MODULE IngressPromise ---------------------------
(***************************************************************************)
(* What the ingress outcome protocol promises of each envelope, with no    *)
(* workers, streams to fold, locks or retries in sight: one claim, on one  *)
(* stream and for one turn, then at most one settle of that claim; and the *)
(* message leaves the queue only for an outcome.  A fork may leave it      *)
(* claimed, because its loser trusts the first apply to finish.            *)
(***************************************************************************)
CONSTANTS Envelopes, Streams, Attempts, Decisions, None

VARIABLES outcome,   \* the outcome of each envelope
          archived   \* the envelopes whose message has left the queue

Missing == [state |-> "missing", at |-> None, turn |-> None, dec |-> None]

Init ==
    /\ outcome = [e \in Envelopes |-> Missing]
    /\ archived = {}

\* The claim pins stream, turn and decision for good; an effect-free
\* decision is settled as it is claimed.
Claim(e) ==
    /\ outcome[e] = Missing
    /\ UNCHANGED archived
    /\ \E s \in Streams, n \in Attempts, d \in Decisions :
          outcome' = [outcome EXCEPT ![e] =
             [state |-> IF d = "observe" THEN "settled" ELSE "claimed",
              at |-> s, turn |-> <<e, n>>, dec |-> d]]

Settle(e) ==
    /\ outcome[e].state = "claimed"
    /\ UNCHANGED archived
    /\ outcome' = [outcome EXCEPT ![e].state = "settled"]

Archive(e) ==
    /\ \/ outcome[e].state = "settled"
       \/ outcome[e].state = "claimed" /\ outcome[e].dec = "fork"
    /\ archived' = archived \cup {e}
    /\ UNCHANGED outcome

Next == \E e \in Envelopes : Claim(e) \/ Settle(e) \/ Archive(e)

Spec == Init /\ [][Next]_<<outcome, archived>>
=============================================================================

------------------------ MODULE StreamPropagation ---------------------------
(***************************************************************************)
(* The local-first propagators of one stream.                              *)
(*                                                                         *)
(* A propagator appends to a store of its own and pushes the tail it has   *)
(* not confirmed yet to the parent's store, under a write lease that one   *)
(* propagator holds at a time.  Each exchange with the endpoint can lose   *)
(* its request or its answer, the lease can expire or be granted to a      *)
(* replacement, and the process can die at every await.                    *)
(*                                                                         *)
(* The lease table and its credentials are StreamLease's: here a lease is  *)
(* its holder and whether it has expired.  A record carries the propagator *)
(* that wrote it and the position it was given, which together stand for   *)
(* its event id.                                                           *)
(***************************************************************************)
EXTENDS Naturals, Sequences, FiniteSets

CONSTANTS Propagators,  \* the processes that may be granted the stream
          First,        \* the one the stream is granted to first
          Facts,        \* what a record says
          BatchSize,    \* batch_size
          MaxRecords    \* bound on the length of a local stream

ASSUME PropagationAssumption ==
    /\ First \in Propagators
    /\ BatchSize \in Nat \ {0}
    /\ MaxRecords \in Nat

VARIABLES parent,    \* the stream in the parent's store
          holder,    \* whose lease is the latest grant of the stream
          granted,   \* every propagator that was ever granted it
          expired,   \* the latest grant is past its expiry
          local,     \* each propagator's local stream
          pushed,    \* pushed_through: the confirmed length, durable
          pc,        \* where each propagator is in propagate_once
          batchEnd,  \* last local position of the batch being pushed
          seen       \* length of the parent's stream when it was pulled

propVars == << parent, holder, granted, expired, local, pushed, pc, batchEnd, seen >>

\* A propagator whose process runs: between attempts, after a renewal that
\* was due, pushing, renewing after an Expired answer, pushing again after
\* that, about to pull after a sequence conflict, and comparing.
Up == {"idle", "renewed", "push", "renewing", "retry", "conflict", "pulled"}

Places == Up \cup {"off", "down", "fenced", "diverged", "retired"}

\* What becomes of one exchange with the endpoint: never processed,
\* processed with the answer lost, or processed and answered.
Replies == {"dropped", "lost", "answered"}

Record == [by : Propagators, seq : Nat \ {0}, fact : Facts]

\* The stream is granted to First, whose process is at place w.
InitAt(w) ==
    /\ parent = <<>>
    /\ holder = First
    /\ granted = {First}
    /\ expired = FALSE
    /\ local = [p \in Propagators |-> <<>>]
    /\ pushed = [p \in Propagators |-> 0]
    /\ pc = [p \in Propagators |-> IF p = First THEN w ELSE "off"]
    /\ batchEnd = [p \in Propagators |-> 0]
    /\ seen = [p \in Propagators |-> 0]

Init == InitAt("idle")

\* An attempt ends and leaves the propagator at place w.
Settle(p, w) ==
    /\ pc' = [pc EXCEPT ![p] = w]
    /\ batchEnd' = [batchEnd EXCEPT ![p] = 0]
    /\ seen' = [seen EXCEPT ![p] = 0]

(***************************************************************************)
(* The lease.                                                              *)
(***************************************************************************)
Expire ==
    /\ ~expired
    /\ expired' = TRUE
    /\ UNCHANGED << parent, holder, granted, local, pushed, pc, batchEnd, seen >>

\* grant_lease with the holder's lease as lineage, to a fresh propagator.
Supersede(q) ==
    /\ q \notin granted
    /\ holder' = q
    /\ granted' = granted \cup {q}
    /\ expired' = FALSE
    /\ pc' = [pc EXCEPT ![q] = "idle"]
    /\ UNCHANGED << parent, local, pushed, batchEnd, seen >>

\* The same, to a replacement that opens the database of a dead propagator.
TakeOver(q, p) ==
    /\ q \notin granted
    /\ pc[p] = "down"
    /\ holder' = q
    /\ granted' = granted \cup {q}
    /\ expired' = FALSE
    /\ local' = [local EXCEPT ![q] = local[p]]
    /\ pushed' = [pushed EXCEPT ![q] = pushed[p]]
    /\ pc' = [pc EXCEPT ![q] = "idle", ![p] = "retired"]
    /\ UNCHANGED << parent, batchEnd, seen >>

(***************************************************************************)
(* The process around a propagator.                                        *)
(***************************************************************************)
\* The runtime appends to its local store, whatever the propagator does.
AppendLocal(p, f) ==
    /\ pc[p] \in Up
    /\ Len(local[p]) < MaxRecords
    /\ local' = [local EXCEPT ![p] =
           Append(@, [by |-> p, seq |-> Len(local[p]) + 1, fact |-> f])]
    /\ UNCHANGED << parent, holder, granted, expired, pushed, pc, batchEnd, seen >>

Die(p) ==
    /\ pc[p] \in Up
    /\ Settle(p, "down")
    /\ UNCHANGED << parent, holder, granted, expired, local, pushed >>

\* SqlitePropagationStateStore::load: the same database, the same lease.
Reboot(p) ==
    /\ pc[p] = "down"
    /\ Settle(p, "idle")
    /\ UNCHANGED << parent, holder, granted, expired, local, pushed >>

(***************************************************************************)
(* propagate_once.                                                         *)
(***************************************************************************)
\* renew: unreachable ends the attempt, no grant fences, else next.
Renew(p, reply, next) ==
    /\ expired' = (expired /\ ~(reply # "dropped" /\ holder = p))
    /\ IF reply # "answered" THEN Settle(p, "idle")
       ELSE IF holder # p THEN Settle(p, "fenced")
       ELSE pc' = [pc EXCEPT ![p] = next] /\ UNCHANGED << batchEnd, seen >>
    /\ UNCHANGED << parent, holder, granted, local, pushed >>

\* renew_if_due: the margin is a matter of the child's own clock.
RenewIfDue(p, reply) == pc[p] = "idle" /\ Renew(p, reply, "renewed")

RenewAfterExpiry(p, reply) == pc[p] = "renewing" /\ Renew(p, reply, "retry")

\* The batch is read once; the local stream may grow behind it.
StartBatch(p) ==
    /\ pc[p] \in {"idle", "renewed"}
    /\ pushed[p] < Len(local[p])
    /\ pc' = [pc EXCEPT ![p] = "push"]
    /\ batchEnd' = [batchEnd EXCEPT ![p] =
           IF Len(local[p]) - pushed[p] <= BatchSize
           THEN Len(local[p]) ELSE pushed[p] + BatchSize]
    /\ UNCHANGED << parent, holder, granted, expired, local, pushed, seen >>

Converged(p) ==
    /\ pc[p] \in {"idle", "renewed"}
    /\ pushed[p] = Len(local[p])
    /\ Settle(p, "idle")
    /\ UNCHANGED << parent, holder, granted, expired, local, pushed >>

\* Mutant: the sequence fence is not part of the append.
PushVerdictUnfenced(p) ==
    IF holder # p THEN "superseded"
    ELSE IF expired THEN "expired"
    ELSE "accepted"

\* append_if_current behind the endpoint's credential checks.
PushVerdict(p) ==
    IF holder # p THEN "superseded"
    ELSE IF expired THEN "expired"
    ELSE IF Len(parent) # pushed[p] THEN "conflict"
    ELSE "accepted"

Push(p, reply) ==
    /\ pc[p] \in {"push", "retry"}
    /\ parent' = IF reply # "dropped" /\ PushVerdict(p) = "accepted"
                 THEN parent \o SubSeq(local[p], pushed[p] + 1, batchEnd[p])
                 ELSE parent
    /\ LET verdict == IF reply = "answered" THEN PushVerdict(p) ELSE "none"
       IN  \/ verdict = "none" /\ Settle(p, "idle") /\ UNCHANGED pushed
           \/ /\ verdict = "accepted"
              /\ Settle(p, "idle")
              /\ pushed' = [pushed EXCEPT ![p] = batchEnd[p]]
           \/ /\ verdict = "expired" /\ pc[p] = "push"
              /\ pc' = [pc EXCEPT ![p] = "renewing"]
              /\ UNCHANGED << batchEnd, seen, pushed >>
           \/ /\ verdict = "conflict"
              /\ pc' = [pc EXCEPT ![p] = "conflict"]
              /\ UNCHANGED << batchEnd, seen, pushed >>
           \/ /\ \/ verdict = "superseded"
                 \/ verdict = "expired" /\ pc[p] = "retry"
              /\ Settle(p, "fenced")
              /\ UNCHANGED pushed
    /\ UNCHANGED << holder, granted, expired, local >>

\* reconcile_sequence_conflict resolves its token before it reads.
Pull(p, reply) ==
    /\ pc[p] = "conflict"
    /\ IF reply # "answered" THEN Settle(p, "idle")
       ELSE IF holder # p THEN Settle(p, "fenced")
       ELSE /\ pc' = [pc EXCEPT ![p] = "pulled"]
            /\ seen' = [seen EXCEPT ![p] = Len(parent)]
            /\ UNCHANGED batchEnd
    /\ UNCHANGED << parent, holder, granted, expired, local, pushed >>

\* The streams agree on the positions lo to hi, and both have them.
Agree(p, lo, hi) ==
    /\ hi <= Len(parent) /\ hi <= Len(local[p])
    /\ \A i \in lo..hi : parent[i] = local[p][i]

\* Mutant: an identical length is taken for an identical batch.
AdoptsBatchByLength(p) == batchEnd[p] <= seen[p]

\* Of what was pulled: the cursor record is the parent's, the whole batch is
\* there, and what lies beyond it is a prefix of the local tail.
AdoptsBatch(p) ==
    /\ pushed[p] > 0 => Agree(p, pushed[p], pushed[p])
    /\ batchEnd[p] <= seen[p]
    /\ Agree(p, pushed[p] + 1, seen[p])

Reconcile(p) ==
    /\ pc[p] = "pulled"
    /\ IF AdoptsBatch(p)
       THEN pushed' = [pushed EXCEPT ![p] = batchEnd[p]] /\ Settle(p, "idle")
       ELSE Settle(p, "diverged") /\ UNCHANGED pushed
    /\ UNCHANGED << parent, holder, granted, expired, local >>

PropagateStep(p, reply) ==
    \/ RenewIfDue(p, reply)
    \/ RenewAfterExpiry(p, reply)
    \/ Push(p, reply)
    \/ Pull(p, reply)

Next ==
    \/ Expire
    \/ \E q \in Propagators : Supersede(q)
    \/ \E q, p \in Propagators : TakeOver(q, p)
    \/ \E p \in Propagators :
          \/ \E f \in Facts : AppendLocal(p, f)
          \/ Die(p)
          \/ Reboot(p)
          \/ StartBatch(p)
          \/ Converged(p)
          \/ Reconcile(p)
          \/ \E reply \in Replies : PropagateStep(p, reply)

Spec == Init /\ [][Next]_propVars

(***************************************************************************)
(* Properties.                                                             *)
(***************************************************************************)
PropagationTypeOK ==
    /\ parent \in Seq(Record)
    /\ holder \in granted
    /\ granted \subseteq Propagators
    /\ expired \in BOOLEAN
    /\ local \in [Propagators -> Seq(Record)]
    /\ pushed \in [Propagators -> Nat]
    /\ pc \in [Propagators -> Places]
    /\ batchEnd \in [Propagators -> Nat] /\ seen \in [Propagators -> Nat]

\* pushed_through is what the parent really holds: every confirmed position
\* of a local stream is in the parent's stream, with the same record.  The
\* answers to pushes get lost, the lease moves on, and the parent grows by
\* other hands in between.
ConfirmedIsDurable ==
    \A p \in Propagators :
        /\ pushed[p] <= Len(parent) /\ pushed[p] <= Len(local[p])
        /\ \A i \in 1..pushed[p] : parent[i] = local[p][i]

\* Each record of the parent's stream sits at the position its writer gave
\* it, so no re-pushed batch is stored twice and none leaves a gap, whoever
\* wrote the stream before.
PositionsKept == \A i \in 1..Len(parent) : parent[i].seq = i

\* A propagator reports StreamDiverged only when the parent's stream is no
\* prefix of its own: "The parent stream contains records different from the
\* local batch at the expected position" (propagator.rs:69-70).
DivergedOnDifference ==
    \A p \in Propagators :
        pc[p] = "diverged" => ~Agree(p, 1, Len(parent))

=============================================================================

--------------------------- MODULE IngressOutcome ---------------------------
(***************************************************************************)
(* The durable ingress outcome protocol of the daemon: a queue worker      *)
(* leases an envelope, folds the control streams for an earlier outcome,   *)
(* witnesses and decides the envelope, records ownership, claims it under  *)
(* the admission lock, runs the claimed effects, settles the claim on      *)
(* execution evidence, and archives the message.                           *)
(*                                                                         *)
(* Several workers share one queue and one bridge, so a lease that becomes *)
(* visible again while its first worker is still busy puts two applies of  *)
(* one envelope side by side.  Everything in a worker, a thread runtime or *)
(* an in-process map is lost by a crash; the journal, the ownership table, *)
(* the conversation binding and the queue survive it.                      *)
(*                                                                         *)
(* One conversation scope is modelled.  The thread a fork claim reserves   *)
(* for envelope e is named e, so Threads is Root and the envelopes.        *)
(***************************************************************************)
EXTENDS Naturals, FiniteSets, Sequences, SequencesExt

CONSTANTS Envelopes,   \* queued ingress envelopes, one dedupe key each
          Workers,     \* QueueWorker tasks on the shared queue
          Root,        \* the thread the conversation is first bound to
          None,        \* no turn, no worker, no thread, no envelope
          Policies,    \* route policies an envelope may carry
          MaxAttempt,  \* bound on the read count of one message
          MaxCrash,    \* bound on daemon process deaths
          MaxFault,    \* bound on injected errors in a worker's apply
          MaxExpire,   \* bound on leases that expire under a busy worker
          MaxFail      \* bound on turns that end their thread as Failed

AllPolicies == {"queue", "steer", "interrupt", "fork", "observe"}

Threads == {Root} \cup Envelopes
Attempts == 1..MaxAttempt
Turns == Envelopes \X Attempts

ASSUME IngressAssumption ==
    /\ Root \notin Envelopes
    /\ None \notin Envelopes \cup Workers \cup {Root} \cup Turns
    /\ Policies \subseteq AllPolicies
    /\ MaxAttempt \in Nat /\ MaxCrash \in Nat /\ MaxFault \in Nat
    /\ MaxExpire \in Nat /\ MaxFail \in Nat

VARIABLES
    policy,    \* the route policy of each envelope
    queue,     \* pgqrs: state, read count and lease holder of each message
    control,   \* the control stream of each thread: a sequence of events
    owner,     \* cooldis_daemon_ingress_ownership: candidate owner rows
    lock,      \* holder of the BEGIN IMMEDIATE admission transaction
    scope,     \* holder of the conversation's in-process scope lock
    route,     \* the thread the conversation is bound to
    active,    \* active_turns: the turn id the scope believes is running
    trace,     \* thread streams: execution evidence, in order of appending
    answers,   \* turns whose assistant entry has not been delivered yet
    thr,       \* the resident runtime of each thread
    pc,        \* where each worker stands in its apply
    job,       \* what each worker's apply carries
    spent      \* how much of each failure bound has been used

vars == << policy, queue, control, owner, lock, scope, route, active, trace,
           answers, thr, pc, job, spent >>

(***************************************************************************)
(* Control-stream events and the outcome fold.                             *)
(***************************************************************************)
EventKinds == {"received", "decided", "claimed", "settled", "spawned"}

Event(kind, e, turn, dec) ==
    [kind |-> kind, env |-> e, turn |-> turn, dec |-> dec]

EventsOf(s, kind, e) ==
    {i \in DOMAIN control[s] :
        control[s][i].kind = kind /\ control[s][i].env = e}

\* Every claim of e on the streams S, as positions in the journal.
ClaimsOn(S, e) == UNION {{s} \X EventsOf(s, "claimed", e) : s \in S}

SettlesOf(s, turn) ==
    {i \in DOMAIN control[s] :
        control[s][i].kind = "settled" /\ control[s][i].turn = turn}

\* What makes the fold of the streams S fail for every envelope: a second
\* claim of one envelope, or a second settle of one claim.
Corrupt(S) ==
    \/ \E e \in Envelopes : \E c, d \in ClaimsOn(S, e) : c # d
    \/ \E s \in S : \E i, j \in DOMAIN control[s] :
          /\ i # j
          /\ control[s][i].kind = "settled" /\ control[s][j].kind = "settled"
          /\ control[s][i].turn = control[s][j].turn

NoOutcome(state) ==
    [state |-> state, at |-> None, turn |-> None, dec |-> None]

\* ingress_outcome_fold: the envelope's outcome on the streams S.
OutcomeFold(e, S) ==
    LET claims == ClaimsOn(S, e)
        c      == CHOOSE x \in claims : TRUE
        event  == control[c[1]][c[2]]
    IN  IF Corrupt(S) THEN NoOutcome("corrupt")
        ELSE IF claims = {} THEN NoOutcome("missing")
        ELSE [state |-> IF SettlesOf(c[1], event.turn) = {}
                        THEN "claimed" ELSE "settled",
              at |-> c[1], turn |-> event.turn, dec |-> event.dec]

OwnerRows(e) == {r \in owner : r.env = e}
OwnerStreams(e) == {r.stream : r \in OwnerRows(e)}

\* ingress_outcome: the recorded owner streams first, the bound thread second.
IngressOutcomeOf(e) ==
    LET owned == OutcomeFold(e, OwnerStreams(e))
    IN  IF owned.state # "missing" THEN owned
        ELSE OutcomeFold(e, {route} \ {None})

\* turn_execution_evidence on the thread stream of t.
HasEvidence(t, turn) == \E i \in DOMAIN trace[t] : trace[t][i].turn = turn

(***************************************************************************)
(* A worker's apply.                                                       *)
(***************************************************************************)
IdleJob == [env |-> None, att |-> 0, to |-> None, dec |-> None,
            turn |-> None, tail |-> 0, seen |-> {}, holds |-> FALSE,
            rec |-> FALSE]

Resident == [up |-> "live", reserved |-> {}, mailbox |-> <<>>,
             running |-> None, traced |-> FALSE, ctx |-> None]
Absent == [Resident EXCEPT !.up = "absent"]

\* Mutant: the row counts the retries, so a first delivery records attempt 0.
OwnRowRetries(w) ==
    [env |-> job[w].env, att |-> job[w].att - 1, stream |-> job[w].to]

OwnRow(w) == [env |-> job[w].env, att |-> job[w].att, stream |-> job[w].to]

\* decide: a steering policy queues when the scope has no active turn.
Decide(e) ==
    IF policy[e] = "steer" /\ active = None THEN "queue" ELSE policy[e]

Init ==
    /\ policy \in [Envelopes -> Policies]
    /\ queue = [e \in Envelopes |->
                   [state |-> "ready", attempt |-> 0, holder |-> None]]
    /\ control = [t \in Threads |-> <<>>]
    /\ owner = {}
    /\ lock = None /\ scope = None /\ route = None /\ active = None
    /\ trace = [t \in Threads |-> <<>>]
    /\ answers = {}
    /\ thr = [t \in Threads |-> Absent]
    /\ pc = [w \in Workers |-> "idle"]
    /\ job = [w \in Workers |-> IdleJob]
    /\ spent = [crash |-> 0, fault |-> 0, expire |-> 0, fail |-> 0]

Goto(w, label) == pc' = [pc EXCEPT ![w] = label]

\* The reservation guard's Drop: an uncommitted turn id leaves the set.
DropReservation(w) ==
    IF job[w].holds
    THEN [thr EXCEPT ![job[w].to].reserved = @ \ {job[w].turn}]
    ELSE thr

LeaveScope(w) == scope' = IF scope = w THEN None ELSE scope
LeaveLock(w) == lock' = IF lock = w THEN None ELSE lock

\* An apply that returns Err: guards are dropped, the admission transaction
\* rolls back, and submit_leased_message releases the lease it still holds.
Abandon(w) ==
    /\ Goto(w, "idle")
    /\ job' = [job EXCEPT ![w] = IdleJob]
    /\ LeaveScope(w) /\ LeaveLock(w)
    /\ thr' = DropReservation(w)
    /\ queue' = IF queue[job[w].env].holder = w
                THEN [queue EXCEPT ![job[w].env] =
                         [@ EXCEPT !.state = "ready", !.holder = None]]
                ELSE queue

\* Mutant: recovery keeps the redelivery's own turn id instead of adopting
\* the turn the claim names.
ResumeFreshTurn(w, found, loser) ==
    /\ LeaveLock(w) /\ LeaveScope(w)
    /\ thr' = DropReservation(w)
    /\ IF found.state = "settled" \/ (found.dec = "fork" /\ loser)
       THEN /\ Goto(w, "done")
            /\ job' = [job EXCEPT ![w].holds = FALSE]
       ELSE /\ Goto(w, "recover")
            /\ job' = [job EXCEPT ![w] =
                          [@ EXCEPT !.to = found.at, !.dec = found.dec,
                                    !.holds = FALSE, !.rec = TRUE]]

\* Mutant: the loser of a claim race completes its lease whatever the claim.
ResumeTrusting(w, found, loser) ==
    /\ LeaveLock(w) /\ LeaveScope(w)
    /\ thr' = DropReservation(w)
    /\ Goto(w, "done")
    /\ job' = [job EXCEPT ![w].holds = FALSE]

\* What an apply does with an outcome that already exists.  A fork claim is
\* left to its first apply by a loser; any other unsettled claim is recovered.
Resume(w, found, loser) ==
    /\ LeaveLock(w) /\ LeaveScope(w)
    /\ thr' = DropReservation(w)
    /\ IF found.state = "settled" \/ (found.dec = "fork" /\ loser)
       THEN /\ Goto(w, "done")
            /\ job' = [job EXCEPT ![w].holds = FALSE]
       ELSE /\ Goto(w, "recover")
            /\ job' = [job EXCEPT ![w] =
                          [@ EXCEPT !.to = found.at, !.turn = found.turn,
                                    !.dec = found.dec, !.holds = FALSE,
                                    !.rec = TRUE]]

(***************************************************************************)
(* The queue: leasing, visibility, completion.                             *)
(***************************************************************************)
Lease(w, e) ==
    /\ pc[w] = "idle"
    /\ queue[e].state = "ready"
    /\ queue[e].attempt < MaxAttempt
    /\ LET n == queue[e].attempt + 1 IN
       /\ queue' = [queue EXCEPT ![e] =
                       [state |-> "leased", attempt |-> n, holder |-> w]]
       /\ job' = [job EXCEPT ![w] =
                     [IdleJob EXCEPT !.env = e, !.att = n,
                                     !.turn = <<e, n>>]]
    /\ Goto(w, "fold")
    /\ UNCHANGED << policy, control, owner, lock, scope, route, active, trace,
                    answers, thr, spent >>

\* The visibility timeout passes.  A lease whose worker is gone always
\* expires; one whose worker is merely slow expires within the bound.
Expire(e) ==
    /\ queue[e].state = "leased"
    /\ LET busy == \E w \in Workers : queue[e].holder = w /\ job[w].env = e
       IN  IF busy
           THEN /\ spent.expire < MaxExpire
                /\ spent' = [spent EXCEPT !.expire = @ + 1]
           ELSE UNCHANGED spent
    /\ queue' = [queue EXCEPT ![e] =
                    [@ EXCEPT !.state = "ready", !.holder = None]]
    /\ UNCHANGED << policy, control, owner, lock, scope, route, active, trace,
                    answers, thr, pc, job >>

\* complete_ingress archives the message.  What the queue does with the
\* call of a worker that lost its lease is the queue's own affair: both
\* outcomes are kept.
Complete(w) ==
    /\ pc[w] = "done"
    /\ LET e == job[w].env IN
       \/ queue' = [queue EXCEPT ![e] =
                       [@ EXCEPT !.state = "archived", !.holder = None]]
       \/ queue[e].holder # w /\ UNCHANGED queue
    /\ Goto(w, "idle")
    /\ job' = [job EXCEPT ![w] = IdleJob]
    /\ UNCHANGED << policy, control, owner, lock, scope, route, active, trace,
                    answers, thr, spent >>

(***************************************************************************)
(* Before the claim: fold, witness, decide, own, reserve.                  *)
(***************************************************************************)
FoldOutcome(w) ==
    /\ pc[w] = "fold"
    /\ LET found == IngressOutcomeOf(job[w].env) IN
       \/ /\ found.state = "missing"
          /\ Goto(w, "witness")
          /\ UNCHANGED << queue, lock, scope, thr, job >>
       \/ /\ found.state = "corrupt"
          /\ Abandon(w)
       \/ /\ found.state \in {"claimed", "settled"}
          /\ Resume(w, found, job[w].att = 1)
          /\ UNCHANGED queue
    /\ UNCHANGED << policy, control, owner, route, active, trace, answers,
                    spent >>

\* ensure_thread, ingress_state and record_ingress_received: the bound thread
\* is pinned for the rest of the apply, and the decision is computed from the
\* active turn read here.
Witness(w) ==
    /\ pc[w] = "witness"
    /\ scope = None
    /\ LET e == job[w].env
           t == IF route = None THEN Root ELSE route
       IN  /\ route' = t
           /\ thr' = IF thr[t].up = "absent"
                     THEN [thr EXCEPT ![t] = Resident] ELSE thr
           /\ control' = IF EventsOf(t, "received", e) # {} THEN control
                         ELSE [control EXCEPT ![t] =
                                  Append(@, Event("received", e, None, None))]
           /\ job' = [job EXCEPT ![w] =
                         [@ EXCEPT !.to = t, !.dec = Decide(e)]]
    /\ Goto(w, "decide")
    /\ UNCHANGED << policy, queue, owner, lock, scope, active, trace, answers,
                    spent >>

\* record_admission_decided: a redelivery must find the same decision.
RecordDecision(w) ==
    /\ pc[w] = "decide"
    /\ LET e == job[w].env
           t == job[w].to
           earlier == {control[t][i].dec : i \in EventsOf(t, "decided", e)}
       IN  \/ /\ earlier = {}
              /\ control' = [control EXCEPT ![t] =
                                Append(@, Event("decided", e, None, job[w].dec))]
              /\ Goto(w, "own")
              /\ UNCHANGED << queue, lock, scope, thr, job >>
           \/ /\ earlier = {job[w].dec}
              /\ Goto(w, "own")
              /\ UNCHANGED << queue, control, lock, scope, thr, job >>
           \/ /\ earlier \notin {{}, {job[w].dec}}
              /\ Abandon(w)
              /\ UNCHANGED control
    /\ UNCHANGED << policy, owner, route, active, trace, answers, spent >>

\* Mutant: the row is upserted per envelope instead of per attempt.
RecordOwnershipUpsert(w) ==
    /\ pc[w] = "own"
    /\ lock = None
    /\ owner' = (owner \ OwnerRows(job[w].env)) \cup {OwnRow(w)}
    /\ Goto(w, CASE job[w].dec = "fork"    -> "scope"
                 [] job[w].dec = "observe" -> "lock"
                 [] OTHER                  -> "reserve")
    /\ UNCHANGED << policy, queue, control, lock, scope, route, active, trace,
                    answers, thr, job, spent >>

RecordOwnership(w) ==
    /\ pc[w] = "own"
    /\ lock = None
    /\ owner' = owner \cup {OwnRow(w)}
    /\ Goto(w, CASE job[w].dec = "fork"    -> "scope"
                 [] job[w].dec = "observe" -> "lock"
                 [] OTHER                  -> "reserve")
    /\ UNCHANGED << policy, queue, control, lock, scope, route, active, trace,
                    answers, thr, job, spent >>

\* Mutant: a turn id that is already reserved is reserved again.
ReserveDuplicate(w) ==
    /\ pc[w] = "reserve"
    /\ thr[job[w].to].up = "live"
    /\ thr' = [thr EXCEPT ![job[w].to].reserved = @ \cup {job[w].turn}]
    /\ job' = [job EXCEPT ![w].holds = TRUE]
    /\ Goto(w, IF job[w].rec THEN "submit" ELSE "lock")
    /\ UNCHANGED << policy, queue, control, owner, lock, scope, route, active,
                    trace, answers, spent >>

\* reserve_turn_submission_at_choke_point: a turn id already in the set is a
\* no-op reservation; a runtime that has ended refuses a new one.
Reserve(w) ==
    /\ pc[w] = "reserve"
    /\ LET t == job[w].to
           u == job[w].turn
           next == IF job[w].rec THEN "submit" ELSE "lock"
       IN  \/ /\ u \in thr[t].reserved
              /\ Goto(w, next)
              /\ UNCHANGED << queue, lock, scope, thr, job >>
           \/ /\ u \notin thr[t].reserved
              /\ thr[t].up = "live"
              /\ thr' = [thr EXCEPT ![t].reserved = @ \cup {u}]
              /\ job' = [job EXCEPT ![w].holds = TRUE]
              /\ Goto(w, next)
              /\ UNCHANGED << queue, lock, scope >>
           \/ /\ u \notin thr[t].reserved
              /\ thr[t].up # "live"
              /\ Abandon(w)
    /\ UNCHANGED << policy, control, owner, route, active, trace, answers,
                    spent >>

(***************************************************************************)
(* The claim, under the admission lock.                                    *)
(***************************************************************************)
\* reservation_is_current: the latest attempt's row is this apply's row.
IsCurrent(w) ==
    /\ OwnRow(w) \in owner
    /\ \A r \in OwnerRows(job[w].env) : r.att <= job[w].att

PruneToReservation(w) ==
    {r \in owner : r.env = job[w].env => r = OwnRow(w)}

\* Mutant: the latest attempt's row survives, whatever stream it names.
PruneToLatest(e, s) ==
    {r \in owner : r.env = e => \A q \in OwnerRows(e) : q.att <= r.att}

\* prune_to_stream keeps the earliest row on the claim's stream, and deletes
\* nothing when there is none.
PruneToStream(e, s) ==
    LET onStream == {r \in OwnerRows(e) : r.stream = s}
    IN  IF onStream = {} THEN owner
        ELSE {r \in owner : r.env = e =>
                 r \in onStream /\ \A q \in onStream : r.att <= q.att}

\* BEGIN IMMEDIATE, the fold over every recorded owner stream, and the
\* currency check.
LockAdmission(w) ==
    /\ pc[w] = "lock"
    /\ lock = None
    /\ LET e == job[w].env
           found == OutcomeFold(e, OwnerStreams(e))
       IN  \/ /\ found.state = "corrupt"
              /\ Abandon(w)
              /\ UNCHANGED owner
           \/ /\ found.state \in {"claimed", "settled"}
              /\ owner' = PruneToStream(e, found.at)
              /\ Resume(w, found, job[w].dec = "fork")
              /\ UNCHANGED queue
           \/ /\ found.state = "missing"
              /\ IF IsCurrent(w)
                 THEN /\ lock' = w
                      /\ Goto(w, "read")
                      /\ UNCHANGED job
                 ELSE /\ Goto(w, "await")
                      /\ job' = [job EXCEPT ![w].seen = OwnerStreams(e)]
                      /\ UNCHANGED lock
              /\ UNCHANGED << queue, owner, scope, thr >>
    /\ UNCHANGED << policy, control, route, active, trace, answers, spent >>

\* await_ingress_outcome_on_streams polls the streams read under the lock.
AwaitOutcome(w) ==
    /\ pc[w] = "await"
    /\ LET found == OutcomeFold(job[w].env, job[w].seen) IN
       \/ /\ found.state \in {"claimed", "settled"}
          /\ Resume(w, found, job[w].dec = "fork")
          /\ UNCHANGED queue
       \/ /\ found.state = "corrupt"
          /\ Abandon(w)
    /\ UNCHANGED << policy, control, owner, route, active, trace, answers,
                    spent >>

\* The head of append_ingress_claim's loop: fold the claim's own stream and
\* note its tail.
ReadClaimStream(w) ==
    /\ pc[w] = "read"
    /\ LET found == OutcomeFold(job[w].env, {job[w].to}) IN
       \/ /\ found.state = "missing"
          /\ job' = [job EXCEPT ![w].tail = Len(control[job[w].to])]
          /\ Goto(w, "append")
          /\ UNCHANGED << queue, owner, lock, scope, thr >>
       \/ /\ found.state \in {"claimed", "settled"}
          /\ owner' = PruneToReservation(w)
          /\ Resume(w, found, job[w].dec = "fork")
          /\ UNCHANGED queue
       \/ /\ found.state = "corrupt"
          /\ Abandon(w)
          /\ UNCHANGED owner
    /\ UNCHANGED << policy, control, route, active, trace, answers, spent >>

\* The fenced append of the claim; observe and reject append the settle in
\* the same batch.  A moved tail goes back to the read.
ClaimBatch(w) ==
    LET s == control[job[w].to]
        claimed == Append(s, Event("claimed", job[w].env, job[w].turn,
                                   job[w].dec))
    IN  IF job[w].dec = "observe"
        THEN Append(claimed, Event("settled", job[w].env, job[w].turn,
                                   job[w].dec))
        ELSE claimed

AppendClaim(w) ==
    /\ pc[w] = "append"
    /\ IF Len(control[job[w].to]) = job[w].tail
       THEN /\ control' = [control EXCEPT ![job[w].to] = ClaimBatch(w)]
            /\ Goto(w, "commit")
       ELSE /\ Goto(w, "read")
            /\ UNCHANGED control
    /\ UNCHANGED << policy, queue, owner, lock, scope, route, active, trace,
                    answers, thr, job, spent >>

\* The admission transaction commits the pruning after the journal append.
CommitAdmission(w) ==
    /\ pc[w] = "commit"
    /\ owner' = PruneToReservation(w)
    /\ LeaveLock(w)
    /\ Goto(w, CASE job[w].dec = "observe"   -> "done"
                 [] job[w].dec = "interrupt" -> "cancel"
                 [] job[w].dec = "fork"      -> "create"
                 [] OTHER                    -> "submit")
    /\ UNCHANGED << policy, queue, control, scope, route, active, trace,
                    answers, thr, job, spent >>

(***************************************************************************)
(* Effects, evidence and settle of a turn claim, and its recovery.         *)
(***************************************************************************)
\* cancel_at: a command for a busy runtime, a witnessed no-op otherwise.
CancelActive(w) ==
    /\ pc[w] = "cancel"
    /\ LET t == job[w].to
           busy == /\ thr[t].up = "live"
                   /\ thr[t].running # None \/ thr[t].mailbox # <<>>
       IN  thr' = IF busy
                  THEN [thr EXCEPT ![t].mailbox =
                           Append(@, [mode |-> "cancel", turn |-> None])]
                  ELSE thr
    /\ Goto(w, IF job[w].rec THEN "check" ELSE "submit")
    /\ UNCHANGED << policy, queue, control, owner, lock, scope, route, active,
                    trace, answers, job, spent >>

\* submit_unchecked: the permit held since the reservation delivers the
\* command, unless the runtime it belongs to has ended.
Submission(turn, dec) ==
    [mode |-> IF dec \in {"steer", "interrupt"} THEN dec ELSE "queue",
     turn |-> turn]

SubmitTurn(w) ==
    /\ pc[w] = "submit"
    /\ LET t == job[w].to IN
       /\ thr' = IF job[w].holds /\ thr[t].up = "live"
                 THEN [thr EXCEPT ![t].mailbox =
                          Append(@, Submission(job[w].turn, job[w].dec))]
                 ELSE thr
       /\ active' = job[w].turn
       /\ job' = [job EXCEPT ![w].holds = FALSE]
    /\ Goto(w, "evidence")
    /\ UNCHANGED << policy, queue, control, owner, lock, scope, route, trace,
                    answers, spent >>

\* Mutant: the claim is settled once the runtime has accepted the turn.
AwaitNothing(w) ==
    /\ pc[w] = "evidence"
    /\ Goto(w, "settle")
    /\ UNCHANGED << policy, queue, control, owner, lock, scope, route, active,
                    trace, answers, thr, job, spent >>

AwaitEvidence(w) ==
    /\ pc[w] = "evidence"
    /\ HasEvidence(job[w].to, job[w].turn)
    /\ Goto(w, "settle")
    /\ UNCHANGED << policy, queue, control, owner, lock, scope, route, active,
                    trace, answers, thr, job, spent >>

\* append_ingress_settle, read half: an existing settle is adopted, a claim
\* that is not this apply's claim is an error.
ReadSettleStream(w) ==
    /\ pc[w] = "settle"
    /\ LET found == OutcomeFold(job[w].env, {job[w].to}) IN
       \/ /\ found.state = "settled"
          /\ Goto(w, "done")
          /\ LeaveScope(w)
          /\ UNCHANGED << queue, lock, thr, job >>
       \/ /\ found.state = "claimed" /\ found.turn = job[w].turn
          /\ job' = [job EXCEPT ![w].tail = Len(control[job[w].to])]
          /\ Goto(w, "settling")
          /\ UNCHANGED << queue, lock, scope, thr >>
       \/ /\ \/ found.state \in {"missing", "corrupt"}
             \/ found.state = "claimed" /\ found.turn # job[w].turn
          /\ Abandon(w)
    /\ UNCHANGED << policy, control, owner, route, active, trace, answers,
                    spent >>

\* Mutant: the settle is appended without the expected tail.
AppendSettleUnfenced(w) ==
    /\ pc[w] = "settling"
    /\ control' = [control EXCEPT ![job[w].to] =
          Append(@, Event("settled", job[w].env, job[w].turn, job[w].dec))]
    /\ Goto(w, "done")
    /\ LeaveScope(w)
    /\ UNCHANGED << policy, queue, owner, lock, route, active, trace, answers,
                    thr, job, spent >>

\* append_ingress_settle, fenced append half.
AppendSettle(w) ==
    /\ pc[w] = "settling"
    /\ IF Len(control[job[w].to]) = job[w].tail
       THEN /\ control' = [control EXCEPT ![job[w].to] =
                  Append(@, Event("settled", job[w].env, job[w].turn,
                                  job[w].dec))]
            /\ Goto(w, "done")
            /\ LeaveScope(w)
       ELSE /\ Goto(w, "settle")
            /\ UNCHANGED << control, scope >>
    /\ UNCHANGED << policy, queue, owner, lock, route, active, trace, answers,
                    thr, job, spent >>

\* recover_ingress_outcome, head: a fork goes to the scope lock; a turn first
\* looks at the status of the resident runtime.
Recover(w) ==
    /\ pc[w] = "recover"
    /\ Goto(w, IF thr[job[w].to].up = "failed" THEN "reload"
               ELSE CASE job[w].dec = "fork"      -> "scope"
                      [] job[w].dec = "interrupt" -> "cancel"
                      [] OTHER                    -> "check")
    /\ UNCHANGED << policy, queue, control, owner, lock, scope, route, active,
                    trace, answers, thr, job, spent >>

\* shutdown_thread_at and get_or_load_thread_handle: by coordinates, so it is
\* whatever runtime is resident now that is replaced.  Permits and turn ids
\* held on the old runtime die with it.
Reload(w) ==
    /\ pc[w] = "reload"
    /\ LET t == job[w].to IN
       /\ thr' = [thr EXCEPT ![t] = [Resident EXCEPT !.ctx = thr[t].ctx]]
       /\ job' = [v \in Workers |-> IF job[v].to = t
                                    THEN [job[v] EXCEPT !.holds = FALSE]
                                    ELSE job[v]]
    /\ Goto(w, CASE job[w].dec = "fork"      -> "scope"
                 [] job[w].dec = "interrupt" -> "cancel"
                 [] OTHER                    -> "check")
    /\ UNCHANGED << policy, queue, control, owner, lock, scope, route, active,
                    trace, answers, spent >>

\* Mutant: recovery waits for a turn the process death has lost.
CheckEvidenceWait(w) ==
    /\ pc[w] = "check"
    /\ Goto(w, "evidence")
    /\ UNCHANGED << policy, queue, control, owner, lock, scope, route, active,
                    trace, answers, thr, job, spent >>

\* The evidence check of recovery: settle what ran, reserve what did not.
CheckEvidence(w) ==
    /\ pc[w] = "check"
    /\ Goto(w, IF HasEvidence(job[w].to, job[w].turn)
               THEN "settle" ELSE "reserve")
    /\ UNCHANGED << policy, queue, control, owner, lock, scope, route, active,
                    trace, answers, thr, job, spent >>

(***************************************************************************)
(* Fork effects, under the scope lock from claim to settle.                *)
(***************************************************************************)
SpawnedFor(s, turn) ==
    \E i \in DOMAIN control[s] :
        control[s][i].kind = "spawned" /\ control[s][i].turn = turn

\* Mutant: recovery creates the child again without looking for its spawn.
TakeScopeBlind(w) ==
    /\ pc[w] = "scope"
    /\ scope = None
    /\ scope' = w
    /\ Goto(w, IF job[w].rec THEN "create" ELSE "lock")
    /\ UNCHANGED << policy, queue, control, owner, lock, route, active, trace,
                    answers, thr, job, spent >>

\* apply_fork_admission takes the lock before the claim; fork recovery takes
\* it before folding the parent stream again and scanning for the spawn.
TakeScope(w) ==
    /\ pc[w] = "scope"
    /\ scope = None
    /\ LET found == OutcomeFold(job[w].env, {job[w].to}) IN
       \/ /\ ~job[w].rec
          /\ scope' = w
          /\ Goto(w, "lock")
          /\ UNCHANGED << queue, lock, thr, job >>
       \/ /\ job[w].rec
          /\ found.state = "claimed" /\ found.turn = job[w].turn
          /\ scope' = w
          /\ Goto(w, IF SpawnedFor(job[w].to, job[w].turn)
                     THEN "adopt" ELSE "create")
          /\ UNCHANGED << queue, lock, thr, job >>
       \/ /\ job[w].rec
          /\ found.state = "settled"
          /\ Goto(w, "done")
          /\ UNCHANGED << queue, lock, scope, thr, job >>
       \/ /\ job[w].rec
          /\ \/ found.state \in {"missing", "corrupt"}
             \/ found.state = "claimed" /\ found.turn # job[w].turn
          /\ Abandon(w)
    /\ UNCHANGED << policy, control, owner, route, active, trace, answers,
                    spent >>

\* fork_thread_with_manifest_witness: find or create the reserved child.
CreateChild(w) ==
    /\ pc[w] = "create"
    /\ thr' = IF thr[job[w].env].up = "absent"
              THEN [thr EXCEPT ![job[w].env] = Resident] ELSE thr
    /\ Goto(w, "spawn")
    /\ UNCHANGED << policy, queue, control, owner, lock, scope, route, active,
                    trace, answers, job, spent >>

AppendSpawned(w) ==
    /\ pc[w] = "spawn"
    /\ control' = [control EXCEPT ![job[w].to] =
                      Append(@, Event("spawned", job[w].env, job[w].turn,
                                      job[w].dec))]
    /\ Goto(w, "rebind")
    /\ UNCHANGED << policy, queue, owner, lock, scope, route, active, trace,
                    answers, thr, job, spent >>

\* rebind_ingress_thread, then the child's journal decides whether an adopted
\* child still needs its turn.
RebindRoute(w) ==
    /\ pc[w] \in {"rebind", "adopt"}
    /\ lock = None
    /\ route' = job[w].env
    /\ Goto(w, IF pc[w] = "adopt" /\ HasEvidence(job[w].env, job[w].turn)
               THEN "settle" ELSE "forksubmit")
    /\ UNCHANGED << policy, queue, control, owner, lock, scope, active, trace,
                    answers, thr, job, spent >>

\* Reserve and submit the child turn; a refused reservation withdraws the
\* active turn again.  A fork claim settles without execution evidence.
SubmitFork(w) ==
    /\ pc[w] = "forksubmit"
    /\ LET t == job[w].env
           u == job[w].turn
       IN  \/ /\ u \in thr[t].reserved
              /\ active' = u
              /\ Goto(w, "settle")
              /\ UNCHANGED << queue, lock, scope, thr, job >>
           \/ /\ u \notin thr[t].reserved
              /\ thr[t].up = "live"
              /\ active' = u
              /\ thr' = [thr EXCEPT ![t] =
                    [thr[t] EXCEPT
                       !.reserved = @ \cup {u},
                       !.mailbox = Append(@, Submission(u, "fork"))]]
              /\ Goto(w, "settle")
              /\ UNCHANGED << queue, lock, scope, job >>
           \/ /\ u \notin thr[t].reserved
              /\ thr[t].up # "live"
              /\ active' = None
              /\ Abandon(w)
    /\ UNCHANGED << policy, control, owner, route, trace, answers, spent >>

(***************************************************************************)
(* The executing side: one agent loop per thread.                          *)
(***************************************************************************)
\* Records of the executing side.  append_turn_input adopts the entry of a
\* replayed steer; a turn that starts again leaves a second compile receipt.
Record(t, kind, u) ==
    trace' = [trace EXCEPT ![t] = Append(@, [kind |-> kind, turn |-> u])]

RecordSteer(t, u) ==
    IF HasEvidence(t, u) THEN UNCHANGED trace ELSE Record(t, "steered", u)

\* run_idle_provider_command: a steer finds no active turn and is only
\* recorded, a cancel finds nothing to cancel, a turn starts.
StartCommand(t) ==
    /\ thr[t].up = "live" /\ thr[t].running = None /\ thr[t].mailbox # <<>>
    /\ LET c == Head(thr[t].mailbox)
           rest == [thr[t] EXCEPT !.mailbox = Tail(@)]
       IN  \/ /\ c.mode = "cancel"
              /\ thr' = [thr EXCEPT ![t] = rest]
              /\ UNCHANGED trace
           \/ /\ c.mode = "steer"
              /\ thr' = [thr EXCEPT ![t] = [rest EXCEPT !.ctx = c.turn]]
              /\ RecordSteer(t, c.turn)
           \/ /\ c.mode \in {"queue", "interrupt"}
              /\ thr' = [thr EXCEPT ![t] =
                            [rest EXCEPT !.running = c.turn, !.traced = FALSE,
                                         !.ctx = c.turn]]
              /\ UNCHANGED trace
    /\ UNCHANGED << policy, queue, control, owner, lock, scope, route, active,
                    answers, pc, job, spent >>

\* run_provider_turn appends the context compile receipt, the first record
\* that counts as execution evidence.
CompileContext(t) ==
    /\ thr[t].running # None /\ ~thr[t].traced
    /\ Record(t, "compiled", thr[t].running)
    /\ thr' = [thr EXCEPT ![t].traced = TRUE]
    /\ UNCHANGED << policy, queue, control, owner, lock, scope, route, active,
                    answers, pc, job, spent >>

\* handle_active_provider_command: queued submissions are deferred in order;
\* a steer joins the turn, a cancel or an interrupt ends it, and the
\* interrupting turn goes to the front of the deferred ones.
ActiveCommand(t) ==
    /\ thr[t].running # None /\ thr[t].traced
    /\ \E i \in DOMAIN thr[t].mailbox :
       LET c == thr[t].mailbox[i]
           rest == RemoveAt(thr[t].mailbox, i)
       IN  /\ c.mode # "queue"
           /\ \A j \in 1..(i - 1) : thr[t].mailbox[j].mode = "queue"
           /\ \/ /\ c.mode = "steer"
                 /\ thr' = [thr EXCEPT ![t] =
                               [@ EXCEPT !.mailbox = rest, !.ctx = c.turn]]
                 /\ RecordSteer(t, c.turn)
              \/ /\ c.mode = "cancel"
                 /\ thr' = [thr EXCEPT ![t] =
                               [@ EXCEPT !.mailbox = rest, !.running = None]]
                 /\ UNCHANGED trace
              \/ /\ c.mode = "interrupt"
                 /\ thr' = [thr EXCEPT ![t] =
                       [@ EXCEPT !.running = None, !.mailbox =
                                 <<Submission(c.turn, "queue")>> \o rest]]
                 /\ UNCHANGED trace
    /\ UNCHANGED << policy, queue, control, owner, lock, scope, route, active,
                    answers, pc, job, spent >>

\* The turn completes; its assistant entry answers the latest user entry.
FinishTurn(t) ==
    /\ thr[t].running # None /\ thr[t].traced
    /\ thr' = [thr EXCEPT ![t].running = None]
    /\ answers' = answers \cup {thr[t].ctx}
    /\ UNCHANGED << policy, queue, control, owner, lock, scope, route, active,
                    trace, pc, job, spent >>

\* drain_thread_egress delivers an assistant entry and clears the active turn
\* it belongs to.
DeliverAnswer(u) ==
    /\ u \in answers
    /\ answers' = answers \ {u}
    /\ active' = IF active = u THEN None ELSE active
    /\ UNCHANGED << policy, queue, control, owner, lock, scope, route, trace,
                    thr, pc, job, spent >>

\* FailedTurnTransition::fail: turn.failed is recorded, unless its append
\* fails as well, and the agent loop ends; commands still in its mailbox are
\* gone.  The ended runtime stays resident.
FailTurn(t) ==
    /\ thr[t].running # None
    /\ spent.fail < MaxFail
    /\ \/ /\ Record(t, "failed", thr[t].running)
          /\ spent' = [spent EXCEPT !.fail = @ + 1]
       \/ /\ spent.fault < MaxFault
          /\ spent' = [spent EXCEPT !.fail = spent.fail + 1,
                                  !.fault = spent.fault + 1]
          /\ UNCHANGED trace
    /\ thr' = [thr EXCEPT ![t] = [@ EXCEPT !.up = "failed", !.mailbox = <<>>,
                                           !.running = None, !.traced = FALSE]]
    /\ UNCHANGED << policy, queue, control, owner, lock, scope, route, active,
                    answers, pc, job >>

(***************************************************************************)
(* Errors, timeouts and process death.                                     *)
(***************************************************************************)
InFlight(t, u) ==
    \/ thr[t].running = u
    \/ \E i \in DOMAIN thr[t].mailbox : thr[t].mailbox[i].turn = u
    \/ \E v \in Workers : job[v].holds /\ job[v].turn = u

\* The 30 second waits: for the outcome of a superseding owner, and for the
\* evidence of a turn that is no longer anywhere in the runtime.
Timeout(w) ==
    /\ \/ pc[w] = "await"
       \/ /\ pc[w] = "evidence"
          /\ ~HasEvidence(job[w].to, job[w].turn)
          /\ ~InFlight(job[w].to, job[w].turn)
    /\ Abandon(w)
    /\ UNCHANGED << policy, control, owner, route, active, trace, answers,
                    spent >>

\* Any store or runtime call of an apply may fail.
Fault(w) ==
    /\ pc[w] \notin {"idle", "done"}
    /\ spent.fault < MaxFault
    /\ spent' = [spent EXCEPT !.fault = @ + 1]
    /\ Abandon(w)
    /\ UNCHANGED << policy, control, owner, route, active, trace, answers >>

\* The daemon dies and restarts: workers, locks, the active-turn map and the
\* resident runtimes are gone, threads are loaded again on demand.
Crash ==
    /\ spent.crash < MaxCrash
    /\ spent' = [spent EXCEPT !.crash = @ + 1]
    /\ pc' = [w \in Workers |-> "idle"]
    /\ job' = [w \in Workers |-> IdleJob]
    /\ lock' = None /\ scope' = None /\ active' = None
    /\ thr' = [t \in Threads |-> IF thr[t].up = "absent" THEN Absent
                                 ELSE [Resident EXCEPT !.ctx = thr[t].ctx]]
    /\ UNCHANGED << policy, queue, control, owner, route, trace, answers >>

\* Every message is archived, every worker idle, every thread at rest.
Quiescent ==
    /\ \A e \in Envelopes : queue[e].state = "archived"
    /\ \A w \in Workers : pc[w] = "idle"
    /\ \A t \in Threads : thr[t].running = None /\ thr[t].mailbox = <<>>
    /\ answers = {}

Drained == Quiescent /\ UNCHANGED vars

Apply(w) ==
    \/ \E e \in Envelopes : Lease(w, e)
    \/ FoldOutcome(w) \/ Witness(w) \/ RecordDecision(w) \/ RecordOwnership(w)
    \/ Reserve(w) \/ LockAdmission(w) \/ AwaitOutcome(w) \/ ReadClaimStream(w)
    \/ AppendClaim(w) \/ CommitAdmission(w) \/ CancelActive(w) \/ SubmitTurn(w)
    \/ AwaitEvidence(w) \/ ReadSettleStream(w) \/ AppendSettle(w)
    \/ Recover(w) \/ Reload(w) \/ CheckEvidence(w) \/ TakeScope(w)
    \/ CreateChild(w) \/ AppendSpawned(w) \/ RebindRoute(w) \/ SubmitFork(w)
    \/ Timeout(w) \/ Complete(w)

Execute(t) ==
    StartCommand(t) \/ CompileContext(t) \/ ActiveCommand(t) \/ FinishTurn(t)

Next ==
    \/ \E w \in Workers : Apply(w) \/ Fault(w)
    \/ \E e \in Envelopes : Expire(e)
    \/ \E t \in Threads : Execute(t) \/ FailTurn(t)
    \/ \E u \in answers : DeliverAnswer(u)
    \/ Crash
    \/ Drained

Spec == Init /\ [][Next]_vars

\* Workers and agent loops are tokio tasks that keep being polled, the waits
\* are bounded by timeouts, leases become visible again, and the egress drain
\* runs on a timer.  Nothing makes a fault, a crash or a failed turn happen.
Fairness ==
    /\ \A w \in Workers : WF_vars(Apply(w))
    /\ \A e \in Envelopes : WF_vars(Expire(e))
    /\ \A t \in Threads : WF_vars(Execute(t))
    /\ WF_vars(\E u \in answers : DeliverAnswer(u))

FairSpec == Spec /\ Fairness

(***************************************************************************)
(* Properties.                                                             *)
(***************************************************************************)
Labels == {"idle", "fold", "witness", "decide", "own", "reserve", "scope",
           "lock", "await", "read", "append", "commit", "cancel", "submit",
           "evidence", "settle", "settling", "recover", "reload", "check",
           "create", "spawn", "rebind", "adopt", "forksubmit", "done"}

MaybeTurns == Turns \cup {None}
Decisions == AllPolicies \cup {None}

Messages == [state : {"ready", "leased", "archived"}, attempt : 0..MaxAttempt,
             holder : Workers \cup {None}]
Events == [kind : EventKinds, env : Envelopes, turn : MaybeTurns,
           dec : Decisions]
Rows == [env : Envelopes, att : Attempts, stream : Threads]
Records == [kind : {"compiled", "steered", "failed"}, turn : MaybeTurns]
Commands == [mode : {"queue", "steer", "interrupt", "cancel"},
             turn : MaybeTurns]
Runtimes == [up : {"absent", "live", "failed"}, reserved : SUBSET MaybeTurns,
             mailbox : Seq(Commands), running : MaybeTurns, traced : BOOLEAN,
             ctx : MaybeTurns]
Jobs == [env : Envelopes \cup {None}, att : 0..MaxAttempt,
         to : Threads \cup {None}, dec : Decisions, turn : MaybeTurns,
         tail : Nat, seen : SUBSET Threads, holds : BOOLEAN, rec : BOOLEAN]
Budgets == [crash : 0..MaxCrash, fault : 0..MaxFault, expire : 0..MaxExpire,
            fail : 0..MaxFail]

\* The type invariant of the protocol's state.
TypeOK ==
    /\ policy \in [Envelopes -> AllPolicies]
    /\ queue \in [Envelopes -> Messages]
    /\ control \in [Threads -> Seq(Events)]
    /\ owner \subseteq Rows
    /\ lock \in Workers \cup {None} /\ scope \in Workers \cup {None}
    /\ route \in Threads \cup {None} /\ active \in MaybeTurns
    /\ trace \in [Threads -> Seq(Records)]
    /\ answers \subseteq MaybeTurns
    /\ thr \in [Threads -> Runtimes]
    /\ pc \in [Workers -> Labels]
    /\ job \in [Workers -> Jobs]
    /\ spent \in Budgets

Claimed(e) == ClaimsOn(Threads, e) # {}
Settled(e) == \E s \in Threads : EventsOf(s, "settled", e) # {}

\* The context compile receipts of turn u on thread t: one per execution.
Executions(t, u) ==
    {i \in DOMAIN trace[t] : trace[t][i] = [kind |-> "compiled", turn |-> u]}

\* "At most one claim exists per ingress envelope id", across every control
\* stream: attempts that resolved different threads never both claim.
OneClaimPerEnvelope ==
    \A e \in Envelopes : Cardinality(ClaimsOn(Threads, e)) <= 1

\* A claim is settled at most once, on its own stream, after the claim: an
\* executing apply and a recovering one that both reach append_ingress_settle
\* leave one io.ingress.settled.
OneSettlePerClaim ==
    \A s \in Threads : \A i \in DOMAIN control[s] :
        control[s][i].kind = "settled" =>
            /\ SettlesOf(s, control[s][i].turn) = {i}
            /\ \E j \in 1..(i - 1) :
                  /\ control[s][j].kind = "claimed"
                  /\ control[s][j].turn = control[s][i].turn

\* A settle rests on what its intent needs: an executing-side record of the
\* turn for queue, steer and interrupt, one thread.spawned for a fork.
SettledOnEvidence ==
    \A s \in Threads : \A i \in DOMAIN control[s] :
        LET x == control[s][i] IN
        x.kind = "settled" =>
            CASE x.dec \in {"queue", "steer", "interrupt"} ->
                     HasEvidence(s, x.turn)
              [] x.dec = "fork" -> SpawnedFor(s, x.turn)
              [] OTHER -> TRUE

\* Reservation before creation: a fork child exists only under a fork claim
\* of its envelope, and the claim's stream names it in at most one
\* thread.spawned, whatever cut the crash fell on.
OneChildPerForkClaim ==
    \A e \in Envelopes :
        /\ thr[e].up # "absent" =>
               \E s \in Threads : \E i \in EventsOf(s, "claimed", e) :
                   control[s][i].dec = "fork"
        /\ Cardinality(UNION {{s} \X EventsOf(s, "spawned", e) :
                                 s \in Threads}) <= 1

\* "A claim always has its ownership record": whatever rows are staged,
\* pruned or rolled back, the fold over owner streams reaches every claim.
ClaimIsOwned ==
    \A e \in Envelopes : \A c \in ClaimsOn(Threads, e) :
        c[1] \in OwnerStreams(e)

\* The loser of a claim race performs no effects: a turn that reached a
\* mailbox or an execution record is the turn its envelope's claim names.
OnlyClaimedTurnsRun ==
    \A t \in Threads :
        \A u \in {trace[t][i].turn : i \in DOMAIN trace[t]}
                 \cup {thr[t].running}
                 \cup {thr[t].mailbox[i].turn : i \in DOMAIN thr[t].mailbox} :
            u # None => \E s \in Threads :
                \E i \in EventsOf(s, "claimed", u[1]) : control[s][i].turn = u

\* No turn is executed twice while no runtime has failed: redelivery,
\* recovery, restarts and a slow first apply add no second execution record
\* for a turn id.
RunsOnceUnlessFailed ==
    spent.fail = 0 =>
        \A t \in Threads : \A i \in DOMAIN trace[t] :
            Cardinality(Executions(t, trace[t][i].turn)) <= 1

\* Every envelope with an admitted attempt reaches a settled claim and leaves
\* the queue, whichever cut of the apply a crash, an error or an expired
\* lease falls on.
EveryEnvelopeSettles ==
    \A e \in Envelopes : <>(Settled(e) /\ queue[e].state = "archived")

(***************************************************************************)
(* What a claim rests on: the inductive strengthening of                   *)
(* OneClaimPerEnvelope and ClaimIsOwned.                                   *)
(***************************************************************************)
\* The apply carries a pinned envelope and turn, and past the witness a
\* pinned stream.
JobShape ==
    \A w \in Workers : pc[w] # "idle" =>
        /\ job[w].env \in Envelopes /\ job[w].att \in Attempts
        /\ job[w].turn \in {job[w].env} \X Attempts
        /\ pc[w] \notin {"fold", "witness", "done"} =>
               job[w].to \in Threads /\ job[w].dec \in AllPolicies

\* Claims and settles name a turn of their own envelope and a decision.
Shaped(event) ==
    event.kind \in {"claimed", "settled"} =>
        event.turn \in {event.env} \X Attempts /\ event.dec \in AllPolicies

ClaimShape ==
    \A s \in Threads : \A i \in DOMAIN control[s] : Shaped(control[s][i])

\* The critical section of append_ingress_claim: its holder's row stays in
\* the table, and no stream has a claim of its envelope before the append.
LockDiscipline ==
    \A w \in Workers :
        /\ pc[w] \in {"read", "append", "commit"} =>
               lock = w /\ OwnRow(w) \in owner
        /\ pc[w] \in {"read", "append"} =>
               ClaimsOn(Threads, job[w].env) = {}
        /\ pc[w] = "commit" =>
               \A c \in ClaimsOn(Threads, job[w].env) : c[1] = job[w].to

ClaimsAreUnique ==
    \A e \in Envelopes : \A c, d \in ClaimsOn(Threads, e) : c = d

ClaimInv ==
    /\ JobShape /\ ClaimShape /\ LockDiscipline /\ ClaimsAreUnique
    /\ ClaimIsOwned

(***************************************************************************)
(* Statements of the repository's documents that the code does not keep.   *)
(***************************************************************************)
\* ADR 0004: no unsettled claim survives quiescence with redelivery enabled.
NoUnsettledClaimAtRest ==
    Quiescent => \A e \in Envelopes : Claimed(e) => Settled(e)

\* ADR 0003: everything before the claim is idempotent, the decision append
\* included: an unclaimed envelope is decided as it was decided before.
DecisionIsIdempotent ==
    \A w \in Workers :
        pc[w] = "decide" /\ ~Claimed(job[w].env) =>
            \A i \in EventsOf(job[w].to, "decided", job[w].env) :
                control[job[w].to][i].dec = job[w].dec

\* ADR 0003: the duplicate-turn direction is structurally excluded.
RunsAtMostOnce ==
    \A t \in Threads : \A i \in DOMAIN trace[t] :
        Cardinality(Executions(t, trace[t][i].turn)) <= 1

\* ADR 0004: a Failed resident never wedges a reservation.  The thread that
\* ensure_thread resolves for a fresh apply can take its turn.
ResolvesLiveThread ==
    [][\A w \in Workers :
          pc[w] = "witness" /\ pc'[w] = "decide" =>
              thr'[job'[w].to].up = "live"]_vars

\* io.md: steer_when_active steers while a turn is running and otherwise
\* starts a queued turn.  Leniently, a turn still counts as running while a
\* command waits or an answer is undelivered.
SteersOnlyARunningTurn ==
    [][\A w \in Workers :
          pc[w] = "witness" /\ job'[w].dec = "steer" =>
              \/ answers # {}
              \/ \E t \in Threads :
                    thr[t].running # None \/ thr[t].mailbox # <<>>]_vars
=============================================================================

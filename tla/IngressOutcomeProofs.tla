------------------------ MODULE IngressOutcomeProofs ------------------------
(***************************************************************************)
(* Proofs about the ingress outcome protocol, for any sets of envelopes    *)
(* and workers and any failure bounds.                                     *)
(***************************************************************************)
EXTENDS IngressOutcome, TLAPS, SequenceTheorems, FiniteSetTheorems

(***************************************************************************)
(* Records keep their type under the updates the actions make.             *)
(***************************************************************************)
\* A worker's job record under the updates of the apply.
LEMMA JobFields ==
    ASSUME NEW j \in Jobs, NEW t \in Threads, NEW d \in AllPolicies,
           NEW u \in Turns, NEW n \in Nat, NEW S \in SUBSET Threads,
           NEW b \in BOOLEAN
    PROVE  /\ [j EXCEPT !.holds = b] \in Jobs
           /\ [j EXCEPT !.tail = n] \in Jobs
           /\ [j EXCEPT !.seen = S] \in Jobs
           /\ [j EXCEPT !.to = t, !.dec = d] \in Jobs
           /\ [j EXCEPT !.to = t, !.turn = u, !.dec = d, !.holds = FALSE,
                        !.rec = TRUE] \in Jobs
BY DEF Jobs, MaybeTurns, Decisions

\* The empty job, and the job of a fresh lease.
LEMMA NewJobs ==
    /\ IdleJob \in Jobs
    /\ \A e \in Envelopes, n \in Attempts :
          [IdleJob EXCEPT !.env = e, !.att = n, !.turn = <<e, n>>] \in Jobs
<1>1. 0 \in 0..MaxAttempt /\ Attempts \subseteq 0..MaxAttempt
  BY IngressAssumption DEF IngressAssumption, Attempts
<1>2. IdleJob \in Jobs
  BY <1>1 DEF IdleJob, Jobs, MaybeTurns, Decisions
<1>3. ASSUME NEW e \in Envelopes, NEW n \in Attempts
      PROVE  [IdleJob EXCEPT !.env = e, !.att = n, !.turn = <<e, n>>] \in Jobs
  <2>1. <<e, n>> \in Turns /\ n \in 0..MaxAttempt
    BY <1>1 DEF Turns
  <2> QED
    BY <1>2, <2>1 DEF Jobs, MaybeTurns
<1> QED
  BY <1>2, <1>3

\* A runtime record under the updates of reservation, submission and the loop.
LEMMA RuntimeFields ==
    ASSUME NEW r \in Runtimes, NEW b \in BOOLEAN, NEW u \in MaybeTurns,
           NEW v \in MaybeTurns, NEW m \in Seq(Commands),
           NEW R \in SUBSET MaybeTurns
    PROVE  /\ [r EXCEPT !.traced = b] \in Runtimes
           /\ [r EXCEPT !.running = u] \in Runtimes
           /\ [r EXCEPT !.mailbox = m] \in Runtimes
           /\ [r EXCEPT !.reserved = R] \in Runtimes
           /\ [r EXCEPT !.ctx = u] \in Runtimes
           /\ [r EXCEPT !.reserved = R, !.mailbox = m] \in Runtimes
           /\ [r EXCEPT !.mailbox = m, !.ctx = u] \in Runtimes
           /\ [r EXCEPT !.mailbox = m, !.running = u] \in Runtimes
           /\ [r EXCEPT !.running = u, !.mailbox = m] \in Runtimes
           /\ [r EXCEPT !.running = u, !.traced = b, !.ctx = v] \in Runtimes
           /\ [r EXCEPT !.up = "failed", !.mailbox = m, !.running = u,
                        !.traced = b] \in Runtimes
BY DEF Runtimes

LEMMA NewRuntimes == Resident \in Runtimes /\ Absent \in Runtimes
<1>1. <<>> \in Seq(Commands)
  OBVIOUS
<1>2. Resident \in Runtimes
  BY <1>1 DEF Resident, Runtimes, MaybeTurns
<1> QED
  BY <1>2 DEF Absent, Runtimes

\* A queue message under release, expiry, completion and lease.
LEMMA MessageFields ==
    ASSUME NEW m \in Messages
    PROVE  /\ [m EXCEPT !.state = "ready", !.holder = None] \in Messages
           /\ [m EXCEPT !.state = "archived", !.holder = None] \in Messages
BY DEF Messages

LEMMA EventTyped ==
    ASSUME NEW kind \in EventKinds, NEW e \in Envelopes,
           NEW u \in MaybeTurns, NEW d \in Decisions
    PROVE  Event(kind, e, u, d) \in Events
BY DEF Event, Events

LEMMA SubmissionTyped ==
    ASSUME NEW u \in MaybeTurns, NEW d
    PROVE  Submission(u, d) \in Commands
BY DEF Submission, Commands

(***************************************************************************)
(* What the outcome fold returns.                                          *)
(***************************************************************************)
\* A found outcome names a claim of the envelope on one of the streams.
LEMMA FoldFacts ==
    ASSUME TypeOK, ClaimShape, NEW e \in Envelopes, NEW S \in SUBSET Threads,
           OutcomeFold(e, S).state \in {"claimed", "settled"}
    PROVE  /\ OutcomeFold(e, S).at \in S
           /\ OutcomeFold(e, S).turn \in {e} \X Attempts
           /\ OutcomeFold(e, S).dec \in AllPolicies
           /\ \E i \in EventsOf(OutcomeFold(e, S).at, "claimed", e) :
                 control[OutcomeFold(e, S).at][i].turn = OutcomeFold(e, S).turn
<1> DEFINE claims == ClaimsOn(S, e)
           c == CHOOSE x \in claims : TRUE
           event == control[c[1]][c[2]]
<1>1. claims # {} /\ ~Corrupt(S)
  BY DEF OutcomeFold, NoOutcome
<1>2. c \in claims
  BY <1>1
<1>3. PICK s \in S : c \in {s} \X EventsOf(s, "claimed", e)
  BY <1>2 DEF ClaimsOn
<1>4. c[1] = s /\ c[2] \in EventsOf(s, "claimed", e)
  BY <1>3
<1>5. /\ OutcomeFold(e, S).at = c[1] /\ OutcomeFold(e, S).turn = event.turn
      /\ OutcomeFold(e, S).dec = event.dec
  BY <1>1 DEF OutcomeFold
<1>6. c[2] \in DOMAIN control[s] /\ event.kind = "claimed" /\ event.env = e
  BY <1>4 DEF EventsOf
<1>7. event.turn \in {e} \X Attempts /\ event.dec \in AllPolicies
  BY <1>4, <1>6 DEF ClaimShape, Shaped
<1> QED
  BY <1>4, <1>5, <1>7

LEMMA OwnerStreamsTyped ==
    ASSUME TypeOK, NEW e \in Envelopes
    PROVE  OwnerStreams(e) \in SUBSET Threads
BY DEF OwnerStreams, OwnerRows, TypeOK, Rows

\* The same for the fold that a fresh or redelivered apply starts with.
LEMMA OutcomeFacts ==
    ASSUME TypeOK, ClaimShape, NEW e \in Envelopes,
           IngressOutcomeOf(e).state \in {"claimed", "settled"}
    PROVE  /\ IngressOutcomeOf(e).at \in Threads
           /\ IngressOutcomeOf(e).turn \in {e} \X Attempts
           /\ IngressOutcomeOf(e).dec \in AllPolicies
<1>1. {route} \ {None} \in SUBSET Threads
  BY DEF TypeOK
<1> QED
  BY <1>1, OwnerStreamsTyped, FoldFacts DEF IngressOutcomeOf

(***************************************************************************)
(* Types and shapes of a worker's state.                                   *)
(***************************************************************************)
TypeInv == TypeOK /\ JobShape /\ ClaimShape

ShapeOf(j, label) ==
    label # "idle" =>
        /\ j.env \in Envelopes /\ j.att \in Attempts
        /\ j.turn \in {j.env} \X Attempts
        /\ label \notin {"fold", "witness", "done"} =>
               j.to \in Threads /\ j.dec \in AllPolicies

\* A step of worker w keeps every other worker's shape.
LEMMA WorkerStep ==
    ASSUME TypeInv, NEW w \in Workers, NEW label \in Labels, NEW j \in Jobs,
           pc' = [pc EXCEPT ![w] = label], job' = [job EXCEPT ![w] = j],
           ShapeOf(j, label)
    PROVE  /\ pc' \in [Workers -> Labels]
           /\ job' \in [Workers -> Jobs]
           /\ JobShape'
<1>1. pc \in [Workers -> Labels] /\ job \in [Workers -> Jobs] /\ JobShape
  BY DEF TypeInv, TypeOK
<1>2. pc' \in [Workers -> Labels] /\ job' \in [Workers -> Jobs]
  BY <1>1
<1>3. ASSUME NEW v \in Workers PROVE ShapeOf(job'[v], pc'[v])
  <2>1. CASE v = w
    BY <1>1, <2>1
  <2>2. CASE v # w
    <3>1. pc'[v] = pc[v] /\ job'[v] = job[v]
      BY <1>1, <2>2
    <3>2. ShapeOf(job[v], pc[v])
      BY <1>1 DEF JobShape, ShapeOf
    <3> QED
      BY <3>1, <3>2
  <2> QED
    BY <2>1, <2>2
<1> QED
  BY <1>2, <1>3 DEF JobShape, ShapeOf

\* The same when only the label moves.
LEMMA LabelStep ==
    ASSUME TypeInv, NEW w \in Workers, NEW label \in Labels,
           pc' = [pc EXCEPT ![w] = label], job' = job,
           ShapeOf(job[w], label)
    PROVE  pc' \in [Workers -> Labels] /\ JobShape'
<1>1. job \in [Workers -> Jobs]
  BY DEF TypeInv, TypeOK
<1>2. job' = [job EXCEPT ![w] = job[w]]
  BY <1>1
<1> QED
  BY <1>1, <1>2, WorkerStep

\* The guards an apply drops keep the types of what they guard.
LEMMA GuardsTyped ==
    ASSUME TypeInv, NEW w \in Workers
    PROVE  /\ LeaveScope(w) => scope' \in Workers \cup {None}
           /\ LeaveLock(w) => lock' \in Workers \cup {None}
           /\ DropReservation(w) \in [Threads -> Runtimes]
<1>1. /\ scope \in Workers \cup {None} /\ lock \in Workers \cup {None}
      /\ thr \in [Threads -> Runtimes]
  BY DEF TypeInv, TypeOK
<1>2. DropReservation(w) \in [Threads -> Runtimes]
  <2> DEFINE R == thr[job[w].to].reserved \ {job[w].turn}
  <2>1. CASE job[w].to \in Threads
    <3>1. thr[job[w].to] \in Runtimes /\ R \in SUBSET MaybeTurns
      BY <1>1, <2>1 DEF Runtimes
    <3>2. [thr[job[w].to] EXCEPT !.reserved = R] \in Runtimes
      BY <3>1 DEF Runtimes
    <3> QED
      BY <1>1, <3>2 DEF DropReservation
  <2>2. CASE job[w].to \notin Threads
    BY <1>1, <2>2 DEF DropReservation
  <2> QED
    BY <2>1, <2>2
<1> QED
  BY <1>1, <1>2 DEF LeaveScope, LeaveLock

\* An apply that fails leaves a well-typed state behind.
LEMMA AbandonType ==
    ASSUME TypeInv, NEW w \in Workers, Abandon(w)
    PROVE  /\ pc' \in [Workers -> Labels] /\ job' \in [Workers -> Jobs]
           /\ scope' \in Workers \cup {None} /\ lock' \in Workers \cup {None}
           /\ thr' \in [Threads -> Runtimes]
           /\ queue' \in [Envelopes -> Messages]
           /\ JobShape'
<1>1. queue' \in [Envelopes -> Messages]
  <2>1. queue \in [Envelopes -> Messages]
    BY DEF TypeInv, TypeOK
  <2>2. ASSUME NEW e \in Envelopes
        PROVE [queue[e] EXCEPT !.state = "ready", !.holder = None] \in Messages
    BY <2>1, MessageFields
  <2> QED
    BY <2>1, <2>2 DEF Abandon
<1>2. "idle" \in Labels /\ ShapeOf(IdleJob, "idle")
  BY DEF Labels, ShapeOf
<1>3. /\ pc' \in [Workers -> Labels] /\ job' \in [Workers -> Jobs]
      /\ JobShape'
  BY <1>2, NewJobs, WorkerStep DEF Abandon, Goto
<1> QED
  BY <1>1, <1>3, GuardsTyped DEF Abandon

\* An apply that meets an existing outcome carries that outcome's claim.
LEMMA ResumeType ==
    ASSUME TypeInv, NEW w \in Workers, pc[w] # "idle", NEW found, NEW loser,
           found.at \in Threads, found.turn \in {job[w].env} \X Attempts,
           found.dec \in AllPolicies, Resume(w, found, loser)
    PROVE  /\ pc' \in [Workers -> Labels] /\ job' \in [Workers -> Jobs]
           /\ scope' \in Workers \cup {None} /\ lock' \in Workers \cup {None}
           /\ thr' \in [Threads -> Runtimes]
           /\ JobShape'
<1>1. /\ job \in [Workers -> Jobs] /\ job[w].env \in Envelopes
      /\ job[w].att \in Attempts /\ job[w].turn \in {job[w].env} \X Attempts
  BY DEF TypeInv, TypeOK, JobShape
<1>2. found.turn \in Turns
  BY <1>1 DEF Turns
<1> DEFINE j == [job[w] EXCEPT !.to = found.at, !.turn = found.turn,
                               !.dec = found.dec, !.holds = FALSE,
                               !.rec = TRUE]
           k == [job[w] EXCEPT !.holds = FALSE]
<1>3. j \in Jobs /\ k \in Jobs
  BY <1>1, <1>2, JobFields, 0 \in Nat, {} \in SUBSET Threads
<1>4. ShapeOf(j, "recover") /\ ShapeOf(k, "done")
  BY <1>1, <1>3 DEF ShapeOf, Jobs
<1>5. /\ pc' \in [Workers -> Labels] /\ job' \in [Workers -> Jobs]
      /\ JobShape'
  <2>1. "recover" \in Labels /\ "done" \in Labels
    BY DEF Labels
  <2>2. CASE pc' = [pc EXCEPT ![w] = "done"] /\ job' = [job EXCEPT ![w] = k]
    BY <1>3, <1>4, <2>1, <2>2, WorkerStep
  <2>3. CASE pc' = [pc EXCEPT ![w] = "recover"] /\ job' = [job EXCEPT ![w] = j]
    BY <1>3, <1>4, <2>1, <2>3, WorkerStep
  <2> QED
    BY <2>2, <2>3 DEF Resume, Goto
<1> QED
  BY <1>5, GuardsTyped DEF Resume

(***************************************************************************)
(* Appends to the journal.                                                 *)
(***************************************************************************)
\* An append of a well-shaped event keeps a stream well-shaped.
LEMMA AppendShaped ==
    ASSUME NEW q \in Seq(Events), NEW x \in Events, Shaped(x),
           \A i \in DOMAIN q : Shaped(q[i])
    PROVE  /\ Append(q, x) \in Seq(Events)
           /\ \A i \in DOMAIN Append(q, x) : Shaped(Append(q, x)[i])
<1>1. Append(q, x) \in Seq(Events) /\ Len(Append(q, x)) = Len(q) + 1
  OBVIOUS
<1>2. ASSUME NEW i \in DOMAIN Append(q, x) PROVE Shaped(Append(q, x)[i])
  <2>1. i \in 1..(Len(q) + 1)
    BY <1>1
  <2>2. CASE i = Len(q) + 1
    <3>1. Append(q, x)[i] = x
      BY <2>2
    <3> QED
      BY <3>1
  <2>3. CASE i # Len(q) + 1
    <3>1. i \in DOMAIN q /\ Append(q, x)[i] = q[i]
      BY <2>1, <2>3
    <3> QED
      BY <3>1
  <2> QED
    BY <2>2, <2>3
<1> QED
  BY <1>1, <1>2

\* A stream replaced by a well-shaped one keeps the journal well-shaped.
LEMMA JournalStep ==
    ASSUME TypeInv, NEW s \in Threads, NEW q \in Seq(Events),
           \A i \in DOMAIN q : Shaped(q[i]),
           control' = [control EXCEPT ![s] = q]
    PROVE  control' \in [Threads -> Seq(Events)] /\ ClaimShape'
<1>1. control \in [Threads -> Seq(Events)] /\ ClaimShape
  BY DEF TypeInv, TypeOK
<1>2. control' \in [Threads -> Seq(Events)]
  BY <1>1
<1>3. ASSUME NEW t \in Threads, NEW i \in DOMAIN control'[t]
      PROVE  Shaped(control'[t][i])
  <2>1. CASE t = s
    <3>1. control'[t] = q
      BY <1>1, <2>1
    <3> QED
      BY <3>1
  <2>2. CASE t # s
    <3>1. control'[t] = control[t]
      BY <1>1, <2>2
    <3> QED
      BY <1>1, <3>1 DEF ClaimShape
  <2> QED
    BY <2>1, <2>2
<1> QED
  BY <1>2, <1>3 DEF ClaimShape

\* One appended event that is no claim and no settle, or a shaped one.
LEMMA EventStep ==
    ASSUME TypeInv, NEW s \in Threads, NEW x \in Events, Shaped(x),
           control' = [control EXCEPT ![s] = Append(@, x)]
    PROVE  control' \in [Threads -> Seq(Events)] /\ ClaimShape'
<1>1. control[s] \in Seq(Events) /\ \A i \in DOMAIN control[s] : Shaped(control[s][i])
  BY DEF TypeInv, TypeOK, ClaimShape
<1>2. /\ Append(control[s], x) \in Seq(Events)
      /\ \A i \in DOMAIN Append(control[s], x) : Shaped(Append(control[s], x)[i])
  BY <1>1, AppendShaped
<1> QED
  BY <1>2, JournalStep

LEMMA SameJournal ==
    ASSUME TypeInv, control' = control
    PROVE  control' \in [Threads -> Seq(Events)] /\ ClaimShape'
BY DEF TypeInv, TypeOK, ClaimShape

(***************************************************************************)
(* Every action keeps types and shapes.                                    *)
(***************************************************************************)
LEMMA LeaseType ==
    ASSUME TypeInv, NEW w \in Workers, NEW e \in Envelopes, Lease(w, e)
    PROVE  TypeInv'
<1> DEFINE n == queue[e].attempt + 1
           j == [IdleJob EXCEPT !.env = e, !.att = n, !.turn = <<e, n>>]
<1>1. queue \in [Envelopes -> Messages] /\ queue[e] \in Messages
  BY DEF TypeInv, TypeOK
<1>2. n \in Attempts /\ n \in 0..MaxAttempt
  BY <1>1, IngressAssumption DEF Lease, Messages, Attempts, IngressAssumption
<1>3. [state |-> "leased", attempt |-> n, holder |-> w] \in Messages
  BY <1>2 DEF Messages
<1>4. queue' \in [Envelopes -> Messages]
  BY <1>1, <1>3 DEF Lease
<1>5. j \in Jobs
  BY <1>2, NewJobs
<1>6. j.env = e /\ j.att = n /\ j.turn = <<e, n>>
  BY DEF IdleJob
<1>7. ShapeOf(j, "fold") /\ "fold" \in Labels
  BY <1>2, <1>6 DEF ShapeOf, Labels
<1>8. /\ pc' \in [Workers -> Labels] /\ job' \in [Workers -> Jobs]
      /\ JobShape'
  BY <1>5, <1>7, WorkerStep DEF Lease, Goto
<1> QED
  BY <1>4, <1>8, SameJournal DEF Lease, TypeInv, TypeOK

LEMMA ExpireType ==
    ASSUME TypeInv, NEW e \in Envelopes, Expire(e)
    PROVE  TypeInv'
<1>1. queue \in [Envelopes -> Messages] /\ spent \in Budgets
  BY DEF TypeInv, TypeOK
<1>2. queue' \in [Envelopes -> Messages]
  <2>1. queue[e] \in Messages
    BY <1>1
  <2>2. [queue[e] EXCEPT !.state = "ready", !.holder = None] \in Messages
    BY <2>1, MessageFields
  <2>3. queue' = [queue EXCEPT ![e] =
                     [queue[e] EXCEPT !.state = "ready", !.holder = None]]
    BY DEF Expire
  <2> QED
    BY <1>1, <2>2, <2>3
<1>3. spent' \in Budgets
  BY <1>1, IngressAssumption DEF Expire, Budgets, IngressAssumption
<1>4. JobShape'
  BY DEF Expire, JobShape, TypeInv
<1> QED
  BY <1>2, <1>3, <1>4, SameJournal DEF Expire, TypeInv, TypeOK

LEMMA CompleteType ==
    ASSUME TypeInv, NEW w \in Workers, Complete(w)
    PROVE  TypeInv'
<1>1. queue \in [Envelopes -> Messages] /\ job[w].env \in Envelopes
  BY DEF TypeInv, TypeOK, JobShape, Complete
<1>2. queue' \in [Envelopes -> Messages]
  <2>1. PICK e \in Envelopes : e = job[w].env
    BY <1>1
  <2>2. queue[e] \in Messages
    BY <1>1
  <2>3. [queue[e] EXCEPT !.state = "archived", !.holder = None] \in Messages
    BY <2>2, MessageFields
  <2>4. \/ queue' = [queue EXCEPT ![e] =
               [queue[e] EXCEPT !.state = "archived", !.holder = None]]
        \/ queue' = queue
    BY <2>1 DEF Complete
  <2> QED
    BY <1>1, <2>3, <2>4
<1>3. "idle" \in Labels /\ ShapeOf(IdleJob, "idle")
  BY DEF Labels, ShapeOf
<1>4. /\ pc' \in [Workers -> Labels] /\ job' \in [Workers -> Jobs]
      /\ JobShape'
  BY <1>3, NewJobs, WorkerStep DEF Complete, Goto
<1> QED
  BY <1>2, <1>4, SameJournal DEF Complete, TypeInv, TypeOK

LEMMA FoldOutcomeType ==
    ASSUME TypeInv, NEW w \in Workers, FoldOutcome(w)
    PROVE  TypeInv'
<1> DEFINE found == IngressOutcomeOf(job[w].env)
<1>1. job[w].env \in Envelopes /\ pc[w] # "idle"
  BY DEF TypeInv, JobShape, FoldOutcome
<1>2. CASE found.state = "missing" /\ Goto(w, "witness")
           /\ UNCHANGED << queue, lock, scope, thr, job >>
  <2>1. "witness" \in Labels /\ ShapeOf(job[w], "witness")
    BY <1>1 DEF Labels, ShapeOf, TypeInv, JobShape
  <2>2. pc' \in [Workers -> Labels] /\ JobShape'
    BY <1>2, <2>1, LabelStep DEF Goto
  <2> QED
    BY <1>2, <2>2, SameJournal DEF FoldOutcome, TypeInv, TypeOK
<1>3. CASE Abandon(w)
  BY <1>3, AbandonType, SameJournal DEF FoldOutcome, TypeInv, TypeOK
<1>4. CASE /\ found.state \in {"claimed", "settled"}
           /\ Resume(w, found, job[w].att = 1) /\ UNCHANGED queue
  <2>1. /\ found.at \in Threads /\ found.turn \in {job[w].env} \X Attempts
        /\ found.dec \in AllPolicies
    BY <1>1, <1>4, OutcomeFacts DEF TypeInv
  <2> HIDE DEF found
  <2> QED
    BY <1>1, <1>4, <2>1, ResumeType, SameJournal
    DEF FoldOutcome, TypeInv, TypeOK
<1> QED
  BY <1>2, <1>3, <1>4 DEF FoldOutcome

LEMMA WitnessType ==
    ASSUME TypeInv, NEW w \in Workers, Witness(w)
    PROVE  TypeInv'
<1> DEFINE e == job[w].env
           t == IF route = None THEN Root ELSE route
           j == [job[w] EXCEPT !.to = t, !.dec = Decide(e)]
<1>1. /\ job[w] \in Jobs /\ e \in Envelopes /\ t \in Threads
      /\ thr \in [Threads -> Runtimes] /\ policy \in [Envelopes -> AllPolicies]
  BY DEF TypeInv, TypeOK, JobShape, Witness, Threads
<1>2. Decide(e) \in AllPolicies
  BY <1>1 DEF Decide, AllPolicies
<1>3. j \in Jobs
  BY <1>1, <1>2 DEF Jobs, Decisions
<1>4. ShapeOf(j, "decide") /\ "decide" \in Labels
  <2>1. ShapeOf(job[w], "witness")
    BY DEF TypeInv, JobShape, ShapeOf, Witness
  <2> QED
    BY <1>1, <1>2, <2>1 DEF ShapeOf, Labels, Jobs
<1>5. /\ pc' \in [Workers -> Labels] /\ job' \in [Workers -> Jobs]
      /\ JobShape'
  BY <1>3, <1>4, WorkerStep DEF Witness, Goto
<1>6. control' \in [Threads -> Seq(Events)] /\ ClaimShape'
  <2>1. Event("received", e, None, None) \in Events
    BY <1>1, EventTyped DEF EventKinds, MaybeTurns, Decisions
  <2>2. Shaped(Event("received", e, None, None))
    BY DEF Event, Shaped
  <2> HIDE DEF t, e
  <2>3. \/ control' = control
        \/ control' = [control EXCEPT ![t] =
                          Append(@, Event("received", e, None, None))]
    BY DEF Witness, t, e
  <2> QED
    BY <1>1, <2>1, <2>2, <2>3, EventStep, SameJournal
<1>7. thr' \in [Threads -> Runtimes] /\ route' \in Threads \cup {None}
  BY <1>1, NewRuntimes DEF Witness
<1> QED
  BY <1>5, <1>6, <1>7 DEF Witness, TypeInv, TypeOK

LEMMA RecordDecisionType ==
    ASSUME TypeInv, NEW w \in Workers, RecordDecision(w)
    PROVE  TypeInv'
<1> DEFINE e == job[w].env
           t == job[w].to
           x == Event("decided", e, None, job[w].dec)
<1>1. e \in Envelopes /\ t \in Threads /\ job[w].dec \in AllPolicies
  BY DEF TypeInv, JobShape, RecordDecision
<1>2. x \in Events /\ Shaped(x)
  BY <1>1, EventTyped DEF EventKinds, MaybeTurns, Decisions, Event, Shaped
<1>3. CASE /\ control' = control \/ control' = [control EXCEPT ![t] = Append(@, x)]
           /\ Goto(w, "own") /\ UNCHANGED << queue, lock, scope, thr, job >>
  <2>1. control' \in [Threads -> Seq(Events)] /\ ClaimShape'
    <3> HIDE DEF x, t
    <3> QED
      BY <1>1, <1>2, <1>3, EventStep, SameJournal DEF t
  <2>2. "own" \in Labels /\ ShapeOf(job[w], "own")
    BY <1>1 DEF Labels, ShapeOf, TypeInv, JobShape, RecordDecision
  <2>3. pc' \in [Workers -> Labels] /\ JobShape'
    BY <1>3, <2>2, LabelStep DEF Goto
  <2> QED
    BY <1>3, <2>1, <2>3 DEF RecordDecision, TypeInv, TypeOK
<1>4. CASE Abandon(w) /\ UNCHANGED control
  BY <1>4, AbandonType, SameJournal DEF RecordDecision, TypeInv, TypeOK
<1> QED
  BY <1>3, <1>4 DEF RecordDecision

LEMMA RecordOwnershipType ==
    ASSUME TypeInv, NEW w \in Workers, RecordOwnership(w)
    PROVE  TypeInv'
<1>1. /\ job[w].env \in Envelopes /\ job[w].att \in Attempts
      /\ job[w].to \in Threads
  BY DEF TypeInv, JobShape, RecordOwnership
<1>2. owner' \subseteq Rows
  BY <1>1 DEF RecordOwnership, TypeInv, TypeOK, OwnRow, Rows
<1>3. PICK l \in {"scope", "lock", "reserve"} : pc' = [pc EXCEPT ![w] = l]
  BY DEF RecordOwnership, Goto
<1>4. l \in Labels /\ ShapeOf(job[w], l)
  BY <1>1, <1>3 DEF Labels, ShapeOf, TypeInv, JobShape, RecordOwnership
<1>5. pc' \in [Workers -> Labels] /\ JobShape'
  BY <1>3, <1>4, LabelStep DEF RecordOwnership
<1> QED
  BY <1>2, <1>5, SameJournal DEF RecordOwnership, TypeInv, TypeOK

LEMMA ReserveType ==
    ASSUME TypeInv, NEW w \in Workers, Reserve(w)
    PROVE  TypeInv'
<1> DEFINE t == job[w].to
           u == job[w].turn
           l == IF job[w].rec THEN "submit" ELSE "lock"
           r == [thr[t] EXCEPT !.reserved = @ \cup {u}]
           j == [job[w] EXCEPT !.holds = TRUE]
<1>1. /\ job[w] \in Jobs /\ job[w].env \in Envelopes /\ t \in Threads
      /\ thr \in [Threads -> Runtimes] /\ u \in Turns
  BY DEF TypeInv, TypeOK, JobShape, Reserve, Turns
<1>2. ShapeOf(job[w], l) /\ ShapeOf(j, l) /\ l \in Labels
  BY <1>1 DEF ShapeOf, TypeInv, JobShape, Reserve, Labels, Jobs
<1>3. CASE Goto(w, l) /\ UNCHANGED << queue, lock, scope, thr, job >>
  <2>1. pc' \in [Workers -> Labels] /\ JobShape'
    BY <1>2, <1>3, LabelStep DEF Goto
  <2> QED
    BY <1>3, <2>1, SameJournal DEF Reserve, TypeInv, TypeOK
<1>4. CASE /\ thr' = [thr EXCEPT ![t] = r] /\ job' = [job EXCEPT ![w] = j]
           /\ Goto(w, l) /\ UNCHANGED << queue, lock, scope >>
  <2>1. j \in Jobs
    BY <1>1 DEF Jobs
  <2>2. r \in Runtimes
    BY <1>1, SMTT(30) DEF Runtimes, MaybeTurns
  <2>3. thr' \in [Threads -> Runtimes]
    BY <1>1, <1>4, <2>2
  <2>4. /\ pc' \in [Workers -> Labels] /\ job' \in [Workers -> Jobs]
        /\ JobShape'
    <3> HIDE DEF j, l
    <3> QED
      BY <1>2, <1>4, <2>1, WorkerStep DEF Goto
  <2> QED
    BY <1>4, <2>3, <2>4, SameJournal DEF Reserve, TypeInv, TypeOK
<1>5. CASE Abandon(w)
  BY <1>5, AbandonType, SameJournal DEF Reserve, TypeInv, TypeOK
<1> QED
  BY <1>3, <1>4, <1>5 DEF Reserve

\* Pruning only removes rows.
LEMMA PruneTyped ==
    ASSUME NEW w, NEW e, NEW s
    PROVE  PruneToReservation(w) \subseteq owner /\ PruneToStream(e, s) \subseteq owner
BY DEF PruneToReservation, PruneToStream

LEMMA LockAdmissionType ==
    ASSUME TypeInv, NEW w \in Workers, LockAdmission(w)
    PROVE  TypeInv'
<1> DEFINE e == job[w].env
           found == OutcomeFold(e, OwnerStreams(e))
<1>1. /\ job[w] \in Jobs /\ e \in Envelopes /\ pc[w] # "idle"
      /\ job[w].to \in Threads /\ owner \subseteq Rows
  BY DEF TypeInv, TypeOK, JobShape, LockAdmission
<1>2. OwnerStreams(e) \in SUBSET Threads
  BY <1>1, OwnerStreamsTyped DEF TypeInv
<1>3. CASE Abandon(w) /\ UNCHANGED owner
  BY <1>3, AbandonType, SameJournal DEF LockAdmission, TypeInv, TypeOK
<1>4. CASE /\ found.state \in {"claimed", "settled"}
           /\ owner' = PruneToStream(e, found.at)
           /\ Resume(w, found, job[w].dec = "fork") /\ UNCHANGED queue
  <2>1. /\ found.at \in Threads /\ found.turn \in {job[w].env} \X Attempts
        /\ found.dec \in AllPolicies
    BY <1>1, <1>2, <1>4, FoldFacts DEF TypeInv
  <2>2. owner' \subseteq Rows
    BY <1>1, <1>4, PruneTyped
  <2> HIDE DEF found
  <2> QED
    BY <1>1, <1>4, <2>1, <2>2, ResumeType, SameJournal
    DEF LockAdmission, TypeInv, TypeOK
<1>5. CASE /\ lock' = w /\ Goto(w, "read") /\ UNCHANGED job
           /\ UNCHANGED << queue, owner, scope, thr >>
  <2>1. "read" \in Labels /\ ShapeOf(job[w], "read")
    BY <1>1 DEF Labels, ShapeOf, TypeInv, JobShape, LockAdmission
  <2>2. pc' \in [Workers -> Labels] /\ JobShape'
    BY <1>5, <2>1, LabelStep DEF Goto
  <2> QED
    BY <1>5, <2>2, SameJournal DEF LockAdmission, TypeInv, TypeOK
<1>6. CASE /\ Goto(w, "await") /\ UNCHANGED lock
           /\ job' = [job EXCEPT ![w].seen = OwnerStreams(e)]
           /\ UNCHANGED << queue, owner, scope, thr >>
  <2> DEFINE j == [job[w] EXCEPT !.seen = OwnerStreams(e)]
  <2>1. j \in Jobs
    BY <1>1, <1>2 DEF Jobs
  <2>2. "await" \in Labels /\ ShapeOf(j, "await")
    BY <1>1 DEF Labels, ShapeOf, TypeInv, JobShape, LockAdmission, Jobs
  <2>3. /\ pc' \in [Workers -> Labels] /\ job' \in [Workers -> Jobs]
        /\ JobShape'
    <3>1. job' = [job EXCEPT ![w] = j]
      BY <1>6
    <3> HIDE DEF j
    <3> QED
      BY <1>6, <2>1, <2>2, <3>1, WorkerStep DEF Goto
  <2> QED
    BY <1>6, <2>3, SameJournal DEF LockAdmission, TypeInv, TypeOK
<1> QED
  BY <1>3, <1>4, <1>5, <1>6 DEF LockAdmission

LEMMA AwaitOutcomeType ==
    ASSUME TypeInv, NEW w \in Workers, AwaitOutcome(w)
    PROVE  TypeInv'
<1> DEFINE found == OutcomeFold(job[w].env, job[w].seen)
<1>1. /\ job[w].env \in Envelopes /\ pc[w] # "idle"
      /\ job[w].seen \in SUBSET Threads
  BY DEF TypeInv, TypeOK, JobShape, AwaitOutcome, Jobs
<1>2. CASE Abandon(w)
  BY <1>2, AbandonType, SameJournal DEF AwaitOutcome, TypeInv, TypeOK
<1>3. CASE /\ found.state \in {"claimed", "settled"}
           /\ Resume(w, found, job[w].dec = "fork") /\ UNCHANGED queue
  <2>1. /\ found.at \in Threads /\ found.turn \in {job[w].env} \X Attempts
        /\ found.dec \in AllPolicies
    BY <1>1, <1>3, FoldFacts DEF TypeInv
  <2> HIDE DEF found
  <2> QED
    BY <1>1, <1>3, <2>1, ResumeType, SameJournal
    DEF AwaitOutcome, TypeInv, TypeOK
<1> QED
  BY <1>2, <1>3 DEF AwaitOutcome

LEMMA ReadClaimStreamType ==
    ASSUME TypeInv, NEW w \in Workers, ReadClaimStream(w)
    PROVE  TypeInv'
<1> DEFINE found == OutcomeFold(job[w].env, {job[w].to})
           j == [job[w] EXCEPT !.tail = Len(control[job[w].to])]
<1>1. /\ job[w] \in Jobs /\ job[w].env \in Envelopes /\ pc[w] # "idle"
      /\ job[w].to \in Threads /\ owner \subseteq Rows
      /\ control[job[w].to] \in Seq(Events)
  BY DEF TypeInv, TypeOK, JobShape, ReadClaimStream
<1>2. CASE /\ job' = [job EXCEPT ![w].tail = Len(control[job[w].to])]
           /\ Goto(w, "append")
           /\ UNCHANGED << queue, owner, lock, scope, thr >>
  <2>1. j \in Jobs
    BY <1>1 DEF Jobs
  <2>2. "append" \in Labels /\ ShapeOf(j, "append")
    BY <1>1 DEF Labels, ShapeOf, TypeInv, JobShape, ReadClaimStream, Jobs
  <2>3. /\ pc' \in [Workers -> Labels] /\ job' \in [Workers -> Jobs]
        /\ JobShape'
    <3>1. job' = [job EXCEPT ![w] = j]
      BY <1>2
    <3> HIDE DEF j
    <3> QED
      BY <1>2, <2>1, <2>2, <3>1, WorkerStep DEF Goto
  <2> QED
    BY <1>2, <2>3, SameJournal DEF ReadClaimStream, TypeInv, TypeOK
<1>3. CASE /\ found.state \in {"claimed", "settled"}
           /\ owner' = PruneToReservation(w)
           /\ Resume(w, found, job[w].dec = "fork") /\ UNCHANGED queue
  <2>1. /\ found.at \in Threads /\ found.turn \in {job[w].env} \X Attempts
        /\ found.dec \in AllPolicies
    BY <1>1, <1>3, FoldFacts DEF TypeInv
  <2>2. owner' \subseteq Rows
    BY <1>1, <1>3, PruneTyped
  <2> HIDE DEF found
  <2> QED
    BY <1>1, <1>3, <2>1, <2>2, ResumeType, SameJournal
    DEF ReadClaimStream, TypeInv, TypeOK
<1>4. CASE Abandon(w) /\ UNCHANGED owner
  BY <1>4, AbandonType, SameJournal DEF ReadClaimStream, TypeInv, TypeOK
<1> QED
  BY <1>2, <1>3, <1>4 DEF ReadClaimStream

\* What the claim appends: the claim, and for observe its settle.
LEMMA ClaimBatchShaped ==
    ASSUME TypeInv, NEW w \in Workers, pc[w] = "append"
    PROVE  /\ ClaimBatch(w) \in Seq(Events)
           /\ \A i \in DOMAIN ClaimBatch(w) : Shaped(ClaimBatch(w)[i])
<1> DEFINE c == Event("claimed", job[w].env, job[w].turn, job[w].dec)
           s == Event("settled", job[w].env, job[w].turn, job[w].dec)
           q == control[job[w].to]
<1>1. /\ job[w].env \in Envelopes /\ job[w].to \in Threads
      /\ job[w].turn \in {job[w].env} \X Attempts /\ job[w].dec \in AllPolicies
  BY DEF TypeInv, JobShape
<1>2. job[w].turn \in MaybeTurns /\ job[w].dec \in Decisions
  BY <1>1 DEF MaybeTurns, Turns, Decisions
<1>3. c \in Events /\ s \in Events
  BY <1>1, <1>2, EventTyped DEF EventKinds
<1>4. Shaped(c) /\ Shaped(s)
  BY <1>1 DEF Shaped, Event
<1>5. q \in Seq(Events) /\ \A i \in DOMAIN q : Shaped(q[i])
  BY <1>1 DEF TypeInv, TypeOK, ClaimShape
<1> HIDE DEF c, s, q
<1>6. /\ Append(q, c) \in Seq(Events)
      /\ \A i \in DOMAIN Append(q, c) : Shaped(Append(q, c)[i])
  BY <1>3, <1>4, <1>5, AppendShaped
<1> DEFINE p == Append(q, c)
<1> HIDE DEF p
<1>7. p \in Seq(Events) /\ \A i \in DOMAIN p : Shaped(p[i])
  BY <1>6 DEF p
<1>8. /\ Append(p, s) \in Seq(Events)
      /\ \A i \in DOMAIN Append(p, s) : Shaped(Append(p, s)[i])
  BY <1>3, <1>4, <1>7, AppendShaped
<1>9. ClaimBatch(w) = IF job[w].dec = "observe" THEN Append(p, s) ELSE p
  BY DEF ClaimBatch, p, q, c, s
<1>10. CASE job[w].dec = "observe"
  BY <1>8, <1>9, <1>10
<1>11. CASE job[w].dec # "observe"
  BY <1>7, <1>9, <1>11
<1> QED
  BY <1>10, <1>11

LEMMA AppendClaimType ==
    ASSUME TypeInv, NEW w \in Workers, AppendClaim(w)
    PROVE  TypeInv'
<1>1. job[w].env \in Envelopes /\ job[w].to \in Threads /\ pc[w] = "append"
  BY DEF TypeInv, JobShape, AppendClaim
<1>2. \/ control' = control
      \/ control' = [control EXCEPT ![job[w].to] = ClaimBatch(w)]
  BY DEF AppendClaim
<1>3. control' \in [Threads -> Seq(Events)] /\ ClaimShape'
  BY <1>1, <1>2, ClaimBatchShaped, JournalStep, SameJournal
<1>4. PICK l \in {"commit", "read"} : pc' = [pc EXCEPT ![w] = l]
  BY DEF AppendClaim, Goto
<1>5. l \in Labels /\ ShapeOf(job[w], l)
  BY <1>1, <1>4 DEF Labels, ShapeOf, TypeInv, JobShape
<1>6. pc' \in [Workers -> Labels] /\ JobShape'
  BY <1>4, <1>5, LabelStep DEF AppendClaim
<1> QED
  BY <1>3, <1>6 DEF AppendClaim, TypeInv, TypeOK

LEMMA CommitAdmissionType ==
    ASSUME TypeInv, NEW w \in Workers, CommitAdmission(w)
    PROVE  TypeInv'
<1>1. owner' \subseteq Rows
  BY PruneTyped DEF CommitAdmission, TypeInv, TypeOK
<1>2. PICK l \in {"done", "cancel", "create", "submit"} :
         pc' = [pc EXCEPT ![w] = l]
  BY DEF CommitAdmission, Goto
<1>3. l \in Labels /\ ShapeOf(job[w], l)
  BY <1>2 DEF Labels, ShapeOf, TypeInv, JobShape, CommitAdmission
<1>4. pc' \in [Workers -> Labels] /\ JobShape'
  BY <1>2, <1>3, LabelStep DEF CommitAdmission
<1> QED
  BY <1>1, <1>4, GuardsTyped, SameJournal DEF CommitAdmission, TypeInv, TypeOK

\* Commands appended to a mailbox keep the runtimes typed.
LEMMA MailboxTyped ==
    ASSUME TypeInv, NEW t \in Threads, NEW c \in Commands
    PROVE  [thr EXCEPT ![t].mailbox = Append(@, c)] \in [Threads -> Runtimes]
<1>1. thr \in [Threads -> Runtimes] /\ thr[t].mailbox \in Seq(Commands)
  BY DEF TypeInv, TypeOK, Runtimes
<1>2. Append(thr[t].mailbox, c) \in Seq(Commands)
  BY <1>1
<1>3. [thr[t] EXCEPT !.mailbox = Append(thr[t].mailbox, c)] \in Runtimes
  BY <1>1, <1>2 DEF Runtimes
<1> QED
  BY <1>1, <1>3

LEMMA CancelActiveType ==
    ASSUME TypeInv, NEW w \in Workers, CancelActive(w)
    PROVE  TypeInv'
<1>1. job[w].to \in Threads /\ thr \in [Threads -> Runtimes]
  BY DEF TypeInv, TypeOK, JobShape, CancelActive
<1>2. [mode |-> "cancel", turn |-> None] \in Commands
  BY DEF Commands, MaybeTurns
<1>3. thr' \in [Threads -> Runtimes]
  BY <1>1, <1>2, MailboxTyped DEF CancelActive
<1>4. PICK l \in {"check", "submit"} : pc' = [pc EXCEPT ![w] = l]
  BY DEF CancelActive, Goto
<1>5. l \in Labels /\ ShapeOf(job[w], l)
  BY <1>4 DEF Labels, ShapeOf, TypeInv, JobShape, CancelActive
<1>6. pc' \in [Workers -> Labels] /\ JobShape'
  BY <1>4, <1>5, LabelStep DEF CancelActive
<1> QED
  BY <1>3, <1>6, SameJournal DEF CancelActive, TypeInv, TypeOK

LEMMA SubmitTurnType ==
    ASSUME TypeInv, NEW w \in Workers, SubmitTurn(w)
    PROVE  TypeInv'
<1> DEFINE j == [job[w] EXCEPT !.holds = FALSE]
<1>1. /\ job[w] \in Jobs /\ job[w].to \in Threads
      /\ thr \in [Threads -> Runtimes] /\ job[w].turn \in MaybeTurns
  BY DEF TypeInv, TypeOK, JobShape, SubmitTurn, Jobs
<1>2. Submission(job[w].turn, job[w].dec) \in Commands
  BY <1>1, SubmissionTyped
<1>3. thr' \in [Threads -> Runtimes] /\ active' \in MaybeTurns
  BY <1>1, <1>2, MailboxTyped DEF SubmitTurn
<1>4. j \in Jobs
  BY <1>1 DEF Jobs
<1>5. ShapeOf(j, "evidence") /\ "evidence" \in Labels
  BY <1>1 DEF ShapeOf, Labels, TypeInv, JobShape, SubmitTurn, Jobs
<1>6. /\ pc' \in [Workers -> Labels] /\ job' \in [Workers -> Jobs]
      /\ JobShape'
  BY <1>4, <1>5, WorkerStep DEF SubmitTurn, Goto
<1> QED
  BY <1>3, <1>6, SameJournal DEF SubmitTurn, TypeInv, TypeOK

LEMMA AwaitEvidenceType ==
    ASSUME TypeInv, NEW w \in Workers, AwaitEvidence(w)
    PROVE  TypeInv'
<1>1. "settle" \in Labels /\ ShapeOf(job[w], "settle")
  BY DEF Labels, ShapeOf, TypeInv, JobShape, AwaitEvidence
<1>2. pc' \in [Workers -> Labels] /\ JobShape'
  BY <1>1, LabelStep DEF AwaitEvidence, Goto
<1> QED
  BY <1>2, SameJournal DEF AwaitEvidence, TypeInv, TypeOK

LEMMA ReadSettleStreamType ==
    ASSUME TypeInv, NEW w \in Workers, ReadSettleStream(w)
    PROVE  TypeInv'
<1> DEFINE j == [job[w] EXCEPT !.tail = Len(control[job[w].to])]
<1>1. /\ job[w] \in Jobs /\ job[w].to \in Threads
      /\ control[job[w].to] \in Seq(Events)
  BY DEF TypeInv, TypeOK, JobShape, ReadSettleStream
<1>2. CASE /\ Goto(w, "done") /\ LeaveScope(w)
           /\ UNCHANGED << queue, lock, thr, job >>
  <2>1. "done" \in Labels /\ ShapeOf(job[w], "done")
    BY DEF Labels, ShapeOf, TypeInv, JobShape, ReadSettleStream
  <2>2. pc' \in [Workers -> Labels] /\ JobShape'
    BY <1>2, <2>1, LabelStep DEF Goto
  <2> QED
    BY <1>2, <2>2, GuardsTyped, SameJournal
    DEF ReadSettleStream, TypeInv, TypeOK
<1>3. CASE /\ job' = [job EXCEPT ![w].tail = Len(control[job[w].to])]
           /\ Goto(w, "settling") /\ UNCHANGED << queue, lock, scope, thr >>
  <2>1. j \in Jobs
    BY <1>1 DEF Jobs
  <2>2. "settling" \in Labels /\ ShapeOf(j, "settling")
    BY <1>1 DEF Labels, ShapeOf, TypeInv, JobShape, ReadSettleStream, Jobs
  <2>3. /\ pc' \in [Workers -> Labels] /\ job' \in [Workers -> Jobs]
        /\ JobShape'
    <3>1. job' = [job EXCEPT ![w] = j]
      BY <1>3
    <3> HIDE DEF j
    <3> QED
      BY <1>3, <2>1, <2>2, <3>1, WorkerStep DEF Goto
  <2> QED
    BY <1>3, <2>3, SameJournal DEF ReadSettleStream, TypeInv, TypeOK
<1>4. CASE Abandon(w)
  BY <1>4, AbandonType, SameJournal DEF ReadSettleStream, TypeInv, TypeOK
<1> QED
  BY <1>2, <1>3, <1>4 DEF ReadSettleStream

LEMMA AppendSettleType ==
    ASSUME TypeInv, NEW w \in Workers, AppendSettle(w)
    PROVE  TypeInv'
<1> DEFINE t == job[w].to
           x == Event("settled", job[w].env, job[w].turn, job[w].dec)
<1>1. /\ job[w].env \in Envelopes /\ t \in Threads
      /\ job[w].turn \in {job[w].env} \X Attempts /\ job[w].dec \in AllPolicies
  BY DEF TypeInv, JobShape, AppendSettle
<1>2. job[w].turn \in MaybeTurns /\ job[w].dec \in Decisions
  BY <1>1 DEF MaybeTurns, Turns, Decisions
<1>3. x \in Events /\ Shaped(x)
  BY <1>1, <1>2, EventTyped DEF EventKinds, Event, Shaped
<1>4. control' \in [Threads -> Seq(Events)] /\ ClaimShape'
  <2>1. control' = control \/ control' = [control EXCEPT ![t] = Append(@, x)]
    BY DEF AppendSettle
  <2> HIDE DEF x, t
  <2> QED
    BY <1>1, <1>3, <2>1, EventStep, SameJournal
<1>5. PICK l \in {"done", "settle"} : pc' = [pc EXCEPT ![w] = l]
  BY DEF AppendSettle, Goto
<1>6. l \in Labels /\ ShapeOf(job[w], l)
  BY <1>1, <1>5 DEF Labels, ShapeOf, TypeInv, JobShape, AppendSettle
<1>7. pc' \in [Workers -> Labels] /\ JobShape'
  BY <1>5, <1>6, LabelStep DEF AppendSettle
<1>8. scope' \in Workers \cup {None}
  BY GuardsTyped DEF AppendSettle, TypeInv, TypeOK
<1> QED
  BY <1>4, <1>7, <1>8 DEF AppendSettle, TypeInv, TypeOK

LEMMA RecoverType ==
    ASSUME TypeInv, NEW w \in Workers, Recover(w)
    PROVE  TypeInv'
<1>1. PICK l \in {"reload", "scope", "cancel", "check"} :
         pc' = [pc EXCEPT ![w] = l]
  <2>1. CASE thr[job[w].to].up = "failed"
    BY <2>1 DEF Recover, Goto
  <2>2. CASE thr[job[w].to].up # "failed"
    BY <2>2 DEF Recover, Goto
  <2> QED
    BY <2>1, <2>2
<1>2. l \in Labels /\ ShapeOf(job[w], l)
  BY <1>1 DEF Labels, ShapeOf, TypeInv, JobShape, Recover
<1>3. pc' \in [Workers -> Labels] /\ JobShape'
  BY <1>1, <1>2, LabelStep DEF Recover
<1> QED
  BY <1>3, SameJournal DEF Recover, TypeInv, TypeOK

LEMMA ReloadType ==
    ASSUME TypeInv, NEW w \in Workers, Reload(w)
    PROVE  TypeInv'
<1> DEFINE t == job[w].to
<1>1. /\ job \in [Workers -> Jobs] /\ t \in Threads /\ pc \in [Workers -> Labels]
      /\ thr \in [Threads -> Runtimes] /\ thr[t].ctx \in MaybeTurns
  BY DEF TypeInv, TypeOK, JobShape, Reload, Runtimes
<1>2. [Resident EXCEPT !.ctx = thr[t].ctx] \in Runtimes
  BY <1>1, NewRuntimes DEF Runtimes
<1>3. thr' \in [Threads -> Runtimes]
  BY <1>1, <1>2 DEF Reload
<1>4. ASSUME NEW v \in Workers
      PROVE  /\ [job[v] EXCEPT !.holds = FALSE] \in Jobs
             /\ job'[v] \in {job[v], [job[v] EXCEPT !.holds = FALSE]}
  BY <1>1 DEF Jobs, Reload
<1>5. job' \in [Workers -> Jobs]
  BY <1>1, <1>4 DEF Reload
<1>6. PICK l \in {"scope", "cancel", "check"} : pc' = [pc EXCEPT ![w] = l]
  BY DEF Reload, Goto
<1>7. pc' \in [Workers -> Labels]
  BY <1>1, <1>6 DEF Labels
<1>8. ASSUME NEW v \in Workers PROVE ShapeOf(job'[v], pc'[v])
  <2>1. /\ job'[v].env = job[v].env /\ job'[v].att = job[v].att
        /\ job'[v].turn = job[v].turn /\ job'[v].to = job[v].to
        /\ job'[v].dec = job[v].dec
    BY <1>1, <1>4 DEF Jobs
  <2>2. pc'[v] = pc[v] \/ (v = w /\ pc[v] = "reload" /\ pc'[v] = l)
    BY <1>1, <1>6 DEF Reload
  <2>3. ShapeOf(job[v], pc[v])
    BY DEF TypeInv, JobShape, ShapeOf
  <2> QED
    BY <1>6, <2>1, <2>2, <2>3 DEF ShapeOf
<1>9. JobShape'
  BY <1>8 DEF JobShape, ShapeOf
<1> QED
  BY <1>3, <1>5, <1>7, <1>9, SameJournal DEF Reload, TypeInv, TypeOK

LEMMA CheckEvidenceType ==
    ASSUME TypeInv, NEW w \in Workers, CheckEvidence(w)
    PROVE  TypeInv'
<1>1. PICK l \in {"settle", "reserve"} : pc' = [pc EXCEPT ![w] = l]
  BY DEF CheckEvidence, Goto
<1>2. l \in Labels /\ ShapeOf(job[w], l)
  BY <1>1 DEF Labels, ShapeOf, TypeInv, JobShape, CheckEvidence
<1>3. pc' \in [Workers -> Labels] /\ JobShape'
  BY <1>1, <1>2, LabelStep DEF CheckEvidence
<1> QED
  BY <1>3, SameJournal DEF CheckEvidence, TypeInv, TypeOK

LEMMA TakeScopeType ==
    ASSUME TypeInv, NEW w \in Workers, TakeScope(w)
    PROVE  TypeInv'
<1>1. CASE /\ scope' \in {scope, w}
           /\ \E l \in {"lock", "adopt", "create", "done"} : Goto(w, l)
           /\ UNCHANGED << queue, lock, thr, job >>
  <2>1. PICK l \in {"lock", "adopt", "create", "done"} :
           pc' = [pc EXCEPT ![w] = l]
    BY <1>1 DEF Goto
  <2>2. l \in Labels /\ ShapeOf(job[w], l)
    BY <2>1 DEF Labels, ShapeOf, TypeInv, JobShape, TakeScope
  <2>3. pc' \in [Workers -> Labels] /\ JobShape'
    BY <1>1, <2>1, <2>2, LabelStep
  <2> QED
    BY <1>1, <2>3, SameJournal DEF TakeScope, TypeInv, TypeOK
<1>2. CASE Abandon(w)
  BY <1>2, AbandonType, SameJournal DEF TakeScope, TypeInv, TypeOK
<1> QED
  BY <1>1, <1>2 DEF TakeScope

LEMMA CreateChildType ==
    ASSUME TypeInv, NEW w \in Workers, CreateChild(w)
    PROVE  TypeInv'
<1>1. thr' \in [Threads -> Runtimes]
  BY NewRuntimes DEF CreateChild, TypeInv, TypeOK
<1>2. "spawn" \in Labels /\ ShapeOf(job[w], "spawn")
  BY DEF Labels, ShapeOf, TypeInv, JobShape, CreateChild
<1>3. pc' \in [Workers -> Labels] /\ JobShape'
  BY <1>2, LabelStep DEF CreateChild, Goto
<1> QED
  BY <1>1, <1>3, SameJournal DEF CreateChild, TypeInv, TypeOK

LEMMA AppendSpawnedType ==
    ASSUME TypeInv, NEW w \in Workers, AppendSpawned(w)
    PROVE  TypeInv'
<1> DEFINE t == job[w].to
           x == Event("spawned", job[w].env, job[w].turn, job[w].dec)
<1>1. /\ job[w].env \in Envelopes /\ t \in Threads
      /\ job[w].turn \in {job[w].env} \X Attempts /\ job[w].dec \in AllPolicies
  BY DEF TypeInv, JobShape, AppendSpawned
<1>2. job[w].turn \in MaybeTurns /\ job[w].dec \in Decisions
  BY <1>1 DEF MaybeTurns, Turns, Decisions
<1>3. x \in Events /\ Shaped(x)
  BY <1>1, <1>2, EventTyped DEF EventKinds, Event, Shaped
<1>4. control' \in [Threads -> Seq(Events)] /\ ClaimShape'
  <2>1. control' = [control EXCEPT ![t] = Append(@, x)]
    BY DEF AppendSpawned
  <2> HIDE DEF x, t
  <2> QED
    BY <1>1, <1>3, <2>1, EventStep
<1>5. "rebind" \in Labels /\ ShapeOf(job[w], "rebind")
  BY <1>1 DEF Labels, ShapeOf, TypeInv, JobShape, AppendSpawned
<1>6. pc' \in [Workers -> Labels] /\ JobShape'
  BY <1>5, LabelStep DEF AppendSpawned, Goto
<1> QED
  BY <1>4, <1>6 DEF AppendSpawned, TypeInv, TypeOK

LEMMA RebindRouteType ==
    ASSUME TypeInv, NEW w \in Workers, RebindRoute(w)
    PROVE  TypeInv'
<1>1. job[w].env \in Threads
  BY DEF TypeInv, JobShape, RebindRoute, Threads
<1>2. PICK l \in {"settle", "forksubmit"} : pc' = [pc EXCEPT ![w] = l]
  BY DEF RebindRoute, Goto
<1>3. l \in Labels /\ ShapeOf(job[w], l)
  BY <1>2 DEF Labels, ShapeOf, TypeInv, JobShape, RebindRoute
<1>4. pc' \in [Workers -> Labels] /\ JobShape'
  BY <1>2, <1>3, LabelStep DEF RebindRoute
<1> QED
  BY <1>1, <1>4, SameJournal DEF RebindRoute, TypeInv, TypeOK

LEMMA SubmitForkType ==
    ASSUME TypeInv, NEW w \in Workers, SubmitFork(w)
    PROVE  TypeInv'
<1> DEFINE t == job[w].env
           u == job[w].turn
           m == Append(thr[t].mailbox, Submission(u, "fork"))
           r == [thr[t] EXCEPT !.reserved = @ \cup {u},
                               !.mailbox = Append(@, Submission(u, "fork"))]
<1>1. /\ t \in Threads /\ u \in MaybeTurns /\ thr \in [Threads -> Runtimes]
      /\ thr[t] \in Runtimes /\ thr[t].mailbox \in Seq(Commands)
  BY DEF TypeInv, TypeOK, JobShape, SubmitFork, Threads, Runtimes, Jobs
<1>2. m \in Seq(Commands)
  BY <1>1, SubmissionTyped
<1>3. r \in Runtimes
  BY <1>1, <1>2 DEF Runtimes
<1>4. CASE /\ active' = u /\ Goto(w, "settle")
           /\ thr' = thr \/ thr' = [thr EXCEPT ![t] = r]
           /\ UNCHANGED << queue, lock, scope, job >>
  <2>1. "settle" \in Labels /\ ShapeOf(job[w], "settle")
    BY DEF Labels, ShapeOf, TypeInv, JobShape, SubmitFork
  <2>2. pc' \in [Workers -> Labels] /\ JobShape'
    BY <1>4, <2>1, LabelStep DEF Goto
  <2>3. thr' \in [Threads -> Runtimes]
    <3> HIDE DEF r
    <3> QED
      BY <1>1, <1>3, <1>4
  <2> QED
    BY <1>1, <1>4, <2>2, <2>3, SameJournal DEF SubmitFork, TypeInv, TypeOK
<1>5. CASE active' = None /\ Abandon(w)
  BY <1>5, AbandonType, SameJournal
  DEF SubmitFork, TypeInv, TypeOK, MaybeTurns
<1>6. \/ /\ active' = u /\ Goto(w, "settle")
         /\ thr' = thr \/ thr' = [thr EXCEPT ![t] = r]
         /\ UNCHANGED << queue, lock, scope, job >>
      \/ active' = None /\ Abandon(w)
  <2> HIDE DEF Abandon, Goto
  <2> QED
    BY DEF SubmitFork
<1> QED
  BY <1>4, <1>5, <1>6

LEMMA TimeoutType ==
    ASSUME TypeInv, NEW w \in Workers, Timeout(w)
    PROVE  TypeInv'
BY AbandonType, SameJournal DEF Timeout, TypeInv, TypeOK

LEMMA FaultType ==
    ASSUME TypeInv, NEW w \in Workers, Fault(w)
    PROVE  TypeInv'
<1>1. spent' \in Budgets
  <2>1. spent \in Budgets
    BY DEF TypeInv, TypeOK
  <2> QED
    BY <2>1, IngressAssumption DEF Fault, Budgets, IngressAssumption
<1> QED
  BY <1>1, AbandonType, SameJournal DEF Fault, TypeInv, TypeOK

\* Steps of the executing side leave the workers alone.
LEMMA SameWorkers ==
    ASSUME TypeInv, pc' = pc, job' = job
    PROVE  JobShape'
BY DEF TypeInv, JobShape

LEMMA RecordTyped ==
    ASSUME TypeInv, NEW t \in Threads, NEW u \in MaybeTurns,
           NEW kind \in {"compiled", "steered", "failed"}
    PROVE  /\ Record(t, kind, u) => trace' \in [Threads -> Seq(Records)]
           /\ RecordSteer(t, u) => trace' \in [Threads -> Seq(Records)]
<1>1. trace \in [Threads -> Seq(Records)]
  BY DEF TypeInv, TypeOK
<1>2. /\ [kind |-> kind, turn |-> u] \in Records
      /\ [kind |-> "steered", turn |-> u] \in Records
  BY DEF Records
<1>3. ASSUME NEW x \in Records
      PROVE  [trace EXCEPT ![t] = Append(@, x)] \in [Threads -> Seq(Records)]
  BY <1>1
<1>4. Record(t, kind, u) => trace' \in [Threads -> Seq(Records)]
  BY <1>2, <1>3 DEF Record
<1>5. RecordSteer(t, u) => trace' \in [Threads -> Seq(Records)]
  BY <1>1, <1>2, <1>3 DEF Record, RecordSteer
<1> QED
  BY <1>4, <1>5

LEMMA StartCommandType ==
    ASSUME TypeInv, NEW t \in Threads, StartCommand(t)
    PROVE  TypeInv'
<1> DEFINE c == Head(thr[t].mailbox)
           m == Tail(thr[t].mailbox)
           r == [thr[t] EXCEPT !.mailbox = m]
<1>1. /\ thr \in [Threads -> Runtimes] /\ thr[t] \in Runtimes
      /\ thr[t].mailbox \in Seq(Commands) /\ thr[t].mailbox # <<>>
  BY DEF TypeInv, TypeOK, Runtimes, StartCommand
<1>2. c \in Commands /\ m \in Seq(Commands)
  BY <1>1, HeadTailProperties
<1>3. c.turn \in MaybeTurns
  BY <1>2 DEF Commands
<1>4. r \in Runtimes
  <2> HIDE DEF m
  <2> QED
    BY <1>1, <1>2 DEF Runtimes
<1> HIDE DEF r, c
<1>5. /\ [r EXCEPT !.ctx = c.turn] \in Runtimes
      /\ [r EXCEPT !.running = c.turn, !.traced = FALSE,
                   !.ctx = c.turn] \in Runtimes
  BY <1>3, <1>4 DEF Runtimes
<1>6. /\ \/ thr' = [thr EXCEPT ![t] = r]
         \/ thr' = [thr EXCEPT ![t] = [r EXCEPT !.ctx = c.turn]]
         \/ thr' = [thr EXCEPT ![t] = [r EXCEPT !.running = c.turn,
                                         !.traced = FALSE, !.ctx = c.turn]]
      /\ trace' = trace \/ RecordSteer(t, c.turn)
  BY DEF StartCommand, r, c
<1>7. thr' \in [Threads -> Runtimes]
  BY <1>1, <1>4, <1>5, <1>6
<1>8. trace' \in [Threads -> Seq(Records)]
  BY <1>3, <1>6, RecordTyped DEF TypeInv, TypeOK
<1> QED
  BY <1>7, <1>8, SameWorkers, SameJournal DEF StartCommand, TypeInv, TypeOK

LEMMA CompileContextType ==
    ASSUME TypeInv, NEW t \in Threads, CompileContext(t)
    PROVE  TypeInv'
<1>1. /\ thr \in [Threads -> Runtimes] /\ thr[t] \in Runtimes
      /\ thr[t].running \in MaybeTurns
  BY DEF TypeInv, TypeOK, Runtimes
<1>2. [thr[t] EXCEPT !.traced = TRUE] \in Runtimes
  BY <1>1 DEF Runtimes
<1>3. thr' \in [Threads -> Runtimes]
  BY <1>1, <1>2 DEF CompileContext
<1>4. trace' \in [Threads -> Seq(Records)]
  BY <1>1, RecordTyped DEF CompileContext
<1> QED
  BY <1>3, <1>4, SameWorkers, SameJournal DEF CompileContext, TypeInv, TypeOK

LEMMA ActiveCommandType ==
    ASSUME TypeInv, NEW t \in Threads, ActiveCommand(t)
    PROVE  TypeInv'
<1>1. /\ thr \in [Threads -> Runtimes] /\ thr[t] \in Runtimes
      /\ thr[t].mailbox \in Seq(Commands)
  BY DEF TypeInv, TypeOK, Runtimes
<1> DEFINE box == thr[t].mailbox
<1>2. PICK i \in DOMAIN box :
        LET c == box[i]
            rest == RemoveAt(box, i)
        IN  \/ /\ thr' = [thr EXCEPT ![t] =
                             [@ EXCEPT !.mailbox = rest, !.ctx = c.turn]]
               /\ RecordSteer(t, c.turn)
            \/ /\ thr' = [thr EXCEPT ![t] =
                             [@ EXCEPT !.mailbox = rest, !.running = None]]
               /\ UNCHANGED trace
            \/ /\ thr' = [thr EXCEPT ![t] =
                       [@ EXCEPT !.running = None, !.mailbox =
                                 <<Submission(c.turn, "queue")>> \o rest]]
               /\ UNCHANGED trace
  BY DEF ActiveCommand
<1> DEFINE c == box[i]
           rest == RemoveAt(box, i)
           front == <<Submission(c.turn, "queue")>> \o rest
<1>3. c.turn \in MaybeTurns /\ None \in MaybeTurns
  <2>1. c \in Commands
    BY <1>1, <1>2
  <2> QED
    BY <2>1 DEF Commands, MaybeTurns
<1>4. rest \in Seq(Commands)
  <2>1. i \in 1..Len(box)
    BY <1>1, <1>2
  <2>2. SubSeq(box, 1, i - 1) \in Seq(Commands)
    BY <1>1, <2>1, SubSeqProperties
  <2>3. SubSeq(box, i + 1, Len(box)) \in Seq(Commands)
    BY <1>1, <2>1, SubSeqProperties
  <2> QED
    BY <2>2, <2>3, ConcatProperties DEF RemoveAt
<1>5. front \in Seq(Commands)
  <2>1. <<Submission(c.turn, "queue")>> \in Seq(Commands)
    BY <1>3, SubmissionTyped
  <2> QED
    BY <1>4, <2>1, ConcatProperties
<1> HIDE DEF c, rest, front, box
<1>6. /\ [thr[t] EXCEPT !.mailbox = rest, !.ctx = c.turn] \in Runtimes
      /\ [thr[t] EXCEPT !.mailbox = rest, !.running = None] \in Runtimes
      /\ [thr[t] EXCEPT !.running = None, !.mailbox = front] \in Runtimes
  BY <1>1, <1>3, <1>4, <1>5 DEF Runtimes
<1>7. thr' \in [Threads -> Runtimes]
  <2>1. \/ thr' = [thr EXCEPT ![t] =
                      [thr[t] EXCEPT !.mailbox = rest, !.ctx = c.turn]]
        \/ thr' = [thr EXCEPT ![t] =
                      [thr[t] EXCEPT !.mailbox = rest, !.running = None]]
        \/ thr' = [thr EXCEPT ![t] =
                      [thr[t] EXCEPT !.running = None, !.mailbox = front]]
    BY <1>2 DEF front, rest, c
  <2> QED
    BY <1>1, <1>6, <2>1
<1>8. trace' \in [Threads -> Seq(Records)]
  <2>1. RecordSteer(t, c.turn) \/ trace' = trace
    BY <1>2 DEF c
  <2> QED
    BY <1>3, <2>1, RecordTyped DEF TypeInv, TypeOK
<1> QED
  BY <1>7, <1>8, SameWorkers, SameJournal DEF ActiveCommand, TypeInv, TypeOK

LEMMA FinishTurnType ==
    ASSUME TypeInv, NEW t \in Threads, FinishTurn(t)
    PROVE  TypeInv'
<1>1. /\ thr \in [Threads -> Runtimes] /\ thr[t] \in Runtimes
      /\ thr[t].ctx \in MaybeTurns /\ None \in MaybeTurns
  BY DEF TypeInv, TypeOK, Runtimes, MaybeTurns
<1>2. [thr[t] EXCEPT !.running = None] \in Runtimes
  BY <1>1 DEF Runtimes
<1>3. thr' \in [Threads -> Runtimes]
  BY <1>1, <1>2 DEF FinishTurn
<1>4. answers' \subseteq MaybeTurns
  BY <1>1 DEF FinishTurn, TypeInv, TypeOK
<1> QED
  BY <1>3, <1>4, SameWorkers, SameJournal DEF FinishTurn, TypeInv, TypeOK

LEMMA DeliverAnswerType ==
    ASSUME TypeInv, NEW u \in answers, DeliverAnswer(u)
    PROVE  TypeInv'
<1>1. answers' \subseteq MaybeTurns /\ active' \in MaybeTurns
  BY DEF DeliverAnswer, TypeInv, TypeOK, MaybeTurns
<1> QED
  BY <1>1, SameWorkers, SameJournal DEF DeliverAnswer, TypeInv, TypeOK

LEMMA FailTurnType ==
    ASSUME TypeInv, NEW t \in Threads, FailTurn(t)
    PROVE  TypeInv'
<1>1. /\ thr \in [Threads -> Runtimes] /\ thr[t] \in Runtimes
      /\ thr[t].running \in MaybeTurns /\ None \in MaybeTurns
      /\ <<>> \in Seq(Commands)
  BY DEF TypeInv, TypeOK, Runtimes, MaybeTurns
<1>2. [thr[t] EXCEPT !.up = "failed", !.mailbox = <<>>, !.running = None,
                     !.traced = FALSE] \in Runtimes
  BY <1>1 DEF Runtimes
<1>3. thr' \in [Threads -> Runtimes]
  BY <1>1, <1>2 DEF FailTurn
<1>4. trace' \in [Threads -> Seq(Records)]
  <2>1. trace \in [Threads -> Seq(Records)]
    BY DEF TypeInv, TypeOK
  <2>2. CASE Record(t, "failed", thr[t].running)
    BY <1>1, <2>2, RecordTyped
  <2>3. CASE UNCHANGED trace
    BY <2>1, <2>3
  <2> QED
    BY <2>2, <2>3 DEF FailTurn
<1>5. spent' \in Budgets
  <2>1. spent \in Budgets
    BY DEF TypeInv, TypeOK
  <2>2. MaxCrash \in Nat /\ MaxFault \in Nat /\ MaxExpire \in Nat
        /\ MaxFail \in Nat
    BY IngressAssumption DEF IngressAssumption
  <2>3. spent.fail < MaxFail
    BY DEF FailTurn
  <2>4. CASE spent' = [spent EXCEPT !.fail = @ + 1]
    BY <2>1, <2>2, <2>3, <2>4 DEF Budgets
  <2>5. CASE /\ spent.fault < MaxFault
             /\ spent' = [spent EXCEPT !.fail = spent.fail + 1,
                                       !.fault = spent.fault + 1]
    <3>1. /\ spent.fail \in Nat /\ spent.fail < MaxFail
          /\ spent.fault \in Nat /\ spent.fault < MaxFault
      BY <2>1, <2>2, <2>3, <2>5, SMT DEF Budgets
    <3>2. spent.fail + 1 \in 0..MaxFail /\ spent.fault + 1 \in 0..MaxFault
      BY <3>1, <2>2, SMT
    <3> QED
      BY <2>1, <2>5, <3>2, Zenon DEF Budgets
  <2> QED
    BY <2>4, <2>5 DEF FailTurn
<1> QED
  BY <1>3, <1>4, <1>5, SameWorkers, SameJournal DEF FailTurn, TypeInv, TypeOK

LEMMA CrashType ==
    ASSUME TypeInv, Crash
    PROVE  TypeInv'
<1>1. "idle" \in Labels
  BY DEF Labels
<1>2. pc' \in [Workers -> Labels] /\ job' \in [Workers -> Jobs]
  BY <1>1, NewJobs DEF Crash
<1>3. JobShape'
  BY DEF Crash, JobShape
<1>4. thr \in [Threads -> Runtimes]
  BY DEF TypeInv, TypeOK
<1>5. ASSUME NEW t \in Threads
      PROVE  [Resident EXCEPT !.ctx = thr[t].ctx] \in Runtimes
  BY <1>4, NewRuntimes DEF Runtimes
<1>6. thr' \in [Threads -> Runtimes]
  BY <1>5, NewRuntimes DEF Crash
<1>7. spent' \in Budgets /\ None \in MaybeTurns
  <2>1. spent \in Budgets
    BY DEF TypeInv, TypeOK
  <2> QED
    BY <2>1, IngressAssumption
    DEF Crash, Budgets, IngressAssumption, MaybeTurns
<1> QED
  BY <1>2, <1>3, <1>6, <1>7, SameJournal DEF Crash, TypeInv, TypeOK

LEMMA StutterType ==
    ASSUME TypeInv, UNCHANGED vars
    PROVE  TypeInv'
BY DEF TypeInv, TypeOK, JobShape, ClaimShape, vars

LEMMA InitType == Init => TypeInv
<1> SUFFICES ASSUME Init PROVE TypeInv
  OBVIOUS
<1>1. policy \in [Envelopes -> AllPolicies]
  BY IngressAssumption DEF Init, IngressAssumption
<1>2. queue \in [Envelopes -> Messages]
  BY IngressAssumption DEF Init, Messages, IngressAssumption
<1>3. control \in [Threads -> Seq(Events)] /\ trace \in [Threads -> Seq(Records)]
  BY DEF Init
<1>4. thr \in [Threads -> Runtimes]
  BY NewRuntimes DEF Init
<1>5. pc \in [Workers -> Labels] /\ job \in [Workers -> Jobs]
  BY NewJobs DEF Init, Labels
<1>6. spent \in Budgets
  BY IngressAssumption DEF Init, Budgets, IngressAssumption
<1>7. JobShape /\ ClaimShape
  BY DEF Init, JobShape, ClaimShape
<1> QED
  BY <1>1, <1>2, <1>3, <1>4, <1>5, <1>6, <1>7
  DEF TypeInv, TypeOK, Init, MaybeTurns

\* Types and shapes are inductive.
LEMMA TypeStep == TypeInv /\ [Next]_vars => TypeInv'
<1> SUFFICES ASSUME TypeInv, [Next]_vars PROVE TypeInv'
  OBVIOUS
<1>1. ASSUME NEW w \in Workers, Apply(w) PROVE TypeInv'
  BY <1>1, LeaseType, FoldOutcomeType, WitnessType, RecordDecisionType,
     RecordOwnershipType, ReserveType, LockAdmissionType, AwaitOutcomeType,
     ReadClaimStreamType, AppendClaimType, CommitAdmissionType,
     CancelActiveType, SubmitTurnType, AwaitEvidenceType,
     ReadSettleStreamType, AppendSettleType, RecoverType, ReloadType,
     CheckEvidenceType, TakeScopeType, CreateChildType, AppendSpawnedType,
     RebindRouteType, SubmitForkType, TimeoutType, CompleteType
  DEF Apply
<1>2. ASSUME NEW t \in Threads, Execute(t) \/ FailTurn(t) PROVE TypeInv'
  BY <1>2, StartCommandType, CompileContextType, ActiveCommandType,
     FinishTurnType, FailTurnType
  DEF Execute
<1> QED
  BY <1>1, <1>2, FaultType, ExpireType, DeliverAnswerType, CrashType,
     StutterType
  DEF Next, Drained

\* Every reachable state of the protocol is well typed: no interleaving,
\* error path or restart leaves a field outside its range.
THEOREM TypeCorrect == Spec => []TypeOK
<1>1. Spec => []TypeInv
  BY InitType, TypeStep, PTL DEF Spec
<1>2. TypeInv => TypeOK
  BY DEF TypeInv
<1> QED
  BY <1>1, <1>2, PTL
=============================================================================

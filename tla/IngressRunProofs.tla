------------------------- MODULE IngressRunProofs ---------------------------
(***************************************************************************)
(* No turn runs twice while no runtime has failed, for any envelopes,      *)
(* workers, deliveries, errors and restarts.                               *)
(*                                                                         *)
(* On a thread a turn is at most one of: reserved by a worker that will    *)
(* submit it, waiting in the mailbox, running without a record, recorded.  *)
(* It moves along these places and never comes back, because the turn id   *)
(* stays in the runtime's reservation set from the first place to the last *)
(* and only the loss of the runtime empties that set: a restart, which     *)
(* also takes the workers that have looked for evidence, or the reload of  *)
(* a failed one.                                                           *)
(***************************************************************************)
EXTENDS IngressSettleProofs

(***************************************************************************)
(* An attempt and its turn.                                                *)
(***************************************************************************)
\* No stream of the journal C claims turn u.
Unclaimed(C, u) ==
    \A s \in Threads : \A i \in DOMAIN C[s] :
        C[s][i].kind = "claimed" => C[s][i].turn # u

\* An apply that has not yet found or made a claim of its envelope.
EarlyLabels == {"fold", "witness", "decide", "own", "lock", "await", "read",
                "append"}
BeforeClaim(l, j) == l \in EarlyLabels \/ (l \in {"reserve", "scope"} /\ ~j.rec)

\* The steps of an apply that recovers what an earlier one left.
Recovery == {"recover", "reload", "check"}

\* Until then it carries the turn of its own attempt, which no one claims;
\* later it may carry the turn of another one's claim.
Fresh(l, j, C) ==
    /\ BeforeClaim(l, j) =>
          j.turn = <<j.env, j.att>> /\ ~j.rec /\ Unclaimed(C, j.turn)
    /\ l \in Recovery => j.rec

\* Deliveries are numbered, and each worker has one of its own.
Numbered ==
    \A w \in Workers : pc[w] # "idle" => job[w].att <= queue[job[w].env].attempt
NumbersApart ==
    \A v, w \in Workers :
        v # w /\ pc[v] # "idle" /\ pc[w] # "idle" /\ job[v].env = job[w].env =>
            job[v].att # job[w].att
ClaimsNumbered ==
    \A s \in Threads : \A i \in DOMAIN control[s] :
        control[s][i].kind = "claimed" =>
            control[s][i].turn[2] <= queue[control[s][i].env].attempt

AttemptInv ==
    /\ Numbered /\ NumbersApart /\ ClaimsNumbered
    /\ \A w \in Workers : Fresh(pc[w], job[w], control)

\* A fork keeps the scope lock until its child has its turn.
ScopeInv ==
    \A w \in Workers : pc[w] \in {"rebind", "adopt", "forksubmit"} => scope = w

(***************************************************************************)
(* A turn on its way to its record.                                        *)
(***************************************************************************)
\* Turn u waits in the mailbox of runtime r, or runs without a record yet.
Posted(r, u) == HasTurn(r.mailbox, u)
Working(r, u) == r.running = u /\ ~r.traced
Pending(r, u) == Posted(r, u) \/ Working(r, u)

\* Nothing of turn u has reached the runtime r with the records q.
Untouched(r, q, u) == ~Pending(r, u) /\ ~HasTurn(q, u)

\* On one thread a turn is pending once, reserved while it is and not yet
\* recorded; and it is recorded once.
TurnsApart(m) ==
    \A i, k \in DOMAIN m : m[i].turn # None /\ m[i].turn = m[k].turn => i = k
PostedOnce(r) ==
    /\ TurnsApart(r.mailbox)
    /\ r.running # None /\ ~r.traced => ~Posted(r, r.running)
RecordedOnce(q) == \A i, k \in DOMAIN q : q[i].turn = q[k].turn => i = k

ThreadOnce(r, q) ==
    /\ r.up # "failed" /\ (r.up = "absent" => r.reserved = {})
    /\ PostedOnce(r) /\ RecordedOnce(q)
    /\ \A u \in Turns : Pending(r, u) => u \in r.reserved /\ ~HasTurn(q, u)

\* A worker that holds a reservation is the only one that can submit it; one
\* that is about to reserve a recorded turn will find it reserved.
Holding == {"lock", "await", "read", "append", "commit", "cancel", "submit"}

HoldsOne(l, j, r, q) ==
    j.holds => /\ l \in Holding /\ j.dec # "fork"
               /\ l # "submit" => ~j.rec /\ j.dec # "observe"
               /\ j.turn \in r.reserved /\ Untouched(r, q, j.turn)
Reserves(u, r, q) == HasTurn(q, u) => u \in r.reserved

WorkerOnce(l, j, H, T) ==
    /\ l # "reload"
    /\ HoldsOne(l, j, H[j.to], T[j.to])
    /\ l = "reserve" => /\ Reserves(j.turn, H[j.to], T[j.to])
                        /\ j.dec = "observe" => j.rec
    /\ l = "forksubmit" => Reserves(j.turn, H[j.env], T[j.env])
    /\ l = "rebind" => Untouched(H[j.env], T[j.env], j.turn)

HoldersApart ==
    \A v, w \in Workers : v # w /\ job[v].holds /\ job[w].holds =>
        ~(job[v].to = job[w].to /\ job[v].turn = job[w].turn)

\* A fork's turn reaches its child only after the spawn.
ForkOnce ==
    \A s \in Threads, e \in Envelopes, u \in Turns :
        HasClaim(control[s], e, u, "fork") /\ ~Untouched(thr[e], trace[e], u) =>
            HasSpawn(control[s], u)

OnceInv ==
    /\ \A t \in Threads : ThreadOnce(thr[t], trace[t])
    /\ \A w \in Workers : WorkerOnce(pc[w], job[w], thr, trace)
    /\ HoldersApart /\ ForkOnce

Healthy == spent.fail = 0
RunInv == AttemptInv /\ ScopeInv /\ (Healthy => OnceInv)

(***************************************************************************)
(* What a worker's step does to the jobs and to the claims.                *)
(***************************************************************************)
\* Worker w stays with its delivery.
StaysOn(w) ==
    /\ pc[w] # "idle"
    /\ job'[w].env = job[w].env /\ job'[w].att = job[w].att

\* Worker w carries its own turn for as long as it has not claimed.
StillEarly(w) ==
    /\ BeforeClaim(pc'[w], job'[w]) =>
          /\ BeforeClaim(pc[w], job[w])
          /\ job'[w].turn = job[w].turn /\ job'[w].rec = job[w].rec
    /\ pc'[w] \in Recovery => job'[w].rec

\* What resuming another's claim leaves of a job.
LEMMA JobResumed ==
    ASSUME NEW j \in Jobs, NEW t, NEW u, NEW d
    PROVE  LET k == [j EXCEPT !.to = t, !.turn = u, !.dec = d, !.holds = FALSE,
                              !.rec = TRUE]
           IN  k.env = j.env /\ k.att = j.att /\ k.holds = FALSE /\ k.rec = TRUE
BY DEF Jobs

\* A resumed apply keeps its envelope and attempt and holds no reservation.
LEMMA ResumeStays ==
    ASSUME TypeInv, NEW w \in Workers, NEW found, NEW loser,
           Resume(w, found, loser), pc[w] # "idle"
    PROVE  StaysOn(w) /\ StillEarly(w) /\ job'[w].holds = FALSE
<1>1. job \in [Workers -> Jobs] /\ pc \in [Workers -> Labels] /\ job[w] \in Jobs
  BY DEF TypeInv, TypeOK
<1>2. CASE /\ Goto(w, "done")
           /\ job' = [job EXCEPT ![w].holds = FALSE]
  <2>1. job'[w] = [job[w] EXCEPT !.holds = FALSE] /\ pc'[w] = "done"
    BY <1>1, <1>2 DEF Goto
  <2>2. /\ job'[w].env = job[w].env /\ job'[w].att = job[w].att
        /\ job'[w].holds = FALSE
    BY <1>1, <2>1 DEF Jobs
  <2> QED
    BY <2>1, <2>2 DEF StaysOn, StillEarly, BeforeClaim, EarlyLabels, Recovery
<1>3. CASE /\ Goto(w, "recover")
           /\ job' = [job EXCEPT ![w] =
                         [@ EXCEPT !.to = found.at, !.turn = found.turn,
                                   !.dec = found.dec, !.holds = FALSE,
                                   !.rec = TRUE]]
  <2>1. /\ job'[w] = [job[w] EXCEPT !.to = found.at, !.turn = found.turn,
                           !.dec = found.dec, !.holds = FALSE, !.rec = TRUE]
        /\ pc'[w] = "recover"
    BY <1>1, <1>3 DEF Goto
  <2> QED
    BY <1>1, <2>1, JobResumed DEF StaysOn, StillEarly, BeforeClaim, EarlyLabels, Recovery
<1> QED
  BY <1>2, <1>3 DEF Resume

\* A worker that goes to label l with the same delivery and turn.
LEMMA GotoStays ==
    ASSUME TypeInv, NEW w \in Workers, NEW l, Goto(w, l), pc[w] # "idle",
           BeforeClaim(l, job[w]) => BeforeClaim(pc[w], job[w]),
           l \in Recovery => job[w].rec,
           NEW t, NEW d, NEW n, NEW S, NEW b,
           \/ job' = job
           \/ job' = [job EXCEPT ![w].holds = b]
           \/ job' = [job EXCEPT ![w].tail = n]
           \/ job' = [job EXCEPT ![w].seen = S]
           \/ job' = [job EXCEPT ![w] = [@ EXCEPT !.to = t, !.dec = d]]
    PROVE  StaysOn(w) /\ StillEarly(w)
<1>1. job \in [Workers -> Jobs] /\ pc \in [Workers -> Labels] /\ job[w] \in Jobs
  BY DEF TypeInv, TypeOK
<1>2. job'[w] \in {job[w], [job[w] EXCEPT !.holds = b], [job[w] EXCEPT !.tail = n],
                   [job[w] EXCEPT !.seen = S], [job[w] EXCEPT !.to = t, !.dec = d]}
  BY <1>1
<1>3. /\ job'[w].env = job[w].env /\ job'[w].att = job[w].att
      /\ job'[w].turn = job[w].turn /\ job'[w].rec = job[w].rec
  <2>1. \A k \in {job[w], [job[w] EXCEPT !.holds = b], [job[w] EXCEPT !.tail = n],
                  [job[w] EXCEPT !.seen = S], [job[w] EXCEPT !.to = t, !.dec = d]} :
           /\ k.env = job[w].env /\ k.att = job[w].att
           /\ k.turn = job[w].turn /\ k.rec = job[w].rec
    BY <1>1 DEF Jobs
  <2> QED
    BY <1>2, <2>1
<1>4. pc'[w] = l
  BY <1>1 DEF Goto
<1> QED
  BY <1>3, <1>4 DEF StaysOn, StillEarly, BeforeClaim

\* An abandoned apply is idle.
LEMMA AbandonEnds ==
    ASSUME TypeInv, NEW w \in Workers, Abandon(w)
    PROVE  pc'[w] = "idle" /\ job'[w] = IdleJob
BY DEF Abandon, Goto, TypeInv, TypeOK

\* The others keep their jobs, but for the reservations a reload takes.
LEMMA StepOthers ==
    ASSUME TypeInv, NEW w \in Workers, Steps(w)
    PROVE  \A v \in Workers \ {w} :
              /\ pc'[v] = pc[v] /\ SameJob(job[v], job'[v])
              /\ job'[v].att = job[v].att
              /\ ~Reload(w) => job'[v] = job[v]
<1>1. job \in [Workers -> Jobs]
  BY DEF TypeInv, TypeOK
<1>2. \A v \in Workers \ {w} : pc'[v] = pc[v] /\ SameJob(job[v], job'[v])
  BY StepMoves
<1>3. CASE Reload(w)
  <2>1. ASSUME NEW v \in Workers PROVE job'[v].att = job[v].att
    <3>1. job'[v] \in {job[v], [job[v] EXCEPT !.holds = FALSE]} /\ job[v] \in Jobs
      BY <1>1, <1>3 DEF Reload
    <3> QED
      BY <3>1 DEF Jobs
  <2> QED
    BY <1>2, <1>3, <2>1
<1>4. CASE ~Reload(w)
  <2>1. \A v \in Workers \ {w} : job'[v] = job[v]
    BY <1>1, <1>4 DEF Steps, Apply, Fault, Lease, FoldOutcome, Witness,
       RecordDecision, RecordOwnership, Reserve, LockAdmission, AwaitOutcome,
       ReadClaimStream, AppendClaim, CommitAdmission, CancelActive, SubmitTurn,
       AwaitEvidence, ReadSettleStream, AppendSettle, Recover, CheckEvidence,
       TakeScope, CreateChild, AppendSpawned, RebindRoute, SubmitFork, Timeout,
       Complete, Abandon, Resume
  <2> QED
    BY <1>2, <2>1
<1> QED
  BY <1>3, <1>4

\* A step leases, gives up or completes, or stays with its delivery.
LEMMA StepSelf ==
    ASSUME TypeInv, AttemptInv, NEW w \in Workers, Steps(w)
    PROVE  \/ \E e \in Envelopes : Lease(w, e)
           \/ pc'[w] = "idle" /\ job'[w] = IdleJob
           \/ StaysOn(w) /\ StillEarly(w)
<1> DEFINE Ends == pc'[w] = "idle" /\ job'[w] = IdleJob
           Stays == StaysOn(w) /\ StillEarly(w)
           Keeps(l) == /\ pc[w] # "idle"
                       /\ BeforeClaim(l, job[w]) => BeforeClaim(pc[w], job[w])
                       /\ l \in Recovery => job[w].rec
<1> SUFFICES (\E e \in Envelopes : Lease(w, e)) \/ Ends \/ Stays
  OBVIOUS
<1>1. Abandon(w) => Ends
  BY AbandonEnds
<1>2. ASSUME NEW found, NEW loser, Resume(w, found, loser), pc[w] # "idle"
      PROVE  Stays
  BY <1>2, ResumeStays
<1>3. ASSUME NEW l, Goto(w, l), Keeps(l),
             NEW t, NEW d, NEW n, NEW S, NEW b,
             \/ job' = job
             \/ job' = [job EXCEPT ![w].holds = b]
             \/ job' = [job EXCEPT ![w].tail = n]
             \/ job' = [job EXCEPT ![w].seen = S]
             \/ job' = [job EXCEPT ![w] = [@ EXCEPT !.to = t, !.dec = d]]
      PROVE  Stays
  BY <1>3, GotoStays
<1>5. pc[w] \in Recovery => job[w].rec
  BY DEF AttemptInv, Fresh
<1> HIDE DEF Stays, Ends
<1>6. CASE FoldOutcome(w)
  <2>1. Keeps("witness")
    BY <1>6 DEF FoldOutcome, BeforeClaim, EarlyLabels, Recovery
  <2> QED
    BY <1>1, <1>2, <1>3, <1>6, <2>1 DEF FoldOutcome
<1>7. CASE Witness(w)
  <2>1. Keeps("decide")
    BY <1>7 DEF Witness, BeforeClaim, EarlyLabels, Recovery
  <2> QED
    BY <1>3, <1>7, <2>1 DEF Witness
<1>8. CASE RecordDecision(w)
  <2>1. Keeps("own")
    BY <1>8 DEF RecordDecision, BeforeClaim, EarlyLabels, Recovery
  <2> QED
    BY <1>1, <1>3, <1>8, <2>1 DEF RecordDecision
<1>9. CASE RecordOwnership(w)
  <2>1. PICK l \in {"scope", "lock", "reserve"} : Goto(w, l)
    BY <1>9 DEF RecordOwnership
  <2>2. Keeps(l)
    BY <1>9, <2>1 DEF RecordOwnership, BeforeClaim, EarlyLabels, Recovery
  <2> QED
    BY <1>3, <1>9, <2>1, <2>2 DEF RecordOwnership
<1>10. CASE Reserve(w)
  <2>1. CASE Abandon(w)
    BY <1>1, <2>1
  <2>2. CASE ~Abandon(w)
    <3> DEFINE l == IF job[w].rec THEN "submit" ELSE "lock"
    <3>1. Goto(w, l) /\ pc[w] = "reserve"
      BY <1>10, <2>2 DEF Reserve
    <3>2. Keeps(l)
      BY <3>1 DEF BeforeClaim, EarlyLabels, Recovery
    <3>3. job' = job \/ job' = [job EXCEPT ![w].holds = TRUE]
      BY <1>10, <2>2 DEF Reserve
    <3> HIDE DEF l, Keeps
    <3> QED
      BY <1>3, <3>1, <3>2, <3>3
  <2> QED
    BY <2>1, <2>2
<1>11. CASE LockAdmission(w)
  <2>1. Keeps("read") /\ Keeps("await")
    BY <1>11 DEF LockAdmission, BeforeClaim, EarlyLabels, Recovery
  <2> QED
    BY <1>1, <1>2, <1>3, <1>11, <2>1 DEF LockAdmission
<1>12. CASE AwaitOutcome(w)
  BY <1>1, <1>2, <1>12 DEF AwaitOutcome
<1>13. CASE ReadClaimStream(w)
  <2>1. Keeps("append")
    BY <1>13 DEF ReadClaimStream, BeforeClaim, EarlyLabels, Recovery
  <2> QED
    BY <1>1, <1>2, <1>3, <1>13, <2>1 DEF ReadClaimStream
<1>14. CASE AppendClaim(w)
  <2>1. Keeps("read") /\ Keeps("commit")
    BY <1>14 DEF AppendClaim, BeforeClaim, EarlyLabels, Recovery
  <2> QED
    BY <1>3, <1>14, <2>1 DEF AppendClaim
<1>15. CASE \/ CommitAdmission(w) \/ CancelActive(w) \/ SubmitTurn(w)
            \/ AwaitEvidence(w) \/ AppendSettle(w) \/ CreateChild(w)
            \/ AppendSpawned(w) \/ RebindRoute(w)
  <2>1. PICK l \in {"done", "cancel", "create", "submit", "check", "evidence",
                    "settle", "spawn", "rebind", "forksubmit"} : Goto(w, l)
    BY <1>15 DEF CommitAdmission, CancelActive, SubmitTurn, AwaitEvidence,
       AppendSettle, CreateChild, AppendSpawned, RebindRoute
  <2>2. pc[w] # "idle"
    BY <1>15 DEF CommitAdmission, CancelActive, SubmitTurn, AwaitEvidence,
       AppendSettle, CreateChild, AppendSpawned, RebindRoute
  <2>3. Keeps(l)
    <3>1. l = "check" => job[w].rec
      BY <1>15, <2>1 DEF CommitAdmission, CancelActive, SubmitTurn, AwaitEvidence,
         AppendSettle, CreateChild, AppendSpawned, RebindRoute, Goto, TypeInv, TypeOK
    <3> QED
      BY <2>1, <2>2, <3>1 DEF BeforeClaim, EarlyLabels, Recovery
  <2>4. job' = job \/ job' = [job EXCEPT ![w].holds = FALSE]
    BY <1>15 DEF CommitAdmission, CancelActive, SubmitTurn, AwaitEvidence,
       AppendSettle, CreateChild, AppendSpawned, RebindRoute
  <2> HIDE DEF Keeps
  <2> QED
    BY <1>3, <2>1, <2>3, <2>4
<1>16. CASE ReadSettleStream(w)
  <2>1. Keeps("done") /\ Keeps("settling")
    BY <1>16 DEF ReadSettleStream, BeforeClaim, EarlyLabels, Recovery
  <2> QED
    BY <1>1, <1>3, <1>16, <2>1 DEF ReadSettleStream
<1>17. CASE Recover(w) \/ CheckEvidence(w)
  <2>1. PICK l \in {"reload", "scope", "cancel", "check", "settle", "reserve"} : Goto(w, l)
    BY <1>17 DEF Recover, CheckEvidence
  <2>2. pc[w] \in Recovery /\ job' = job
    BY <1>17 DEF Recover, CheckEvidence, Recovery
  <2>3. Keeps(l)
    BY <1>5, <2>1, <2>2 DEF BeforeClaim, EarlyLabels, Recovery
  <2> HIDE DEF Keeps
  <2> QED
    BY <1>3, <2>1, <2>2, <2>3
<1>18. CASE Reload(w)
  <2>1. PICK l \in {"scope", "cancel", "check"} : Goto(w, l)
    BY <1>18 DEF Reload
  <2>2. /\ job \in [Workers -> Jobs] /\ job[w] \in Jobs /\ pc[w] = "reload"
        /\ pc'[w] = l
    BY <1>18, <2>1 DEF Reload, Goto, TypeInv, TypeOK
  <2>3. job'[w] \in {job[w], [job[w] EXCEPT !.holds = FALSE]}
    BY <1>18 DEF Reload
  <2>4. /\ job'[w].env = job[w].env /\ job'[w].att = job[w].att
        /\ job'[w].rec = job[w].rec
    BY <2>2, <2>3 DEF Jobs
  <2>5. job[w].rec
    BY <1>5, <2>2 DEF Recovery
  <2> QED
    BY <2>1, <2>2, <2>4, <2>5
       DEF Stays, StaysOn, StillEarly, BeforeClaim, EarlyLabels
<1>19. CASE TakeScope(w)
  <2>1. CASE Abandon(w)
    BY <1>1, <2>1
  <2>2. CASE ~Abandon(w)
    <3>1. PICK l \in {"lock", "adopt", "create", "done"} : Goto(w, l)
      BY <1>19, <2>2 DEF TakeScope
    <3>2. /\ pc[w] = "scope" /\ job' = job
          /\ l = "lock" => ~job[w].rec
      BY <1>19, <2>2, <3>1 DEF TakeScope, Goto, TypeInv, TypeOK
    <3>3. Keeps(l)
      BY <3>1, <3>2 DEF BeforeClaim, EarlyLabels, Recovery
    <3> HIDE DEF Keeps
    <3> QED
      BY <1>3, <3>1, <3>2, <3>3
  <2> QED
    BY <2>1, <2>2
<1>20. CASE SubmitFork(w)
  <2>1. Keeps("settle")
    BY <1>20 DEF SubmitFork, BeforeClaim, EarlyLabels, Recovery
  <2> QED
    BY <1>1, <1>3, <1>20, <2>1 DEF SubmitFork
<1>21. CASE Timeout(w) \/ Fault(w)
  BY <1>1, <1>21 DEF Timeout, Fault
<1>22. CASE Complete(w)
  BY <1>22 DEF Complete, Goto, Ends, TypeInv, TypeOK
<1> QED
  BY <1>6, <1>7, <1>8, <1>9, <1>10, <1>11, <1>12, <1>13, <1>14, <1>15, <1>16,
     <1>17, <1>18, <1>19, <1>20, <1>21, <1>22 DEF Steps, Apply

\* The journal keeps what it has; a new claim is the one worker w appends on
\* its way to the commit, a new spawn the one it appends for its child.
OwnClaim(w, t, x) ==
    /\ AppendClaim(w) /\ pc'[w] = "commit" /\ t = job[w].to
    /\ x = Event("claimed", job[w].env, job[w].turn, job[w].dec)

\* The only new claim a step writes is the worker's own.
LEMMA StepEvents ==
    ASSUME TypeInv, NEW w \in Workers, Steps(w)
    PROVE  \A t \in Threads : \A i \in DOMAIN control'[t] :
              \/ i \in DOMAIN control[t] /\ control'[t][i] = control[t][i]
              \/ control'[t][i].kind # "claimed"
              \/ OwnClaim(w, t, control'[t][i])
<1> SUFFICES ASSUME NEW t \in Threads, NEW i \in DOMAIN control'[t],
                    i \notin DOMAIN control[t], control'[t][i].kind = "claimed"
             PROVE  OwnClaim(w, t, control'[t][i])
  BY StepGrows DEF JournalGrows, Grows
<1>1. ASSUME NEW s \in Threads, NEW x \in Events,
             control' = [control EXCEPT ![s] = Append(@, x)]
      PROVE  t = s /\ control'[t][i] = x
  <2>1. \A p \in Threads : \A k \in DOMAIN control'[p] \ DOMAIN control[p] :
           p = s /\ control'[p][k] \in {x, x}
    BY <1>1, NewEvents
  <2> QED
    BY <2>1
<1>2. CASE AppendClaim(w)
  <2> DEFINE c == Event("claimed", job[w].env, job[w].turn, job[w].dec)
             d == Event("settled", job[w].env, job[w].turn, job[w].dec)
  <2>1. pc[w] \in Pinned
    BY <1>2 DEF AppendClaim, Pinned, Labels
  <2>2. c \in Events /\ d \in Events /\ job[w].to \in Threads /\ d.kind = "settled"
    BY <2>1, OwnEvents, PinnedJob
  <2>3. control' # control
    OBVIOUS
  <2>4. /\ \/ control' = [control EXCEPT ![job[w].to] = Append(@, c)]
           \/ control' = [control EXCEPT ![job[w].to] = Append(Append(@, c), d)]
        /\ Goto(w, "commit")
    BY <1>2, <2>3 DEF AppendClaim, ClaimBatch
  <2>5. pc'[w] = "commit"
    BY <2>4 DEF Goto, TypeInv, TypeOK
  <2> HIDE DEF c, d
  <2>6. t = job[w].to /\ control'[t][i] \in {c, d}
    BY <2>2, <2>4, NewEvents
  <2>7. control'[t][i] = c
    BY <2>2, <2>6
  <2> QED
    BY <1>2, <2>5, <2>6, <2>7 DEF OwnClaim, c
<1>3. CASE AppendSpawned(w)
  <2> DEFINE x == Event("spawned", job[w].env, job[w].turn, job[w].dec)
  <2>1. pc[w] \in Pinned
    BY <1>3 DEF AppendSpawned, Pinned, Labels
  <2>2. x \in Events /\ x.kind = "spawned" /\ job[w].to \in Threads
    BY <2>1, OwnEvents, PinnedJob
  <2>3. control' = [control EXCEPT ![job[w].to] = Append(@, x)]
    BY <1>3 DEF AppendSpawned
  <2> HIDE DEF x
  <2> QED
    BY <1>1, <2>2, <2>3
<1>4. CASE AppendSettle(w)
  <2> DEFINE x == Event("settled", job[w].env, job[w].turn, job[w].dec)
  <2>1. pc[w] \in Pinned
    BY <1>4 DEF AppendSettle, Pinned, Labels
  <2>2. x \in Events /\ x.kind = "settled" /\ job[w].to \in Threads
    BY <2>1, OwnEvents, PinnedJob
  <2>3. control' = control \/ control' = [control EXCEPT ![job[w].to] = Append(@, x)]
    BY <1>4 DEF AppendSettle
  <2> HIDE DEF x
  <2> QED
    BY <1>1, <2>2, <2>3
<1> QED
  BY <1>1, <1>2, <1>3, <1>4, StepJournal

\* Attempts are counted up, by a lease.
LEMMA StepAttempts ==
    ASSUME TypeInv, NEW w \in Workers, Steps(w)
    PROVE  /\ \A e \in Envelopes : queue[e].attempt <= queue'[e].attempt
           /\ \A e \in Envelopes : Lease(w, e) =>
                 /\ queue'[e].attempt = queue[e].attempt + 1
                 /\ pc'[w] = "fold" /\ job'[w].env = e /\ ~job'[w].rec
                 /\ job'[w].att = queue'[e].attempt
                 /\ job'[w].turn = <<e, queue'[e].attempt>>
                 /\ control' = control
<1>1. /\ queue \in [Envelopes -> Messages] /\ job \in [Workers -> Jobs]
      /\ pc \in [Workers -> Labels]
  BY DEF TypeInv, TypeOK
<1>2. \A e \in Envelopes : queue[e].attempt \in Nat
  BY <1>1, IngressAssumption DEF Messages, IngressAssumption
<1>3. ASSUME NEW e \in Envelopes, Lease(w, e)
      PROVE  /\ queue'[e].attempt = queue[e].attempt + 1
             /\ pc'[w] = "fold" /\ job'[w].env = e /\ ~job'[w].rec
             /\ job'[w].att = queue'[e].attempt
             /\ job'[w].turn = <<e, queue'[e].attempt>>
             /\ control' = control
             /\ \A f \in Envelopes \ {e} : queue'[f] = queue[f]
  <2> DEFINE n == queue[e].attempt + 1
             m == [state |-> "leased", attempt |-> n, holder |-> w]
             j == [IdleJob EXCEPT !.env = e, !.att = n, !.turn = <<e, n>>]
  <2>1. /\ queue' = [queue EXCEPT ![e] = m] /\ job' = [job EXCEPT ![w] = j]
        /\ Goto(w, "fold") /\ control' = control
    BY <1>3 DEF Lease
  <2>2. m.attempt = n
    OBVIOUS
  <2>3. j.env = e /\ j.att = n /\ j.turn = <<e, n>> /\ j.rec = FALSE
    BY DEF IdleJob
  <2> HIDE DEF n, m, j
  <2>4. queue'[e] = m /\ job'[w] = j /\ pc'[w] = "fold"
    BY <1>1, <2>1 DEF Goto
  <2>5. \A f \in Envelopes \ {e} : queue'[f] = queue[f]
    BY <1>1, <2>1
  <2> QED
    BY <2>1, <2>2, <2>3, <2>4, <2>5 DEF n
<1>4. CASE \E e \in Envelopes : Lease(w, e)
  BY <1>2, <1>3, <1>4
<1>5. CASE Complete(w)
  <2>1. job[w].env \in Envelopes
    BY <1>5 DEF Complete, TypeInv, JobShape
  <2>2. \/ queue' = queue
        \/ queue' = [queue EXCEPT ![job[w].env] =
                        [queue[job[w].env] EXCEPT !.state = "archived", !.holder = None]]
    BY <1>5 DEF Complete
  <2>3. [queue[job[w].env] EXCEPT !.state = "archived", !.holder = None].attempt
           = queue[job[w].env].attempt
    BY <1>1, <2>1 DEF Messages
  <2>4. \A e \in Envelopes : queue'[e].attempt = queue[e].attempt
    BY <1>1, <2>2, <2>3
  <2> QED
    BY <1>2, <1>3, <2>4
<1>6. CASE Abandon(w)
  <2>1. \/ queue' = queue
        \/ queue' = [queue EXCEPT ![job[w].env] =
                        [queue[job[w].env] EXCEPT !.state = "ready", !.holder = None]]
    BY <1>6 DEF Abandon
  <2>2. job[w].env \in Envelopes =>
          [queue[job[w].env] EXCEPT !.state = "ready", !.holder = None].attempt
           = queue[job[w].env].attempt
    BY <1>1 DEF Messages
  <2>3. \A e \in Envelopes : queue'[e].attempt = queue[e].attempt
    BY <1>1, <2>1, <2>2
  <2> QED
    BY <1>2, <1>3, <2>3
<1>7. CASE ~(\E e \in Envelopes : Lease(w, e)) /\ ~Complete(w) /\ ~Abandon(w)
  <2>1. queue' = queue
    BY <1>7 DEF Steps, Apply, Fault, FoldOutcome, Witness,
       RecordDecision, RecordOwnership, Reserve, LockAdmission, AwaitOutcome,
       ReadClaimStream, AppendClaim, CommitAdmission, CancelActive, SubmitTurn,
       AwaitEvidence, ReadSettleStream, AppendSettle, Recover, Reload,
       CheckEvidence, TakeScope, CreateChild, AppendSpawned, RebindRoute,
       SubmitFork, Timeout
  <2> QED
    BY <1>2, <1>3, <2>1
<1> QED
  BY <1>4, <1>5, <1>6, <1>7

\* Numbers and turns of the deliveries, as numbers.
LEMMA AttemptTypes ==
    ASSUME TypeInv
    PROVE  /\ \A e \in Envelopes : queue[e].attempt \in Nat
           /\ \A w \in Workers : job[w].att \in Nat
           /\ \A w \in Workers : pc[w] # "idle" =>
                 job[w].env \in Envelopes /\ job[w].turn \in {job[w].env} \X Attempts
           /\ \A s \in Threads : \A i \in DOMAIN control[s] :
                 control[s][i].kind = "claimed" =>
                    /\ control[s][i].env \in Envelopes
                    /\ control[s][i].turn \in {control[s][i].env} \X Attempts
<1>1. /\ queue \in [Envelopes -> Messages] /\ job \in [Workers -> Jobs]
      /\ control \in [Threads -> Seq(Events)]
  BY DEF TypeInv, TypeOK
<1>2. 0..MaxAttempt \subseteq Nat
  BY IngressAssumption DEF IngressAssumption
<1>3. \A e \in Envelopes : queue[e].attempt \in Nat
  BY <1>1, <1>2 DEF Messages
<1>4. \A w \in Workers : job[w].att \in Nat
  BY <1>1, <1>2 DEF Jobs
<1>5. ASSUME NEW s \in Threads, NEW i \in DOMAIN control[s],
             control[s][i].kind = "claimed"
      PROVE  /\ control[s][i].env \in Envelopes
             /\ control[s][i].turn \in {control[s][i].env} \X Attempts
  <2>1. control[s][i] \in Events
    BY <1>1
  <2> QED
    BY <1>5, <2>1 DEF Events, TypeInv, ClaimShape, Shaped
<1> QED
  BY <1>3, <1>4, <1>5 DEF TypeInv, JobShape

\* A step of an apply keeps the numbering of attempts.
LEMMA AttemptSteps ==
    ASSUME TypeInv, TypeInv', AttemptInv, NEW w \in Workers, Steps(w)
    PROVE  AttemptInv'
<1>0. \A e \in Envelopes : queue'[e].attempt \in Nat
  <2>1. queue' \in [Envelopes -> Messages] /\ 0..MaxAttempt \subseteq Nat
    BY IngressAssumption DEF TypeInv, TypeOK, IngressAssumption
  <2> QED
    BY <2>1 DEF Messages
<1>1. /\ \A e \in Envelopes : queue[e].attempt <= queue'[e].attempt
      /\ \A e \in Envelopes : queue[e].attempt \in Nat
      /\ \A v \in Workers : job[v].att \in Nat
      /\ \A e \in Envelopes, n \in Nat :
            n <= queue[e].attempt => n <= queue'[e].attempt
  <2>1. ASSUME NEW e \in Envelopes, NEW n \in Nat, n <= queue[e].attempt
        PROVE  n <= queue'[e].attempt
    BY <1>0, <2>1, StepAttempts, AttemptTypes
  <2> QED
    BY <2>1, StepAttempts, AttemptTypes
<1>2. \A v \in Workers \ {w} :
         /\ pc'[v] = pc[v] /\ job'[v].env = job[v].env
         /\ job'[v].att = job[v].att /\ job'[v].turn = job[v].turn
         /\ job'[v].rec = job[v].rec
  BY StepOthers DEF SameJob
<1>3. /\ pc'[w] # "idle" => (\E e \in Envelopes : Lease(w, e)) \/ StaysOn(w)
      /\ pc'[w] # "idle" => (\E e \in Envelopes : Lease(w, e)) \/ StillEarly(w)
  BY StepSelf
<1>4. ASSUME NEW e \in Envelopes, Lease(w, e)
      PROVE  /\ queue'[e].attempt = queue[e].attempt + 1
             /\ pc'[w] = "fold" /\ job'[w].env = e /\ ~job'[w].rec
             /\ job'[w].att = queue'[e].attempt
             /\ job'[w].turn = <<e, queue'[e].attempt>>
             /\ control' = control
  BY <1>4, StepAttempts
<1>5. \A v \in Workers : pc[v] # "idle" =>
         /\ job[v].env \in Envelopes
         /\ job[v].att <= queue[job[v].env].attempt
  BY AttemptTypes DEF AttemptInv, Numbered
<1>6. Numbered'
  <2> SUFFICES ASSUME NEW v \in Workers, pc'[v] # "idle"
               PROVE  job'[v].att <= queue'[job'[v].env].attempt
    BY DEF Numbered
  <2>1. CASE v # w \/ StaysOn(w)
    <3>1. /\ pc[v] # "idle" /\ job'[v].env = job[v].env
          /\ job'[v].att = job[v].att \/ (v = w /\ \E e \in Envelopes : Lease(w, e))
      BY <1>2, <1>3, <2>1 DEF StaysOn
    <3>2. CASE job'[v].att = job[v].att
      <4>1. /\ job[v].env \in Envelopes /\ job[v].att \in Nat
            /\ job[v].att <= queue[job[v].env].attempt
        BY <1>1, <1>5, <3>1
      <4>2. job[v].att <= queue'[job[v].env].attempt
        BY <1>1, <4>1
      <4> QED
        BY <3>1, <3>2, <4>2
    <3>3. CASE v = w /\ \E e \in Envelopes : Lease(w, e)
      BY <1>0, <1>4, <3>3
    <3> QED
      BY <3>1, <3>2, <3>3
  <2>2. CASE v = w /\ \E e \in Envelopes : Lease(w, e)
    BY <1>0, <1>4, <2>2
  <2> QED
    BY <1>3, <2>1, <2>2
<1>7. NumbersApart'
  <2>1. ASSUME NEW v \in Workers \ {w}, pc'[v] # "idle", pc'[w] # "idle",
               job'[v].env = job'[w].env
        PROVE  job'[v].att # job'[w].att
    <3>1. pc[v] # "idle" /\ job'[v].env = job[v].env /\ job'[v].att = job[v].att
      BY <1>2, <2>1
    <3>2. CASE StaysOn(w)
      BY <2>1, <3>1, <3>2 DEF StaysOn, AttemptInv, NumbersApart
    <3>3. CASE \E e \in Envelopes : Lease(w, e)
      <4>1. PICK e \in Envelopes : Lease(w, e)
        BY <3>3
      <4>2. /\ queue[e].attempt \in Nat /\ job[v].att <= queue[e].attempt
            /\ job[v].att \in Nat /\ job'[w].att = queue[e].attempt + 1
        BY <1>1, <1>4, <1>5, <2>1, <3>1, <4>1
      <4> QED
        BY <3>1, <4>2
    <3> QED
      BY <1>3, <2>1, <3>2, <3>3
  <2>2. ASSUME NEW u \in Workers \ {w}, NEW v \in Workers \ {w}, u # v,
               pc'[u] # "idle", pc'[v] # "idle", job'[u].env = job'[v].env
        PROVE  job'[u].att # job'[v].att
    BY <1>2, <2>2 DEF AttemptInv, NumbersApart
  <2> QED
    BY <2>1, <2>2 DEF NumbersApart
<1>8. ASSUME NEW s \in Threads, NEW i \in DOMAIN control'[s],
             control'[s][i].kind = "claimed"
      PROVE  \/ i \in DOMAIN control[s] /\ control'[s][i] = control[s][i]
             \/ /\ pc[w] = "append" /\ pc'[w] = "commit"
                /\ control'[s][i].env = job[w].env
                /\ control'[s][i].turn = <<job[w].env, job[w].att>>
  <2>1. CASE OwnClaim(w, s, control'[s][i])
    <3>1. /\ pc[w] = "append" /\ pc'[w] = "commit"
          /\ control'[s][i].env = job[w].env
          /\ control'[s][i].turn = job[w].turn
      BY <2>1 DEF OwnClaim, AppendClaim, Event
    <3>2. job[w].turn = <<job[w].env, job[w].att>>
      BY <3>1 DEF AttemptInv, Fresh, BeforeClaim, EarlyLabels
    <3> QED
      BY <3>1, <3>2
  <2> QED
    BY <1>8, <2>1, StepEvents
<1>9. ClaimsNumbered'
  <2> SUFFICES ASSUME NEW s \in Threads, NEW i \in DOMAIN control'[s],
                      control'[s][i].kind = "claimed"
               PROVE  control'[s][i].turn[2] <= queue'[control'[s][i].env].attempt
    BY DEF ClaimsNumbered
  <2>1. CASE i \in DOMAIN control[s] /\ control'[s][i] = control[s][i]
    <3>1. /\ control[s][i].env \in Envelopes
          /\ control[s][i].turn \in {control[s][i].env} \X Attempts
      BY <2>1, AttemptTypes
    <3>2. control[s][i].turn[2] \in Nat
      BY <3>1 DEF Attempts
    <3>3. control[s][i].turn[2] <= queue[control[s][i].env].attempt
      BY <2>1 DEF AttemptInv, ClaimsNumbered
    <3>4. control[s][i].turn[2] <= queue'[control[s][i].env].attempt
      BY <1>1, <3>1, <3>2, <3>3
    <3> QED
      BY <2>1, <3>4
  <2>2. CASE /\ pc[w] = "append"
             /\ control'[s][i].env = job[w].env
             /\ control'[s][i].turn = <<job[w].env, job[w].att>>
    <3>1. /\ job[w].env \in Envelopes /\ job[w].att \in Nat
          /\ job[w].att <= queue[job[w].env].attempt
      BY <1>1, <1>5, <2>2
    <3>2. job[w].att <= queue'[job[w].env].attempt
      BY <1>1, <3>1
    <3> QED
      BY <2>2, <3>2
  <2> QED
    BY <1>8, <2>1, <2>2
<1>10. ASSUME NEW v \in Workers PROVE Fresh(pc'[v], job'[v], control')
  <2>1. CASE v # w
    <3>1. /\ pc'[v] = pc[v] /\ job'[v].env = job[v].env
          /\ job'[v].att = job[v].att /\ job'[v].turn = job[v].turn
          /\ job'[v].rec = job[v].rec
      BY <1>2, <2>1
    <3>2. ASSUME BeforeClaim(pc[v], job[v]) PROVE Unclaimed(control', job[v].turn)
      <4>1. /\ job[v].turn = <<job[v].env, job[v].att>>
            /\ Unclaimed(control, job[v].turn) /\ pc[v] # "idle"
        BY <3>2 DEF AttemptInv, Fresh, BeforeClaim, EarlyLabels
      <4> SUFFICES ASSUME NEW s \in Threads, NEW i \in DOMAIN control'[s],
                          control'[s][i].kind = "claimed"
                   PROVE  control'[s][i].turn # job[v].turn
        BY DEF Unclaimed
      <4>2. CASE i \in DOMAIN control[s] /\ control'[s][i] = control[s][i]
        BY <4>1, <4>2 DEF Unclaimed
      <4>3. CASE /\ pc[w] = "append"
                 /\ control'[s][i].turn = <<job[w].env, job[w].att>>
        BY <2>1, <4>1, <4>3 DEF AttemptInv, NumbersApart
      <4> QED
        BY <1>8, <4>2, <4>3
    <3> QED
      BY <3>1, <3>2 DEF AttemptInv, Fresh, BeforeClaim
  <2>2. CASE v = w /\ \E e \in Envelopes : Lease(w, e)
    <3>1. PICK e \in Envelopes : Lease(w, e)
      BY <2>2
    <3>2. /\ pc'[w] = "fold" /\ ~job'[w].rec /\ control' = control
          /\ job'[w].turn = <<e, queue[e].attempt + 1>>
          /\ job'[w].turn = <<job'[w].env, job'[w].att>>
      BY <1>4, <3>1
    <3>3. Unclaimed(control, <<e, queue[e].attempt + 1>>)
      <4> SUFFICES ASSUME NEW s \in Threads, NEW i \in DOMAIN control[s],
                          control[s][i].kind = "claimed",
                          control[s][i].turn = <<e, queue[e].attempt + 1>>
                   PROVE  FALSE
        BY DEF Unclaimed
      <4>1. control[s][i].turn \in {control[s][i].env} \X Attempts
        BY AttemptTypes
      <4>2. control[s][i].env = e /\ control[s][i].turn[2] = queue[e].attempt + 1
        BY <4>1
      <4>3. queue[e].attempt + 1 <= queue[e].attempt
        BY <4>2 DEF AttemptInv, ClaimsNumbered
      <4> QED
        BY <1>1, <4>3
    <3> QED
      BY <2>2, <3>2, <3>3 DEF Fresh, Recovery
  <2>3. CASE v = w /\ ~\E e \in Envelopes : Lease(w, e)
    <3>1. CASE pc'[w] = "idle"
      BY <2>3, <3>1 DEF Fresh, BeforeClaim, EarlyLabels, Recovery
    <3>2. CASE pc'[w] # "idle"
      <4>1. StaysOn(w) /\ StillEarly(w)
        BY <1>3, <2>3, <3>2
      <4>2. ASSUME BeforeClaim(pc'[w], job'[w])
            PROVE  /\ job'[w].turn = <<job'[w].env, job'[w].att>> /\ ~job'[w].rec
                   /\ Unclaimed(control', job'[w].turn)
        <5>1. /\ job'[w].turn = job[w].turn /\ job'[w].rec = job[w].rec
              /\ job[w].turn = <<job[w].env, job[w].att>> /\ ~job[w].rec
              /\ Unclaimed(control, job[w].turn)
          BY <4>1, <4>2 DEF StillEarly, AttemptInv, Fresh
        <5>2. pc'[w] # "commit"
          BY <4>2 DEF BeforeClaim, EarlyLabels
        <5>3. Unclaimed(control', job[w].turn)
          BY <1>8, <5>1, <5>2 DEF Unclaimed
        <5> QED
          BY <4>1, <5>1, <5>3 DEF StaysOn
      <4> QED
        BY <2>3, <4>1, <4>2 DEF Fresh, StillEarly
    <3> QED
      BY <3>1, <3>2
  <2> QED
    BY <2>1, <2>2, <2>3
<1> QED
  BY <1>6, <1>7, <1>9, <1>10 DEF AttemptInv


\* A step of the queue, a runtime or the egress changes no delivery.
LEMMA AttemptKept ==
    ASSUME AttemptInv, control' = control,
           \/ pc' = pc /\ job' = job
           \/ \A w \in Workers : pc'[w] = "idle",
           \A e \in Envelopes : queue'[e].attempt = queue[e].attempt,
           TypeInv
    PROVE  AttemptInv'
<1>1. /\ \A w \in Workers : pc[w] # "idle" => job[w].env \in Envelopes
      /\ \A s \in Threads : \A i \in DOMAIN control[s] :
            control[s][i].kind = "claimed" => control[s][i].env \in Envelopes
  BY AttemptTypes
<1>2. ClaimsNumbered'
  BY <1>1 DEF AttemptInv, ClaimsNumbered
<1>3. CASE pc' = pc /\ job' = job
  BY <1>1, <1>2, <1>3 DEF AttemptInv, Numbered, NumbersApart
<1>4. CASE \A w \in Workers : pc'[w] = "idle"
  BY <1>2, <1>4 DEF AttemptInv, Numbered, NumbersApart, Fresh, BeforeClaim,
     EarlyLabels, Recovery
<1> QED
  BY <1>3, <1>4

\* The steps that are not a worker's.
Outside ==
    \/ \E e \in Envelopes : Expire(e)
    \/ \E t \in Threads : Execute(t) \/ FailTurn(t)
    \/ \E u \in answers : DeliverAnswer(u)
    \/ Crash \/ UNCHANGED vars

\* A step is an apply's or leaves the journal alone.
LEMMA NextSplit ==
    ASSUME [Next]_vars
    PROVE  Outside \/ \E w \in Workers : Steps(w)
BY DEF Next, Outside, Steps, Drained

\* What a step outside the applies keeps.
LEMMA OutsideKeeps ==
    ASSUME TypeInv, Outside
    PROVE  /\ control' = control
           /\ \/ pc' = pc /\ job' = job /\ scope' = scope
              \/ Crash
           /\ \A e \in Envelopes : queue'[e].attempt = queue[e].attempt
<1>1. queue \in [Envelopes -> Messages]
  BY DEF TypeInv, TypeOK
<1>2. CASE \E e \in Envelopes : Expire(e)
  <2>1. PICK e \in Envelopes : Expire(e)
    BY <1>2
  <2>2. queue' = [queue EXCEPT ![e] =
                     [queue[e] EXCEPT !.state = "ready", !.holder = None]]
    BY <2>1 DEF Expire
  <2>3. [queue[e] EXCEPT !.state = "ready", !.holder = None].attempt
           = queue[e].attempt
    BY <1>1 DEF Messages
  <2>4. \A f \in Envelopes : queue'[f].attempt = queue[f].attempt
    BY <1>1, <2>2, <2>3
  <2> QED
    BY <2>1, <2>4 DEF Expire
<1>3. CASE \/ \E t \in Threads : Execute(t) \/ FailTurn(t)
           \/ \E u \in answers : DeliverAnswer(u)
           \/ UNCHANGED vars
  BY <1>3 DEF Execute, StartCommand, CompileContext, ActiveCommand,
     FinishTurn, FailTurn, DeliverAnswer, vars
<1>4. CASE Crash
  BY <1>4 DEF Crash
<1> QED
  BY <1>2, <1>3, <1>4 DEF Outside

\* Every step keeps the numbering of attempts.
LEMMA AttemptStep ==
    ASSUME TypeInv, TypeInv', AttemptInv, [Next]_vars
    PROVE  AttemptInv'
<1>1. CASE Outside
  <2>1. /\ control' = control
        /\ (pc' = pc /\ job' = job) \/ Crash
        /\ \A e \in Envelopes : queue'[e].attempt = queue[e].attempt
    BY <1>1, OutsideKeeps
  <2>2. Crash => \A w \in Workers : pc'[w] = "idle"
    BY DEF Crash
  <2> QED
    BY <2>1, <2>2, AttemptKept
<1> QED
  BY <1>1, NextSplit, AttemptSteps

\* It holds before any delivery.
LEMMA InitAttempts == Init => AttemptInv
BY DEF Init, AttemptInv, Numbered, NumbersApart, ClaimsNumbered, Fresh,
   BeforeClaim, EarlyLabels, Recovery

\* The steps that lead to the labels of which the run invariant speaks.
LEMMA StepArrives ==
    ASSUME TypeInv, NEW w \in Workers, Steps(w)
    PROVE  /\ pc'[w] = "rebind" => AppendSpawned(w)
           /\ pc'[w] = "adopt" => TakeScope(w) /\ scope' = w
           /\ pc'[w] = "forksubmit" => RebindRoute(w)
           /\ pc'[w] = "reserve" => RecordOwnership(w) \/ CheckEvidence(w)
                                    \/ Reload(w)
<1> DEFINE L == {"rebind", "adopt", "forksubmit", "reserve"}
           Goal == /\ pc'[w] = "rebind" => AppendSpawned(w)
                   /\ pc'[w] = "adopt" => TakeScope(w) /\ scope' = w
                   /\ pc'[w] = "forksubmit" => RebindRoute(w)
                   /\ pc'[w] = "reserve" => RecordOwnership(w) \/ CheckEvidence(w)
                                            \/ Reload(w)
<1> SUFFICES Goal
  OBVIOUS
<1>1. ASSUME NEW l, Goto(w, l), l \notin L PROVE Goal
  BY <1>1 DEF Goto, TypeInv, TypeOK
<1>2. ASSUME Abandon(w) PROVE Goal
  BY <1>1, <1>2 DEF Abandon
<1>3. ASSUME NEW found, NEW loser, Resume(w, found, loser) PROVE Goal
  BY <1>1, <1>3 DEF Resume
<1> HIDE DEF Goal
<1>4. CASE \/ \E e \in Envelopes : Lease(w, e)
           \/ Complete(w) \/ FoldOutcome(w) \/ Witness(w) \/ RecordDecision(w)
           \/ LockAdmission(w) \/ AwaitOutcome(w) \/ ReadClaimStream(w)
           \/ AppendClaim(w)
  BY <1>1, <1>2, <1>3, <1>4 DEF Lease, Complete, FoldOutcome, Witness,
     RecordDecision, LockAdmission, AwaitOutcome, ReadClaimStream, AppendClaim
<1>5. CASE RecordOwnership(w)
  <2>1. PICK l \in {"scope", "lock", "reserve"} : Goto(w, l)
    BY <1>5 DEF RecordOwnership
  <2> QED
    BY <1>5, <2>1 DEF Goal, Goto, TypeInv, TypeOK
<1>6. CASE Reserve(w)
  <2>1. CASE Abandon(w)
    BY <1>2, <2>1
  <2>2. CASE ~Abandon(w)
    <3>1. PICK l \in {"submit", "lock"} : Goto(w, l)
      BY <1>6, <2>2 DEF Reserve
    <3> QED
      BY <1>1, <3>1
  <2> QED
    BY <2>1, <2>2
<1>7. CASE \/ CommitAdmission(w) \/ CancelActive(w) \/ SubmitTurn(w)
           \/ AwaitEvidence(w) \/ AppendSettle(w) \/ CreateChild(w)
  <2>1. PICK l \in {"done", "cancel", "create", "submit", "check", "evidence",
                    "settle", "spawn"} : Goto(w, l)
    BY <1>7 DEF CommitAdmission, CancelActive, SubmitTurn, AwaitEvidence,
       AppendSettle, CreateChild
  <2> QED
    BY <1>1, <2>1
<1>8. CASE ReadSettleStream(w) \/ SubmitFork(w) \/ Timeout(w) \/ Fault(w)
  BY <1>1, <1>2, <1>8 DEF ReadSettleStream, SubmitFork, Timeout, Fault
<1>9. CASE Recover(w)
  <2>1. PICK l \in {"reload", "scope", "cancel", "check"} : Goto(w, l)
    BY <1>9 DEF Recover
  <2> QED
    BY <1>1, <2>1
<1>10. CASE Reload(w)
  <2>1. PICK l \in {"scope", "cancel", "check"} : Goto(w, l)
    BY <1>10 DEF Reload
  <2> QED
    BY <1>1, <2>1
<1>11. CASE CheckEvidence(w)
  <2>1. PICK l \in {"settle", "reserve"} : Goto(w, l)
    BY <1>11 DEF CheckEvidence
  <2> QED
    BY <1>11, <2>1 DEF Goal, Goto, TypeInv, TypeOK
<1>12. CASE TakeScope(w)
  <2>1. CASE Abandon(w)
    BY <1>2, <2>1
  <2>2. CASE ~Abandon(w)
    <3>1. PICK l \in {"lock", "adopt", "create", "done"} :
             Goto(w, l) /\ (l = "adopt" => scope' = w)
      BY <1>12, <2>2 DEF TakeScope
    <3> QED
      BY <1>12, <3>1 DEF Goal, Goto, TypeInv, TypeOK
  <2> QED
    BY <2>1, <2>2
<1>13. CASE AppendSpawned(w) \/ RebindRoute(w)
  <2>1. CASE AppendSpawned(w)
    BY <2>1 DEF AppendSpawned, Goal, Goto, TypeInv, TypeOK
  <2>2. CASE RebindRoute(w)
    <3>1. PICK l \in {"settle", "forksubmit"} : Goto(w, l)
      BY <2>2 DEF RebindRoute
    <3> QED
      BY <2>2, <3>1 DEF Goal, Goto, TypeInv, TypeOK
  <2> QED
    BY <1>13, <2>1, <2>2
<1> QED
  BY <1>4, <1>5, <1>6, <1>7, <1>8, <1>9, <1>10, <1>11, <1>12, <1>13
     DEF Steps, Apply

\* Every step leaves the scope lock with the fork that has it.
LEMMA ScopeStep ==
    ASSUME TypeInv, SettleInv, ForkInv, ScopeInv, [Next]_vars
    PROVE  ScopeInv'
<1>1. CASE Outside
  <2>1. (pc' = pc /\ scope' = scope) \/ Crash
    BY <1>1, OutsideKeeps
  <2>2. Crash => ScopeInv'
    BY DEF Crash, ScopeInv
  <2> QED
    BY <2>1, <2>2 DEF ScopeInv
<1>2. ASSUME NEW w \in Workers, Steps(w) PROVE ScopeInv'
  <2>1. ASSUME NEW v \in Workers \ {w},
               pc'[v] \in {"rebind", "adopt", "forksubmit"}
        PROVE  scope' = v
    <3>1. pc'[v] = pc[v] /\ scope = v
      BY <1>2, <2>1, StepOthers DEF ScopeInv
    <3>2. scope # None
      BY <2>1, <3>1, IngressAssumption DEF IngressAssumption
    <3> QED
      BY <1>2, <2>1, <3>1, <3>2, StepScope DEF LeaveScope
  <2>2. ASSUME pc'[w] \in {"rebind", "adopt", "forksubmit"}
        PROVE  scope' = w
    <3>1. CASE AppendSpawned(w)
      <4>1. pc[w] = "spawn" /\ scope' = scope
        BY <3>1 DEF AppendSpawned
      <4>2. OnPath(pc[w], job[w]) /\ Scoped(pc[w], job[w], w, scope)
        BY DEF SettleInv, Good, ForkInv
      <4> QED
        BY <4>1, <4>2 DEF OnPath, Scoped, ForkLabels
    <3>2. CASE RebindRoute(w)
      BY <3>2 DEF RebindRoute, ScopeInv
    <3> QED
      BY <1>2, <2>2, <3>1, <3>2, StepArrives
  <2> QED
    BY <2>1, <2>2 DEF ScopeInv
<1> QED
  BY <1>1, <1>2, NextSplit

(***************************************************************************)
(* One runtime and its records, before and after a step.                   *)
(***************************************************************************)
\* Turn u does not appear anew, and if it is reserved it stays so.
KeepsTurn(r, q, r2, q2, u) ==
    /\ u \in r.reserved => u \in r2.reserved
    /\ Pending(r2, u) => Pending(r, u)
    /\ HasTurn(q2, u) => HasTurn(q, u) \/ Pending(r, u)

\* Only the reservations change.
LEMMA ReservesOnce ==
    ASSUME NEW r, NEW r2, NEW q, ThreadOnce(r, q), r2.up = r.up,
           r2.mailbox = r.mailbox, r2.running = r.running,
           r2.traced = r.traced,
           \A u \in Turns : Pending(r, u) => u \in r2.reserved,
           r.up = "absent" => r2.reserved = {}
    PROVE  /\ ThreadOnce(r2, q)
           /\ \A u : Pending(r2, u) <=> Pending(r, u)
<1>1. \A u : Pending(r2, u) <=> Pending(r, u)
  BY DEF Pending, Posted, Working
<1>2. PostedOnce(r2)
  BY DEF ThreadOnce, PostedOnce, Posted
<1> QED
  BY <1>1, <1>2 DEF ThreadOnce

\* A command is posted: a cancel, or a reserved turn that has not come yet.
LEMMA PostsOnce ==
    ASSUME NEW r, NEW r2, NEW q, ThreadOnce(r, q),
           r.mailbox \in Seq(Commands), NEW c \in Commands,
           r2.mailbox = Append(r.mailbox, c), r2.up = r.up, r.up # "absent",
           r2.running = r.running, r2.traced = r.traced,
           r.reserved \subseteq r2.reserved,
           c.turn # None => c.turn \in r2.reserved /\ Untouched(r, q, c.turn)
    PROVE  /\ ThreadOnce(r2, q)
           /\ \A u \in Turns : Pending(r2, u) => Pending(r, u) \/ u = c.turn
<1> DEFINE m == r.mailbox
           n == Len(m) + 1
<1>1. /\ DOMAIN r2.mailbox = 1..n /\ DOMAIN m = 1..Len(m) /\ Len(m) \in Nat
      /\ r2.mailbox[n] = c /\ \A i \in DOMAIN m : r2.mailbox[i] = m[i]
      /\ \A i \in DOMAIN r2.mailbox : i \in DOMAIN m \/ i = n
  BY AppendAt
<1> HIDE DEF m, n
<1>2. \A u : HasTurn(r2.mailbox, u) <=> HasTurn(m, u) \/ u = c.turn
  <2>1. n \in DOMAIN r2.mailbox
    BY <1>1 DEF n
  <2>2. \A i \in DOMAIN m : i \in DOMAIN r2.mailbox
    BY <1>1 DEF n
  <2> QED
    BY <1>1, <2>1, <2>2 DEF HasTurn
<1>3. c.turn # None => ~HasTurn(m, c.turn) /\ ~HasTurn(q, c.turn)
                       /\ ~(r.running = c.turn /\ ~r.traced)
  BY DEF Untouched, Pending, Posted, Working, m
<1>4. TurnsApart(m)
  BY DEF ThreadOnce, PostedOnce, m
<1>5. TurnsApart(r2.mailbox)
  <2> SUFFICES ASSUME NEW i \in DOMAIN r2.mailbox, NEW k \in DOMAIN r2.mailbox,
                      r2.mailbox[i].turn # None,
                      r2.mailbox[i].turn = r2.mailbox[k].turn
               PROVE  i = k
    BY DEF TurnsApart
  <2>1. CASE i \in DOMAIN m /\ k \in DOMAIN m
    BY <1>1, <1>4, <2>1 DEF TurnsApart
  <2>2. CASE i \in DOMAIN m /\ k = n
    BY <1>1, <1>3, <2>2 DEF HasTurn
  <2>3. CASE i = n /\ k \in DOMAIN m
    BY <1>1, <1>3, <2>3 DEF HasTurn
  <2> QED
    BY <1>1, <2>1, <2>2, <2>3
<1>6. PostedOnce(r2)
  <2>1. r.running # None /\ ~r.traced => ~HasTurn(m, r.running)
    BY DEF ThreadOnce, PostedOnce, Posted, m
  <2>2. r.running # None /\ ~r.traced => ~HasTurn(r2.mailbox, r.running)
    BY <1>2, <1>3, <2>1
  <2> QED
    BY <1>5, <2>2 DEF PostedOnce, Posted
<1>7. \A u : Pending(r2, u) => Pending(r, u) \/ u = c.turn
  BY <1>2 DEF Pending, Posted, Working, m
<1>8. \A u \in Turns : Pending(r2, u) => u \in r2.reserved /\ ~HasTurn(q, u)
  <2> SUFFICES ASSUME NEW u \in Turns, Pending(r2, u)
               PROVE  u \in r2.reserved /\ ~HasTurn(q, u)
    OBVIOUS
  <2>1. u # None
    BY IngressAssumption DEF IngressAssumption
  <2>2. CASE Pending(r, u)
    BY <2>2 DEF ThreadOnce
  <2>3. CASE u = c.turn
    BY <1>3, <2>1, <2>3
  <2> QED
    BY <1>7, <2>2, <2>3
<1> QED
  BY <1>6, <1>7, <1>8 DEF ThreadOnce

\* A runtime that has just been loaded has nothing to do.
LEMMA LoadsOnce ==
    ASSUME NEW r, NEW r2, NEW q, ThreadOnce(r, q), r2.up # "failed",
           r2.mailbox = <<>>, r2.running = None, r2.reserved = {}
    PROVE  ThreadOnce(r2, q) /\ \A u \in Turns : ~Pending(r2, u)
<1>1. \A u \in Turns : u # None
  BY IngressAssumption DEF IngressAssumption
<1>2. \A u : ~HasTurn(r2.mailbox, u)
  BY DEF HasTurn
<1>3. \A u \in Turns : ~Pending(r2, u)
  BY <1>1, <1>2 DEF Pending, Posted, Working
<1>4. PostedOnce(r2)
  BY <1>2 DEF PostedOnce, TurnsApart, Posted
<1> QED
  BY <1>3, <1>4 DEF ThreadOnce

\* The agent loop takes commands, and records a turn once it has taken it.
LEMMA RunsOn ==
    ASSUME NEW r, NEW r2, NEW q \in Seq(Records), NEW q2, ThreadOnce(r, q),
           r2.up = r.up, r2.reserved = r.reserved, PostedOnce(r2),
           \A u \in Turns : Pending(r2, u) => Pending(r, u),
           NEW x \in Records,
           \/ q2 = q
           \/ /\ q2 = Append(q, x) /\ ~HasTurn(q, x.turn)
              /\ x.turn \in Turns => Pending(r, x.turn) /\ ~Pending(r2, x.turn)
    PROVE  /\ ThreadOnce(r2, q2)
           /\ \A u \in Turns : KeepsTurn(r, q, r2, q2, u)
<1>1. CASE q2 = q
  BY <1>1 DEF ThreadOnce, KeepsTurn
<1>2. CASE /\ q2 = Append(q, x) /\ ~HasTurn(q, x.turn)
           /\ x.turn \in Turns => Pending(r, x.turn) /\ ~Pending(r2, x.turn)
  <2> DEFINE n == Len(q) + 1
  <2>1. /\ DOMAIN q2 = 1..n /\ DOMAIN q = 1..Len(q) /\ Len(q) \in Nat
        /\ q2[n] = x /\ \A i \in DOMAIN q : q2[i] = q[i]
        /\ \A i \in DOMAIN q2 : i \in DOMAIN q \/ i = n
    BY <1>2, AppendAt
  <2> HIDE DEF n
  <2>2. \A u : HasTurn(q2, u) => HasTurn(q, u) \/ u = x.turn
    BY <2>1 DEF HasTurn
  <2>3. RecordedOnce(q2)
    <3> SUFFICES ASSUME NEW i \in DOMAIN q2, NEW k \in DOMAIN q2,
                        q2[i].turn = q2[k].turn
                 PROVE  i = k
      BY DEF RecordedOnce
    <3>1. CASE i \in DOMAIN q /\ k \in DOMAIN q
      BY <2>1, <3>1 DEF ThreadOnce, RecordedOnce
    <3>2. CASE i \in DOMAIN q /\ k = n
      BY <1>2, <2>1, <3>2 DEF HasTurn
    <3>3. CASE i = n /\ k \in DOMAIN q
      BY <1>2, <2>1, <3>3 DEF HasTurn
    <3> QED
      BY <2>1, <3>1, <3>2, <3>3
  <2>4. \A u \in Turns : Pending(r2, u) => u \in r2.reserved /\ ~HasTurn(q2, u)
    BY <1>2, <2>2 DEF ThreadOnce
  <2>5. \A u \in Turns : KeepsTurn(r, q, r2, q2, u)
    BY <1>2, <2>2 DEF KeepsTurn
  <2> QED
    BY <2>3, <2>4, <2>5 DEF ThreadOnce
<1> QED
  BY <1>1, <1>2

\* A mailbox without the command at position i.
LEMMA Removed ==
    ASSUME NEW m \in Seq(Commands), NEW i \in DOMAIN m
    PROVE  /\ RemoveAt(m, i) \in Seq(Commands)
           /\ Len(RemoveAt(m, i)) = Len(m) - 1
           /\ \A k \in 1..(Len(m) - 1) :
                 RemoveAt(m, i)[k] = IF k < i THEN m[k] ELSE m[k + 1]
<1> DEFINE a == SubSeq(m, 1, i - 1)
           b == SubSeq(m, i + 1, Len(m))
<1>1. i \in 1..Len(m) /\ Len(m) \in Nat
  OBVIOUS
<1>2. /\ a \in Seq(Commands) /\ Len(a) = i - 1
      /\ \A k \in 1..(i - 1) : a[k] = m[k]
  BY <1>1, SubSeqProperties
<1>3. /\ b \in Seq(Commands) /\ Len(b) = Len(m) - i
      /\ \A k \in 1..(Len(m) - i) : b[k] = m[i + k]
  <2>1. b \in Seq(Commands)
    BY <1>1, SubSeqProperties
  <2>2. CASE i < Len(m)
    BY <1>1, <2>1, <2>2, SubSeqProperties
  <2>3. CASE i = Len(m)
    BY <1>1, <2>1, <2>3, SubSeqProperties
  <2> QED
    BY <1>1, <2>1, <2>2, <2>3
<1> HIDE DEF a, b
<1>4. /\ a \o b \in Seq(Commands) /\ Len(a \o b) = Len(a) + Len(b)
      /\ \A k \in 1..(Len(a) + Len(b)) :
            (a \o b)[k] = IF k <= Len(a) THEN a[k] ELSE b[k - Len(a)]
  BY <1>2, <1>3, ConcatProperties
<1>5. Len(a) + Len(b) = Len(m) - 1
  BY <1>1, <1>2, <1>3
<1>6. ASSUME NEW k \in 1..(Len(m) - 1)
      PROVE  (a \o b)[k] = IF k < i THEN m[k] ELSE m[k + 1]
  <2>1. /\ k \in Int /\ i \in Int /\ Len(m) \in Int /\ 1 <= k /\ k <= Len(m) - 1
        /\ 1 <= i /\ i <= Len(m)
    BY <1>1
  <2>2. k \in 1..(Len(a) + Len(b))
    BY <1>5
  <2>3. CASE k < i
    BY <1>1, <1>2, <1>4, <1>5, <2>3
  <2>4. CASE ~(k < i)
    <3>1. ~(k <= Len(a))
      BY <1>2, <2>1, <2>4
    <3>2. (a \o b)[k] = b[k - Len(a)]
      BY <1>4, <2>2, <3>1
    <3>3. k - (i - 1) \in 1..(Len(m) - i)
      BY <2>1, <2>4
    <3>4. (a \o b)[k] = b[k - (i - 1)] /\ k - (i - 1) \in 1..(Len(m) - i)
      BY <1>2, <3>2, <3>3
    <3>5. \A j \in 1..(Len(m) - i) : b[j] = m[i + j]
      BY <1>3
    <3>6. b[k - (i - 1)] = m[i + (k - (i - 1))]
      BY <3>3, <3>5, Zenon
    <3>7. i + (k - (i - 1)) = k + 1
      BY <2>1
    <3>8. (a \o b)[k] = m[k + 1]
      BY <3>4, <3>6, <3>7, Zenon
    <3> QED
      BY <2>4, <3>8
  <2> QED
    BY <1>1, <2>3, <2>4
<1> QED
  BY <1>4, <1>5, <1>6 DEF RemoveAt, a, b

\* Turns stay apart in a mailbox m2 that is m without its i-th command.
LEMMA TakenOut ==
    ASSUME NEW m \in Seq(Commands), NEW m2 \in Seq(Commands), NEW i \in DOMAIN m,
           TurnsApart(m), Len(m2) = Len(m) - 1,
           \A k \in 1..(Len(m) - 1) : m2[k] = IF k < i THEN m[k] ELSE m[k + 1]
    PROVE  /\ TurnsApart(m2)
           /\ \A u : HasTurn(m2, u) => HasTurn(m, u)
           /\ m[i].turn # None => ~HasTurn(m2, m[i].turn)
<1> DEFINE At(k) == IF k < i THEN k ELSE k + 1
<1>1. DOMAIN m = 1..Len(m) /\ DOMAIN m2 = 1..(Len(m) - 1) /\ Len(m) \in Nat
  OBVIOUS
<1>2. ASSUME NEW k \in DOMAIN m2
      PROVE  At(k) \in DOMAIN m /\ At(k) # i /\ m2[k] = m[At(k)]
  BY <1>1
<1>3. \A k, l \in DOMAIN m2 : At(k) = At(l) => k = l
  BY <1>1
<1> HIDE DEF At
<1>4. TurnsApart(m2)
  BY <1>2, <1>3 DEF TurnsApart
<1>5. \A u : HasTurn(m2, u) => HasTurn(m, u)
  BY <1>2 DEF HasTurn
<1>6. m[i].turn # None => ~HasTurn(m2, m[i].turn)
  BY <1>2 DEF HasTurn, TurnsApart
<1> QED
  BY <1>4, <1>5, <1>6

\* The interrupting turn goes to the front of the others.
LEMMA PutFirst ==
    ASSUME NEW m \in Seq(Commands), NEW c \in Commands, TurnsApart(m),
           c.turn # None => ~HasTurn(m, c.turn)
    PROVE  /\ TurnsApart(<<c>> \o m)
           /\ \A u : HasTurn(<<c>> \o m, u) => HasTurn(m, u) \/ u = c.turn
<1> DEFINE f == <<c>> \o m
<1>1. /\ <<c>> \in Seq(Commands) /\ Len(<<c>>) = 1 /\ <<c>>[1] = c
      /\ Len(m) \in Nat /\ DOMAIN m = 1..Len(m)
  OBVIOUS
<1>2. /\ f \in Seq(Commands) /\ Len(f) = 1 + Len(m)
      /\ \A k \in 1..(1 + Len(m)) :
            f[k] = IF k <= 1 THEN <<c>>[k] ELSE m[k - 1]
  BY <1>1, ConcatProperties
<1> HIDE DEF f
<1>3. DOMAIN f = 1..(1 + Len(m))
  BY <1>2
<1>4. ASSUME NEW k \in DOMAIN f
      PROVE  (k = 1 /\ f[k] = c) \/ (k - 1 \in DOMAIN m /\ f[k] = m[k - 1])
  BY <1>1, <1>2, <1>3
<1>5. ASSUME NEW k \in DOMAIN f, NEW l \in DOMAIN f, f[k].turn # None,
             f[k].turn = f[l].turn
      PROVE  k = l
  <2>0. k \in Int /\ l \in Int
    BY <1>1, <1>3
  <2>1. CASE k = 1 /\ f[k] = c
    BY <1>4, <1>5, <2>1 DEF HasTurn
  <2>2. CASE k - 1 \in DOMAIN m /\ f[k] = m[k - 1]
    <3>1. CASE l = 1 /\ f[l] = c
      BY <1>5, <2>2, <3>1 DEF HasTurn
    <3>2. CASE l - 1 \in DOMAIN m /\ f[l] = m[l - 1]
      <4>1. k - 1 = l - 1
        BY <1>5, <2>2, <3>2 DEF TurnsApart
      <4> QED
        BY <2>0, <4>1
    <3> QED
      BY <1>4, <3>1, <3>2
  <2> QED
    BY <1>4, <2>1, <2>2
<1>6. TurnsApart(f)
  BY <1>5 DEF TurnsApart
<1>7. \A u : HasTurn(f, u) => HasTurn(m, u) \/ u = c.turn
  BY <1>4 DEF HasTurn
<1> QED
  BY <1>6, <1>7 DEF f

\* What a step does to every runtime: turns keep their way.
Orderly ==
    \A t \in Threads :
        /\ ThreadOnce(thr'[t], trace'[t])
        /\ \A u \in Turns : KeepsTurn(thr[t], trace[t], thr'[t], trace'[t], u)

\* A runtime that only passes its turns on, with at most one new record.
LEMMA RunsOrderly ==
    ASSUME TypeInv, OnceInv, NEW t \in Threads, NEW r2,
           thr' = [thr EXCEPT ![t] = r2], NEW x \in Records,
           \/ UNCHANGED trace
           \/ trace' = [trace EXCEPT ![t] = Append(@, x)],
           trace' # trace =>
              /\ ~HasTurn(trace[t], x.turn)
              /\ x.turn \in Turns => Pending(thr[t], x.turn) /\ ~Pending(r2, x.turn),
           r2.up = thr[t].up, r2.reserved = thr[t].reserved, PostedOnce(r2),
           \A u \in Turns : Pending(r2, u) => Pending(thr[t], u)
    PROVE  Orderly
<1>1. thr \in [Threads -> Runtimes] /\ trace \in [Threads -> Seq(Records)]
  BY DEF TypeInv, TypeOK
<1>2. thr'[t] = r2 /\ \A s \in Threads \ {t} : thr'[s] = thr[s]
  BY <1>1
<1>3. /\ trace'[t] = trace[t] \/ (trace' # trace /\ trace'[t] = Append(trace[t], x))
      /\ \A s \in Threads \ {t} : trace'[s] = trace[s]
  BY <1>1
<1>4. ThreadOnce(thr[t], trace[t]) /\ trace[t] \in Seq(Records)
  BY <1>1 DEF OnceInv
<1>5. /\ ThreadOnce(r2, trace'[t])
      /\ \A u \in Turns : KeepsTurn(thr[t], trace[t], r2, trace'[t], u)
  <2>1. CASE trace'[t] = trace[t]
    BY <1>4, <2>1, RunsOn
  <2>2. CASE trace' # trace /\ trace'[t] = Append(trace[t], x)
    BY <1>4, <2>2, RunsOn
  <2> QED
    BY <1>3, <2>1, <2>2
<1>6. ASSUME NEW s \in Threads \ {t}
      PROVE  /\ ThreadOnce(thr'[s], trace'[s])
             /\ \A u \in Turns : KeepsTurn(thr[s], trace[s], thr'[s], trace'[s], u)
  BY <1>2, <1>3 DEF OnceInv, KeepsTurn
<1> QED
  BY <1>2, <1>5, <1>6 DEF Orderly

\* The record a steer leaves, if it leaves one.
LEMMA SteerRecord ==
    ASSUME TypeInv, NEW t \in Threads, NEW u \in MaybeTurns, RecordSteer(t, u)
    PROVE  LET x == [kind |-> "steered", turn |-> u] IN
           /\ x \in Records /\ x.turn = u
           /\ UNCHANGED trace \/ trace' = [trace EXCEPT ![t] = Append(@, x)]
           /\ trace' # trace => ~HasTurn(trace[t], u)
BY DEF RecordSteer, Record, HasEvidence, HasTurn, Records

\* Taking a command from the mailbox is orderly.
LEMMA StartOrderly ==
    ASSUME TypeInv, OnceInv, NEW t \in Threads, StartCommand(t)
    PROVE  Orderly
<1> DEFINE m == thr[t].mailbox
           c == Head(m)
           rest == [thr[t] EXCEPT !.mailbox = Tail(m)]
           r1 == [rest EXCEPT !.ctx = c.turn]
           r2 == [rest EXCEPT !.running = c.turn, !.traced = FALSE, !.ctx = c.turn]
           x == [kind |-> "steered", turn |-> c.turn]
<1>1. /\ thr[t] \in Runtimes /\ thr[t].running = None /\ m \in Seq(Commands)
      /\ m # <<>>
  <2>1. thr[t] \in Runtimes /\ thr[t].running = None /\ m # <<>>
    BY DEF TypeInv, TypeOK, StartCommand
  <2> QED
    BY <2>1 DEF Runtimes
<1>2. /\ c = m[1] /\ 1 \in DOMAIN m /\ c \in Commands /\ Tail(m) \in Seq(Commands)
      /\ Len(Tail(m)) = Len(m) - 1
      /\ \A k \in 1..(Len(m) - 1) : Tail(m)[k] = IF k < 1 THEN m[k] ELSE m[k + 1]
  BY <1>1, HeadTailProperties
<1>3. c.turn \in MaybeTurns
  BY <1>2 DEF Commands
<1>4. PostedOnce(thr[t]) /\ TurnsApart(m)
  BY DEF OnceInv, ThreadOnce, PostedOnce
<1>5. /\ TurnsApart(Tail(m)) /\ \A u : HasTurn(Tail(m), u) => HasTurn(m, u)
      /\ c.turn # None => ~HasTurn(Tail(m), c.turn)
  <2>1. PICK n, i : n = Tail(m) /\ i = 1
    OBVIOUS
  <2> HIDE DEF m, c
  <2>2. /\ n \in Seq(Commands) /\ i \in DOMAIN m /\ Len(n) = Len(m) - 1
        /\ \A k \in 1..(Len(m) - 1) : n[k] = IF k < i THEN m[k] ELSE m[k + 1]
    BY <1>2, <2>1
  <2>3. /\ TurnsApart(n) /\ \A u : HasTurn(n, u) => HasTurn(m, u)
        /\ m[i].turn # None => ~HasTurn(n, m[i].turn)
    BY <1>1, <1>4, <2>2, TakenOut
  <2> QED
    BY <1>2, <2>1, <2>3
<1>6. HasTurn(m, c.turn)
  BY <1>2 DEF HasTurn
<1>7. /\ rest.up = thr[t].up /\ rest.reserved = thr[t].reserved
      /\ rest.running = None /\ rest.mailbox = Tail(m)
      /\ r1.up = thr[t].up /\ r1.reserved = thr[t].reserved
      /\ r1.running = None /\ r1.mailbox = Tail(m)
      /\ r2.up = thr[t].up /\ r2.reserved = thr[t].reserved
      /\ r2.running = c.turn /\ r2.mailbox = Tail(m)
  BY <1>1 DEF Runtimes
<1>8. PICK a : a = rest
  OBVIOUS
<1>9. PICK b : b = r1
  OBVIOUS
<1>10. PICK d : d = r2
  OBVIOUS
<1>11. \/ thr' = [thr EXCEPT ![t] = a] /\ UNCHANGED trace
       \/ thr' = [thr EXCEPT ![t] = b] /\ RecordSteer(t, c.turn)
       \/ thr' = [thr EXCEPT ![t] = d] /\ UNCHANGED trace
  BY <1>8, <1>9, <1>10 DEF StartCommand
<1>12. \A u \in Turns : u # None
  BY IngressAssumption DEF IngressAssumption
<1>13. x \in Records /\ x.turn = c.turn
  BY <1>3 DEF Records
<1> HIDE DEF m, c, rest, r1, r2, x
<1>14. /\ PostedOnce(a) /\ PostedOnce(b) /\ PostedOnce(d)
  BY <1>5, <1>7, <1>8, <1>9, <1>10 DEF PostedOnce, Posted
<1>15. \A u \in Turns : /\ Pending(a, u) => Pending(thr[t], u)
                        /\ Pending(b, u) => HasTurn(Tail(m), u)
                        /\ Pending(b, u) => Pending(thr[t], u)
                        /\ Pending(d, u) => Pending(thr[t], u)
  BY <1>5, <1>6, <1>7, <1>8, <1>9, <1>10, <1>12 DEF Pending, Posted, Working, m
<1>16. CASE thr' = [thr EXCEPT ![t] = a] /\ UNCHANGED trace
  BY <1>7, <1>8, <1>13, <1>14, <1>15, <1>16, RunsOrderly
<1>17. CASE thr' = [thr EXCEPT ![t] = d] /\ UNCHANGED trace
  BY <1>7, <1>10, <1>13, <1>14, <1>15, <1>17, RunsOrderly
<1>18. CASE thr' = [thr EXCEPT ![t] = b] /\ RecordSteer(t, c.turn)
  <2>1. /\ UNCHANGED trace \/ trace' = [trace EXCEPT ![t] = Append(@, x)]
        /\ trace' # trace => ~HasTurn(trace[t], x.turn)
    BY <1>3, <1>13, <1>18, SteerRecord DEF x
  <2>2. x.turn \in Turns => Pending(thr[t], x.turn) /\ ~Pending(b, x.turn)
    BY <1>5, <1>6, <1>12, <1>13, <1>15 DEF Pending, Posted, m
  <2> QED
    BY <1>7, <1>9, <1>13, <1>14, <1>15, <1>18, <2>1, <2>2, RunsOrderly
<1> QED
  BY <1>11, <1>16, <1>17, <1>18

\* Writing the compile receipt is orderly.
LEMMA CompileOrderly ==
    ASSUME TypeInv, OnceInv, NEW t \in Threads, CompileContext(t)
    PROVE  Orderly
<1> DEFINE x == [kind |-> "compiled", turn |-> thr[t].running]
           u == thr[t].running
<1>1. /\ thr[t] \in Runtimes /\ u # None /\ ~thr[t].traced
      /\ trace' = [trace EXCEPT ![t] = Append(@, x)]
      /\ thr' = [thr EXCEPT ![t] = [thr[t] EXCEPT !.traced = TRUE]]
  BY DEF TypeInv, TypeOK, CompileContext, Record
<1>2. u \in Turns
  BY <1>1 DEF Runtimes, MaybeTurns
<1>3. x \in Records /\ x.turn = u
  BY <1>2 DEF Records, MaybeTurns
<1>4. PICK r : r = [thr[t] EXCEPT !.traced = TRUE]
  OBVIOUS
<1>5. /\ r.up = thr[t].up /\ r.reserved = thr[t].reserved
      /\ r.running = u /\ r.mailbox = thr[t].mailbox /\ r.traced = TRUE
  BY <1>1, <1>4 DEF Runtimes
<1>6. ThreadOnce(thr[t], trace[t])
  BY DEF OnceInv
<1>7. Pending(thr[t], u) /\ ~HasTurn(trace[t], u) /\ ~HasTurn(thr[t].mailbox, u)
  BY <1>1, <1>2, <1>6 DEF ThreadOnce, PostedOnce, Posted, Pending, Working
<1> HIDE DEF u, x
<1>8. PostedOnce(r)
  BY <1>5, <1>6 DEF ThreadOnce, PostedOnce
<1>9. \A v : Pending(r, v) => HasTurn(thr[t].mailbox, v)
  BY <1>5 DEF Pending, Posted, Working
<1>10. \A v : Pending(r, v) => Pending(thr[t], v)
  BY <1>9 DEF Pending, Posted
<1> QED
  BY <1>1, <1>3, <1>4, <1>5, <1>7, <1>8, <1>9, <1>10, RunsOrderly

\* The end of a turn is orderly.
LEMMA FinishOrderly ==
    ASSUME TypeInv, OnceInv, NEW t \in Threads, FinishTurn(t)
    PROVE  Orderly
<1>1. /\ thr[t] \in Runtimes /\ UNCHANGED trace
      /\ thr' = [thr EXCEPT ![t] = [thr[t] EXCEPT !.running = None]]
  BY DEF TypeInv, TypeOK, FinishTurn
<1>2. PICK r : r = [thr[t] EXCEPT !.running = None]
  OBVIOUS
<1>3. /\ r.up = thr[t].up /\ r.reserved = thr[t].reserved
      /\ r.running = None /\ r.mailbox = thr[t].mailbox
  BY <1>1, <1>2 DEF Runtimes
<1>4. [kind |-> "compiled", turn |-> None] \in Records
  BY DEF Records, MaybeTurns
<1>5. \A u \in Turns : u # None
  BY IngressAssumption DEF IngressAssumption
<1>6. PostedOnce(r)
  BY <1>3 DEF OnceInv, ThreadOnce, PostedOnce
<1>7. \A u \in Turns : Pending(r, u) => Pending(thr[t], u)
  BY <1>3, <1>5 DEF Pending, Posted, Working
<1> QED
  BY <1>1, <1>2, <1>3, <1>4, <1>6, <1>7, RunsOrderly

\* A steer, cancel or interrupt that meets a running turn is orderly.
LEMMA ActiveOrderly ==
    ASSUME TypeInv, OnceInv, NEW t \in Threads, ActiveCommand(t)
    PROVE  Orderly
<1> DEFINE m == thr[t].mailbox
<1>1. thr[t] \in Runtimes /\ m \in Seq(Commands)
  <2>1. thr[t] \in Runtimes
    BY DEF TypeInv, TypeOK
  <2> QED
    BY <2>1 DEF Runtimes
<1>2. PICK i \in DOMAIN m :
        LET c == m[i]
            rest == RemoveAt(m, i)
        IN  \/ /\ thr' = [thr EXCEPT ![t] =
                             [@ EXCEPT !.mailbox = rest, !.ctx = c.turn]]
               /\ RecordSteer(t, c.turn)
            \/ /\ thr' = [thr EXCEPT ![t] =
                             [@ EXCEPT !.mailbox = rest, !.running = None]]
               /\ UNCHANGED trace
            \/ /\ thr' = [thr EXCEPT ![t] =
                       [@ EXCEPT !.running = None, !.mailbox =
                                 <<Submission(c.turn, "queue")>> \o rest]]
               /\ UNCHANGED trace
  BY DEF ActiveCommand
<1>0. thr[t].traced
  BY DEF ActiveCommand
<1> DEFINE c == m[i]
           rest == RemoveAt(m, i)
           back == Submission(c.turn, "queue")
           front == <<back>> \o rest
           x == [kind |-> "steered", turn |-> c.turn]
<1>3. c \in Commands /\ c.turn \in MaybeTurns
  <2>1. c \in Commands
    BY <1>1, <1>2
  <2> QED
    BY <2>1 DEF Commands
<1>4. TurnsApart(m)
  BY DEF OnceInv, ThreadOnce, PostedOnce
<1>5. /\ rest \in Seq(Commands) /\ TurnsApart(rest)
      /\ \A u : HasTurn(rest, u) => HasTurn(m, u)
      /\ c.turn # None => ~HasTurn(rest, c.turn)
  <2>1. /\ rest \in Seq(Commands) /\ Len(rest) = Len(m) - 1
        /\ \A k \in 1..(Len(m) - 1) :
              rest[k] = IF k < i THEN m[k] ELSE m[k + 1]
    BY <1>1, Removed
  <2> HIDE DEF rest, m
  <2> QED
    BY <1>1, <1>4, <2>1, TakenOut
<1>6. back \in Commands /\ back.turn = c.turn
  BY <1>3, SubmissionTyped DEF Submission
<1>7. HasTurn(m, c.turn)
  BY DEF HasTurn
<1>8. x \in Records /\ x.turn = c.turn
  BY <1>3 DEF Records
<1>9. PICK a : a = [thr[t] EXCEPT !.mailbox = rest, !.ctx = c.turn]
  OBVIOUS
<1>10. PICK b : b = [thr[t] EXCEPT !.mailbox = rest, !.running = None]
  OBVIOUS
<1>11. PICK d : d = [thr[t] EXCEPT !.running = None, !.mailbox = front]
  OBVIOUS
<1>12. \/ thr' = [thr EXCEPT ![t] = a] /\ RecordSteer(t, c.turn)
       \/ thr' = [thr EXCEPT ![t] = b] /\ UNCHANGED trace
       \/ thr' = [thr EXCEPT ![t] = d] /\ UNCHANGED trace
  BY <1>2, <1>9, <1>10, <1>11
<1> HIDE DEF c, rest, back, front, x, m
<1>13. /\ a.up = thr[t].up /\ a.reserved = thr[t].reserved /\ a.mailbox = rest
       /\ a.running = thr[t].running /\ a.traced = thr[t].traced
       /\ b.up = thr[t].up /\ b.reserved = thr[t].reserved /\ b.mailbox = rest
       /\ b.running = None
       /\ d.up = thr[t].up /\ d.reserved = thr[t].reserved /\ d.mailbox = front
       /\ d.running = None
  BY <1>1, <1>9, <1>10, <1>11 DEF Runtimes
<1>14. /\ TurnsApart(front)
       /\ \A u : HasTurn(front, u) => HasTurn(m, u)
  BY <1>5, <1>6, <1>7, PutFirst DEF front
<1>15. \A u \in Turns : u # None
  BY IngressAssumption DEF IngressAssumption
<1>16. PostedOnce(a) /\ PostedOnce(b) /\ PostedOnce(d)
  BY <1>0, <1>5, <1>13, <1>14 DEF PostedOnce
<1>17. \A u \in Turns : /\ Pending(a, u) => HasTurn(rest, u)
                        /\ Pending(a, u) => Pending(thr[t], u)
                        /\ Pending(b, u) => Pending(thr[t], u)
                        /\ Pending(d, u) => Pending(thr[t], u)
  BY <1>0, <1>5, <1>13, <1>14, <1>15 DEF Pending, Posted, Working, m
<1>18. CASE thr' = [thr EXCEPT ![t] = a] /\ RecordSteer(t, c.turn)
  <2>1. /\ UNCHANGED trace \/ trace' = [trace EXCEPT ![t] = Append(@, x)]
        /\ trace' # trace => ~HasTurn(trace[t], x.turn)
    BY <1>3, <1>8, <1>18, SteerRecord DEF x
  <2>2. x.turn \in Turns => Pending(thr[t], x.turn) /\ ~Pending(a, x.turn)
    BY <1>5, <1>7, <1>8, <1>15, <1>17 DEF Pending, Posted, m
  <2> QED
    BY <1>8, <1>13, <1>16, <1>17, <1>18, <2>1, <2>2, RunsOrderly
<1>19. CASE thr' = [thr EXCEPT ![t] = b] /\ UNCHANGED trace
  BY <1>8, <1>13, <1>16, <1>17, <1>19, RunsOrderly
<1>20. CASE thr' = [thr EXCEPT ![t] = d] /\ UNCHANGED trace
  BY <1>8, <1>13, <1>16, <1>17, <1>20, RunsOrderly
<1> QED
  BY <1>12, <1>18, <1>19, <1>20

\* So is every step of an agent loop.
LEMMA ExecuteOrderly ==
    ASSUME TypeInv, OnceInv, NEW t \in Threads, Execute(t)
    PROVE  Orderly
BY StartOrderly, CompileOrderly, ActiveOrderly, FinishOrderly DEF Execute

(***************************************************************************)
(* What the workers and the forks that a step leaves alone rely on.        *)
(***************************************************************************)
\* If turn u of thread t does not keep its way, no worker of V relies on it.
Spares(V, t, u) ==
    /\ ~HasTurn(trace'[t], u)
    /\ \A v \in V : job[v].to = t /\ job[v].turn = u => ~job[v].holds
    /\ \/ Pending(thr'[t], u) => Pending(thr[t], u)
       \/ /\ \A v \in V : ~(pc[v] = "rebind" /\ job[v].env = t /\ job[v].turn = u)
          /\ \A s \in Threads :
                HasClaim(control[s], t, u, "fork") => HasSpawn(control[s], u)

KeepsWay(t, u) == KeepsTurn(thr[t], trace[t], thr'[t], trace'[t], u)

\* Every turn keeps its way, but for those on which V does not rely.
Passes(V) ==
    \A t \in Threads :
        /\ ThreadOnce(thr'[t], trace'[t])
        /\ \A u \in Turns : KeepsWay(t, u) \/ Spares(V, t, u)

\* An orderly step disturbs no worker.
LEMMA OrderlyPasses == Orderly => \A V : Passes(V)
BY DEF Orderly, Passes, KeepsWay

\* Workers that a step leaves alone keep what they rely on.
LEMMA OthersOnce ==
    ASSUME TypeInv, OnceInv, NEW V \in SUBSET Workers, Passes(V),
           \A v \in V : pc'[v] = pc[v] /\ job'[v] = job[v]
    PROVE  \A v \in V : WorkerOnce(pc'[v], job'[v], thr', trace')
<1> SUFFICES ASSUME NEW v \in V
             PROVE  WorkerOnce(pc[v], job[v], thr', trace')
  OBVIOUS
<1> DEFINE l == pc[v]
           j == job[v]
<1>1. WorkerOnce(l, j, thr, trace)
  BY DEF OnceInv
<1>2. /\ l \in Labels
      /\ l \in Pinned => j.to \in Threads /\ j.turn \in Turns
      /\ l # "idle" => j.env \in Threads /\ j.turn \in Turns
  <2>1. l \in Labels
    BY DEF TypeInv, TypeOK
  <2>2. /\ l \in Pinned => j.to \in Threads
        /\ l # "idle" => j.env \in Envelopes
        /\ l # "idle" => j.turn \in {j.env} \X Attempts
    BY PinnedJob
  <2>3. "idle" \notin Pinned /\ Envelopes \subseteq Threads
    BY DEF Pinned, Threads
  <2> QED
    BY <2>1, <2>2, <2>3 DEF Turns
<1>3. \A t \in Threads, u \in Turns :
         /\ KeepsWay(t, u) \/ Spares(V, t, u)
         /\ Pending(thr[t], u) => u \in thr[t].reserved
  BY DEF Passes, OnceInv, ThreadOnce
<1> HIDE DEF l, j
<1>4. ASSUME j.holds
      PROVE  j.turn \in thr'[j.to].reserved /\ Untouched(thr'[j.to], trace'[j.to], j.turn)
  <2>1. /\ j.turn \in thr[j.to].reserved /\ Untouched(thr[j.to], trace[j.to], j.turn)
        /\ l \in Pinned
    BY <1>1, <1>4 DEF WorkerOnce, HoldsOne, Holding, Pinned, Labels
  <2>2. KeepsWay(j.to, j.turn)
    BY <1>2, <1>3, <1>4, <2>1 DEF Spares, j
  <2> QED
    BY <2>1, <2>2 DEF KeepsWay, KeepsTurn, Untouched
<1>5. HoldsOne(l, j, thr'[j.to], trace'[j.to])
  BY <1>1, <1>4 DEF WorkerOnce, HoldsOne
<1>6. ASSUME NEW t \in Threads, NEW u \in Turns, Reserves(u, thr[t], trace[t])
      PROVE  Reserves(u, thr'[t], trace'[t])
  <2>1. CASE KeepsWay(t, u)
    BY <1>3, <1>6, <2>1 DEF Reserves, KeepsWay, KeepsTurn
  <2>2. CASE Spares(V, t, u)
    BY <2>2 DEF Reserves, Spares
  <2> QED
    BY <1>3, <2>1, <2>2
<1>7. l = "reserve" => Reserves(j.turn, thr'[j.to], trace'[j.to])
  <2>1. l = "reserve" => l \in Pinned
    BY DEF Pinned, Labels
  <2> QED
    BY <1>1, <1>2, <1>6, <2>1 DEF WorkerOnce
<1>8. l = "forksubmit" => Reserves(j.turn, thr'[j.env], trace'[j.env])
  BY <1>1, <1>2, <1>6 DEF WorkerOnce
<1>9. ASSUME l = "rebind" PROVE Untouched(thr'[j.env], trace'[j.env], j.turn)
  <2>1. Untouched(thr[j.env], trace[j.env], j.turn)
    BY <1>1, <1>9 DEF WorkerOnce
  <2>2. CASE KeepsWay(j.env, j.turn)
    BY <2>1, <2>2 DEF KeepsWay, KeepsTurn, Untouched
  <2>3. CASE Spares(V, j.env, j.turn)
    BY <1>9, <2>1, <2>3 DEF Spares, Untouched, l, j
  <2> QED
    BY <1>2, <1>3, <1>9, <2>2, <2>3
<1> QED
  BY <1>1, <1>5, <1>7, <1>8, <1>9 DEF WorkerOnce, l, j

\* A fork's turn reaches its child after the spawn: kept by a step whose new
\* claims are of turns that nothing has touched.
LEMMA ForksOnce ==
    ASSUME TypeInv, OnceInv, NEW V, Passes(V), JournalGrows,
           \A s \in Threads, e \in Envelopes, u \in Turns :
              HasClaim(control'[s], e, u, "fork") =>
                 \/ HasClaim(control[s], e, u, "fork")
                 \/ Untouched(thr'[e], trace'[e], u)
    PROVE  ForkOnce'
<1> SUFFICES ASSUME NEW s \in Threads, NEW e \in Envelopes, NEW u \in Turns,
                    HasClaim(control'[s], e, u, "fork"),
                    ~Untouched(thr'[e], trace'[e], u)
             PROVE  HasSpawn(control'[s], u)
  BY DEF ForkOnce
<1>1. HasClaim(control[s], e, u, "fork") /\ e \in Threads
  BY DEF Threads
<1>2. HasSpawn(control[s], u)
  <2>1. ~Untouched(thr[e], trace[e], u) => HasSpawn(control[s], u)
    BY <1>1 DEF OnceInv, ForkOnce
  <2>2. CASE KeepsWay(e, u)
    BY <2>1, <2>2 DEF KeepsWay, KeepsTurn, Untouched
  <2>3. CASE Spares(V, e, u)
    BY <1>1, <2>1, <2>3 DEF Spares, Untouched
  <2> QED
    BY <1>1, <2>2, <2>3 DEF Passes
<1> QED
  BY <1>2, SpawnStays DEF JournalGrows

\* A turn no one has claimed has not come to any runtime.
LEMMA UnclaimedUntouched ==
    ASSUME TypeInv, ThreadInv, NEW u \in Turns, Unclaimed(control, u),
           NEW t \in Threads
    PROVE  Untouched(thr[t], trace[t], u)
<1>1. u \notin LawTurns(control)
  <2>1. u # None
    BY IngressAssumption DEF IngressAssumption
  <2> QED
    BY <2>1 DEF LawTurns, Unclaimed
<1>2. /\ thr[t].running \in LawTurns(control)
      /\ thr[t].mailbox \in Seq(LawCommands(control))
      /\ trace[t] \in Seq(LawRecords(control))
  BY DEF ThreadInv, Lawful
<1>3. \A i \in DOMAIN thr[t].mailbox : thr[t].mailbox[i].turn \in LawTurns(control)
  <2>1. \A i \in DOMAIN thr[t].mailbox : thr[t].mailbox[i] \in LawCommands(control)
    BY <1>2
  <2> QED
    BY <2>1 DEF LawCommands
<1>4. \A i \in DOMAIN trace[t] : trace[t][i].turn \in LawTurns(control)
  <2>1. \A i \in DOMAIN trace[t] : trace[t][i] \in LawRecords(control)
    BY <1>2
  <2> QED
    BY <2>1 DEF LawRecords
<1> QED
  BY <1>1, <1>2, <1>3, <1>4 DEF Untouched, Pending, Posted, Working, HasTurn

\* The claim behind a worker's effects is the only claim of its turn.
LEMMA EffectClaim ==
    ASSUME TypeInv, ClaimCore, SettleInv, NEW w \in Workers, pc[w] \in Effects,
           NEW s \in Threads, NEW e, HasClaim(control[s], e, job[w].turn, "fork")
    PROVE  s = job[w].to /\ e = job[w].env /\ job[w].dec = "fork"
<1>1. HasClaim(control[job[w].to], job[w].env, job[w].turn, job[w].dec)
  BY DEF SettleInv, Good, Backed
<1>2. /\ job[w].to \in Threads /\ job[w].env \in Envelopes
      /\ job[w].turn \in {job[w].env} \X Attempts
  <2>1. pc[w] \in Pinned /\ pc[w] # "idle"
    BY DEF Effects, Pinned, Labels
  <2> QED
    BY <2>1, PinnedJob
<1>3. PICK i \in DOMAIN control[s] :
         /\ control[s][i].kind = "claimed" /\ control[s][i].env = e
         /\ control[s][i].turn = job[w].turn /\ control[s][i].dec = "fork"
  BY DEF HasClaim
<1>4. PICK k \in DOMAIN control[job[w].to] :
         /\ control[job[w].to][k].kind = "claimed"
         /\ control[job[w].to][k].env = job[w].env
         /\ control[job[w].to][k].dec = job[w].dec
  BY <1>1 DEF HasClaim
<1>5. control[s][i].turn \in {control[s][i].env} \X Attempts
  BY <1>3, AttemptTypes
<1>6. control[s][i].env = job[w].env
  BY <1>2, <1>3, <1>5
<1>7. s = job[w].to /\ i = k
  BY <1>2, <1>3, <1>4, <1>6, SameClaim
<1> QED
  BY <1>3, <1>4, <1>6, <1>7

(***************************************************************************)
(* What a worker's step does to the runtimes.                              *)
(***************************************************************************)
Rest(w) == Workers \ {w}

\* A step of one runtime that leaves the records alone.
LEMMA OnePasses ==
    ASSUME TypeInv, OnceInv, NEW V, NEW t \in Threads, NEW r,
           thr' = [thr EXCEPT ![t] = r], trace' = trace,
           ThreadOnce(r, trace[t]),
           \A u \in Turns : \/ KeepsTurn(thr[t], trace[t], r, trace[t], u)
                            \/ Spares(V, t, u)
    PROVE  Passes(V)
<1>1. thr'[t] = r /\ \A s \in Threads \ {t} : thr'[s] = thr[s]
  BY DEF TypeInv, TypeOK
<1>2. ASSUME NEW s \in Threads \ {t}
      PROVE  ThreadOnce(thr'[s], trace'[s]) /\ \A u \in Turns : KeepsWay(s, u)
  BY <1>1, <1>2 DEF OnceInv, KeepsWay, KeepsTurn
<1>3. /\ ThreadOnce(thr'[t], trace'[t])
      /\ \A u \in Turns : KeepsWay(t, u) \/ Spares(V, t, u)
  BY <1>1 DEF KeepsWay
<1> QED
  BY <1>2, <1>3 DEF Passes

\* Nor does a step that touches no runtime and no record.
LEMMA SamePasses ==
    ASSUME OnceInv, thr' = thr, trace' = trace, NEW V
    PROVE  Passes(V)
BY DEF OnceInv, Passes, KeepsWay, KeepsTurn

\* Giving up a reservation disturbs no other worker: none holds the same.
LEMMA DropPasses ==
    ASSUME TypeInv, OnceInv, NEW w \in Workers, thr' = DropReservation(w),
           trace' = trace
    PROVE  Passes(Rest(w))
<1>1. CASE ~job[w].holds
  BY <1>1, SamePasses DEF DropReservation
<1>2. CASE job[w].holds
  <2> DEFINE t == job[w].to
             u == job[w].turn
  <2>1. /\ HoldsOne(pc[w], job[w], thr[t], trace[t])
        /\ ThreadOnce(thr[t], trace[t]) \/ t \notin Threads
    BY DEF OnceInv, WorkerOnce
  <2>2. pc[w] \in Pinned /\ Untouched(thr[t], trace[t], u)
    BY <1>2, <2>1 DEF HoldsOne, Holding, Pinned, Labels
  <2>3. t \in Threads
    BY <2>2, PinnedJob
  <2>4. thr[t] \in Runtimes
    BY <2>3 DEF TypeInv, TypeOK
  <2>5. PICK r : r = [thr[t] EXCEPT !.reserved = thr[t].reserved \ {u}]
    OBVIOUS
  <2>6. thr' = [thr EXCEPT ![t] = r]
    BY <1>2, <2>5 DEF DropReservation
  <2>7. /\ r.up = thr[t].up /\ r.mailbox = thr[t].mailbox
        /\ r.running = thr[t].running /\ r.traced = thr[t].traced
        /\ r.reserved = thr[t].reserved \ {u}
    BY <2>4, <2>5 DEF Runtimes
  <2> HIDE DEF t, u
  <2>8. /\ \A x \in Turns : Pending(thr[t], x) => x \in r.reserved
        /\ thr[t].up = "absent" => r.reserved = {}
    BY <2>1, <2>2, <2>3, <2>7 DEF ThreadOnce, Untouched
  <2>9. ThreadOnce(r, trace[t]) /\ \A x : Pending(r, x) <=> Pending(thr[t], x)
    BY <2>1, <2>3, <2>7, <2>8, ReservesOnce
  <2>10. thr'[t] = r
    BY <2>3, <2>6 DEF TypeInv, TypeOK
  <2>11. Spares(Rest(w), t, u)
    <3>1. \A v \in Rest(w) : job[v].to = t /\ job[v].turn = u => ~job[v].holds
      BY <1>2 DEF OnceInv, HoldersApart, Rest, t, u
    <3> QED
      BY <2>2, <2>9, <2>10, <3>1 DEF Spares, Untouched
  <2>12. \A x \in Turns : x # u => KeepsTurn(thr[t], trace[t], r, trace[t], x)
    BY <2>7, <2>9 DEF KeepsTurn
  <2> QED
    BY <2>3, <2>6, <2>9, <2>11, <2>12, OnePasses
<1> QED
  BY <1>1, <1>2

\* A thread that was absent is loaded.
LEMMA LoadPasses ==
    ASSUME TypeInv, OnceInv, NEW V, NEW t \in Threads, trace' = trace,
           thr' = IF thr[t].up = "absent" THEN [thr EXCEPT ![t] = Resident] ELSE thr
    PROVE  Passes(V)
<1>1. CASE thr[t].up # "absent"
  BY <1>1, SamePasses
<1>2. CASE thr[t].up = "absent"
  <2>1. ThreadOnce(thr[t], trace[t]) /\ thr[t].reserved = {}
    BY <1>2 DEF OnceInv, ThreadOnce
  <2>2. PICK r : r = Resident
    OBVIOUS
  <2>3. r.up = "live" /\ r.mailbox = <<>> /\ r.running = None /\ r.reserved = {}
    BY <2>2 DEF Resident
  <2>4. ThreadOnce(r, trace[t]) /\ \A u \in Turns : ~Pending(r, u)
    BY <2>1, <2>3, LoadsOnce
  <2>5. \A u \in Turns : KeepsTurn(thr[t], trace[t], r, trace[t], u)
    BY <2>1, <2>4 DEF KeepsTurn
  <2> QED
    BY <1>2, <2>2, <2>4, <2>5, OnePasses
<1> QED
  BY <1>1, <1>2

\* A turn is reserved anew.
NewHold(w) ==
    /\ pc[w] = "reserve" /\ job[w].turn \notin thr[job[w].to].reserved
    /\ thr[job[w].to].up = "live"
    /\ thr' = [thr EXCEPT ![job[w].to].reserved = @ \cup {job[w].turn}]
    /\ job' = [job EXCEPT ![w].holds = TRUE]
    /\ Goto(w, IF job[w].rec THEN "submit" ELSE "lock")

\* Nor does taking one: the turn was not reserved before.
LEMMA NewHoldPasses ==
    ASSUME TypeInv, OnceInv, NEW w \in Workers, NewHold(w), trace' = trace
    PROVE  /\ Passes(Rest(w))
           /\ WorkerOnce(pc'[w], job'[w], thr', trace') \/ job[w].dec = "fork"
<1> DEFINE t == job[w].to
           u == job[w].turn
<1>1. t \in Threads /\ u \in Turns /\ pc[w] = "reserve"
  <2>1. pc[w] \in Pinned /\ pc[w] # "idle" /\ pc[w] = "reserve"
    BY DEF NewHold, Pinned, Labels
  <2>2. t \in Threads /\ job[w].env \in Envelopes /\ u \in {job[w].env} \X Attempts
    BY <2>1, PinnedJob
  <2> QED
    BY <2>1, <2>2 DEF Turns
<1>2. thr[t] \in Runtimes /\ ThreadOnce(thr[t], trace[t])
  BY <1>1 DEF TypeInv, TypeOK, OnceInv
<1>3. PICK r : r = [thr[t] EXCEPT !.reserved = thr[t].reserved \cup {u}]
  OBVIOUS
<1>4. /\ r.up = thr[t].up /\ r.mailbox = thr[t].mailbox
      /\ r.running = thr[t].running /\ r.traced = thr[t].traced
      /\ r.reserved = thr[t].reserved \cup {u} /\ thr[t].up = "live"
  BY <1>2, <1>3 DEF Runtimes, NewHold
<1>5. thr' = [thr EXCEPT ![t] = r] /\ thr'[t] = r
  BY <1>1, <1>3 DEF NewHold, TypeInv, TypeOK
<1>6. \A x \in Turns : Pending(thr[t], x) => x \in r.reserved
  BY <1>2, <1>4 DEF ThreadOnce
<1>7. ThreadOnce(r, trace[t]) /\ \A x : Pending(r, x) <=> Pending(thr[t], x)
  BY <1>2, <1>4, <1>6, ReservesOnce
<1>8. \A x \in Turns : KeepsTurn(thr[t], trace[t], r, trace[t], x)
  BY <1>4, <1>7 DEF KeepsTurn
<1>9. Passes(Rest(w))
  BY <1>1, <1>5, <1>7, <1>8, OnePasses
<1>10. Untouched(r, trace[t], u)
  <2>1. u \notin thr[t].reserved /\ Reserves(u, thr[t], trace[t])
    BY <1>1 DEF NewHold, OnceInv, WorkerOnce
  <2>2. ~Pending(thr[t], u)
    BY <1>1, <1>2, <2>1 DEF ThreadOnce
  <2> QED
    BY <1>7, <2>1, <2>2 DEF Untouched, Reserves
<1>11. /\ job'[w].to = t /\ job'[w].turn = u /\ job'[w].dec = job[w].dec
       /\ job'[w].rec = job[w].rec
       /\ pc'[w] = IF job[w].rec THEN "submit" ELSE "lock"
  <2>1. job[w] \in Jobs /\ job'[w] = [job[w] EXCEPT !.holds = TRUE]
    BY DEF NewHold, TypeInv, TypeOK
  <2> QED
    BY <2>1 DEF NewHold, Goto, TypeInv, TypeOK, Jobs
<1>12. job[w].dec = "observe" => job[w].rec
  BY <1>1 DEF OnceInv, WorkerOnce
<1>13. /\ pc'[w] \in {"submit", "lock"}
       /\ pc'[w] # "submit" => ~job'[w].rec /\ job'[w].dec # "observe"
  BY <1>11, <1>12
<1> HIDE DEF t, u
<1>14. ASSUME job[w].dec # "fork"
       PROVE  HoldsOne(pc'[w], job'[w], thr'[job'[w].to], trace'[job'[w].to])
  <2>1. u \in r.reserved /\ job'[w].dec # "fork"
    BY <1>4, <1>11, <1>14
  <2> QED
    BY <1>5, <1>10, <1>11, <1>13, <2>1 DEF HoldsOne, Holding
<1> QED
  BY <1>9, <1>13, <1>14 DEF WorkerOnce

\* A cancel is posted; a turn that a worker holds is posted.
LEMMA CancelPasses ==
    ASSUME TypeInv, OnceInv, NEW w \in Workers, CancelActive(w), NEW V
    PROVE  Passes(V) /\ \A t \in Threads, u \in Turns : KeepsWay(t, u)
<1> DEFINE t == job[w].to
           c == [mode |-> "cancel", turn |-> None]
<1>1. t \in Threads /\ trace' = trace
  <2>1. pc[w] \in Pinned
    BY DEF CancelActive, Pinned, Labels
  <2> QED
    BY <2>1, PinnedJob DEF CancelActive
<1>2. CASE thr' = thr
  BY <1>1, <1>2, SamePasses DEF KeepsWay, KeepsTurn
<1>3. CASE thr' # thr
  <2>1. thr[t].up = "live" /\ thr' = [thr EXCEPT ![t].mailbox = Append(@, c)]
    BY <1>3 DEF CancelActive
  <2>2. thr[t] \in Runtimes /\ ThreadOnce(thr[t], trace[t])
    BY <1>1 DEF TypeInv, TypeOK, OnceInv
  <2>3. c \in Commands /\ c.turn = None
    BY DEF Commands, MaybeTurns
  <2>4. PICK r : r = [thr[t] EXCEPT !.mailbox = Append(thr[t].mailbox, c)]
    OBVIOUS
  <2> HIDE DEF c
  <2>5. /\ r.up = thr[t].up /\ r.mailbox = Append(thr[t].mailbox, c)
        /\ r.running = thr[t].running /\ r.traced = thr[t].traced
        /\ r.reserved = thr[t].reserved /\ thr[t].mailbox \in Seq(Commands)
    BY <2>2, <2>4 DEF Runtimes
  <2>6. thr' = [thr EXCEPT ![t] = r]
    BY <2>1, <2>4
  <2>7. /\ ThreadOnce(r, trace[t])
        /\ \A u \in Turns : Pending(r, u) => Pending(thr[t], u) \/ u = c.turn
    <3>1. /\ thr[t].up # "absent" /\ thr[t].reserved \subseteq r.reserved
      BY <2>1, <2>5
    <3>2. c.turn # None => c.turn \in r.reserved /\ Untouched(thr[t], trace[t], c.turn)
      BY <2>3
    <3>3. PICK p, q : p = thr[t] /\ q = trace[t]
      OBVIOUS
    <3> HIDE DEF t
    <3>4. /\ ThreadOnce(r, q)
          /\ \A u \in Turns : Pending(r, u) => Pending(p, u) \/ u = c.turn
      BY <2>2, <2>3, <2>5, <3>1, <3>2, <3>3, PostsOnce
    <3> QED
      BY <3>3, <3>4
  <2>8. \A u \in Turns : u # None
    BY IngressAssumption DEF IngressAssumption
  <2>9. \A u \in Turns : KeepsTurn(thr[t], trace[t], r, trace[t], u)
    BY <2>3, <2>5, <2>7, <2>8 DEF KeepsTurn
  <2>10. Passes(V)
    BY <1>1, <2>6, <2>7, <2>9, OnePasses
  <2>11. thr'[t] = r /\ \A s \in Threads \ {t} : thr'[s] = thr[s]
    BY <1>1, <2>6 DEF TypeInv, TypeOK
  <2> QED
    BY <1>1, <2>9, <2>10, <2>11 DEF KeepsWay, KeepsTurn
<1> QED
  BY <1>2, <1>3

\* A turn that a worker holds is posted to its runtime.
LEMMA SubmitPasses ==
    ASSUME TypeInv, ClaimCore, SettleInv, OnceInv, NEW w \in Workers,
           SubmitTurn(w)
    PROVE  Passes(Rest(w))
<1> DEFINE t == job[w].to
           u == job[w].turn
           c == Submission(u, job[w].dec)
<1>1. trace' = trace /\ pc[w] = "submit" /\ control' = control
  BY DEF SubmitTurn
<1>2. t \in Threads /\ u \in Turns
  <2>1. pc[w] \in Pinned /\ pc[w] # "idle"
    BY <1>1 DEF Pinned, Labels
  <2>2. t \in Threads /\ job[w].env \in Envelopes /\ u \in {job[w].env} \X Attempts
    BY <2>1, PinnedJob
  <2> QED
    BY <2>2 DEF Turns
<1>3. CASE thr' = thr
  BY <1>1, <1>3, SamePasses
<1>4. CASE thr' # thr
  <2>1. /\ job[w].holds /\ thr[t].up = "live"
        /\ thr' = [thr EXCEPT ![t].mailbox = Append(@, c)]
    BY <1>4 DEF SubmitTurn
  <2>2. thr[t] \in Runtimes /\ ThreadOnce(thr[t], trace[t])
    BY <1>2 DEF TypeInv, TypeOK, OnceInv
  <2>3. c \in Commands /\ c.turn = u
    <3>1. u \in MaybeTurns
      BY <1>2 DEF MaybeTurns
    <3> QED
      BY <3>1, SubmissionTyped DEF Submission
  <2>4. /\ u \in thr[t].reserved /\ Untouched(thr[t], trace[t], u)
        /\ job[w].dec # "fork"
    BY <2>1 DEF OnceInv, WorkerOnce, HoldsOne
  <2>5. PICK r : r = [thr[t] EXCEPT !.mailbox = Append(thr[t].mailbox, c)]
    OBVIOUS
  <2>6. thr' = [thr EXCEPT ![t] = r] /\ thr'[t] = r
    BY <1>2, <2>1, <2>5 DEF TypeInv, TypeOK
  <2> HIDE DEF c
  <2>7. /\ r.up = thr[t].up /\ r.mailbox = Append(thr[t].mailbox, c)
        /\ r.running = thr[t].running /\ r.traced = thr[t].traced
        /\ r.reserved = thr[t].reserved /\ thr[t].mailbox \in Seq(Commands)
    BY <2>2, <2>5 DEF Runtimes
  <2>8. PICK p, q : p = thr[t] /\ q = trace[t]
    OBVIOUS
  <2>9. /\ p.up # "absent" /\ p.reserved \subseteq r.reserved
        /\ c.turn # None => c.turn \in r.reserved /\ Untouched(p, q, c.turn)
    BY <2>1, <2>3, <2>4, <2>7, <2>8
  <2> HIDE DEF t, u
  <2>10. /\ ThreadOnce(r, q)
         /\ \A x \in Turns : Pending(r, x) => Pending(p, x) \/ x = c.turn
    <3>1. /\ ThreadOnce(p, q) /\ p.mailbox \in Seq(Commands)
          /\ r.mailbox = Append(p.mailbox, c) /\ r.up = p.up
          /\ r.running = p.running /\ r.traced = p.traced
      BY <2>2, <2>7, <2>8
    <3> QED
      BY <2>3, <2>9, <3>1, PostsOnce
  <2>11. \A x \in Turns : x # u => KeepsTurn(p, q, r, q, x)
    BY <2>3, <2>7, <2>8, <2>10 DEF KeepsTurn
  <2>12. Spares(Rest(w), t, u)
    <3>1. pc[w] \in Effects
      BY <1>1 DEF Effects
    <3>2. \A s \in Threads : \A e : ~HasClaim(control[s], e, u, "fork")
      BY <2>4, <3>1, EffectClaim DEF u
    <3>3. ASSUME NEW v \in Workers, pc[v] = "rebind", job[v].turn = u PROVE FALSE
      <4>1. Backed(pc[v], job[v], control[job[v].to]) /\ OnPath(pc[v], job[v])
        BY DEF SettleInv, Good
      <4>2. HasClaim(control[job[v].to], job[v].env, u, "fork") /\ pc[v] \in Pinned
        BY <3>3, <4>1 DEF Backed, OnPath, Effects, Pinned, Labels
      <4> QED
        BY <3>2, <4>2, PinnedJob
    <3>4. \A v \in Rest(w) : job[v].to = t /\ job[v].turn = u => ~job[v].holds
      BY <2>1 DEF OnceInv, HoldersApart, Rest, t, u
    <3>5. ~HasTurn(trace'[t], u)
      BY <1>1, <2>4 DEF Untouched
    <3>6. \A v \in Rest(w) : ~(pc[v] = "rebind" /\ job[v].env = t /\ job[v].turn = u)
      BY <3>3 DEF Rest
    <3> QED
      BY <3>2, <3>4, <3>5, <3>6 DEF Spares
  <2> QED
    BY <1>1, <1>2, <2>6, <2>8, <2>10, <2>11, <2>12, OnePasses
<1> QED
  BY <1>3, <1>4

\* The turn of a fork is reserved and posted to its child.
LEMMA ForkPasses ==
    ASSUME TypeInv, ClaimCore, SettleInv, ScopeInv, OnceInv, NEW w \in Workers,
           SubmitFork(w), ~Abandon(w)
    PROVE  Passes(Rest(w))
<1> DEFINE t == job[w].env
           u == job[w].turn
           c == Submission(u, "fork")
<1>1. trace' = trace /\ pc[w] = "forksubmit" /\ control' = control
  BY DEF SubmitFork
<1>2. t \in Threads /\ t \in Envelopes /\ u \in Turns /\ job[w].to \in Threads
  <2>1. pc[w] \in Pinned /\ pc[w] # "idle"
    BY <1>1 DEF Pinned, Labels
  <2>2. job[w].to \in Threads /\ t \in Envelopes /\ u \in {t} \X Attempts
    BY <2>1, PinnedJob
  <2> QED
    BY <2>2 DEF Turns, Threads
<1>3. CASE thr' = thr
  BY <1>1, <1>3, SamePasses
<1>4. CASE thr' # thr
  <2>1. /\ u \notin thr[t].reserved /\ thr[t].up = "live"
        /\ thr' = [thr EXCEPT ![t] =
                     [thr[t] EXCEPT !.reserved = @ \cup {u},
                                    !.mailbox = Append(@, c)]]
    BY <1>4 DEF SubmitFork
  <2>2. thr[t] \in Runtimes /\ ThreadOnce(thr[t], trace[t])
    BY <1>2 DEF TypeInv, TypeOK, OnceInv
  <2>3. c \in Commands /\ c.turn = u
    <3>1. u \in MaybeTurns
      BY <1>2 DEF MaybeTurns
    <3> QED
      BY <3>1, SubmissionTyped DEF Submission
  <2>4. Untouched(thr[t], trace[t], u)
    <3>1. Reserves(u, thr[t], trace[t])
      BY <1>1 DEF OnceInv, WorkerOnce
    <3> QED
      BY <1>2, <2>1, <2>2, <3>1 DEF Reserves, Untouched, ThreadOnce
  <2>5. PICK r : r = [thr[t] EXCEPT !.reserved = @ \cup {u},
                                    !.mailbox = Append(@, c)]
    OBVIOUS
  <2>6. thr' = [thr EXCEPT ![t] = r] /\ thr'[t] = r
    BY <1>2, <2>1, <2>5 DEF TypeInv, TypeOK
  <2> HIDE DEF c
  <2>7. /\ r.up = thr[t].up /\ r.mailbox = Append(thr[t].mailbox, c)
        /\ r.running = thr[t].running /\ r.traced = thr[t].traced
        /\ r.reserved = thr[t].reserved \cup {u}
        /\ thr[t].mailbox \in Seq(Commands)
    BY <2>2, <2>5 DEF Runtimes
  <2>8. PICK p, q : p = thr[t] /\ q = trace[t]
    OBVIOUS
  <2>9. /\ p.up # "absent" /\ p.reserved \subseteq r.reserved
        /\ c.turn # None => c.turn \in r.reserved /\ Untouched(p, q, c.turn)
    BY <2>1, <2>3, <2>4, <2>7, <2>8
  <2>10. Witnessed(pc[w], job[w], control[job[w].to], trace[job[w].to])
    BY DEF SettleInv, Good
  <2> HIDE DEF t, u
  <2>11. /\ ThreadOnce(r, q)
         /\ \A x \in Turns : Pending(r, x) => Pending(p, x) \/ x = c.turn
    <3>1. /\ ThreadOnce(p, q) /\ p.mailbox \in Seq(Commands)
          /\ r.mailbox = Append(p.mailbox, c) /\ r.up = p.up
          /\ r.running = p.running /\ r.traced = p.traced
      BY <2>2, <2>7, <2>8
    <3> QED
      BY <2>3, <2>9, <3>1, PostsOnce
  <2>12. \A x \in Turns : x # u => KeepsTurn(p, q, r, q, x)
    BY <2>3, <2>7, <2>8, <2>11 DEF KeepsTurn
  <2>13. Spares(Rest(w), t, u)
    <3>1. pc[w] \in Effects
      BY <1>1 DEF Effects
    <3>2. ASSUME NEW s \in Threads, HasClaim(control[s], t, u, "fork")
          PROVE  HasSpawn(control[s], u)
      <4>1. s = job[w].to
        BY <3>1, <3>2, EffectClaim DEF u
      <4> QED
        BY <1>1, <2>10, <4>1 DEF Witnessed, u
    <3>3. \A v \in Rest(w) : pc[v] # "rebind"
      BY <1>1 DEF ScopeInv, Rest
    <3>4. ASSUME NEW v \in Rest(w), job[v].to = t, job[v].turn = u, job[v].holds
          PROVE  FALSE
      <4>1. job[v].turn \in thr[job[v].to].reserved
        BY <3>4 DEF OnceInv, WorkerOnce, HoldsOne, Rest
      <4> QED
        BY <2>1, <3>4, <4>1 DEF t, u
    <3>5. ~HasTurn(trace'[t], u)
      BY <1>1, <2>4 DEF Untouched
    <3> QED
      BY <3>2, <3>3, <3>4, <3>5 DEF Spares
  <2> QED
    BY <1>1, <1>2, <2>6, <2>8, <2>11, <2>12, <2>13, OnePasses
<1> QED
  BY <1>3, <1>4

\* The ways in which a worker's step reaches the runtimes.
LEMMA StepRuntimes ==
    ASSUME TypeInv, NEW w \in Workers, Steps(w), ~Reload(w)
    PROVE  \/ thr' = thr
           \/ thr' = DropReservation(w) /\ ~job'[w].holds
           \/ Witness(w) \/ CreateChild(w) \/ NewHold(w) \/ CancelActive(w)
           \/ SubmitTurn(w) \/ (SubmitFork(w) /\ ~Abandon(w))
<1> DEFINE Drops == thr' = DropReservation(w) /\ ~job'[w].holds
<1>1. Abandon(w) => Drops
  <2>1. Abandon(w) => thr' = DropReservation(w) /\ job'[w] = IdleJob
    BY AbandonEnds DEF Abandon
  <2> QED
    BY <2>1 DEF IdleJob
<1>2. ASSUME NEW found, NEW loser, Resume(w, found, loser), pc[w] # "idle"
      PROVE  Drops
  BY <1>2, ResumeStays DEF Resume
<1> HIDE DEF Drops
<1>3. CASE FoldOutcome(w)
  BY <1>1, <1>2, <1>3 DEF FoldOutcome, Drops
<1>4. CASE RecordDecision(w)
  BY <1>1, <1>4 DEF RecordDecision, Drops
<1>5. CASE Reserve(w)
  BY <1>1, <1>5 DEF Reserve, Drops, NewHold
<1>6. CASE LockAdmission(w)
  BY <1>1, <1>2, <1>6 DEF LockAdmission, Drops
<1>7. CASE AwaitOutcome(w)
  BY <1>1, <1>2, <1>7 DEF AwaitOutcome, Drops
<1>8. CASE ReadClaimStream(w)
  BY <1>1, <1>2, <1>8 DEF ReadClaimStream, Drops
<1>9. CASE ReadSettleStream(w) \/ TakeScope(w) \/ Timeout(w) \/ Fault(w)
  BY <1>1, <1>9 DEF ReadSettleStream, TakeScope, Timeout, Fault, Drops
<1>10. CASE SubmitFork(w)
  BY <1>1, <1>10 DEF Drops
<1>11. CASE \/ \E e \in Envelopes : Lease(w, e)
            \/ RecordOwnership(w) \/ AppendClaim(w) \/ CommitAdmission(w)
            \/ AwaitEvidence(w) \/ AppendSettle(w) \/ Recover(w)
            \/ CheckEvidence(w) \/ AppendSpawned(w) \/ RebindRoute(w)
            \/ Complete(w)
  BY <1>11 DEF Lease, RecordOwnership, AppendClaim, CommitAdmission,
     AwaitEvidence, AppendSettle, Recover, CheckEvidence, AppendSpawned,
     RebindRoute, Complete
<1> QED
  BY <1>3, <1>4, <1>5, <1>6, <1>7, <1>8, <1>9, <1>10, <1>11
     DEF Steps, Apply, Drops

\* No step of an apply but the reload disturbs the other workers.
LEMMA StepPasses ==
    ASSUME TypeInv, ClaimCore, SettleInv, ThreadInv, ScopeInv, OnceInv,
           NEW w \in Workers, Steps(w), ~Reload(w)
    PROVE  Passes(Rest(w)) /\ trace' = trace
<1>1. trace' = trace
  BY ApplyRoute
<1>2. CASE Witness(w)
  <2> DEFINE t == IF route = None THEN Root ELSE route
  <2>1. t \in Threads
    BY DEF TypeInv, TypeOK, Threads
  <2>2. thr' = IF thr[t].up = "absent" THEN [thr EXCEPT ![t] = Resident] ELSE thr
    BY <1>2 DEF Witness
  <2> QED
    BY <1>1, <2>1, <2>2, LoadPasses
<1>3. CASE CreateChild(w)
  <2>1. job[w].env \in Threads
    BY <1>3 DEF CreateChild, TypeInv, JobShape, Threads
  <2> QED
    BY <1>1, <1>3, <2>1, LoadPasses DEF CreateChild
<1> QED
  BY <1>1, <1>2, <1>3, StepRuntimes, SamePasses, DropPasses, NewHoldPasses,
     CancelPasses, SubmitPasses, ForkPasses

(***************************************************************************)
(* The worker that takes the step.                                         *)
(***************************************************************************)
\* It keeps the reservation it holds.
KeepHold(w) ==
    /\ job[w].holds /\ job'[w].to = job[w].to /\ job'[w].turn = job[w].turn
    /\ job'[w].dec = job[w].dec /\ job'[w].rec = job[w].rec
    /\ pc'[w] \in Holding
    /\ pc'[w] # "submit" => ~job[w].rec /\ job[w].dec # "observe"
    /\ thr' = thr \/ CancelActive(w)

\* A reservation is held from before the step or taken by it.
LEMMA HeldBefore ==
    ASSUME TypeInv, NEW w \in Workers, Steps(w), ~Reload(w), job'[w].holds
    PROVE  job[w].holds \/ NewHold(w)
<1>1. job \in [Workers -> Jobs] /\ job[w] \in Jobs
  BY DEF TypeInv, TypeOK
<1>2. ~Abandon(w)
  BY AbandonEnds DEF IdleJob
<1>3. ASSUME NEW found, NEW loser, Resume(w, found, loser), pc[w] # "idle"
      PROVE  FALSE
  BY <1>3, ResumeStays
<1>4. ASSUME NEW n, NEW S, NEW t, NEW d,
             \/ job' = job
             \/ job' = [job EXCEPT ![w].tail = n]
             \/ job' = [job EXCEPT ![w].seen = S]
             \/ job' = [job EXCEPT ![w] = [@ EXCEPT !.to = t, !.dec = d]]
      PROVE  job[w].holds
  <2>1. job'[w] \in {job[w], [job[w] EXCEPT !.tail = n], [job[w] EXCEPT !.seen = S],
                     [job[w] EXCEPT !.to = t, !.dec = d]}
    BY <1>1, <1>4
  <2>2. \A k \in {job[w], [job[w] EXCEPT !.tail = n], [job[w] EXCEPT !.seen = S],
                  [job[w] EXCEPT !.to = t, !.dec = d]} : k.holds = job[w].holds
    BY <1>1 DEF Jobs
  <2> QED
    BY <2>1, <2>2
<1>5. ASSUME NEW j, job' = [job EXCEPT ![w] = j] PROVE job'[w] = j
  BY <1>1, <1>5
<1>6. CASE \E e \in Envelopes : Lease(w, e)
  <2>1. PICK e \in Envelopes : Lease(w, e)
    BY <1>6
  <2>2. job' = [job EXCEPT ![w] = [IdleJob EXCEPT !.env = e,
                   !.att = queue[e].attempt + 1,
                   !.turn = <<e, queue[e].attempt + 1>>]]
    BY <2>1 DEF Lease
  <2>3. \A n, u : [IdleJob EXCEPT !.env = e, !.att = n, !.turn = u].holds = FALSE
    BY DEF IdleJob
  <2> QED
    BY <1>5, <2>2, <2>3
<1>7. CASE Complete(w)
  BY <1>5, <1>7 DEF Complete, IdleJob
<1>8. CASE SubmitTurn(w)
  <2>1. job'[w] = [job[w] EXCEPT !.holds = FALSE]
    BY <1>1, <1>8 DEF SubmitTurn
  <2> QED
    BY <1>1, <2>1 DEF Jobs
<1>9. CASE Reserve(w)
  BY <1>2, <1>4, <1>9 DEF Reserve, NewHold
<1>10. CASE FoldOutcome(w)
  BY <1>2, <1>3, <1>4, <1>10 DEF FoldOutcome
<1>11. CASE LockAdmission(w)
  BY <1>2, <1>3, <1>4, <1>11 DEF LockAdmission
<1>12. CASE ReadClaimStream(w)
  BY <1>2, <1>3, <1>4, <1>12 DEF ReadClaimStream
<1>13. CASE AwaitOutcome(w)
  BY <1>2, <1>3, <1>13 DEF AwaitOutcome
<1>14. CASE \/ Witness(w) \/ RecordDecision(w) \/ ReadSettleStream(w)
            \/ TakeScope(w) \/ SubmitFork(w) \/ Timeout(w) \/ Fault(w)
  BY <1>2, <1>4, <1>14 DEF Witness, RecordDecision, ReadSettleStream,
     TakeScope, SubmitFork, Timeout, Fault
<1>15. CASE \/ RecordOwnership(w) \/ AppendClaim(w) \/ CommitAdmission(w)
            \/ CancelActive(w) \/ AwaitEvidence(w) \/ AppendSettle(w)
            \/ Recover(w) \/ CheckEvidence(w) \/ CreateChild(w)
            \/ AppendSpawned(w) \/ RebindRoute(w)
  BY <1>4, <1>15 DEF RecordOwnership, AppendClaim, CommitAdmission,
     CancelActive, AwaitEvidence, AppendSettle, Recover, CheckEvidence,
     CreateChild, AppendSpawned, RebindRoute
<1> QED
  BY <1>6, <1>7, <1>8, <1>9, <1>10, <1>11, <1>12, <1>13, <1>14, <1>15
     DEF Steps, Apply

\* A held reservation is new, or kept with its thread and turn.
LEMMA StepHolds ==
    ASSUME TypeInv, OnceInv, NEW w \in Workers, Steps(w), ~Reload(w),
           job'[w].holds
    PROVE  NewHold(w) \/ KeepHold(w)
<1> SUFFICES ASSUME job[w].holds PROVE NewHold(w) \/ KeepHold(w)
  BY HeldBefore
<1>1. job \in [Workers -> Jobs] /\ job[w] \in Jobs /\ pc \in [Workers -> Labels]
  BY DEF TypeInv, TypeOK
<1>2. /\ pc[w] \in Holding /\ job[w].dec # "fork"
      /\ pc[w] # "submit" => ~job[w].rec /\ job[w].dec # "observe"
  BY DEF OnceInv, WorkerOnce, HoldsOne
<1>3. ~Abandon(w)
  BY AbandonEnds DEF IdleJob
<1>4. ASSUME NEW found, NEW loser, Resume(w, found, loser) PROVE FALSE
  BY <1>2, <1>4, ResumeStays DEF Holding
<1>5. ASSUME NEW l \in Holding, Goto(w, l), pc[w] # "submit",
             NEW n, NEW S,
             \/ job' = job
             \/ job' = [job EXCEPT ![w].tail = n]
             \/ job' = [job EXCEPT ![w].seen = S],
             thr' = thr \/ CancelActive(w)
      PROVE  KeepHold(w)
  <2>1. job'[w] \in {job[w], [job[w] EXCEPT !.tail = n], [job[w] EXCEPT !.seen = S]}
    BY <1>1, <1>5
  <2>2. \A k \in {job[w], [job[w] EXCEPT !.tail = n], [job[w] EXCEPT !.seen = S]} :
           /\ k.to = job[w].to /\ k.turn = job[w].turn /\ k.dec = job[w].dec
           /\ k.rec = job[w].rec
    BY <1>1 DEF Jobs
  <2>3. pc'[w] = l
    BY <1>1, <1>5 DEF Goto
  <2> QED
    BY <1>2, <1>5, <2>1, <2>2, <2>3 DEF KeepHold
<1>6. /\ "read" \in Holding /\ "await" \in Holding /\ "append" \in Holding
      /\ "commit" \in Holding /\ "cancel" \in Holding /\ "submit" \in Holding
  BY DEF Holding
<1>7. CASE LockAdmission(w)
  <2>1. pc[w] # "submit" /\ (thr' = thr \/ (\E f, o : Resume(w, f, o)))
    BY <1>3, <1>7 DEF LockAdmission
  <2> QED
    BY <1>3, <1>4, <1>5, <1>6, <1>7, <2>1 DEF LockAdmission
<1>8. CASE AwaitOutcome(w)
  BY <1>3, <1>4, <1>8 DEF AwaitOutcome
<1>9. CASE ReadClaimStream(w)
  BY <1>3, <1>4, <1>5, <1>6, <1>9 DEF ReadClaimStream
<1>10. CASE AppendClaim(w)
  BY <1>5, <1>6, <1>10 DEF AppendClaim
<1>11. CASE CommitAdmission(w)
  <2>1. pc[w] # "submit" /\ (Goto(w, "cancel") \/ Goto(w, "submit"))
    BY <1>2, <1>11 DEF CommitAdmission
  <2> QED
    BY <1>5, <1>6, <1>11, <2>1 DEF CommitAdmission
<1>12. CASE CancelActive(w)
  <2>1. pc[w] # "submit" /\ Goto(w, "submit") /\ job' = job
    BY <1>2, <1>12 DEF CancelActive
  <2> QED
    BY <1>5, <1>6, <1>12, <2>1
<1>13. CASE SubmitTurn(w)
  <2>1. job'[w] = [job[w] EXCEPT !.holds = FALSE]
    BY <1>1, <1>13 DEF SubmitTurn
  <2>2. job'[w].holds = FALSE
    BY <1>1, <2>1 DEF Jobs
  <2> QED
    BY <2>2
<1>14. CASE Timeout(w) \/ Fault(w)
  BY <1>3, <1>14 DEF Timeout, Fault
<1> QED
  BY <1>2, <1>7, <1>8, <1>9, <1>10, <1>11, <1>12, <1>13, <1>14
     DEF Holding, Steps, Apply, Lease, FoldOutcome, Witness, RecordDecision,
     RecordOwnership, Reserve, AwaitEvidence, ReadSettleStream, AppendSettle,
     Recover, CheckEvidence, TakeScope, CreateChild, AppendSpawned,
     RebindRoute, SubmitFork, Complete

\* No worker reloads: no runtime has failed.
LEMMA NoReload ==
    ASSUME TypeInv, OnceInv, NEW w \in Workers, Steps(w)
    PROVE  ~Reload(w) /\ pc'[w] # "reload"
<1>1. pc[w] # "reload"
  BY DEF OnceInv, WorkerOnce
<1>2. ASSUME Recover(w) PROVE pc'[w] # "reload"
  <2>1. pc[w] = "recover" /\ pc[w] \in Pinned
    BY <1>2 DEF Recover, Pinned, Labels
  <2>2. thr[job[w].to].up # "failed"
    BY <2>1, PinnedJob DEF OnceInv, ThreadOnce
  <2>3. PICK l \in {"scope", "cancel", "check"} : Goto(w, l)
    BY <1>2, <2>2 DEF Recover
  <2> QED
    BY <2>3 DEF Goto, TypeInv, TypeOK
<1> QED
  BY <1>1, <1>2, StepMoves DEF Reload

\* A kept reservation is still the only one of its turn.
LEMMA OwnHolds ==
    ASSUME TypeInv, OnceInv, NEW w \in Workers, KeepHold(w), trace' = trace
    PROVE  HoldsOne(pc'[w], job'[w], thr'[job'[w].to], trace'[job'[w].to])
<1> DEFINE t == job[w].to
           u == job[w].turn
<1>1. /\ job[w].dec # "fork" /\ u \in thr[t].reserved /\ pc[w] \in Holding
      /\ Untouched(thr[t], trace[t], u)
  BY DEF KeepHold, OnceInv, WorkerOnce, HoldsOne
<1>2. t \in Threads /\ u \in Turns
  <2>1. pc[w] \in Pinned /\ pc[w] # "idle"
    BY <1>1 DEF Holding, Pinned, Labels
  <2>2. t \in Threads /\ job[w].env \in Envelopes /\ u \in {job[w].env} \X Attempts
    BY <2>1, PinnedJob
  <2> QED
    BY <2>2 DEF Turns
<1>3. u \in thr'[t].reserved /\ Untouched(thr'[t], trace'[t], u)
  <2>1. CASE thr' = thr
    BY <1>1, <2>1
  <2>2. CASE CancelActive(w)
    <3>1. KeepsWay(t, u)
      BY <1>2, <2>2, CancelPasses
    <3> QED
      BY <1>1, <3>1 DEF KeepsWay, KeepsTurn, Untouched
  <2> QED
    BY <2>1, <2>2 DEF KeepHold
<1> QED
  BY <1>1, <1>3 DEF HoldsOne, KeepHold

\* Where the worker looks for its turn, it will find it or it is not there.
LEMMA OwnReserve ==
    ASSUME TypeInv, ThreadInv, AttemptInv, OnceInv, NEW w \in Workers,
           RecordOwnership(w) \/ CheckEvidence(w), pc'[w] = "reserve"
    PROVE  /\ Reserves(job'[w].turn, thr'[job'[w].to], trace'[job'[w].to])
           /\ job'[w].dec = "observe" => job'[w].rec
<1>1. job' = job /\ thr' = thr /\ trace' = trace
  BY DEF RecordOwnership, CheckEvidence
<1>2. CASE RecordOwnership(w)
  <2>1. pc[w] = "own" /\ pc[w] \in Pinned /\ pc[w] # "idle"
    BY <1>2 DEF RecordOwnership, Pinned, Labels
  <2>2. /\ job[w].to \in Threads /\ job[w].env \in Envelopes
        /\ job[w].turn \in {job[w].env} \X Attempts
    BY <2>1, PinnedJob
  <2>3. Unclaimed(control, job[w].turn)
    BY <2>1 DEF AttemptInv, Fresh, BeforeClaim, EarlyLabels
  <2>4. Untouched(thr[job[w].to], trace[job[w].to], job[w].turn)
    BY <2>2, <2>3, UnclaimedUntouched DEF Turns
  <2>5. job[w].dec # "observe"
    BY <1>2 DEF RecordOwnership, Goto, TypeInv, TypeOK
  <2> QED
    BY <1>1, <2>4, <2>5 DEF Untouched, Reserves
<1>3. CASE CheckEvidence(w)
  <2>1. pc[w] = "check" /\ ~HasEvidence(job[w].to, job[w].turn)
    BY <1>3 DEF CheckEvidence, Goto, TypeInv, TypeOK
  <2>2. job[w].rec
    BY <2>1 DEF AttemptInv, Fresh, Recovery
  <2> QED
    BY <1>1, <2>1, <2>2 DEF HasEvidence, HasTurn, Reserves
<1> QED
  BY <1>2, <1>3

\* A fork that has just spawned finds its child untouched.
LEMMA OwnRebind ==
    ASSUME TypeInv, SettleInv, ForkInv, OnceInv, NEW w \in Workers,
           AppendSpawned(w)
    PROVE  Untouched(thr'[job'[w].env], trace'[job'[w].env], job'[w].turn)
<1> DEFINE e == job[w].env
           u == job[w].turn
           s == job[w].to
<1>1. /\ job' = job /\ thr' = thr /\ trace' = trace /\ pc[w] = "spawn"
      /\ pc[w] \in Pinned /\ pc[w] # "idle" /\ pc[w] \in Effects
  BY DEF AppendSpawned, Pinned, Labels, Effects
<1>2. s \in Threads /\ e \in Envelopes /\ u \in {e} \X Attempts
  BY <1>1, PinnedJob
<1>3. /\ Backed(pc[w], job[w], control[s]) /\ OnPath(pc[w], job[w])
      /\ SpawnsGood(control[s]) /\ Childless(pc[w], job[w], control)
  BY <1>2 DEF SettleInv, Good, ForkInv, StreamGood
<1>4. HasClaim(control[s], e, u, "fork") /\ Spawns(control[s], e) = {}
  BY <1>1, <1>2, <1>3 DEF Backed, OnPath, Childless
<1>5. ~HasSpawn(control[s], u)
  <2> SUFFICES ASSUME NEW i \in DOMAIN control[s],
                      control[s][i].kind = "spawned", control[s][i].turn = u
               PROVE  FALSE
    BY DEF HasSpawn
  <2>1. PICK k \in DOMAIN control[s] :
           /\ control[s][k].kind = "claimed"
           /\ control[s][k].env = control[s][i].env /\ control[s][k].turn = u
    BY <1>3 DEF SpawnsGood
  <2>2. control[s][k].turn \in {control[s][k].env} \X Attempts
    BY <1>2, <2>1, AttemptTypes
  <2>3. control[s][i].env = e
    BY <1>2, <2>1, <2>2
  <2> QED
    BY <1>4, <2>3 DEF Spawns
<1>6. u \in Turns
  BY <1>2 DEF Turns
<1> QED
  BY <1>1, <1>2, <1>4, <1>5, <1>6 DEF OnceInv, ForkOnce

\* A fork about to submit will find a recorded turn reserved.
LEMMA OwnForkSubmit ==
    ASSUME TypeInv, OnceInv, NEW w \in Workers, RebindRoute(w),
           pc'[w] = "forksubmit"
    PROVE  Reserves(job'[w].turn, thr'[job'[w].env], trace'[job'[w].env])
<1>1. job' = job /\ thr' = thr /\ trace' = trace
  BY DEF RebindRoute
<1>2. pc[w] = "adopt" => ~HasEvidence(job[w].env, job[w].turn)
  BY DEF RebindRoute, Goto, TypeInv, TypeOK
<1>3. pc[w] = "rebind" => Untouched(thr[job[w].env], trace[job[w].env], job[w].turn)
  BY DEF OnceInv, WorkerOnce
<1> QED
  BY <1>1, <1>2, <1>3 DEF RebindRoute, HasEvidence, HasTurn, Untouched, Reserves

\* The worker that steps keeps what it relies on.
LEMMA OwnOnce ==
    ASSUME TypeInv, ClaimCore, SettleInv, ForkInv, ThreadInv, AttemptInv,
           OnceInv, NEW w \in Workers, Steps(w), trace' = trace
    PROVE  WorkerOnce(pc'[w], job'[w], thr', trace')
<1>1. ~Reload(w) /\ pc'[w] # "reload"
  BY NoReload
<1>2. CASE NewHold(w)
  <2>1. job[w].dec # "fork"
    BY <1>2 DEF NewHold, SettleInv, Good, OnPath
  <2> QED
    BY <1>2, <2>1, NewHoldPasses
<1>3. CASE ~NewHold(w)
  <2>1. HoldsOne(pc'[w], job'[w], thr'[job'[w].to], trace'[job'[w].to])
    <3>1. CASE job'[w].holds
      BY <1>1, <1>3, <3>1, StepHolds, OwnHolds
    <3>2. CASE ~job'[w].holds
      BY <3>2 DEF HoldsOne
    <3> QED
      BY <3>1, <3>2
  <2>2. pc'[w] = "reserve" =>
           /\ Reserves(job'[w].turn, thr'[job'[w].to], trace'[job'[w].to])
           /\ job'[w].dec = "observe" => job'[w].rec
    BY <1>1, StepArrives, OwnReserve
  <2>3. pc'[w] = "forksubmit" =>
           Reserves(job'[w].turn, thr'[job'[w].env], trace'[job'[w].env])
    BY StepArrives, OwnForkSubmit
  <2>4. pc'[w] = "rebind" =>
           Untouched(thr'[job'[w].env], trace'[job'[w].env], job'[w].turn)
    BY StepArrives, OwnRebind
  <2> QED
    BY <1>1, <2>1, <2>2, <2>3, <2>4 DEF WorkerOnce
<1> QED
  BY <1>2, <1>3

(***************************************************************************)
(* Every step of a healthy system.                                         *)
(***************************************************************************)
LEMMA WorkerSteps ==
    ASSUME TypeInv, ClaimCore, SettleInv, ForkInv, ThreadInv, AttemptInv,
           ScopeInv, OnceInv, NEW w \in Workers, Steps(w)
    PROVE  OnceInv'
<1>1. ~Reload(w)
  BY NoReload
<1>2. Passes(Rest(w)) /\ trace' = trace
  BY <1>1, StepPasses
<1>3. \A v \in Rest(w) : pc'[v] = pc[v] /\ job'[v] = job[v]
  BY <1>1, StepOthers DEF Rest
<1>4. \A v \in Rest(w) : WorkerOnce(pc'[v], job'[v], thr', trace')
  BY <1>2, <1>3, OthersOnce DEF Rest
<1>5. WorkerOnce(pc'[w], job'[w], thr', trace')
  BY <1>2, OwnOnce
<1>6. \A v \in Workers : WorkerOnce(pc'[v], job'[v], thr', trace')
  BY <1>4, <1>5 DEF Rest
<1>7. HoldersApart'
  <2>1. ASSUME NEW v \in Rest(w), job'[v].holds, job'[w].holds,
               job'[v].to = job'[w].to, job'[v].turn = job'[w].turn
        PROVE  FALSE
    <3>1. v \in Workers /\ v # w /\ job'[v] = job[v] /\ job[v].holds
      BY <1>3, <2>1 DEF Rest
    <3>2. CASE KeepHold(w)
      BY <2>1, <3>1, <3>2 DEF KeepHold, OnceInv, HoldersApart
    <3>3. CASE NewHold(w)
      <4>1. job'[w].to = job[w].to /\ job'[w].turn = job[w].turn
        <5>1. job[w] \in Jobs /\ job'[w] = [job[w] EXCEPT !.holds = TRUE]
          BY <3>3 DEF NewHold, TypeInv, TypeOK
        <5> QED
          BY <5>1 DEF Jobs
      <4>2. job[v].turn \in thr[job[v].to].reserved
        BY <3>1 DEF OnceInv, WorkerOnce, HoldsOne
      <4> QED
        BY <2>1, <3>1, <3>3, <4>1, <4>2 DEF NewHold
    <3> QED
      BY <1>1, <2>1, <3>2, <3>3, StepHolds
  <2>2. ASSUME NEW v \in Rest(w), NEW x \in Rest(w), v # x, job'[v].holds,
               job'[x].holds
        PROVE  ~(job'[v].to = job'[x].to /\ job'[v].turn = job'[x].turn)
    BY <1>3, <2>2 DEF OnceInv, HoldersApart, Rest
  <2> QED
    BY <2>1, <2>2 DEF HoldersApart, Rest
<1>8. ForkOnce'
  <2>1. ASSUME NEW s \in Threads, NEW e \in Envelopes, NEW u \in Turns,
               HasClaim(control'[s], e, u, "fork")
        PROVE  \/ HasClaim(control[s], e, u, "fork")
               \/ Untouched(thr'[e], trace'[e], u)
    <3>1. PICK i \in DOMAIN control'[s] :
             /\ control'[s][i].kind = "claimed" /\ control'[s][i].env = e
             /\ control'[s][i].turn = u /\ control'[s][i].dec = "fork"
      BY <2>1 DEF HasClaim
    <3>2. CASE i \in DOMAIN control[s] /\ control'[s][i] = control[s][i]
      BY <3>1, <3>2 DEF HasClaim
    <3>3. CASE OwnClaim(w, s, control'[s][i])
      <4>1. pc[w] = "append" /\ thr' = thr /\ trace' = trace /\ u = job[w].turn
        BY <3>1, <3>3 DEF OwnClaim, AppendClaim, Event
      <4>2. Unclaimed(control, u)
        BY <4>1 DEF AttemptInv, Fresh, BeforeClaim, EarlyLabels
      <4>3. e \in Threads
        BY DEF Threads
      <4> QED
        BY <4>1, <4>2, <4>3, UnclaimedUntouched
    <3> QED
      BY <3>1, <3>2, <3>3, StepEvents
  <2> QED
    BY <1>2, <2>1, StepGrows, ForksOnce
<1> QED
  BY <1>2, <1>6, <1>7, <1>8 DEF OnceInv, Passes

\* A step of a runtime, the queue or the egress.
LEMMA OrderlySteps ==
    ASSUME TypeInv, OnceInv, Orderly, pc' = pc, job' = job, control' = control
    PROVE  OnceInv'
<1>1. Passes(Workers)
  BY OrderlyPasses
<1>2. \A v \in Workers : WorkerOnce(pc'[v], job'[v], thr', trace')
  BY <1>1, OthersOnce
<1>3. HoldersApart'
  BY DEF OnceInv, HoldersApart
<1>4. JournalGrows
  BY StreamsTyped, GrowsSame DEF JournalGrows
<1>5. ForkOnce'
  BY <1>1, <1>4, ForksOnce
<1> QED
  BY <1>1, <1>2, <1>3, <1>5 DEF OnceInv, Passes

\* A restart empties the runtimes together with everything that has looked
\* at them.
LEMMA CrashOnce ==
    ASSUME TypeInv, OnceInv, Crash
    PROVE  OnceInv'
<1>1. /\ control' = control /\ trace' = trace
      /\ \A w \in Workers : pc'[w] = "idle" /\ job'[w] = IdleJob
  BY DEF Crash
<1>2. ASSUME NEW t \in Threads
      PROVE  /\ ThreadOnce(thr'[t], trace'[t])
             /\ \A u \in Turns : ~Pending(thr'[t], u)
  <2>1. thr'[t] \in {Absent, [Resident EXCEPT !.ctx = thr[t].ctx]}
    BY DEF Crash
  <2>2. /\ thr'[t].up # "failed" /\ thr'[t].mailbox = <<>>
        /\ thr'[t].running = None /\ thr'[t].reserved = {}
    BY <2>1 DEF Absent, Resident
  <2>3. ThreadOnce(thr[t], trace[t])
    BY DEF OnceInv
  <2> QED
    BY <1>1, <2>2, <2>3, LoadsOnce
<1>3. ForkOnce'
  <2> SUFFICES ASSUME NEW s \in Threads, NEW e \in Envelopes, NEW u \in Turns,
                      HasClaim(control'[s], e, u, "fork"),
                      ~Untouched(thr'[e], trace'[e], u)
               PROVE  HasSpawn(control'[s], u)
    BY DEF ForkOnce
  <2>1. HasTurn(trace[e], u)
    BY <1>1, <1>2 DEF Untouched, Threads
  <2>2. ~Untouched(thr[e], trace[e], u)
    BY <2>1 DEF Untouched
  <2> QED
    BY <1>1, <2>2 DEF OnceInv, ForkOnce
<1>4. \A w \in Workers : job'[w].holds = FALSE
  BY <1>1 DEF IdleJob
<1>5. \A w \in Workers : WorkerOnce(pc'[w], job'[w], thr', trace')
  BY <1>1, <1>4 DEF WorkerOnce, HoldsOne
<1> QED
  BY <1>2, <1>3, <1>4, <1>5 DEF OnceInv, HoldersApart

\* A system that is healthy has been so before, and no turn has failed.
LEMMA HealthyBefore ==
    ASSUME TypeInv, [Next]_vars, Healthy'
    PROVE  Healthy /\ \A t \in Threads : ~FailTurn(t)
<1>1. spent \in Budgets /\ spent.fail \in Nat
  <2>1. spent \in Budgets /\ 0..MaxFail \subseteq Nat
    BY IngressAssumption DEF TypeInv, TypeOK, IngressAssumption
  <2> QED
    BY <2>1 DEF Budgets
<1>2. ASSUME NEW t \in Threads, FailTurn(t) PROVE FALSE
  <2>1. PICK n, m : n = spent.fail + 1 /\ m = spent.fault + 1
    OBVIOUS
  <2>2. \/ spent' = [spent EXCEPT !.fail = n]
        \/ spent' = [spent EXCEPT !.fail = n, !.fault = m]
    BY <1>2, <2>1 DEF FailTurn
  <2>3. spent'.fail = n
    BY <1>1, <2>2 DEF Budgets
  <2> QED
    BY <1>1, <2>1, <2>3 DEF Healthy
<1>3. ASSUME NEW n,
             \/ spent' = spent \/ spent' = [spent EXCEPT !.crash = n]
             \/ spent' = [spent EXCEPT !.fault = n]
             \/ spent' = [spent EXCEPT !.expire = n]
      PROVE  spent'.fail = spent.fail
  BY <1>1, <1>3 DEF Budgets
<1>4. spent'.fail = spent.fail
  <2>1. CASE \E w \in Workers : Steps(w)
    <3>1. PICK w \in Workers : Steps(w)
      BY <2>1
    <3>2. spent' = spent \/ spent' = [spent EXCEPT !.fault = spent.fault + 1]
      BY <3>1 DEF Steps, Apply, Fault, Lease, FoldOutcome, Witness,
         RecordDecision, RecordOwnership, Reserve, LockAdmission, AwaitOutcome,
         ReadClaimStream, AppendClaim, CommitAdmission, CancelActive,
         SubmitTurn, AwaitEvidence, ReadSettleStream, AppendSettle, Recover,
         Reload, CheckEvidence, TakeScope, CreateChild, AppendSpawned,
         RebindRoute, SubmitFork, Timeout, Complete
    <3> QED
      BY <1>3, <3>2
  <2>2. CASE \E e \in Envelopes : Expire(e)
    <3>1. spent' = spent \/ spent' = [spent EXCEPT !.expire = spent.expire + 1]
      BY <2>2 DEF Expire
    <3> QED
      BY <1>3, <3>1
  <2>3. CASE \/ \E t \in Threads : Execute(t)
             \/ \E u \in answers : DeliverAnswer(u)
             \/ UNCHANGED vars
    BY <2>3 DEF Execute, StartCommand, CompileContext, ActiveCommand,
       FinishTurn, DeliverAnswer, vars
  <2>4. CASE Crash
    <3>1. spent' = [spent EXCEPT !.crash = spent.crash + 1]
      BY <2>4 DEF Crash
    <3> QED
      BY <1>3, <3>1
  <2> QED
    BY <1>2, <2>1, <2>2, <2>3, <2>4, NextSplit DEF Outside
<1> QED
  BY <1>2, <1>4 DEF Healthy

\* Every step but a failing turn keeps turns unique.
LEMMA OnceStep ==
    ASSUME TypeInv, ClaimCore, SettleInv, ForkInv, ThreadInv, AttemptInv,
           ScopeInv, OnceInv, [Next]_vars, \A t \in Threads : ~FailTurn(t)
    PROVE  OnceInv'
<1>1. CASE \E t \in Threads : Execute(t)
  <2>1. PICK t \in Threads : Execute(t)
    BY <1>1
  <2>2. Orderly
    BY <2>1, ExecuteOrderly
  <2>3. pc' = pc /\ job' = job /\ control' = control
    BY <2>1 DEF Execute, StartCommand, CompileContext, ActiveCommand, FinishTurn
  <2> QED
    BY <2>2, <2>3, OrderlySteps
<1>2. CASE \/ \E e \in Envelopes : Expire(e)
           \/ \E u \in answers : DeliverAnswer(u)
           \/ UNCHANGED vars
  <2>1. /\ thr' = thr /\ trace' = trace /\ pc' = pc /\ job' = job
        /\ control' = control
    BY <1>2 DEF Expire, DeliverAnswer, vars
  <2>2. Orderly
    BY <2>1 DEF Orderly, OnceInv, KeepsTurn
  <2> QED
    BY <2>1, <2>2, OrderlySteps
<1>3. CASE \E w \in Workers : Steps(w)
  BY <1>3, WorkerSteps
<1>4. CASE Crash
  BY <1>4, CrashOnce
<1> QED
  BY <1>1, <1>2, <1>3, <1>4, NextSplit DEF Outside

\* Nothing is held, pending or recorded at the start.
LEMMA InitOnce == Init => ScopeInv /\ OnceInv
<1> SUFFICES ASSUME Init PROVE ScopeInv /\ OnceInv
  OBVIOUS
<1>1. /\ \A w \in Workers : pc[w] = "idle" /\ job[w] = IdleJob
      /\ \A t \in Threads : /\ thr[t] = Absent /\ trace[t] = <<>>
                            /\ control[t] = <<>>
  BY DEF Init
<1>2. IdleJob.holds = FALSE
  BY DEF IdleJob
<1>3. ASSUME NEW t \in Threads PROVE ThreadOnce(thr[t], trace[t])
  <2>1. PICK r, q : r = Absent /\ q = <<>>
    OBVIOUS
  <2>2. /\ r.up = "absent" /\ r.reserved = {} /\ r.mailbox = <<>>
        /\ r.running = None
    BY <2>1 DEF Absent, Resident
  <2>3. \A u \in Turns : u # None
    BY IngressAssumption DEF IngressAssumption
  <2>4. ThreadOnce(r, q)
    BY <2>1, <2>2, <2>3 DEF ThreadOnce, PostedOnce, TurnsApart, RecordedOnce,
       Pending, Posted, Working, HasTurn
  <2> QED
    BY <1>1, <2>1, <2>4
<1>4. \A w \in Workers : WorkerOnce(pc[w], job[w], thr, trace)
  BY <1>1, <1>2 DEF WorkerOnce, HoldsOne
<1>5. ForkOnce
  BY <1>1 DEF ForkOnce, HasClaim
<1> QED
  BY <1>1, <1>2, <1>3, <1>4, <1>5 DEF ScopeInv, OnceInv, HoldersApart

\* The attempts keep their numbers, the forks the scope lock and, while no
\* runtime has failed, every turn its way to its one record.
THEOREM RunInvariant == Spec => []RunInv
<1> DEFINE Base == TypeInv /\ ClaimCore /\ SettleInv /\ ForkInv /\ ThreadInv
<1>1. Spec => []Base
  BY IngressInvariant
<1>2. Init => RunInv
  BY InitAttempts, InitOnce DEF RunInv
<1>3. Base /\ Base' /\ RunInv /\ [Next]_vars => RunInv'
  <2> SUFFICES ASSUME Base, Base', RunInv, [Next]_vars PROVE RunInv'
    OBVIOUS
  <2>1. AttemptInv' /\ ScopeInv'
    BY AttemptStep, ScopeStep DEF RunInv
  <2>2. Healthy' => OnceInv'
    BY HealthyBefore, OnceStep DEF RunInv
  <2> QED
    BY <2>1, <2>2 DEF RunInv
<1> HIDE DEF Base
<1> QED
  BY <1>1, <1>2, <1>3, PTL DEF Spec

\* No turn is executed twice while no runtime has failed, however often its
\* envelope is delivered, its apply restarted and its claim recovered.
THEOREM RunsOnce == Spec => []RunsOnceUnlessFailed
<1>1. RunInv => RunsOnceUnlessFailed
  <2> SUFFICES ASSUME RunInv, spent.fail = 0, NEW t \in Threads,
                      NEW i \in DOMAIN trace[t]
               PROVE  Cardinality(Executions(t, trace[t][i].turn)) <= 1
    BY DEF RunsOnceUnlessFailed
  <2>1. RecordedOnce(trace[t])
    BY DEF RunInv, Healthy, OnceInv, ThreadOnce
  <2> DEFINE S == Executions(t, trace[t][i].turn)
  <2>2. \A k \in S : k = i
    BY <2>1 DEF Executions, RecordedOnce
  <2> HIDE DEF S
  <2>3. CASE S = {}
    BY <2>3, FS_EmptySet DEF S
  <2>4. CASE S = {i}
    <3>1. Cardinality({i}) = 1
      BY FS_Singleton, Zenon
    <3> QED
      BY <2>4, <3>1 DEF S
  <2> QED
    BY <2>2, <2>3, <2>4
<1> QED
  BY <1>1, RunInvariant, PTL

=============================================================================

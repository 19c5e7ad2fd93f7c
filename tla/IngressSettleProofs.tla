------------------------ MODULE IngressSettleProofs --------------------------
(***************************************************************************)
(* One settle per claim, on evidence; one child per fork claim; no effects *)
(* without a claim; and the refinement of IngressPromise: proved for any   *)
(* sets of envelopes and workers and any failure bounds.                   *)
(*                                                                         *)
(* The facts about one stream are stated over a sequence q, so that they   *)
(* speak of the journal before a step and after it alike.                  *)
(***************************************************************************)
EXTENDS IngressClaimProofs, IngressRefinement

(***************************************************************************)
(* What a stream says.                                                     *)
(***************************************************************************)
\* The claim of envelope e for turn u with decision d.
HasClaim(q, e, u, d) ==
    \E i \in DOMAIN q : /\ q[i].kind = "claimed" /\ q[i].env = e
                        /\ q[i].turn = u /\ q[i].dec = d

Settles(q, u) == {i \in DOMAIN q : q[i].kind = "settled" /\ q[i].turn = u}
Spawns(q, e) == {i \in DOMAIN q : q[i].kind = "spawned" /\ q[i].env = e}
HasSpawn(q, u) == \E i \in DOMAIN q : q[i].kind = "spawned" /\ q[i].turn = u
HasTurn(r, u) == \E i \in DOMAIN r : r[i].turn = u

\* The settle of turn u with decision d rests on q and the thread stream r.
RestsOn(q, r, u, d) ==
    /\ d \in {"queue", "steer", "interrupt"} => HasTurn(r, u)
    /\ d = "fork" => HasSpawn(q, u)

SettlesGood(q) ==
    \A i \in DOMAIN q : q[i].kind = "settled" =>
        /\ \A k \in Settles(q, q[i].turn) : k = i
        /\ \E j \in 1..(i - 1) :
              q[j].kind = "claimed" /\ q[j].turn = q[i].turn

EvidenceGood(q, r) ==
    \A i \in DOMAIN q : q[i].kind = "settled" =>
        RestsOn(q, r, q[i].turn, q[i].dec)

SpawnsGood(q) ==
    \A i \in DOMAIN q : q[i].kind = "spawned" =>
        \E j \in DOMAIN q : /\ q[j].kind = "claimed"
                            /\ q[j].env = q[i].env /\ q[j].turn = q[i].turn

StreamGood(q, r) == SettlesGood(q) /\ EvidenceGood(q, r) /\ SpawnsGood(q)

(***************************************************************************)
(* What the apply with job j at label l rests on.                          *)
(***************************************************************************)
\* The labels at which an apply performs the effects of a claim.
Effects == {"commit", "cancel", "submit", "evidence", "settle", "settling",
            "recover", "reload", "check", "create", "spawn", "rebind",
            "adopt", "forksubmit"}

\* Effects follow a claim, this apply's own or the one it recovers.
Backed(l, j, q) ==
    /\ l \in {"fold", "witness", "decide", "own"} => ~j.rec
    /\ l \in Effects \/ (l \in {"reserve", "scope"} /\ j.rec) =>
           HasClaim(q, j.env, j.turn, j.dec)

\* Forks and turns take different paths through the labels.
OnPath(l, j) ==
    /\ l \in {"reserve", "cancel", "submit", "evidence", "check"} =>
           j.dec # "fork"
    /\ l \in {"scope", "create", "spawn", "rebind", "adopt", "forksubmit"} =>
           j.dec = "fork"

\* An apply that is about to settle has seen what its settle rests on.
Witnessed(l, j, q, r) ==
    /\ l \in {"settle", "settling"} => RestsOn(q, r, j.turn, j.dec)
    /\ l \in {"rebind", "adopt", "forksubmit"} => HasSpawn(q, j.turn)

\* Up to the tail the settling apply noted there is no settle of its turn.
Fenced(l, j, q) ==
    l = "settling" => /\ j.tail <= Len(q)
                      /\ \A i \in Settles(q, j.turn) : i > j.tail

\* The outcome for which a message of e leaves the queue.
Outcomes(e, C) ==
    \E s \in Threads : \E i \in DOMAIN C[s] :
        /\ C[s][i].kind = "claimed" /\ C[s][i].env = e
        /\ C[s][i].dec = "fork" \/ Settles(C[s], C[s][i].turn) # {}

Concluded(l, j, C) ==
    /\ l = "done" => Outcomes(j.env, C)
    /\ l = "commit" /\ j.dec = "observe" => Settles(C[j.to], j.turn) # {}

Good(l, j, C, T) ==
    /\ Backed(l, j, C[j.to]) /\ OnPath(l, j)
    /\ Witnessed(l, j, C[j.to], T[j.to]) /\ Fenced(l, j, C[j.to])
    /\ Concluded(l, j, C)

SettleInv ==
    /\ \A w \in Workers : Good(pc[w], job[w], control, trace)
    /\ \A s \in Threads : StreamGood(control[s], trace[s])

(***************************************************************************)
(* Streams only grow, and what they say stays said.                        *)
(***************************************************************************)
Grows(q, r) ==
    /\ Len(q) <= Len(r)
    /\ \A i \in DOMAIN q : i \in DOMAIN r /\ r[i] = q[i]

JournalGrows == \A s \in Threads : Grows(control[s], control'[s])
TraceGrows == \A t \in Threads : Grows(trace[t], trace'[t])

LEMMA GrowsSame ==
    ASSUME NEW S, NEW q \in Seq(S)
    PROVE  Grows(q, q)
BY DEF Grows

LEMMA GrowsAppend ==
    ASSUME NEW S, NEW q \in Seq(S), NEW x \in S
    PROVE  Grows(q, Append(q, x))
BY DEF Grows

LEMMA GrowsOn ==
    ASSUME NEW S, NEW q \in Seq(S), NEW r \in Seq(S), NEW p \in Seq(S),
           Grows(q, r), Grows(r, p)
    PROVE  Grows(q, p)
BY DEF Grows

LEMMA ClaimStays ==
    ASSUME NEW q, NEW r, Grows(q, r), NEW e, NEW u, NEW d, HasClaim(q, e, u, d)
    PROVE  HasClaim(r, e, u, d)
BY DEF Grows, HasClaim

LEMMA SettleStays ==
    ASSUME NEW q, NEW r, Grows(q, r), NEW u, Settles(q, u) # {}
    PROVE  Settles(r, u) # {}
BY DEF Grows, Settles

LEMMA SpawnStays ==
    ASSUME NEW q, NEW r, Grows(q, r), NEW u, HasSpawn(q, u)
    PROVE  HasSpawn(r, u)
BY DEF Grows, HasSpawn

LEMMA TurnStays ==
    ASSUME NEW q, NEW r, Grows(q, r), NEW u, HasTurn(q, u)
    PROVE  HasTurn(r, u)
BY DEF Grows, HasTurn

LEMMA RestStays ==
    ASSUME NEW q, NEW p, Grows(q, p), NEW r, NEW s, Grows(r, s), NEW u, NEW d,
           RestsOn(q, r, u, d)
    PROVE  RestsOn(p, s, u, d)
BY SpawnStays, TurnStays DEF RestsOn

LEMMA FenceStays ==
    ASSUME NEW q \in Seq(Events), NEW r \in Seq(Events), Grows(q, r), NEW u,
           NEW n \in Nat, n <= Len(q), \A i \in Settles(q, u) : i > n
    PROVE  n <= Len(r) /\ \A i \in Settles(r, u) : i > n
<1>1. n <= Len(r)
  BY DEF Grows
<1>2. ASSUME NEW i \in Settles(r, u) PROVE i > n
  <2>1. i \in 1..Len(r) /\ r[i].kind = "settled" /\ r[i].turn = u
    BY <1>2 DEF Settles
  <2>2. CASE i \in 1..Len(q)
    <3>1. r[i] = q[i] /\ i \in DOMAIN q
      BY <2>2 DEF Grows
    <3> QED
      BY <2>1, <3>1 DEF Settles
  <2>3. CASE i \notin 1..Len(q)
    BY <2>1, <2>3
  <2> QED
    BY <2>2, <2>3
<1> QED
  BY <1>1, <1>2

LEMMA OutcomeStays ==
    ASSUME NEW C, NEW D, \A s \in Threads : Grows(C[s], D[s]), NEW e,
           Outcomes(e, C)
    PROVE  Outcomes(e, D)
<1>1. PICK s \in Threads : \E i \in DOMAIN C[s] :
         /\ C[s][i].kind = "claimed" /\ C[s][i].env = e
         /\ C[s][i].dec = "fork" \/ Settles(C[s], C[s][i].turn) # {}
  BY DEF Outcomes
<1>2. PICK i \in DOMAIN C[s] :
         /\ C[s][i].kind = "claimed" /\ C[s][i].env = e
         /\ C[s][i].dec = "fork" \/ Settles(C[s], C[s][i].turn) # {}
  BY <1>1
<1>3. i \in DOMAIN D[s] /\ D[s][i] = C[s][i] /\ Grows(C[s], D[s])
  BY <1>2 DEF Grows
<1>4. Settles(C[s], C[s][i].turn) # {} => Settles(D[s], C[s][i].turn) # {}
  BY <1>3, SettleStays
<1> QED
  BY <1>2, <1>3, <1>4 DEF Outcomes

(***************************************************************************)
(* Appends keep a stream good.                                             *)
(***************************************************************************)
\* The positions of a stream after an append.
LEMMA AppendAt ==
    ASSUME NEW S, NEW q \in Seq(S), NEW x \in S
    PROVE  /\ DOMAIN Append(q, x) = 1..(Len(q) + 1) /\ DOMAIN q = 1..Len(q)
           /\ Len(q) \in Nat /\ Append(q, x)[Len(q) + 1] = x
           /\ \A i \in DOMAIN q : Append(q, x)[i] = q[i]
           /\ \A i \in DOMAIN Append(q, x) : i \in DOMAIN q \/ i = Len(q) + 1
OBVIOUS

\* What an appended event must rest on.
Fits(q, r, x) ==
    /\ x.kind = "settled" =>
           /\ Settles(q, x.turn) = {}
           /\ \E j \in DOMAIN q : q[j].kind = "claimed" /\ q[j].turn = x.turn
           /\ RestsOn(q, r, x.turn, x.dec)
    /\ x.kind = "spawned" =>
           \E j \in DOMAIN q : /\ q[j].kind = "claimed"
                               /\ q[j].env = x.env /\ q[j].turn = x.turn

LEMMA AppendGood ==
    ASSUME NEW q \in Seq(Events), NEW x \in Events, NEW r, StreamGood(q, r),
           Fits(q, r, x)
    PROVE  StreamGood(Append(q, x), r)
<1> DEFINE p == Append(q, x)
           n == Len(q) + 1
<1>1. /\ DOMAIN p = 1..n /\ DOMAIN q = 1..Len(q) /\ Len(q) \in Nat
      /\ p[n] = x /\ \A i \in DOMAIN q : p[i] = q[i]
      /\ \A i \in DOMAIN p : i \in DOMAIN q \/ i = n
      /\ n \notin DOMAIN q /\ n \in DOMAIN p /\ n = Len(q) + 1
  BY AppendAt
<1>2. Grows(q, p) /\ DOMAIN q \subseteq DOMAIN p
  BY GrowsAppend DEF Grows
<1> HIDE DEF p, n
<1>3. SettlesGood(p)
  <2> SUFFICES ASSUME NEW i \in DOMAIN p, p[i].kind = "settled"
               PROVE  /\ \A k \in Settles(p, p[i].turn) : k = i
                      /\ \E j \in 1..(i - 1) :
                            p[j].kind = "claimed" /\ p[j].turn = p[i].turn
    BY DEF SettlesGood
  <2>1. CASE i \in DOMAIN q
    <3>1. p[i] = q[i]
      BY <1>1, <2>1
    <3>2. /\ \A k \in Settles(q, q[i].turn) : k = i
          /\ \E j \in 1..(i - 1) :
                q[j].kind = "claimed" /\ q[j].turn = q[i].turn
      BY <2>1, <3>1 DEF StreamGood, SettlesGood
    <3>3. i \in Settles(q, q[i].turn)
      BY <2>1, <3>1 DEF Settles
    <3>4. ASSUME NEW k \in Settles(p, p[i].turn) PROVE k = i
      <4>1. k \in DOMAIN p /\ p[k].kind = "settled" /\ p[k].turn = q[i].turn
        BY <3>1, <3>4 DEF Settles
      <4>2. k # n
        BY <1>1, <3>3, <4>1 DEF Fits
      <4>3. k \in Settles(q, q[i].turn)
        BY <1>1, <4>1, <4>2 DEF Settles
      <4> QED
        BY <3>2, <4>3
    <3>5. PICK j \in 1..(i - 1) :
             q[j].kind = "claimed" /\ q[j].turn = q[i].turn
      BY <3>2
    <3>6. j \in DOMAIN q
      BY <1>1, <2>1, <3>5
    <3> QED
      BY <1>1, <3>1, <3>4, <3>5, <3>6
  <2>2. CASE i = n
    <3>1. p[i] = x
      BY <1>1, <2>2
    <3>2. Settles(q, x.turn) = {}
      BY <3>1 DEF Fits
    <3>3. ASSUME NEW k \in Settles(p, p[i].turn) PROVE k = i
      <4>1. k \in DOMAIN p /\ p[k].kind = "settled" /\ p[k].turn = x.turn
        BY <3>1, <3>3 DEF Settles
      <4>2. k \notin DOMAIN q
        BY <1>1, <3>2, <4>1 DEF Settles
      <4> QED
        BY <1>1, <2>2, <4>1, <4>2
    <3>4. PICK j \in DOMAIN q : q[j].kind = "claimed" /\ q[j].turn = x.turn
      BY <3>1 DEF Fits
    <3>5. j \in 1..(i - 1) /\ p[j] = q[j]
      BY <1>1, <2>2, <3>4
    <3> QED
      BY <3>1, <3>3, <3>4, <3>5
  <2> QED
    BY <1>1, <2>1, <2>2
<1>4. EvidenceGood(p, r)
  <2> SUFFICES ASSUME NEW i \in DOMAIN p, p[i].kind = "settled"
               PROVE  RestsOn(p, r, p[i].turn, p[i].dec)
    BY DEF EvidenceGood
  <2>1. RestsOn(q, r, p[i].turn, p[i].dec)
    <3>1. CASE i \in DOMAIN q
      BY <1>1, <3>1 DEF StreamGood, EvidenceGood
    <3>2. CASE i = n
      BY <1>1, <3>2 DEF Fits
    <3> QED
      BY <1>1, <3>1, <3>2
  <2> QED
    BY <1>2, <2>1, SpawnStays DEF RestsOn
<1>5. SpawnsGood(p)
  <2> SUFFICES ASSUME NEW i \in DOMAIN p, p[i].kind = "spawned"
               PROVE  \E j \in DOMAIN p :
                         /\ p[j].kind = "claimed"
                         /\ p[j].env = p[i].env /\ p[j].turn = p[i].turn
    BY DEF SpawnsGood
  <2>1. \E j \in DOMAIN q : /\ q[j].kind = "claimed"
                            /\ q[j].env = p[i].env /\ q[j].turn = p[i].turn
    <3>1. CASE i \in DOMAIN q
      BY <1>1, <3>1 DEF StreamGood, SpawnsGood
    <3>2. CASE i = n
      BY <1>1, <3>2 DEF Fits
    <3> QED
      BY <1>1, <3>1, <3>2
  <2> QED
    BY <1>1, <1>2, <2>1
<1> QED
  BY <1>3, <1>4, <1>5 DEF StreamGood, p

\* Evidence that grows keeps a stream good.
LEMMA EvidenceGrows ==
    ASSUME NEW q, NEW r, NEW s, Grows(r, s), StreamGood(q, r)
    PROVE  StreamGood(q, s)
BY TurnStays DEF StreamGood, EvidenceGood, RestsOn

(***************************************************************************)
(* The workers a step does not move, and the labels that ask for nothing.  *)
(***************************************************************************)
LEMMA StreamsTyped ==
    ASSUME TypeInv
    PROVE  /\ \A s \in Threads : control[s] \in Seq(Events)
           /\ \A t \in Threads : trace[t] \in Seq(Records)
BY DEF TypeInv, TypeOK

\* Past the witness a worker's stream is a thread.
Pinned == Labels \ {"idle", "fold", "witness", "done"}

LEMMA PinnedJob ==
    ASSUME TypeInv, NEW w \in Workers
    PROVE  /\ pc[w] \in Pinned => job[w].to \in Threads
           /\ pc[w] \in Pinned => job[w].dec \in AllPolicies
           /\ pc[w] # "idle" => job[w].env \in Envelopes
           /\ pc[w] # "idle" => job[w].turn \in {job[w].env} \X Attempts
           /\ job[w].tail \in Nat
<1>1. job[w] \in Jobs
  BY DEF TypeInv, TypeOK
<1>2. job[w].tail \in Nat
  BY <1>1 DEF Jobs
<1> QED
  BY <1>2 DEF TypeInv, JobShape, Pinned

\* What a worker rests on is still there when the journal has grown.
LEMMA GoodGrows ==
    ASSUME NEW l \in Labels, NEW j, NEW C, NEW D, NEW T, NEW U,
           \A s \in Threads : C[s] \in Seq(Events) /\ D[s] \in Seq(Events),
           \A s \in Threads : Grows(C[s], D[s]) /\ Grows(T[s], U[s]),
           l \in Pinned => j.to \in Threads, j.tail \in Nat,
           Good(l, j, C, T)
    PROVE  Good(l, j, D, U)
<1>1. CASE l \in Pinned
  <2>1. /\ Grows(C[j.to], D[j.to]) /\ Grows(T[j.to], U[j.to])
        /\ C[j.to] \in Seq(Events) /\ D[j.to] \in Seq(Events)
    BY <1>1
  <2>2. Backed(l, j, D[j.to])
    BY <2>1, ClaimStays DEF Good, Backed
  <2>3. Witnessed(l, j, D[j.to], U[j.to])
    BY <2>1, RestStays, SpawnStays DEF Good, Witnessed
  <2>4. Fenced(l, j, D[j.to])
    BY <2>1, FenceStays DEF Good, Fenced
  <2>5. Concluded(l, j, D)
    BY <1>1, <2>1, SettleStays DEF Good, Concluded, Pinned
  <2> QED
    BY <2>2, <2>3, <2>4, <2>5 DEF Good
<1>2. CASE l \notin Pinned
  <2>1. l \in {"idle", "fold", "witness", "done"}
    BY <1>2 DEF Pinned
  <2>2. Concluded(l, j, D)
    BY <2>1, OutcomeStays DEF Good, Concluded
  <2> QED
    BY <2>1, <2>2 DEF Good, Backed, OnPath, Witnessed, Fenced, Effects
<1> QED
  BY <1>1, <1>2

\* Labels at which an apply rests on nothing yet.
Open == {"idle", "lock", "await", "read", "append"}

LEMMA OpenGood ==
    ASSUME NEW l \in Open, NEW j, NEW C, NEW T
    PROVE  Good(l, j, C, T)
BY DEF Open, Good, Backed, OnPath, Witnessed, Fenced, Concluded, Effects

\* What of a job the obligations look at.
SameJob(j, k) ==
    /\ j.env = k.env /\ j.to = k.to /\ j.turn = k.turn /\ j.dec = k.dec
    /\ j.tail = k.tail /\ j.rec = k.rec

LEMMA GoodSameJob ==
    ASSUME NEW l, NEW j, NEW k, SameJob(j, k), NEW C, NEW T, Good(l, j, C, T)
    PROVE  Good(l, k, C, T)
BY DEF SameJob, Good, Backed, OnPath, Witnessed, Fenced, Concluded

LEMMA DropKeepsJob ==
    ASSUME NEW j \in Jobs, NEW b
    PROVE  SameJob(j, [j EXCEPT !.holds = b])
BY DEF SameJob, Jobs

\* A worker that neither moves nor changes its job keeps what it rests on.
LEMMA OtherGood ==
    ASSUME TypeInv, TypeInv', SettleInv, JournalGrows, TraceGrows,
           NEW v \in Workers, pc'[v] = pc[v], SameJob(job[v], job'[v])
    PROVE  Good(pc'[v], job'[v], control', trace')
<1>1. Good(pc[v], job[v], control, trace) /\ pc[v] \in Labels
  BY DEF SettleInv, TypeInv, TypeOK
<1>2. \A s \in Threads : control[s] \in Seq(Events) /\ control'[s] \in Seq(Events)
  BY DEF TypeInv, TypeOK
<1>3. \A s \in Threads : /\ Grows(control[s], control'[s])
                         /\ Grows(trace[s], trace'[s])
  BY DEF JournalGrows, TraceGrows
<1>4. (pc[v] \in Pinned => job[v].to \in Threads) /\ job[v].tail \in Nat
  BY PinnedJob
<1>5. Good(pc[v], job[v], control', trace')
  BY <1>1, <1>2, <1>3, <1>4, GoodGrows
<1> QED
  BY <1>5, GoodSameJob

\* A step of worker w.
LEMMA WorkerMoves ==
    ASSUME TypeInv, TypeInv', SettleInv, JournalGrows, TraceGrows,
           NEW w \in Workers,
           \A v \in Workers \ {w} : pc'[v] = pc[v],
           \A v \in Workers \ {w} : SameJob(job[v], job'[v]),
           Good(pc'[w], job'[w], control', trace'),
           \A s \in Threads : StreamGood(control'[s], trace'[s])
    PROVE  SettleInv'
<1>1. ASSUME NEW v \in Workers PROVE Good(pc'[v], job'[v], control', trace')
  <2>1. CASE v = w
    BY <2>1
  <2>2. CASE v # w
    <3>1. pc'[v] = pc[v] /\ SameJob(job[v], job'[v])
      BY <2>2
    <3> QED
      BY <3>1, OtherGood
  <2> QED
    BY <2>1, <2>2
<1> QED
  BY <1>1 DEF SettleInv

LEMMA SameJobSelf == \A j : SameJob(j, j)
BY DEF SameJob

\* Steps that leave the journal and the thread streams alone.
LEMMA StillGrows ==
    ASSUME TypeInv, control' = control, trace' = trace
    PROVE  JournalGrows /\ TraceGrows
BY StreamsTyped, GrowsSame DEF JournalGrows, TraceGrows

LEMMA StillGood ==
    ASSUME SettleInv, control' = control, trace' = trace
    PROVE  \A s \in Threads : StreamGood(control'[s], trace'[s])
BY DEF SettleInv

\* Worker w goes to label l and touches at most its own job.
Moves(w, l) ==
    /\ pc'[w] = l
    /\ \A v \in Workers \ {w} : pc'[v] = pc[v] /\ job'[v] = job[v]

LEMMA QuietMove ==
    ASSUME TypeInv, TypeInv', SettleInv, NEW w \in Workers, NEW l,
           Moves(w, l), control' = control, trace' = trace,
           Good(l, job'[w], control, trace)
    PROVE  SettleInv'
<1>1. JournalGrows /\ TraceGrows
  BY StillGrows
<1>2. \A s \in Threads : StreamGood(control'[s], trace'[s])
  BY StillGood
<1>3. Good(pc'[w], job'[w], control', trace')
  BY DEF Moves
<1>4. /\ \A v \in Workers \ {w} : pc'[v] = pc[v]
      /\ \A v \in Workers \ {w} : SameJob(job[v], job'[v])
  BY SameJobSelf DEF Moves
<1> QED
  BY <1>1, <1>2, <1>3, <1>4, WorkerMoves

LEMMA GotoMoves ==
    ASSUME TypeInv, NEW w \in Workers, NEW l, Goto(w, l), NEW j,
           job' = job \/ job' = [job EXCEPT ![w] = j]
    PROVE  /\ Moves(w, l)
           /\ job' = [job EXCEPT ![w] = j] => job'[w] = j
BY DEF TypeInv, TypeOK, Goto, Moves

LEMMA AbandonGood ==
    ASSUME TypeInv, TypeInv', SettleInv, NEW w \in Workers, Abandon(w),
           control' = control, trace' = trace
    PROVE  SettleInv'
<1>1. Moves(w, "idle")
  BY DEF Abandon, Goto, Moves, TypeInv, TypeOK
<1>2. Good("idle", job'[w], control, trace)
  BY OpenGood DEF Open
<1> QED
  BY <1>1, <1>2, QuietMove

(***************************************************************************)
(* The outcome fold and what is done with it.                              *)
(***************************************************************************)
\* A found outcome is a claim of the envelope on a stream, settled or not.
Found(e, found) ==
    /\ found.at \in Threads
    /\ HasClaim(control[found.at], e, found.turn, found.dec)
    /\ found.state = "settled" => Settles(control[found.at], found.turn) # {}
    /\ found.state = "claimed" => Settles(control[found.at], found.turn) = {}

LEMMA FoldFound ==
    ASSUME NEW e, NEW S \in SUBSET Threads,
           OutcomeFold(e, S).state \in {"claimed", "settled"}
    PROVE  OutcomeFold(e, S).at \in S /\ Found(e, OutcomeFold(e, S))
<1> DEFINE claims == ClaimsOn(S, e)
           c == CHOOSE x \in claims : TRUE
           event == control[c[1]][c[2]]
<1>1. claims # {} /\ ~Corrupt(S)
  BY DEF OutcomeFold, NoOutcome
<1>2. c \in claims
  BY <1>1
<1>3. PICK s \in S : c \in {s} \X EventsOf(s, "claimed", e)
  BY <1>2 DEF ClaimsOn
<1>4. c[1] = s /\ c[2] \in EventsOf(s, "claimed", e)
  BY <1>3
<1>5. OutcomeFold(e, S) =
         [state |-> IF SettlesOf(c[1], event.turn) = {}
                    THEN "claimed" ELSE "settled",
          at |-> c[1], turn |-> event.turn, dec |-> event.dec]
  BY <1>1 DEF OutcomeFold
<1>6. c[2] \in DOMAIN control[s] /\ event.kind = "claimed" /\ event.env = e
  BY <1>4 DEF EventsOf
<1>7. HasClaim(control[s], e, event.turn, event.dec)
  BY <1>4, <1>6 DEF HasClaim
<1>8. SettlesOf(s, event.turn) = Settles(control[s], event.turn)
  BY DEF SettlesOf, Settles
<1> HIDE DEF claims, c, event
<1>9. /\ OutcomeFold(e, S).at = s /\ OutcomeFold(e, S).turn = event.turn
      /\ OutcomeFold(e, S).dec = event.dec
      /\ OutcomeFold(e, S).state = IF SettlesOf(s, event.turn) = {}
                                   THEN "claimed" ELSE "settled"
  BY <1>4, <1>5
<1> QED
  BY <1>7, <1>8, <1>9 DEF Found

LEMMA OutcomeFound ==
    ASSUME TypeInv, NEW e \in Envelopes,
           IngressOutcomeOf(e).state \in {"claimed", "settled"}
    PROVE  Found(e, IngressOutcomeOf(e))
<1>1. {route} \ {None} \in SUBSET Threads
  BY DEF TypeInv, TypeOK
<1>2. OwnerStreams(e) \in SUBSET Threads
  BY OwnerStreamsTyped DEF TypeInv
<1>3. \/ IngressOutcomeOf(e) = OutcomeFold(e, OwnerStreams(e))
      \/ IngressOutcomeOf(e) = OutcomeFold(e, {route} \ {None})
  BY DEF IngressOutcomeOf
<1> QED
  BY <1>1, <1>2, <1>3, FoldFound

\* A settled claim, or a fork claim, is an outcome to complete for.
LEMMA FoundOutcome ==
    ASSUME NEW e, NEW found, Found(e, found),
           found.state = "settled" \/ found.dec = "fork"
    PROVE  Outcomes(e, control)
<1>1. PICK i \in DOMAIN control[found.at] :
         /\ control[found.at][i].kind = "claimed"
         /\ control[found.at][i].env = e
         /\ control[found.at][i].turn = found.turn
         /\ control[found.at][i].dec = found.dec
  BY DEF Found, HasClaim
<1> QED
  BY <1>1 DEF Found, Outcomes

LEMMA ResumeGood ==
    ASSUME TypeInv, TypeInv', SettleInv, NEW w \in Workers, NEW found,
           NEW loser, Resume(w, found, loser), Found(job[w].env, found),
           control' = control, trace' = trace
    PROVE  SettleInv'
<1>0. job[w] \in Jobs
  BY DEF TypeInv, TypeOK
<1>1. CASE /\ found.state = "settled" \/ found.dec = "fork"
           /\ Goto(w, "done") /\ job' = [job EXCEPT ![w].holds = FALSE]
  <2>1. Moves(w, "done") /\ job'[w] = [job[w] EXCEPT !.holds = FALSE]
    BY <1>1, GotoMoves
  <2>2. job'[w].env = job[w].env
    BY <1>0, <2>1 DEF Jobs
  <2>3. Outcomes(job'[w].env, control)
    BY <1>1, <2>2, FoundOutcome
  <2>4. Good("done", job'[w], control, trace)
    BY <2>3 DEF Good, Backed, OnPath, Witnessed, Fenced, Concluded, Effects
  <2> QED
    BY <2>1, <2>4, QuietMove
<1>2. CASE /\ Goto(w, "recover")
           /\ job' = [job EXCEPT ![w] =
                         [@ EXCEPT !.to = found.at, !.turn = found.turn,
                                   !.dec = found.dec, !.holds = FALSE,
                                   !.rec = TRUE]]
  <2>1. /\ Moves(w, "recover")
        /\ job'[w] = [job[w] EXCEPT !.to = found.at, !.turn = found.turn,
                                    !.dec = found.dec, !.holds = FALSE,
                                    !.rec = TRUE]
    BY <1>2, GotoMoves
  <2>2. /\ job'[w].env = job[w].env /\ job'[w].to = found.at
        /\ job'[w].turn = found.turn /\ job'[w].dec = found.dec
    BY <1>0, <2>1 DEF Jobs
  <2>3. HasClaim(control[job'[w].to], job'[w].env, job'[w].turn, job'[w].dec)
    BY <2>2 DEF Found
  <2>4. Good("recover", job'[w], control, trace)
    BY <2>3 DEF Good, Backed, OnPath, Witnessed, Fenced, Concluded, Effects
  <2> QED
    BY <2>1, <2>4, QuietMove
<1> QED
  BY <1>1, <1>2 DEF Resume

(***************************************************************************)
(* Steps that extend one stream.                                           *)
(***************************************************************************)
LEMMA StreamMove ==
    ASSUME TypeInv, TypeInv', SettleInv, NEW w \in Workers, NEW l,
           Moves(w, l), NEW s \in Threads, NEW q \in Seq(Events),
           control' = [control EXCEPT ![s] = q], trace' = trace,
           Grows(control[s], q), StreamGood(q, trace[s]),
           Good(l, job'[w], control', trace)
    PROVE  SettleInv'
<1>0. control \in [Threads -> Seq(Events)] /\ trace \in [Threads -> Seq(Records)]
  BY DEF TypeInv, TypeOK
<1>1. ASSUME NEW t \in Threads
      PROVE  /\ Grows(control[t], control'[t]) /\ Grows(trace[t], trace'[t])
             /\ StreamGood(control'[t], trace'[t])
  <2>1. Grows(trace[t], trace'[t])
    BY <1>0, GrowsSame
  <2>2. CASE t = s
    <3>1. control'[t] = q
      BY <1>0, <2>2
    <3> QED
      BY <2>1, <2>2, <3>1
  <2>3. CASE t # s
    <3>1. control'[t] = control[t] /\ control[t] \in Seq(Events)
      BY <1>0, <2>3
    <3>2. StreamGood(control[t], trace[t])
      BY DEF SettleInv
    <3> QED
      BY <2>1, <3>1, <3>2, GrowsSame
  <2> QED
    BY <2>2, <2>3
<1>2. JournalGrows /\ TraceGrows
  BY <1>1 DEF JournalGrows, TraceGrows
<1>3. Good(pc'[w], job'[w], control', trace')
  BY DEF Moves
<1>4. /\ \A v \in Workers \ {w} : pc'[v] = pc[v]
      /\ \A v \in Workers \ {w} : SameJob(job[v], job'[v])
  BY SameJobSelf DEF Moves
<1> QED
  BY <1>1, <1>2, <1>3, <1>4, WorkerMoves

LEMMA AppendMove ==
    ASSUME TypeInv, TypeInv', SettleInv, NEW w \in Workers, NEW l,
           Moves(w, l), NEW s \in Threads, NEW x \in Events,
           control' = [control EXCEPT ![s] = Append(@, x)], trace' = trace,
           Fits(control[s], trace[s], x),
           Good(l, job'[w], control', trace)
    PROVE  SettleInv'
<1>1. control[s] \in Seq(Events) /\ StreamGood(control[s], trace[s])
  BY StreamsTyped DEF SettleInv
<1>2. Append(control[s], x) \in Seq(Events)
  BY <1>1
<1>3. Grows(control[s], Append(control[s], x))
  BY <1>1, GrowsAppend
<1>4. StreamGood(Append(control[s], x), trace[s])
  BY <1>1, AppendGood
<1>5. control' = [control EXCEPT ![s] = Append(control[s], x)]
  OBVIOUS
<1> QED
  BY <1>2, <1>3, <1>4, <1>5, StreamMove

\* Receipts and decisions rest on nothing.
LEMMA PlainFits ==
    ASSUME NEW q, NEW r, NEW x, x.kind \notin {"settled", "spawned"}
    PROVE  Fits(q, r, x)
BY DEF Fits

(***************************************************************************)
(* Before the claim.                                                       *)
(***************************************************************************)
LEMMA QueueGood ==
    ASSUME TypeInv, TypeInv', SettleInv, NEW w \in Workers,
           (\E e \in Envelopes : Lease(w, e)) \/ Complete(w)
    PROVE  SettleInv'
<1>1. ASSUME NEW e \in Envelopes, Lease(w, e) PROVE SettleInv'
  <2> DEFINE n == queue[e].attempt + 1
             j == [IdleJob EXCEPT !.env = e, !.att = n, !.turn = <<e, n>>]
  <2>1. Goto(w, "fold") /\ job' = [job EXCEPT ![w] = j]
    BY <1>1 DEF Lease
  <2>2. j.rec = FALSE
    BY DEF IdleJob
  <2> HIDE DEF j
  <2>3. Moves(w, "fold") /\ job'[w] = j
    BY <2>1, GotoMoves
  <2>4. Good("fold", j, control, trace)
    BY <2>2 DEF Good, Backed, OnPath, Witnessed, Fenced, Concluded, Effects
  <2>5. control' = control /\ trace' = trace
    BY <1>1 DEF Lease
  <2> QED
    BY <2>3, <2>4, <2>5, QuietMove
<1>2. CASE Complete(w)
  <2>1. Moves(w, "idle") /\ control' = control /\ trace' = trace
    BY <1>2, GotoMoves DEF Complete
  <2>2. Good("idle", job'[w], control, trace)
    BY OpenGood DEF Open
  <2> QED
    BY <2>1, <2>2, QuietMove
<1> QED
  BY <1>1, <1>2

LEMMA FoldOutcomeGood ==
    ASSUME TypeInv, TypeInv', SettleInv, NEW w \in Workers, FoldOutcome(w)
    PROVE  SettleInv'
<1> DEFINE found == IngressOutcomeOf(job[w].env)
<1>1. control' = control /\ trace' = trace /\ pc[w] = "fold"
  BY DEF FoldOutcome
<1>2. CASE Goto(w, "witness") /\ job' = job
  <2>1. Moves(w, "witness") /\ job'[w] = job[w]
    BY <1>2, GotoMoves
  <2>2. Good("fold", job[w], control, trace)
    BY <1>1 DEF SettleInv
  <2>3. Good("witness", job'[w], control, trace)
    BY <2>1, <2>2 DEF Good, Backed, OnPath, Witnessed, Fenced, Concluded,
                      Effects
  <2> QED
    BY <1>1, <2>1, <2>3, QuietMove
<1>3. CASE Abandon(w)
  BY <1>1, <1>3, AbandonGood
<1>4. CASE /\ found.state \in {"claimed", "settled"}
           /\ Resume(w, found, job[w].att = 1)
  <2>1. job[w].env \in Envelopes
    BY <1>1, PinnedJob
  <2>2. Found(job[w].env, found)
    BY <1>4, <2>1, OutcomeFound
  <2> HIDE DEF found
  <2> QED
    BY <1>1, <1>4, <2>2, ResumeGood
<1> QED
  BY <1>2, <1>3, <1>4 DEF FoldOutcome

LEMMA WitnessGood ==
    ASSUME TypeInv, TypeInv', SettleInv, NEW w \in Workers, Witness(w)
    PROVE  SettleInv'
<1> DEFINE e == job[w].env
           t == IF route = None THEN Root ELSE route
           x == Event("received", e, None, None)
           j == [job[w] EXCEPT !.to = t, !.dec = Decide(e)]
<1>1. e \in Envelopes /\ t \in Threads /\ job[w] \in Jobs
  BY DEF TypeInv, TypeOK, JobShape, Witness, Threads
<1>2. x \in Events /\ x.kind = "received"
  BY <1>1, EventTyped DEF EventKinds, MaybeTurns, Decisions, Event
<1>3. Moves(w, "decide") /\ job'[w] = j
  BY GotoMoves DEF Witness
<1>4. Good("witness", job[w], control, trace)
  BY DEF SettleInv, Witness
<1>5. j.rec = job[w].rec
  BY <1>1 DEF Jobs
<1>6. \A C : Good("decide", j, C, trace)
  BY <1>4, <1>5 DEF Good, Backed, OnPath, Witnessed, Fenced, Concluded,
                    Effects
<1>7. control' = control \/ control' = [control EXCEPT ![t] = Append(@, x)]
  BY DEF Witness
<1>8. trace' = trace
  BY DEF Witness
<1> HIDE DEF t, x, j
<1>9. Fits(control[t], trace[t], x)
  BY <1>2, PlainFits
<1> QED
  BY <1>1, <1>2, <1>3, <1>6, <1>7, <1>8, <1>9, QuietMove, AppendMove

LEMMA RecordDecisionGood ==
    ASSUME TypeInv, TypeInv', SettleInv, NEW w \in Workers, RecordDecision(w)
    PROVE  SettleInv'
<1> DEFINE t == job[w].to
           x == Event("decided", job[w].env, None, job[w].dec)
<1>1. job[w].env \in Envelopes /\ t \in Threads /\ job[w].dec \in AllPolicies
  BY DEF TypeInv, JobShape, RecordDecision
<1>2. x \in Events /\ x.kind = "decided"
  BY <1>1, EventTyped DEF EventKinds, MaybeTurns, Decisions, Event
<1>3. trace' = trace
  BY DEF RecordDecision
<1>4. CASE Abandon(w) /\ control' = control
  BY <1>3, <1>4, AbandonGood
<1>5. CASE /\ Goto(w, "own") /\ job' = job
           /\ \/ control' = control
              \/ control' = [control EXCEPT ![t] = Append(@, x)]
  <2>1. Moves(w, "own") /\ job'[w] = job[w]
    BY <1>5, GotoMoves
  <2>2. Good("decide", job[w], control, trace)
    BY DEF SettleInv, RecordDecision
  <2>3. \A C : Good("own", job[w], C, trace)
    BY <2>2 DEF Good, Backed, OnPath, Witnessed, Fenced, Concluded, Effects
  <2> HIDE DEF t, x
  <2>4. Fits(control[t], trace[t], x)
    BY <1>2, PlainFits
  <2> QED
    BY <1>1, <1>2, <1>3, <1>5, <2>1, <2>3, <2>4, QuietMove, AppendMove
<1> QED
  BY <1>4, <1>5 DEF RecordDecision

LEMMA RecordOwnershipGood ==
    ASSUME TypeInv, TypeInv', SettleInv, NEW w \in Workers, RecordOwnership(w)
    PROVE  SettleInv'
<1>1. /\ control' = control /\ trace' = trace /\ job' = job
      /\ Good("own", job[w], control, trace)
  BY DEF RecordOwnership, SettleInv
<1>2. PICK l \in {"scope", "lock", "reserve"} :
         /\ Goto(w, l)
         /\ l = "scope" => job[w].dec = "fork"
         /\ l = "reserve" => job[w].dec # "fork"
  BY DEF RecordOwnership
<1>3. Moves(w, l) /\ job'[w] = job[w]
  BY <1>1, <1>2, GotoMoves
<1>4. ~job[w].rec
  BY <1>1 DEF Good, Backed
<1>5. Good(l, job[w], control, trace)
  BY <1>2, <1>4 DEF Good, Backed, OnPath, Witnessed, Fenced, Concluded,
                    Effects
<1> QED
  BY <1>1, <1>3, <1>5, QuietMove

LEMMA ReserveGood ==
    ASSUME TypeInv, TypeInv', SettleInv, NEW w \in Workers, Reserve(w)
    PROVE  SettleInv'
<1>1. control' = control /\ trace' = trace /\ pc[w] = "reserve"
  BY DEF Reserve
<1>2. CASE Abandon(w)
  BY <1>1, <1>2, AbandonGood
<1>3. CASE /\ Goto(w, IF job[w].rec THEN "submit" ELSE "lock")
           /\ job' \in {job, [job EXCEPT ![w].holds = TRUE]}
  <2>1. Moves(w, IF job[w].rec THEN "submit" ELSE "lock")
    BY <1>3, GotoMoves
  <2>2. job[w] \in Jobs /\ job \in [Workers -> Jobs]
    BY DEF TypeInv, TypeOK
  <2>3. job'[w] \in {job[w], [job[w] EXCEPT !.holds = TRUE]}
    BY <1>3, <2>2
  <2>4. SameJob(job[w], job'[w])
    BY <2>2, <2>3, DropKeepsJob, SameJobSelf
  <2>5. Good("reserve", job[w], control, trace)
    BY <1>1 DEF SettleInv
  <2>6. CASE job[w].rec
    <3>1. Good("submit", job[w], control, trace)
      BY <2>5, <2>6 DEF Good, Backed, OnPath, Witnessed, Fenced, Concluded,
                        Effects
    <3>2. Good("submit", job'[w], control, trace)
      BY <2>4, <3>1, GoodSameJob
    <3>3. Moves(w, "submit")
      BY <2>1, <2>6
    <3> QED
      BY <1>1, <3>2, <3>3, QuietMove
  <2>7. CASE ~job[w].rec
    <3>1. Good("lock", job'[w], control, trace)
      BY OpenGood DEF Open
    <3>2. Moves(w, "lock")
      BY <2>1, <2>7
    <3> QED
      BY <1>1, <3>1, <3>2, QuietMove
  <2> QED
    BY <2>6, <2>7
<1> QED
  BY <1>2, <1>3 DEF Reserve

(***************************************************************************)
(* The claim.                                                              *)
(***************************************************************************)
LEMMA LockAdmissionGood ==
    ASSUME TypeInv, TypeInv', SettleInv, NEW w \in Workers, LockAdmission(w)
    PROVE  SettleInv'
<1> DEFINE e == job[w].env
           found == OutcomeFold(e, OwnerStreams(e))
<1>1. control' = control /\ trace' = trace /\ pc[w] = "lock"
  BY DEF LockAdmission
<1>2. CASE Abandon(w)
  BY <1>1, <1>2, AbandonGood
<1>3. CASE /\ found.state \in {"claimed", "settled"}
           /\ Resume(w, found, job[w].dec = "fork")
  <2>1. e \in Envelopes
    BY <1>1, PinnedJob
  <2>2. OwnerStreams(e) \in SUBSET Threads
    BY <2>1, OwnerStreamsTyped DEF TypeInv
  <2>3. Found(e, found)
    BY <1>3, <2>2, FoldFound
  <2> HIDE DEF found
  <2> QED
    BY <1>1, <1>3, <2>3, ResumeGood
<1>4. CASE \E l \in {"read", "await"} :
              /\ Goto(w, l)
              /\ \/ job' = job
                 \/ job' = [job EXCEPT ![w].seen = OwnerStreams(e)]
  <2>1. PICK l \in {"read", "await"} : Moves(w, l)
    BY <1>4, GotoMoves
  <2>2. Good(l, job'[w], control, trace)
    BY OpenGood DEF Open
  <2> QED
    BY <1>1, <2>1, <2>2, QuietMove
<1> QED
  BY <1>2, <1>3, <1>4 DEF LockAdmission

LEMMA AwaitOutcomeGood ==
    ASSUME TypeInv, TypeInv', SettleInv, NEW w \in Workers, AwaitOutcome(w)
    PROVE  SettleInv'
<1> DEFINE found == OutcomeFold(job[w].env, job[w].seen)
<1>1. control' = control /\ trace' = trace /\ pc[w] = "await"
  BY DEF AwaitOutcome
<1>2. CASE Abandon(w)
  BY <1>1, <1>2, AbandonGood
<1>3. CASE /\ found.state \in {"claimed", "settled"}
           /\ Resume(w, found, job[w].dec = "fork")
  <2>1. job[w] \in Jobs
    BY DEF TypeInv, TypeOK
  <2>2. job[w].seen \in SUBSET Threads
    BY <2>1 DEF Jobs
  <2>3. Found(job[w].env, found)
    BY <1>3, <2>2, FoldFound
  <2> HIDE DEF found
  <2> QED
    BY <1>1, <1>3, <2>3, ResumeGood
<1> QED
  BY <1>2, <1>3 DEF AwaitOutcome

LEMMA ReadClaimStreamGood ==
    ASSUME TypeInv, TypeInv', SettleInv, NEW w \in Workers, ReadClaimStream(w)
    PROVE  SettleInv'
<1> DEFINE found == OutcomeFold(job[w].env, {job[w].to})
<1>1. control' = control /\ trace' = trace /\ pc[w] = "read"
  BY DEF ReadClaimStream
<1>2. CASE Abandon(w)
  BY <1>1, <1>2, AbandonGood
<1>3. CASE /\ found.state \in {"claimed", "settled"}
           /\ Resume(w, found, job[w].dec = "fork")
  <2>1. {job[w].to} \in SUBSET Threads
    BY <1>1, PinnedJob DEF Pinned, Labels
  <2>2. Found(job[w].env, found)
    BY <1>3, <2>1, FoldFound
  <2> HIDE DEF found
  <2> QED
    BY <1>1, <1>3, <2>2, ResumeGood
<1>4. CASE /\ Goto(w, "append")
           /\ job' = [job EXCEPT ![w].tail = Len(control[job[w].to])]
  <2>1. Moves(w, "append")
    BY <1>4, GotoMoves
  <2>2. Good("append", job'[w], control, trace)
    BY OpenGood DEF Open
  <2> QED
    BY <1>1, <2>1, <2>2, QuietMove
<1> QED
  BY <1>2, <1>3, <1>4 DEF ReadClaimStream

\* An envelope without a claim has no settle and no spawn on any stream.
LEMMA NothingBeforeClaim ==
    ASSUME TypeInv, SettleInv, NEW e \in Envelopes, ClaimsOn(Threads, e) = {},
           NEW s \in Threads
    PROVE  /\ \A u \in {e} \X Attempts : Settles(control[s], u) = {}
           /\ Spawns(control[s], e) = {}
<1>1. \A i \in DOMAIN control[s] :
         control[s][i].kind = "claimed" => control[s][i].env # e
  BY ClaimPositions
<1>2. control[s] \in Seq(Events) /\ StreamGood(control[s], trace[s])
  BY StreamsTyped DEF SettleInv
<1>3. ASSUME NEW u \in {e} \X Attempts, NEW i \in Settles(control[s], u)
      PROVE  FALSE
  <2>1. /\ i \in 1..Len(control[s]) /\ Len(control[s]) \in Nat
        /\ DOMAIN control[s] = 1..Len(control[s])
        /\ control[s][i].kind = "settled" /\ control[s][i].turn = u
    BY <1>2, <1>3 DEF Settles
  <2>2. PICK j \in 1..(i - 1) :
           control[s][j].kind = "claimed" /\ control[s][j].turn = u
    BY <1>2, <2>1 DEF StreamGood, SettlesGood
  <2>3. j \in DOMAIN control[s]
    BY <2>1, <2>2
  <2>4. control[s][j].turn \in {control[s][j].env} \X Attempts
    BY <2>2, <2>3 DEF TypeInv, ClaimShape, Shaped
  <2>5. control[s][j].env = e
    BY <2>2, <2>4
  <2> QED
    BY <1>1, <2>2, <2>3, <2>5
<1>4. Spawns(control[s], e) = {}
  BY <1>1, <1>2 DEF Spawns, StreamGood, SpawnsGood
<1> QED
  BY <1>3, <1>4

LEMMA AppendClaimGood ==
    ASSUME TypeInv, TypeInv', ClaimCore, SettleInv, NEW w \in Workers,
           AppendClaim(w)
    PROVE  SettleInv'
<1>1. /\ trace' = trace /\ job' = job /\ pc[w] = "append"
  BY DEF AppendClaim
<1>2. CASE Goto(w, "read") /\ control' = control
  <2>1. Moves(w, "read")
    BY <1>1, <1>2, GotoMoves
  <2>2. Good("read", job'[w], control, trace)
    BY OpenGood DEF Open
  <2> QED
    BY <1>1, <1>2, <2>1, <2>2, QuietMove
<1>3. CASE /\ Goto(w, "commit")
           /\ control' = [control EXCEPT ![job[w].to] = ClaimBatch(w)]
  <2> DEFINE t == job[w].to
             q == control[t]
             c == Event("claimed", job[w].env, job[w].turn, job[w].dec)
             p == Append(q, c)
             s == Event("settled", job[w].env, job[w].turn, job[w].dec)
  <2>1. /\ job[w].env \in Envelopes /\ t \in Threads
        /\ job[w].turn \in {job[w].env} \X Attempts
        /\ job[w].dec \in AllPolicies
    BY <1>1, PinnedJob DEF Pinned, Labels
  <2>2. job[w].turn \in MaybeTurns /\ job[w].dec \in Decisions
    BY <2>1 DEF MaybeTurns, Turns, Decisions
  <2>3. c \in Events /\ s \in Events
    BY <2>1, <2>2, EventTyped DEF EventKinds
  <2>4. /\ c.kind = "claimed" /\ c.env = job[w].env /\ c.turn = job[w].turn
        /\ c.dec = job[w].dec
        /\ s.kind = "settled" /\ s.turn = job[w].turn /\ s.dec = job[w].dec
    BY DEF Event
  <2>5. ClaimBatch(w) = IF job[w].dec = "observe" THEN Append(p, s) ELSE p
    BY DEF ClaimBatch
  <2>6. q \in Seq(Events) /\ StreamGood(q, trace[t])
    BY <2>1, StreamsTyped DEF SettleInv
  <2>7. ClaimsOn(Threads, job[w].env) = {}
    BY <1>1, DisciplinePerWorker DEF ClaimCore, Disciplined
  <2>8. Settles(q, job[w].turn) = {}
    BY <2>1, <2>7, NothingBeforeClaim
  <2>9. /\ p \in Seq(Events) /\ DOMAIN p = 1..(Len(q) + 1)
        /\ p[Len(q) + 1] = c /\ Len(q) + 1 \in DOMAIN p
        /\ \A i \in DOMAIN q : p[i] = q[i]
        /\ \A i \in DOMAIN p : i \in DOMAIN q \/ i = Len(q) + 1
    BY <2>3, <2>6, AppendAt
  <2>10. control \in [Threads -> Seq(Events)]
    BY DEF TypeInv, TypeOK
  <2> HIDE DEF q, c, p, s
  <2>11. Fits(q, trace[t], c)
    BY <2>4, PlainFits
  <2>12. StreamGood(p, trace[t]) /\ Grows(q, p)
    BY <2>3, <2>6, <2>11, AppendGood, GrowsAppend DEF p
  <2>13. HasClaim(p, job[w].env, job[w].turn, job[w].dec)
    BY <2>4, <2>9 DEF HasClaim
  <2>14. Settles(p, job[w].turn) = {}
    BY <2>4, <2>8, <2>9 DEF Settles
  <2>15. Moves(w, "commit") /\ job'[w] = job[w]
    BY <1>1, <1>3, GotoMoves
  <2>16. CASE job[w].dec # "observe"
    <3>1. control' = [control EXCEPT ![t] = p]
      BY <1>3, <2>5, <2>16
    <3>2. control'[t] = p
      BY <2>1, <2>10, <3>1
    <3>3. Good("commit", job[w], control', trace)
      BY <2>13, <2>16, <3>2
      DEF Good, Backed, OnPath, Witnessed, Fenced, Concluded
    <3> QED
      BY <1>1, <2>1, <2>9, <2>12, <2>15, <3>1, <3>3, StreamMove DEF q
  <2>17. CASE job[w].dec = "observe"
    <3> DEFINE b == Append(p, s)
    <3>1. control' = [control EXCEPT ![t] = b]
      BY <1>3, <2>5, <2>17
    <3>2. control'[t] = b
      BY <2>1, <2>10, <3>1
    <3>3. /\ b \in Seq(Events) /\ b[Len(p) + 1] = s
          /\ Len(p) + 1 \in DOMAIN b
      BY <2>3, <2>9, AppendAt
    <3>4. Fits(p, trace[t], s)
      <4>1. RestsOn(p, trace[t], s.turn, s.dec)
        BY <2>4, <2>17 DEF RestsOn
      <4>2. \E j \in DOMAIN p : p[j].kind = "claimed" /\ p[j].turn = s.turn
        BY <2>4, <2>9
      <4> QED
        BY <2>4, <2>14, <4>1, <4>2 DEF Fits
    <3>5. StreamGood(b, trace[t]) /\ Grows(p, b)
      BY <2>3, <2>9, <2>12, <3>4, AppendGood, GrowsAppend
    <3>6. Grows(q, b)
      BY <2>6, <2>9, <2>12, <3>3, <3>5, GrowsOn
    <3>7. HasClaim(b, job[w].env, job[w].turn, job[w].dec)
      BY <2>13, <3>5, ClaimStays
    <3>8. Settles(b, job[w].turn) # {}
      BY <2>4, <3>3 DEF Settles
    <3> HIDE DEF b
    <3>9. Good("commit", job[w], control', trace)
      BY <3>2, <3>7, <3>8
      DEF Good, Backed, OnPath, Witnessed, Fenced, Concluded
    <3> QED
      BY <1>1, <2>1, <2>15, <3>1, <3>3, <3>5, <3>6, <3>9, StreamMove DEF q
  <2> QED
    BY <2>16, <2>17
<1> QED
  BY <1>2, <1>3 DEF AppendClaim

(***************************************************************************)
(* Effects, evidence and settle.                                           *)
(***************************************************************************)
\* A claim that was made stays good for the next effect of its apply.
LEMMA BackedMove ==
    ASSUME TypeInv, TypeInv', SettleInv, NEW w \in Workers,
           pc[w] \in Effects, NEW l \in Effects \ {"commit"}, Goto(w, l),
           job' = job, control' = control, trace' = trace,
           OnPath(l, job[w]), l # "settling",
           Witnessed(l, job[w], control[job[w].to], trace[job[w].to])
    PROVE  SettleInv'
<1>1. Moves(w, l) /\ job'[w] = job[w]
  BY GotoMoves
<1>2. Good(pc[w], job[w], control, trace)
  BY DEF SettleInv
<1>3. Backed(l, job[w], control[job[w].to])
  BY <1>2 DEF Good, Backed, Effects
<1>4. Good(l, job[w], control, trace)
  BY <1>3 DEF Good, Fenced, Concluded, Effects
<1> QED
  BY <1>1, <1>4, QuietMove

LEMMA CommitAdmissionGood ==
    ASSUME TypeInv, TypeInv', SettleInv, NEW w \in Workers, CommitAdmission(w)
    PROVE  SettleInv'
<1>1. /\ control' = control /\ trace' = trace /\ job' = job
      /\ pc[w] = "commit" /\ pc[w] \in Effects
  BY DEF CommitAdmission, Effects
<1>2. Good("commit", job[w], control, trace)
  BY <1>1 DEF SettleInv
<1>3. CASE job[w].dec = "observe"
  <2>1. Moves(w, "done") /\ job'[w] = job[w]
    BY <1>1, <1>3, GotoMoves DEF CommitAdmission
  <2>2. /\ HasClaim(control[job[w].to], job[w].env, job[w].turn, job[w].dec)
        /\ Settles(control[job[w].to], job[w].turn) # {}
    BY <1>2, <1>3 DEF Good, Backed, Concluded, Effects
  <2>3. job[w].to \in Threads
    BY <1>1, PinnedJob DEF Pinned, Labels
  <2>4. Outcomes(job[w].env, control)
    BY <2>2, <2>3 DEF Outcomes, HasClaim
  <2>5. Good("done", job[w], control, trace)
    BY <2>4 DEF Good, Backed, OnPath, Witnessed, Fenced, Concluded, Effects
  <2> QED
    BY <1>1, <2>1, <2>5, QuietMove
<1>4. CASE job[w].dec # "observe"
  <2>1. PICK l \in {"cancel", "create", "submit"} :
           /\ Goto(w, l)
           /\ l = "create" => job[w].dec = "fork"
           /\ l # "create" => job[w].dec # "fork"
    BY <1>4 DEF CommitAdmission
  <2>2. /\ l \in Effects \ {"commit"} /\ l # "settling"
        /\ OnPath(l, job[w])
        /\ Witnessed(l, job[w], control[job[w].to], trace[job[w].to])
    BY <2>1 DEF Effects, OnPath, Witnessed
  <2> QED
    BY <1>1, <2>1, <2>2, BackedMove
<1> QED
  BY <1>3, <1>4

LEMMA EffectsGood ==
    ASSUME TypeInv, TypeInv', SettleInv, NEW w \in Workers,
           \/ CancelActive(w) \/ AwaitEvidence(w) \/ Recover(w)
           \/ CreateChild(w) \/ RebindRoute(w)
    PROVE  SettleInv'
<1>1. /\ control' = control /\ trace' = trace /\ job' = job
      /\ Good(pc[w], job[w], control, trace)
  BY DEF CancelActive, AwaitEvidence, Recover, CreateChild, RebindRoute,
         SettleInv
<1>2. PICK l : Goto(w, l) /\ l = pc'[w]
  BY DEF CancelActive, AwaitEvidence, Recover, CreateChild, RebindRoute, Goto,
         TypeInv, TypeOK
<1>3. CASE CancelActive(w)
  <2>1. pc[w] = "cancel" /\ l \in {"check", "submit"}
    BY <1>2, <1>3 DEF CancelActive, Goto, TypeInv, TypeOK
  <2>2. /\ l \in Effects \ {"commit"} /\ l # "settling" /\ pc[w] \in Effects
        /\ OnPath(l, job[w])
        /\ Witnessed(l, job[w], control[job[w].to], trace[job[w].to])
    BY <1>1, <2>1 DEF Effects, OnPath, Witnessed, Good
  <2> QED
    BY <1>1, <1>2, <2>2, BackedMove
<1>4. CASE AwaitEvidence(w)
  <2>1. /\ pc[w] = "evidence" /\ l = "settle"
        /\ HasEvidence(job[w].to, job[w].turn)
    BY <1>2, <1>4 DEF AwaitEvidence, Goto, TypeInv, TypeOK
  <2>2. HasTurn(trace[job[w].to], job[w].turn)
    BY <2>1 DEF HasEvidence, HasTurn
  <2>3. job[w].dec # "fork"
    BY <1>1, <2>1 DEF Good, OnPath
  <2>4. /\ l \in Effects \ {"commit"} /\ l # "settling" /\ pc[w] \in Effects
        /\ OnPath(l, job[w])
        /\ Witnessed(l, job[w], control[job[w].to], trace[job[w].to])
    BY <2>1, <2>2, <2>3 DEF Effects, OnPath, Witnessed, RestsOn
  <2> QED
    BY <1>1, <1>2, <2>4, BackedMove
<1>5. CASE Recover(w)
  <2>1. /\ pc[w] = "recover" /\ l \in {"reload", "scope", "cancel", "check"}
        /\ l = "scope" => job[w].dec = "fork"
        /\ l \in {"cancel", "check"} => job[w].dec # "fork"
    BY <1>2, <1>5 DEF Recover, Goto, TypeInv, TypeOK
  <2>2. CASE l # "scope"
    <3>1. /\ l \in Effects \ {"commit"} /\ l # "settling"
          /\ pc[w] \in Effects /\ OnPath(l, job[w])
          /\ Witnessed(l, job[w], control[job[w].to], trace[job[w].to])
      BY <2>1, <2>2 DEF Effects, OnPath, Witnessed
    <3> QED
      BY <1>1, <1>2, <3>1, BackedMove
  <2>3. CASE l = "scope"
    <3>1. Moves(w, "scope") /\ job'[w] = job[w]
      BY <1>1, <1>2, <2>3, GotoMoves
    <3>2. HasClaim(control[job[w].to], job[w].env, job[w].turn, job[w].dec)
      BY <1>1, <2>1 DEF Good, Backed, Effects
    <3>3. Good("scope", job[w], control, trace)
      BY <2>1, <2>3, <3>2 DEF Good, Backed, OnPath, Witnessed, Fenced,
                              Concluded, Effects
    <3> QED
      BY <1>1, <3>1, <3>3, QuietMove
  <2> QED
    BY <2>2, <2>3
<1>6. CASE CreateChild(w)
  <2>1. pc[w] = "create" /\ l = "spawn"
    BY <1>2, <1>6 DEF CreateChild, Goto, TypeInv, TypeOK
  <2>2. /\ l \in Effects \ {"commit"} /\ l # "settling" /\ pc[w] \in Effects
        /\ OnPath(l, job[w])
        /\ Witnessed(l, job[w], control[job[w].to], trace[job[w].to])
    BY <1>1, <2>1 DEF Effects, OnPath, Witnessed, Good
  <2> QED
    BY <1>1, <1>2, <2>2, BackedMove
<1>7. CASE RebindRoute(w)
  <2>1. pc[w] \in {"rebind", "adopt"} /\ l \in {"settle", "forksubmit"}
    BY <1>2, <1>7 DEF RebindRoute, Goto, TypeInv, TypeOK
  <2>2. job[w].dec = "fork" /\ HasSpawn(control[job[w].to], job[w].turn)
    BY <1>1, <2>1 DEF Good, OnPath, Witnessed
  <2>3. /\ l \in Effects \ {"commit"} /\ l # "settling" /\ pc[w] \in Effects
        /\ OnPath(l, job[w])
        /\ Witnessed(l, job[w], control[job[w].to], trace[job[w].to])
    BY <2>1, <2>2 DEF Effects, OnPath, Witnessed, RestsOn
  <2> QED
    BY <1>1, <1>2, <2>3, BackedMove
<1> QED
  BY <1>3, <1>4, <1>5, <1>6, <1>7

LEMMA SubmitTurnGood ==
    ASSUME TypeInv, TypeInv', SettleInv, NEW w \in Workers, SubmitTurn(w)
    PROVE  SettleInv'
<1>1. /\ control' = control /\ trace' = trace /\ job[w] \in Jobs
      /\ Good("submit", job[w], control, trace)
  BY DEF SubmitTurn, SettleInv, TypeInv, TypeOK
<1>2. /\ Moves(w, "evidence")
      /\ job'[w] = [job[w] EXCEPT !.holds = FALSE]
  BY GotoMoves DEF SubmitTurn
<1>3. Good("evidence", job[w], control, trace)
  BY <1>1 DEF Good, Backed, OnPath, Witnessed, Fenced, Concluded, Effects
<1>4. Good("evidence", job'[w], control, trace)
  BY <1>1, <1>2, <1>3, DropKeepsJob, GoodSameJob
<1> QED
  BY <1>1, <1>2, <1>4, QuietMove

LEMMA CheckEvidenceGood ==
    ASSUME TypeInv, TypeInv', SettleInv, NEW w \in Workers, CheckEvidence(w)
    PROVE  SettleInv'
<1>1. /\ control' = control /\ trace' = trace /\ job' = job
      /\ Good("check", job[w], control, trace)
  BY DEF CheckEvidence, SettleInv
<1>2. PICK l \in {"settle", "reserve"} :
         /\ Goto(w, l)
         /\ l = "settle" => HasTurn(trace[job[w].to], job[w].turn)
  BY DEF CheckEvidence, HasEvidence, HasTurn
<1>3. Moves(w, l) /\ job'[w] = job[w]
  BY <1>1, <1>2, GotoMoves
<1>4. Good(l, job[w], control, trace)
  BY <1>1, <1>2 DEF Good, Backed, OnPath, Witnessed, Fenced, Concluded,
                    Effects, RestsOn
<1> QED
  BY <1>1, <1>3, <1>4, QuietMove

LEMMA ReadSettleStreamGood ==
    ASSUME TypeInv, TypeInv', SettleInv, NEW w \in Workers,
           ReadSettleStream(w)
    PROVE  SettleInv'
<1> DEFINE found == OutcomeFold(job[w].env, {job[w].to})
           n == Len(control[job[w].to])
<1>1. /\ control' = control /\ trace' = trace /\ pc[w] = "settle"
      /\ Good("settle", job[w], control, trace) /\ job[w] \in Jobs
  BY DEF ReadSettleStream, SettleInv, TypeInv, TypeOK
<1>2. job[w].to \in Threads
  BY <1>1, PinnedJob DEF Pinned, Labels
<1>3. n \in Nat
  BY <1>2, StreamsTyped, LenProperties
<1>4. found.state \in {"claimed", "settled"} =>
         found.at = job[w].to /\ Found(job[w].env, found)
  BY <1>2, FoldFound
<1>5. CASE Abandon(w)
  BY <1>1, <1>5, AbandonGood
<1>6. CASE found.state = "settled" /\ Goto(w, "done") /\ job' = job
  <2>1. Moves(w, "done") /\ job'[w] = job[w]
    BY <1>6, GotoMoves
  <2> HIDE DEF found
  <2>2. Outcomes(job[w].env, control)
    BY <1>4, <1>6, FoundOutcome
  <2>3. Good("done", job[w], control, trace)
    BY <2>2 DEF Good, Backed, OnPath, Witnessed, Fenced, Concluded, Effects
  <2> QED
    BY <1>1, <2>1, <2>3, QuietMove
<1>7. CASE /\ found.state = "claimed" /\ found.turn = job[w].turn
           /\ Goto(w, "settling") /\ job' = [job EXCEPT ![w].tail = n]
  <2>1. Moves(w, "settling") /\ job'[w] = [job[w] EXCEPT !.tail = n]
    BY <1>7, GotoMoves
  <2> HIDE DEF found
  <2>2. Settles(control[job[w].to], job[w].turn) = {}
    BY <1>4, <1>7 DEF Found
  <2>3. /\ job'[w].to = job[w].to /\ job'[w].turn = job[w].turn
        /\ job'[w].env = job[w].env /\ job'[w].dec = job[w].dec
        /\ job'[w].tail = n
    BY <1>1, <2>1 DEF Jobs
  <2>4. Fenced("settling", job'[w], control[job'[w].to])
    BY <1>3, <2>2, <2>3 DEF Fenced
  <2> HIDE DEF n
  <2>5. Good("settling", job'[w], control, trace)
    BY <1>1, <2>3, <2>4 DEF Good, Backed, OnPath, Witnessed, Concluded,
                            Effects
  <2> QED
    BY <1>1, <2>1, <2>5, QuietMove
<1> QED
  BY <1>5, <1>6, <1>7 DEF ReadSettleStream

\* The settle is appended at the tail up to which there was none.
LEMMA AppendSettleGood ==
    ASSUME TypeInv, TypeInv', SettleInv, NEW w \in Workers, AppendSettle(w)
    PROVE  SettleInv'
<1> DEFINE t == job[w].to
           q == control[t]
           x == Event("settled", job[w].env, job[w].turn, job[w].dec)
<1>1. /\ trace' = trace /\ job' = job /\ pc[w] = "settling"
      /\ Good("settling", job[w], control, trace)
  BY DEF AppendSettle, SettleInv
<1>2. /\ job[w].env \in Envelopes /\ t \in Threads
      /\ job[w].turn \in {job[w].env} \X Attempts /\ job[w].dec \in AllPolicies
  BY <1>1, PinnedJob DEF Pinned, Labels
<1>3. CASE Goto(w, "settle") /\ control' = control
  <2>1. Moves(w, "settle") /\ job'[w] = job[w]
    BY <1>1, <1>3, GotoMoves
  <2>2. Good("settle", job[w], control, trace)
    BY <1>1 DEF Good, Backed, OnPath, Witnessed, Fenced, Concluded, Effects
  <2> QED
    BY <1>1, <1>3, <2>1, <2>2, QuietMove
<1>4. CASE /\ Len(q) = job[w].tail /\ Goto(w, "done")
           /\ control' = [control EXCEPT ![t] = Append(@, x)]
  <2>1. job[w].turn \in MaybeTurns /\ job[w].dec \in Decisions
    BY <1>2 DEF MaybeTurns, Turns, Decisions
  <2>2. x \in Events
    BY <1>2, <2>1, EventTyped DEF EventKinds
  <2>3. /\ x.kind = "settled" /\ x.turn = job[w].turn /\ x.dec = job[w].dec
    BY DEF Event
  <2>4. q \in Seq(Events) /\ control \in [Threads -> Seq(Events)]
    BY <1>2 DEF TypeInv, TypeOK
  <2>5. HasClaim(q, job[w].env, job[w].turn, job[w].dec)
    BY <1>1 DEF Good, Backed, Effects
  <2>6. Settles(q, job[w].turn) = {}
    <3>1. ASSUME NEW i \in Settles(q, job[w].turn) PROVE FALSE
      <4>1. i \in 1..Len(q) /\ Len(q) \in Nat
        BY <2>4, <3>1 DEF Settles
      <4>2. i > job[w].tail
        BY <1>1, <3>1 DEF Good, Fenced
      <4> QED
        BY <1>4, <4>1, <4>2
    <3> QED
      BY <3>1
  <2>7. RestsOn(q, trace[t], job[w].turn, job[w].dec)
    BY <1>1 DEF Good, Witnessed
  <2>8. control'[t] = Append(q, x)
    BY <1>2, <1>4, <2>4
  <2>9. /\ Append(q, x)[Len(q) + 1] = x
        /\ Len(q) + 1 \in DOMAIN Append(q, x)
    BY <2>2, <2>4, AppendAt
  <2>10. Grows(q, Append(q, x))
    BY <2>2, <2>4, GrowsAppend
  <2>11. Moves(w, "done") /\ job'[w] = job[w]
    BY <1>1, <1>4, GotoMoves
  <2> HIDE DEF x
  <2>12. Fits(q, trace[t], x)
    BY <2>3, <2>5, <2>6, <2>7 DEF Fits, HasClaim
  <2>13. Settles(control'[t], job[w].turn) # {}
    BY <2>3, <2>8, <2>9 DEF Settles
  <2>14. HasClaim(control'[t], job[w].env, job[w].turn, job[w].dec)
    BY <2>5, <2>8, <2>10, ClaimStays
  <2>15. Outcomes(job[w].env, control')
    BY <1>2, <2>13, <2>14 DEF Outcomes, HasClaim
  <2>16. Good("done", job[w], control', trace)
    BY <2>15 DEF Good, Backed, OnPath, Witnessed, Fenced, Concluded, Effects
  <2> QED
    BY <1>1, <1>2, <1>4, <2>2, <2>11, <2>12, <2>16, AppendMove
<1> QED
  BY <1>3, <1>4 DEF AppendSettle

LEMMA AppendSpawnedGood ==
    ASSUME TypeInv, TypeInv', SettleInv, NEW w \in Workers, AppendSpawned(w)
    PROVE  SettleInv'
<1> DEFINE t == job[w].to
           q == control[t]
           x == Event("spawned", job[w].env, job[w].turn, job[w].dec)
<1>1. /\ trace' = trace /\ job' = job /\ pc[w] = "spawn"
      /\ Good("spawn", job[w], control, trace)
      /\ control' = [control EXCEPT ![t] = Append(@, x)]
  BY DEF AppendSpawned, SettleInv
<1>2. /\ job[w].env \in Envelopes /\ t \in Threads
      /\ job[w].turn \in {job[w].env} \X Attempts /\ job[w].dec \in AllPolicies
  BY <1>1, PinnedJob DEF Pinned, Labels
<1>3. job[w].turn \in MaybeTurns /\ job[w].dec \in Decisions
  BY <1>2 DEF MaybeTurns, Turns, Decisions
<1>4. x \in Events
  BY <1>2, <1>3, EventTyped DEF EventKinds
<1>5. /\ x.kind = "spawned" /\ x.turn = job[w].turn /\ x.env = job[w].env
  BY DEF Event
<1>6. q \in Seq(Events) /\ control \in [Threads -> Seq(Events)]
  BY <1>2 DEF TypeInv, TypeOK
<1>7. HasClaim(q, job[w].env, job[w].turn, job[w].dec)
  BY <1>1 DEF Good, Backed, Effects
<1>8. control'[t] = Append(q, x)
  BY <1>1, <1>2, <1>6
<1>9. /\ Append(q, x)[Len(q) + 1] = x
      /\ Len(q) + 1 \in DOMAIN Append(q, x)
  BY <1>4, <1>6, AppendAt
<1>10. Grows(q, Append(q, x))
  BY <1>4, <1>6, GrowsAppend
<1>11. Moves(w, "rebind") /\ job'[w] = job[w]
  BY GotoMoves DEF AppendSpawned
<1> HIDE DEF x
<1>12. Fits(q, trace[t], x)
  BY <1>5, <1>7 DEF Fits, HasClaim
<1>13. HasSpawn(control'[t], job[w].turn)
  BY <1>5, <1>8, <1>9 DEF HasSpawn
<1>14. HasClaim(control'[t], job[w].env, job[w].turn, job[w].dec)
  BY <1>7, <1>8, <1>10, ClaimStays
<1>15. Good("rebind", job[w], control', trace)
  BY <1>1, <1>13, <1>14 DEF Good, Backed, OnPath, Witnessed, Fenced,
                            Concluded, Effects
<1> QED
  BY <1>1, <1>2, <1>4, <1>11, <1>12, <1>15, AppendMove

LEMMA ReloadGood ==
    ASSUME TypeInv, TypeInv', SettleInv, NEW w \in Workers, Reload(w)
    PROVE  SettleInv'
<1>1. /\ control' = control /\ trace' = trace
      /\ Good("reload", job[w], control, trace)
  BY DEF Reload, SettleInv
<1>2. ASSUME NEW v \in Workers PROVE SameJob(job[v], job'[v])
  <2>1. job[v] \in Jobs
    BY DEF TypeInv, TypeOK
  <2>2. job'[v] \in {job[v], [job[v] EXCEPT !.holds = FALSE]}
    BY DEF Reload
  <2> QED
    BY <2>1, <2>2, DropKeepsJob, SameJobSelf
<1>3. PICK l \in {"scope", "cancel", "check"} :
         /\ Goto(w, l)
         /\ l = "scope" => job[w].dec = "fork"
         /\ l # "scope" => job[w].dec # "fork"
  BY DEF Reload
<1>4. pc'[w] = l /\ \A v \in Workers \ {w} : pc'[v] = pc[v]
  BY <1>3 DEF Goto, TypeInv, TypeOK
<1>5. Good(l, job[w], control, trace)
  BY <1>1, <1>3 DEF Good, Backed, OnPath, Witnessed, Fenced, Concluded,
                    Effects
<1>6. Good(pc'[w], job'[w], control', trace')
  BY <1>1, <1>2, <1>4, <1>5, GoodSameJob
<1>7. \A s \in Threads : StreamGood(control'[s], trace'[s])
  BY <1>1, StillGood
<1>8. JournalGrows /\ TraceGrows
  BY <1>1, StillGrows
<1> QED
  BY <1>2, <1>4, <1>6, <1>7, <1>8, WorkerMoves

LEMMA TakeScopeGood ==
    ASSUME TypeInv, TypeInv', SettleInv, NEW w \in Workers, TakeScope(w)
    PROVE  SettleInv'
<1> DEFINE found == OutcomeFold(job[w].env, {job[w].to})
<1>1. /\ control' = control /\ trace' = trace /\ pc[w] = "scope"
      /\ Good("scope", job[w], control, trace)
  BY DEF TakeScope, SettleInv
<1>2. job[w].to \in Threads
  BY <1>1, PinnedJob DEF Pinned, Labels
<1>3. found.state = "settled" => Found(job[w].env, found)
  BY <1>2, FoldFound
<1>4. CASE Abandon(w)
  BY <1>1, <1>4, AbandonGood
<1>5. CASE ~job[w].rec /\ Goto(w, "lock") /\ job' = job
  <2>1. Moves(w, "lock")
    BY <1>5, GotoMoves
  <2>2. Good("lock", job'[w], control, trace)
    BY OpenGood DEF Open
  <2> QED
    BY <1>1, <2>1, <2>2, QuietMove
<1>6. CASE /\ job[w].rec /\ job' = job
           /\ Goto(w, IF SpawnedFor(job[w].to, job[w].turn)
                      THEN "adopt" ELSE "create")
  <2>1. PICK l \in {"adopt", "create"} :
           /\ Goto(w, l)
           /\ l = "adopt" => HasSpawn(control[job[w].to], job[w].turn)
    BY <1>6 DEF SpawnedFor, HasSpawn
  <2>2. Moves(w, l) /\ job'[w] = job[w]
    BY <1>6, <2>1, GotoMoves
  <2>3. Good(l, job[w], control, trace)
    BY <1>1, <1>6, <2>1 DEF Good, Backed, OnPath, Witnessed, Fenced,
                            Concluded, Effects
  <2> QED
    BY <1>1, <2>2, <2>3, QuietMove
<1>7. CASE found.state = "settled" /\ Goto(w, "done") /\ job' = job
  <2>1. Moves(w, "done") /\ job'[w] = job[w]
    BY <1>7, GotoMoves
  <2> HIDE DEF found
  <2>2. Outcomes(job[w].env, control)
    BY <1>3, <1>7, FoundOutcome
  <2>3. Good("done", job[w], control, trace)
    BY <2>2 DEF Good, Backed, OnPath, Witnessed, Fenced, Concluded, Effects
  <2> QED
    BY <1>1, <2>1, <2>3, QuietMove
<1> QED
  BY <1>4, <1>5, <1>6, <1>7 DEF TakeScope

LEMMA SubmitForkGood ==
    ASSUME TypeInv, TypeInv', SettleInv, NEW w \in Workers, SubmitFork(w)
    PROVE  SettleInv'
<1>1. /\ control' = control /\ trace' = trace /\ pc[w] = "forksubmit"
      /\ Good("forksubmit", job[w], control, trace)
  BY DEF SubmitFork, SettleInv
<1>2. CASE Abandon(w)
  BY <1>1, <1>2, AbandonGood
<1>3. CASE Goto(w, "settle") /\ job' = job
  <2>1. Moves(w, "settle") /\ job'[w] = job[w]
    BY <1>3, GotoMoves
  <2>2. Good("settle", job[w], control, trace)
    BY <1>1 DEF Good, Backed, OnPath, Witnessed, Fenced, Concluded, Effects,
                RestsOn
  <2> QED
    BY <1>1, <2>1, <2>2, QuietMove
<1> QED
  BY <1>2, <1>3 DEF SubmitFork

LEMMA ErrorsGood ==
    ASSUME TypeInv, TypeInv', SettleInv, NEW w \in Workers,
           Timeout(w) \/ Fault(w)
    PROVE  SettleInv'
<1>1. control' = control /\ trace' = trace /\ Abandon(w)
  BY DEF Timeout, Fault
<1> QED
  BY <1>1, AbandonGood

LEMMA CrashGood ==
    ASSUME TypeInv, TypeInv', SettleInv, Crash
    PROVE  SettleInv'
<1>1. control' = control /\ trace' = trace
  BY DEF Crash
<1>2. ASSUME NEW v \in Workers PROVE Good(pc'[v], job'[v], control', trace')
  <2>1. pc'[v] = "idle"
    BY DEF Crash
  <2> QED
    BY <2>1, OpenGood DEF Open
<1> QED
  BY <1>1, <1>2, StillGood DEF SettleInv

\* The executing side only adds evidence.
LEMMA ExecutionGrows ==
    ASSUME TypeInv, NEW t \in Threads, Execute(t) \/ FailTurn(t)
    PROVE  TraceGrows
<1>1. trace \in [Threads -> Seq(Records)]
  BY DEF TypeInv, TypeOK
<1>2. CASE trace' = trace
  BY <1>1, <1>2, GrowsSame DEF TraceGrows
<1>3. ASSUME NEW kind \in {"compiled", "steered", "failed"},
             NEW u \in MaybeTurns, Record(t, kind, u)
      PROVE  TraceGrows
  <2> DEFINE x == [kind |-> kind, turn |-> u]
  <2>1. x \in Records
    BY DEF Records
  <2>2. trace' = [trace EXCEPT ![t] = Append(@, x)]
    BY <1>3 DEF Record
  <2> HIDE DEF x
  <2>3. ASSUME NEW s \in Threads PROVE Grows(trace[s], trace'[s])
    <3>1. CASE s = t
      <4>1. trace'[s] = Append(trace[s], x) /\ trace[s] \in Seq(Records)
        BY <1>1, <2>2, <3>1
      <4> QED
        BY <2>1, <4>1, GrowsAppend
    <3>2. CASE s # t
      <4>1. trace'[s] = trace[s] /\ trace[s] \in Seq(Records)
        BY <1>1, <2>2, <3>2
      <4> QED
        BY <4>1, GrowsSame
    <3> QED
      BY <3>1, <3>2
  <2> QED
    BY <2>3 DEF TraceGrows
<1>4. thr[t] \in Runtimes
  BY DEF TypeInv, TypeOK
<1>5. thr[t].running \in MaybeTurns /\ thr[t].mailbox \in Seq(Commands)
  BY <1>4 DEF Runtimes
<1>6. ASSUME NEW i \in DOMAIN thr[t].mailbox
      PROVE  thr[t].mailbox[i].turn \in MaybeTurns
  <2>1. thr[t].mailbox[i] \in Commands
    BY <1>5, <1>6
  <2> QED
    BY <2>1 DEF Commands
<1>7. ASSUME NEW u \in MaybeTurns, RecordSteer(t, u) PROVE TraceGrows
  BY <1>2, <1>3, <1>7 DEF RecordSteer
<1>8. CASE StartCommand(t)
  <2>1. thr[t].mailbox # <<>>
    BY <1>8 DEF StartCommand
  <2>2. 1 \in DOMAIN thr[t].mailbox /\ Head(thr[t].mailbox) = thr[t].mailbox[1]
    BY <1>5, <2>1, EmptySeq, LenProperties
  <2>3. Head(thr[t].mailbox).turn \in MaybeTurns
    BY <1>6, <2>2
  <2> QED
    BY <1>2, <1>7, <1>8, <2>3 DEF StartCommand
<1>9. CASE CompileContext(t)
  BY <1>3, <1>5, <1>9 DEF CompileContext
<1>10. CASE ActiveCommand(t)
  BY <1>2, <1>6, <1>7, <1>10 DEF ActiveCommand
<1>11. CASE FinishTurn(t)
  BY <1>2, <1>11 DEF FinishTurn
<1>12. CASE FailTurn(t)
  BY <1>2, <1>3, <1>5, <1>12 DEF FailTurn
<1> QED
  BY <1>8, <1>9, <1>10, <1>11, <1>12 DEF Execute

LEMMA ExecutionGood ==
    ASSUME TypeInv, TypeInv', SettleInv,
           \/ \E t \in Threads : Execute(t) \/ FailTurn(t)
           \/ \E e \in Envelopes : Expire(e)
           \/ \E u \in answers : DeliverAnswer(u)
           \/ UNCHANGED vars
    PROVE  SettleInv'
<1>1. control' = control /\ pc' = pc /\ job' = job /\ TraceGrows
  <2>1. CASE \E t \in Threads : Execute(t) \/ FailTurn(t)
    BY <2>1, ExecutionGrows, ZenonT(60)
    DEF Execute, StartCommand, CompileContext, ActiveCommand, FinishTurn,
        FailTurn
  <2>2. CASE trace' = trace /\ control' = control /\ pc' = pc /\ job' = job
    BY <2>2, StillGrows
  <2>3. \/ \E t \in Threads : Execute(t) \/ FailTurn(t)
        \/ trace' = trace /\ control' = control /\ pc' = pc /\ job' = job
    BY DEF Expire, DeliverAnswer, vars
  <2> QED
    BY <2>1, <2>2, <2>3
<1>2. JournalGrows
  BY <1>1, StreamsTyped, GrowsSame DEF JournalGrows
<1>3. ASSUME NEW v \in Workers PROVE Good(pc'[v], job'[v], control', trace')
  BY <1>1, <1>2, OtherGood, SameJobSelf
<1>4. ASSUME NEW s \in Threads PROVE StreamGood(control'[s], trace'[s])
  <2>1. StreamGood(control[s], trace[s]) /\ Grows(trace[s], trace'[s])
    BY <1>1 DEF SettleInv, TraceGrows
  <2> QED
    BY <1>1, <2>1, EvidenceGrows
<1> QED
  BY <1>3, <1>4 DEF SettleInv

LEMMA SettleStep ==
    ASSUME TypeInv, TypeInv', ClaimCore, SettleInv, [Next]_vars
    PROVE  SettleInv'
<1>1. ASSUME NEW w \in Workers, Apply(w) PROVE SettleInv'
  BY <1>1, QueueGood, FoldOutcomeGood, WitnessGood, RecordDecisionGood,
     RecordOwnershipGood, ReserveGood, LockAdmissionGood, AwaitOutcomeGood,
     ReadClaimStreamGood, AppendClaimGood, CommitAdmissionGood, EffectsGood,
     SubmitTurnGood, ReadSettleStreamGood, AppendSettleGood, ReloadGood,
     CheckEvidenceGood, TakeScopeGood, AppendSpawnedGood, SubmitForkGood,
     ErrorsGood
  DEF Apply
<1> QED
  BY <1>1, ErrorsGood, CrashGood, ExecutionGood DEF Next, Drained

LEMMA InitSettle == Init => SettleInv
<1> SUFFICES ASSUME Init PROVE SettleInv
  OBVIOUS
<1>1. \A w \in Workers : pc[w] = "idle"
  BY DEF Init
<1>2. \A s \in Threads : DOMAIN control[s] = {}
  BY DEF Init
<1>3. \A w \in Workers : Good(pc[w], job[w], control, trace)
  BY <1>1, OpenGood DEF Open
<1>4. \A s \in Threads : StreamGood(control[s], trace[s])
  BY <1>2 DEF StreamGood, SettlesGood, EvidenceGood, SpawnsGood
<1> QED
  BY <1>3, <1>4 DEF SettleInv

(***************************************************************************)
(* One settle per claim, on evidence.                                      *)
(***************************************************************************)
\* The settle invariant holds in every reachable state.
THEOREM SettleInvariant == Spec => [](TypeInv /\ ClaimCore /\ SettleInv)
<1>1. Init => TypeInv /\ ClaimCore /\ SettleInv
  BY InitType, InitClaims, InitSettle
<1>2. TypeInv /\ ClaimCore /\ SettleInv /\ [Next]_vars
         => (TypeInv /\ ClaimCore /\ SettleInv)'
  BY TypeStep, ClaimStep, SettleStep
<1> QED
  BY <1>1, <1>2, PTL DEF Spec

\* A claim is settled at most once, on its own stream and after the claim,
\* however many applies race to append_ingress_settle.
THEOREM OneSettle == Spec => []OneSettlePerClaim
<1>1. SettleInv => OneSettlePerClaim
  <2> SUFFICES ASSUME SettleInv, NEW s \in Threads, NEW i \in DOMAIN control[s],
                      control[s][i].kind = "settled"
               PROVE  /\ SettlesOf(s, control[s][i].turn) = {i}
                      /\ \E j \in 1..(i - 1) :
                            /\ control[s][j].kind = "claimed"
                            /\ control[s][j].turn = control[s][i].turn
    BY DEF OneSettlePerClaim
  <2>1. SettlesGood(control[s])
    BY DEF SettleInv, StreamGood
  <2>2. SettlesOf(s, control[s][i].turn) = Settles(control[s], control[s][i].turn)
    BY DEF SettlesOf, Settles
  <2>3. i \in Settles(control[s], control[s][i].turn)
    BY DEF Settles
  <2> QED
    BY <2>1, <2>2, <2>3 DEF SettlesGood
<1> QED
  BY <1>1, SettleInvariant, PTL

\* Every settle of a turn has an execution record of the turn on the claim's
\* thread, every settle of a fork its thread.spawned.
THEOREM SettlesRestOnEvidence == Spec => []SettledOnEvidence
<1>1. SettleInv => SettledOnEvidence
  <2> SUFFICES ASSUME SettleInv, NEW s \in Threads, NEW i \in DOMAIN control[s],
                      control[s][i].kind = "settled"
               PROVE  CASE control[s][i].dec \in {"queue", "steer", "interrupt"}
                             -> HasEvidence(s, control[s][i].turn)
                        [] control[s][i].dec = "fork"
                             -> SpawnedFor(s, control[s][i].turn)
                        [] OTHER -> TRUE
    BY DEF SettledOnEvidence
  <2>1. RestsOn(control[s], trace[s], control[s][i].turn, control[s][i].dec)
    BY DEF SettleInv, StreamGood, EvidenceGood
  <2>2. control[s][i].dec \in {"queue", "steer", "interrupt"} =>
           HasEvidence(s, control[s][i].turn)
    BY <2>1 DEF RestsOn, HasTurn, HasEvidence
  <2>3. control[s][i].dec = "fork" => SpawnedFor(s, control[s][i].turn)
    BY <2>1 DEF RestsOn, HasSpawn, SpawnedFor
  <2>4. CASE control[s][i].dec \in {"queue", "steer", "interrupt"}
    BY <2>2, <2>4
  <2>5. CASE control[s][i].dec = "fork"
    BY <2>3, <2>5
  <2>6. CASE control[s][i].dec \notin {"queue", "steer", "interrupt", "fork"}
    BY <2>6
  <2> QED
    BY <2>4, <2>5, <2>6
<1> QED
  BY <1>1, SettleInvariant, PTL

(***************************************************************************)
(* What a worker's step can change, action by action.                      *)
(***************************************************************************)
\* The steps of worker w.
Steps(w) == Apply(w) \/ Fault(w)

\* Abandoning or resuming leaves the other workers alone.
LEMMA AbandonMoves ==
    ASSUME TypeInv, NEW w \in Workers, Abandon(w)
    PROVE  Moves(w, "idle")
BY DEF Abandon, Goto, Moves, TypeInv, TypeOK

LEMMA ResumeMoves ==
    ASSUME TypeInv, NEW w \in Workers, NEW found, NEW loser,
           Resume(w, found, loser)
    PROVE  Moves(w, "done") \/ Moves(w, "recover")
BY DEF Resume, Goto, Moves, TypeInv, TypeOK

LEMMA MovesSame ==
    ASSUME NEW w \in Workers, NEW l, Moves(w, l)
    PROVE  /\ pc'[w] = l
           /\ \A v \in Workers \ {w} :
                 pc'[v] = pc[v] /\ SameJob(job[v], job'[v])
BY SameJobSelf DEF Moves

\* The labels at which a fork holds the scope lock, up to its spawn.
ForkLabels == {"lock", "read", "append", "commit", "create", "spawn"}

\* The actions that lead to one of them.
Entering(w) ==
    \/ RecordOwnership(w) \/ Reserve(w) \/ LockAdmission(w)
    \/ ReadClaimStream(w) \/ AppendClaim(w) \/ CommitAdmission(w)
    \/ TakeScope(w) \/ CreateChild(w)

\* The others keep label and job; only the head of recovery goes to reload.
LEMMA StepMoves ==
    ASSUME TypeInv, NEW w \in Workers, Steps(w)
    PROVE  /\ \A v \in Workers \ {w} :
                 pc'[v] = pc[v] /\ SameJob(job[v], job'[v])
           /\ pc'[w] = "reload" => Recover(w)
           /\ pc'[w] \in ForkLabels => Entering(w)
<1> DEFINE Goal == /\ \A v \in Workers \ {w} :
                         pc'[v] = pc[v] /\ SameJob(job[v], job'[v])
                   /\ pc'[w] = "reload" => Recover(w)
                   /\ pc'[w] \in ForkLabels => Entering(w)
<1> SUFFICES Goal
  OBVIOUS
<1>0. ASSUME NEW l, Moves(w, l), l = "reload" => Recover(w),
             l \in ForkLabels => Entering(w)
      PROVE  Goal
  BY <1>0, MovesSame
<1>1. CASE Abandon(w)
  BY <1>0, <1>1, AbandonMoves DEF ForkLabels
<1>2. ASSUME NEW found, NEW loser, Resume(w, found, loser) PROVE Goal
  BY <1>0, <1>2, ResumeMoves DEF ForkLabels
<1>3. ASSUME NEW l, Goto(w, l), l # "reload", l \in ForkLabels => Entering(w),
             NEW j, job' = job \/ job' = [job EXCEPT ![w] = j]
      PROVE  Goal
  <2>1. Moves(w, l)
    BY <1>3, GotoMoves
  <2> QED
    BY <1>0, <1>3, <2>1
<1> HIDE DEF Goal
<1>4. CASE (\E e \in Envelopes : Lease(w, e)) \/ Complete(w)
  BY <1>3, <1>4 DEF Lease, Complete, ForkLabels
<1>5. CASE FoldOutcome(w)
  BY <1>1, <1>2, <1>3, <1>5 DEF FoldOutcome, ForkLabels
<1>6. CASE Witness(w)
  BY <1>3, <1>6 DEF Witness, ForkLabels
<1>7. CASE RecordDecision(w)
  BY <1>1, <1>3, <1>7 DEF RecordDecision, ForkLabels
<1>8. CASE RecordOwnership(w)
  <2>1. PICK l \in {"scope", "lock", "reserve"} : Goto(w, l)
    BY <1>8 DEF RecordOwnership
  <2> QED
    BY <1>3, <1>8, <2>1 DEF RecordOwnership, Entering, ForkLabels
<1>9. CASE Reserve(w)
  <2>1. CASE Abandon(w)
    BY <1>1, <2>1
  <2>2. CASE ~Abandon(w)
    <3>1. PICK l \in {"submit", "lock"} : Goto(w, l)
      BY <1>9, <2>2 DEF Reserve
    <3> QED
      BY <1>3, <1>9, <2>2, <3>1 DEF Reserve, Entering, ForkLabels
  <2> QED
    BY <2>1, <2>2
<1>10. CASE LockAdmission(w)
  BY <1>1, <1>2, <1>3, <1>10 DEF LockAdmission, Entering, ForkLabels
<1>11. CASE AwaitOutcome(w)
  BY <1>1, <1>2, <1>11 DEF AwaitOutcome
<1>12. CASE ReadClaimStream(w)
  BY <1>1, <1>2, <1>3, <1>12 DEF ReadClaimStream, Entering, ForkLabels
<1>13. CASE AppendClaim(w)
  BY <1>3, <1>13 DEF AppendClaim, Entering, ForkLabels
<1>14. CASE CommitAdmission(w)
  <2>1. PICK l \in {"done", "cancel", "create", "submit"} : Goto(w, l)
    BY <1>14 DEF CommitAdmission
  <2> QED
    BY <1>3, <1>14, <2>1 DEF CommitAdmission, Entering, ForkLabels
<1>15. CASE CancelActive(w)
  <2>1. PICK l \in {"check", "submit"} : Goto(w, l)
    BY <1>15 DEF CancelActive
  <2> QED
    BY <1>3, <1>15, <2>1 DEF CancelActive, ForkLabels
<1>16. CASE SubmitTurn(w)
  BY <1>3, <1>16 DEF SubmitTurn, ForkLabels
<1>17. CASE AwaitEvidence(w)
  BY <1>3, <1>17 DEF AwaitEvidence, ForkLabels
<1>18. CASE ReadSettleStream(w)
  BY <1>1, <1>3, <1>18 DEF ReadSettleStream, ForkLabels
<1>19. CASE AppendSettle(w)
  BY <1>3, <1>19 DEF AppendSettle, ForkLabels
<1>20. CASE Recover(w)
  <2>1. PICK l : Goto(w, l)
    BY <1>20 DEF Recover
  <2>2. Moves(w, l)
    BY <1>20, <2>1, GotoMoves DEF Recover
  <2>3. l \notin ForkLabels
    BY <1>20, <2>2 DEF Recover, Goto, Moves, TypeInv, TypeOK, ForkLabels
  <2> QED
    BY <1>0, <1>20, <2>2, <2>3
<1>21. CASE Reload(w)
  <2>1. PICK l \in {"scope", "cancel", "check"} : Goto(w, l)
    BY <1>21 DEF Reload
  <2>2. ASSUME NEW v \in Workers PROVE SameJob(job[v], job'[v])
    <3>1. job[v] \in Jobs
      BY DEF TypeInv, TypeOK
    <3>2. job'[v] \in {job[v], [job[v] EXCEPT !.holds = FALSE]}
      BY <1>21 DEF Reload
    <3> QED
      BY <3>1, <3>2, DropKeepsJob, SameJobSelf
  <2>3. pc'[w] = l /\ \A v \in Workers \ {w} : pc'[v] = pc[v]
    BY <2>1 DEF Goto, TypeInv, TypeOK
  <2> QED
    BY <2>1, <2>2, <2>3 DEF Goal, ForkLabels
<1>22. CASE CheckEvidence(w)
  <2>1. PICK l \in {"settle", "reserve"} : Goto(w, l)
    BY <1>22 DEF CheckEvidence
  <2> QED
    BY <1>3, <1>22, <2>1 DEF CheckEvidence, ForkLabels
<1>23. CASE TakeScope(w)
  <2>1. CASE Abandon(w)
    BY <1>1, <2>1
  <2>2. CASE ~Abandon(w)
    <3>1. PICK l \in {"lock", "adopt", "create", "done"} : Goto(w, l)
      BY <1>23, <2>2 DEF TakeScope
    <3> QED
      BY <1>3, <1>23, <2>2, <3>1 DEF TakeScope, Entering, ForkLabels
  <2> QED
    BY <2>1, <2>2
<1>24. CASE CreateChild(w) \/ AppendSpawned(w)
  BY <1>3, <1>24 DEF CreateChild, AppendSpawned, Entering, ForkLabels
<1>25. CASE RebindRoute(w)
  <2>1. PICK l \in {"settle", "forksubmit"} : Goto(w, l)
    BY <1>25 DEF RebindRoute
  <2> QED
    BY <1>3, <1>25, <2>1 DEF RebindRoute, ForkLabels
<1>26. CASE SubmitFork(w)
  BY <1>1, <1>3, <1>26 DEF SubmitFork, ForkLabels
<1>27. CASE Timeout(w) \/ Fault(w)
  BY <1>1, <1>27 DEF Timeout, Fault
<1> QED
  BY <1>4, <1>5, <1>6, <1>7, <1>8, <1>9, <1>10, <1>11, <1>12, <1>13, <1>14,
     <1>15, <1>16, <1>17, <1>18, <1>19, <1>20, <1>21, <1>22, <1>23, <1>24,
     <1>25, <1>26, <1>27 DEF Steps, Apply

\* The journal changes by a receipt, a decision, a claim, a spawn, a settle.
LEMMA StepJournal ==
    ASSUME TypeInv, NEW w \in Workers, Steps(w)
    PROVE  \/ control' = control
           \/ \E s \in Threads, x \in Events :
                 /\ x.kind \in {"received", "decided"}
                 /\ control' = [control EXCEPT ![s] = Append(@, x)]
           \/ AppendClaim(w) \/ AppendSpawned(w) \/ AppendSettle(w)
<1>1. CASE Witness(w)
  <2> DEFINE e == job[w].env
             t == IF route = None THEN Root ELSE route
             x == Event("received", e, None, None)
  <2>1. e \in Envelopes /\ t \in Threads
    BY <1>1 DEF TypeInv, TypeOK, JobShape, Witness, Threads
  <2>2. x \in Events /\ x.kind = "received"
    BY <2>1, EventTyped DEF EventKinds, MaybeTurns, Decisions, Event
  <2>3. control' = control \/ control' = [control EXCEPT ![t] = Append(@, x)]
    BY <1>1 DEF Witness
  <2> HIDE DEF t, x
  <2> QED
    BY <2>1, <2>2, <2>3
<1>2. CASE RecordDecision(w)
  <2> DEFINE t == job[w].to
             x == Event("decided", job[w].env, None, job[w].dec)
  <2>1. job[w].env \in Envelopes /\ t \in Threads /\ job[w].dec \in AllPolicies
    BY <1>2 DEF TypeInv, JobShape, RecordDecision
  <2>2. x \in Events /\ x.kind = "decided"
    BY <2>1, EventTyped DEF EventKinds, MaybeTurns, Decisions, Event
  <2>3. control' = control \/ control' = [control EXCEPT ![t] = Append(@, x)]
    BY <1>2 DEF RecordDecision
  <2> HIDE DEF t, x
  <2> QED
    BY <2>1, <2>2, <2>3
<1>3. CASE ~Witness(w) /\ ~RecordDecision(w) /\ ~AppendClaim(w)
           /\ ~AppendSpawned(w) /\ ~AppendSettle(w)
  BY <1>3 DEF Steps, Apply, Fault, Lease, FoldOutcome, RecordOwnership,
     Reserve, LockAdmission, AwaitOutcome, ReadClaimStream, CommitAdmission,
     CancelActive, SubmitTurn, AwaitEvidence, ReadSettleStream, Recover,
     Reload, CheckEvidence, TakeScope, CreateChild, RebindRoute, SubmitFork,
     Timeout, Complete
<1> QED
  BY <1>1, <1>2, <1>3

\* A stream after an append, and after two.
LEMMA AppendsGrow ==
    ASSUME TypeInv, NEW s \in Threads, NEW x \in Events, NEW y \in Events,
           \/ control' = [control EXCEPT ![s] = Append(@, x)]
           \/ control' = [control EXCEPT ![s] = Append(Append(@, x), y)]
    PROVE  JournalGrows
<1>1. control \in [Threads -> Seq(Events)]
  BY DEF TypeInv, TypeOK
<1>2. ASSUME NEW t \in Threads PROVE Grows(control[t], control'[t])
  <2>1. CASE t # s
    <3>1. control'[t] = control[t] /\ control[t] \in Seq(Events)
      BY <1>1, <2>1
    <3> QED
      BY <3>1, GrowsSame
  <2>2. CASE t = s
    <3> DEFINE p == Append(control[t], x)
    <3>1. p \in Seq(Events) /\ control[t] \in Seq(Events)
      BY <1>1
    <3>2. Grows(control[t], p)
      BY <3>1, GrowsAppend
    <3>3. control'[t] = p \/ control'[t] = Append(p, y)
      BY <1>1, <2>2
    <3> HIDE DEF p
    <3>4. Grows(p, Append(p, y)) /\ Append(p, y) \in Seq(Events)
      BY <3>1, GrowsAppend
    <3>5. Grows(control[t], Append(p, y))
      BY <3>1, <3>2, <3>4, GrowsOn
    <3> QED
      BY <3>2, <3>3, <3>5
  <2> QED
    BY <2>1, <2>2
<1> QED
  BY <1>2 DEF JournalGrows

\* The events an apply appends in its own name.
LEMMA OwnEvents ==
    ASSUME TypeInv, NEW w \in Workers, pc[w] \in Pinned,
           NEW kind \in {"claimed", "settled", "spawned"}
    PROVE  /\ Event(kind, job[w].env, job[w].turn, job[w].dec) \in Events
           /\ Event(kind, job[w].env, job[w].turn, job[w].dec).kind = kind
           /\ Event(kind, job[w].env, job[w].turn, job[w].dec).env = job[w].env
           /\ Event(kind, job[w].env, job[w].turn, job[w].dec).turn = job[w].turn
           /\ Event(kind, job[w].env, job[w].turn, job[w].dec).dec = job[w].dec
<1>1. /\ job[w].env \in Envelopes /\ job[w].dec \in AllPolicies
      /\ job[w].turn \in {job[w].env} \X Attempts
  BY PinnedJob DEF Pinned
<1>2. job[w].turn \in MaybeTurns /\ job[w].dec \in Decisions
  BY <1>1 DEF MaybeTurns, Turns, Decisions
<1> QED
  BY <1>1, <1>2, EventTyped DEF EventKinds, Event

LEMMA StepGrows ==
    ASSUME TypeInv, NEW w \in Workers, Steps(w)
    PROVE  JournalGrows
<1>1. CASE control' = control
  BY <1>1, StreamsTyped, GrowsSame DEF JournalGrows
<1>2. ASSUME NEW s \in Threads, NEW x \in Events,
             control' = [control EXCEPT ![s] = Append(@, x)]
      PROVE  JournalGrows
  BY <1>2, AppendsGrow
<1>3. CASE AppendClaim(w)
  <2> DEFINE c == Event("claimed", job[w].env, job[w].turn, job[w].dec)
             s == Event("settled", job[w].env, job[w].turn, job[w].dec)
  <2>1. pc[w] \in Pinned
    BY <1>3 DEF AppendClaim, Pinned, Labels
  <2>2. c \in Events /\ s \in Events /\ job[w].to \in Threads
    BY <2>1, OwnEvents, PinnedJob
  <2>3. \/ control' = control
        \/ control' = [control EXCEPT ![job[w].to] = Append(@, c)]
        \/ control' = [control EXCEPT ![job[w].to] = Append(Append(@, c), s)]
    BY <1>3 DEF AppendClaim, ClaimBatch
  <2> HIDE DEF c, s
  <2> QED
    BY <1>1, <2>2, <2>3, AppendsGrow
<1>4. CASE AppendSpawned(w)
  <2>1. pc[w] \in Pinned
    BY <1>4 DEF AppendSpawned, Pinned, Labels
  <2>2. /\ Event("spawned", job[w].env, job[w].turn, job[w].dec) \in Events
        /\ job[w].to \in Threads
    BY <2>1, OwnEvents, PinnedJob
  <2> QED
    BY <1>2, <1>4, <2>2 DEF AppendSpawned
<1>5. CASE AppendSettle(w)
  <2>1. pc[w] \in Pinned
    BY <1>5 DEF AppendSettle, Pinned, Labels
  <2>2. /\ Event("settled", job[w].env, job[w].turn, job[w].dec) \in Events
        /\ job[w].to \in Threads
    BY <2>1, OwnEvents, PinnedJob
  <2> QED
    BY <1>1, <1>2, <1>5, <2>2 DEF AppendSettle
<1> QED
  BY <1>1, <1>2, <1>3, <1>4, <1>5, StepJournal

(***************************************************************************)
(* One child per fork claim: the scope lock and the spawn.                 *)
(***************************************************************************)
\* A fork holds the scope lock from before its claim to its spawn.
Scoped(l, j, w, x) == l \in ForkLabels /\ j.dec = "fork" => x = w

\* Between its claim and its spawn the envelope has no child.
Childless(l, j, C) ==
    l \in {"commit", "create", "spawn"} /\ j.dec = "fork" =>
        \A s \in Threads : Spawns(C[s], j.env) = {}

SpawnsOnce(C) ==
    \A e \in Envelopes : \A s \in Threads, t \in Threads :
        \A i \in Spawns(C[s], e), k \in Spawns(C[t], e) : s = t /\ i = k

ForkInv ==
    /\ \A w \in Workers : Scoped(pc[w], job[w], w, scope)
    /\ \A w \in Workers : Childless(pc[w], job[w], control)
    /\ SpawnsOnce(control)

SpawnsKept ==
    \A s \in Threads, e \in Envelopes :
        Spawns(control'[s], e) = Spawns(control[s], e)

\* The scope lock is dropped by its holder or taken when it is free.
LEMMA StepScope ==
    ASSUME TypeInv, NEW w \in Workers, Steps(w)
    PROVE  \/ scope' = scope \/ LeaveScope(w)
           \/ TakeScope(w) /\ scope = None /\ scope' = w
<1>1. CASE TakeScope(w)
  BY <1>1 DEF TakeScope, Abandon
<1>2. CASE ~TakeScope(w)
  BY <1>2 DEF Steps, Apply, Fault, Lease, FoldOutcome, Witness,
     RecordDecision, RecordOwnership, Reserve, LockAdmission, AwaitOutcome,
     ReadClaimStream, AppendClaim, CommitAdmission, CancelActive, SubmitTurn,
     AwaitEvidence, ReadSettleStream, AppendSettle, Recover, Reload,
     CheckEvidence, CreateChild, AppendSpawned, RebindRoute, SubmitFork,
     Timeout, Complete, Abandon, Resume
<1> QED
  BY <1>1, <1>2

\* An append adds a spawn only when it appends one.
LEMMA AppendSpawns ==
    ASSUME NEW q \in Seq(Events), NEW x \in Events, NEW e,
           x.kind # "spawned" \/ x.env # e
    PROVE  Spawns(Append(q, x), e) = Spawns(q, e)
<1>1. /\ \A i \in DOMAIN q : Append(q, x)[i] = q[i]
      /\ \A i \in DOMAIN Append(q, x) : i \in DOMAIN q \/ i = Len(q) + 1
      /\ Append(q, x)[Len(q) + 1] = x /\ DOMAIN q \subseteq DOMAIN Append(q, x)
  BY AppendAt
<1> QED
  BY <1>1 DEF Spawns

LEMMA StepSpawns ==
    ASSUME TypeInv, NEW w \in Workers, Steps(w), ~AppendSpawned(w)
    PROVE  SpawnsKept
<1>0. control \in [Threads -> Seq(Events)]
  BY DEF TypeInv, TypeOK
<1>1. CASE control' = control
  BY <1>1 DEF SpawnsKept
<1>2. ASSUME NEW s \in Threads, NEW x \in Events, x.kind # "spawned",
             control' = [control EXCEPT ![s] = Append(@, x)]
      PROVE  SpawnsKept
  <2>1. ASSUME NEW t \in Threads, NEW e \in Envelopes
        PROVE  Spawns(control'[t], e) = Spawns(control[t], e)
    <3>1. CASE t = s
      <4>1. control'[t] = Append(control[t], x) /\ control[t] \in Seq(Events)
        BY <1>0, <1>2, <3>1
      <4> QED
        BY <1>2, <4>1, AppendSpawns
    <3>2. CASE t # s
      BY <1>0, <1>2, <3>2
    <3> QED
      BY <3>1, <3>2
  <2> QED
    BY <2>1 DEF SpawnsKept
<1>3. CASE AppendClaim(w)
  <2> DEFINE c == Event("claimed", job[w].env, job[w].turn, job[w].dec)
             s == Event("settled", job[w].env, job[w].turn, job[w].dec)
  <2>1. pc[w] \in Pinned
    BY <1>3 DEF AppendClaim, Pinned, Labels
  <2>2. /\ c \in Events /\ s \in Events /\ job[w].to \in Threads
        /\ c.kind # "spawned" /\ s.kind # "spawned"
    BY <2>1, OwnEvents, PinnedJob
  <2>3. \/ control' = control
        \/ control' = [control EXCEPT ![job[w].to] = Append(@, c)]
        \/ control' = [control EXCEPT ![job[w].to] = Append(Append(@, c), s)]
    BY <1>3 DEF AppendClaim, ClaimBatch
  <2> HIDE DEF c, s
  <2>4. CASE control' = [control EXCEPT ![job[w].to] = Append(Append(@, c), s)]
    <3>1. ASSUME NEW t \in Threads, NEW e \in Envelopes
          PROVE  Spawns(control'[t], e) = Spawns(control[t], e)
      <4>1. CASE t = job[w].to
        <5>1. /\ control'[t] = Append(Append(control[t], c), s)
              /\ control[t] \in Seq(Events)
          BY <1>0, <2>4, <4>1
        <5> DEFINE p == Append(control[t], c)
        <5>2. p \in Seq(Events) /\ control'[t] = Append(p, s)
          BY <2>2, <5>1
        <5>3. Spawns(p, e) = Spawns(control[t], e)
          BY <2>2, <5>1, AppendSpawns
        <5> HIDE DEF p
        <5>4. Spawns(control'[t], e) = Spawns(p, e)
          BY <2>2, <5>2, AppendSpawns
        <5> QED
          BY <5>3, <5>4
      <4>2. CASE t # job[w].to
        BY <1>0, <2>4, <4>2
      <4> QED
        BY <4>1, <4>2
    <3> QED
      BY <3>1 DEF SpawnsKept
  <2> QED
    BY <1>1, <1>2, <2>2, <2>3, <2>4
<1>4. CASE AppendSettle(w)
  <2>1. pc[w] \in Pinned
    BY <1>4 DEF AppendSettle, Pinned, Labels
  <2>2. /\ Event("settled", job[w].env, job[w].turn, job[w].dec) \in Events
        /\ Event("settled", job[w].env, job[w].turn, job[w].dec).kind # "spawned"
        /\ job[w].to \in Threads
    BY <2>1, OwnEvents, PinnedJob
  <2> QED
    BY <1>1, <1>2, <1>4, <2>2 DEF AppendSettle
<1> QED
  BY <1>1, <1>2, <1>3, <1>4, StepJournal

\* The workers that a step of w does not move keep the lock they hold.
LEMMA OthersScoped ==
    ASSUME TypeInv, ForkInv, NEW w \in Workers, Steps(w),
           NEW v \in Workers \ {w}
    PROVE  /\ Scoped(pc'[v], job'[v], v, scope')
           /\ Scoped(pc[v], job[v], v, scope) /\ pc'[v] = pc[v]
           /\ job'[v].env = job[v].env /\ job'[v].dec = job[v].dec
<1>1. /\ pc'[v] = pc[v] /\ job'[v].dec = job[v].dec
      /\ job'[v].env = job[v].env
  BY StepMoves DEF SameJob
<1>2. Scoped(pc[v], job[v], v, scope)
  BY DEF ForkInv
<1>3. scope = v => scope' = v
  <2>1. v # None
    BY IngressAssumption DEF IngressAssumption
  <2> QED
    BY <2>1, StepScope DEF LeaveScope
<1> QED
  BY <1>1, <1>2, <1>3 DEF Scoped

\* Any step but a spawn.
LEMMA ForkMove ==
    ASSUME TypeInv, ForkInv, NEW w \in Workers, Steps(w), ~AppendSpawned(w),
           Scoped(pc'[w], job'[w], w, scope'),
           Childless(pc'[w], job'[w], control)
    PROVE  ForkInv'
<1>1. SpawnsKept
  BY StepSpawns
<1>2. ASSUME NEW v \in Workers PROVE Scoped(pc'[v], job'[v], v, scope')
  BY OthersScoped
<1>3. ASSUME NEW v \in Workers, pc'[v] # "idle"
      PROVE  Childless(pc'[v], job'[v], control)
  <2>1. CASE v = w
    BY <2>1
  <2>2. CASE v # w
    <3>1. /\ pc'[v] = pc[v] /\ job'[v].dec = job[v].dec
          /\ job'[v].env = job[v].env
      BY <2>2, OthersScoped
    <3>2. Childless(pc[v], job[v], control)
      BY DEF ForkInv
    <3> QED
      BY <3>1, <3>2 DEF Childless
  <2> QED
    BY <2>1, <2>2
<1>4. TypeInv'
  BY TypeStep DEF Next, Steps
<1>5. ASSUME NEW v \in Workers PROVE Childless(pc'[v], job'[v], control')
  <2>1. CASE pc'[v] = "idle"
    BY <2>1 DEF Childless
  <2>2. CASE pc'[v] # "idle"
    <3>1. job'[v].env \in Envelopes
      BY <1>4, <2>2 DEF TypeInv, JobShape
    <3> QED
      BY <1>1, <1>3, <2>2, <3>1 DEF Childless, SpawnsKept
  <2> QED
    BY <2>1, <2>2
<1>6. SpawnsOnce(control')
  BY <1>1 DEF ForkInv, SpawnsOnce, SpawnsKept
<1> QED
  BY <1>2, <1>5, <1>6 DEF ForkInv

\* Steps that lead out of the fork's critical labels, or never were in them.
LEMMA ForkLeaves ==
    ASSUME TypeInv, ForkInv, NEW w \in Workers, Steps(w), ~AppendSpawned(w),
           pc'[w] \notin ForkLabels \/ job'[w].dec # "fork"
    PROVE  ForkInv'
<1>1. Scoped(pc'[w], job'[w], w, scope')
  BY DEF Scoped
<1>2. Childless(pc'[w], job'[w], control)
  BY DEF Childless, ForkLabels
<1> QED
  BY <1>1, <1>2, ForkMove

\* Steps inside them, before the claim or after it.
LEMMA ForkGoesOn ==
    ASSUME TypeInv, ForkInv, NEW w \in Workers, Steps(w), ~AppendSpawned(w),
           scope' = scope, pc[w] \in ForkLabels,
           job'[w].dec = job[w].dec, job'[w].env = job[w].env,
           \/ pc'[w] \in {"read", "append"}
           \/ pc[w] \in {"commit", "create", "spawn"}
    PROVE  ForkInv'
<1>1. Scoped(pc[w], job[w], w, scope) /\ Childless(pc[w], job[w], control)
  BY DEF ForkInv
<1>2. Scoped(pc'[w], job'[w], w, scope')
  BY <1>1 DEF Scoped
<1>3. Childless(pc'[w], job'[w], control)
  BY <1>1 DEF Childless
<1> QED
  BY <1>2, <1>3, ForkMove

\* Two claims of one envelope are one journal entry.
LEMMA SameClaim ==
    ASSUME ClaimCore, NEW e \in Envelopes, NEW s \in Threads, NEW t \in Threads,
           NEW i \in DOMAIN control[s], NEW k \in DOMAIN control[t],
           control[s][i].kind = "claimed", control[s][i].env = e,
           control[t][k].kind = "claimed", control[t][k].env = e
    PROVE  s = t /\ i = k
<1>1. <<s, i>> \in ClaimsOn(Threads, e) /\ <<t, k>> \in ClaimsOn(Threads, e)
  BY ClaimPositions
<1>2. <<s, i>> = <<t, k>>
  BY <1>1 DEF ClaimCore, ClaimsAreUnique
<1> QED
  BY <1>2

LEMMA EnteringFork ==
    ASSUME TypeInv, ClaimCore, SettleInv, ForkInv, NEW w \in Workers,
           Steps(w), Entering(w), pc'[w] \in ForkLabels, job'[w].dec = "fork"
    PROVE  ForkInv'
<1>0. /\ pc'[w] # "idle" /\ job \in [Workers -> Jobs] /\ job[w] \in Jobs
      /\ Good(pc[w], job[w], control, trace) /\ pc \in [Workers -> Labels]
  BY DEF ForkLabels, TypeInv, TypeOK, SettleInv
<1>1. ~Abandon(w) /\ \A found, loser : ~Resume(w, found, loser)
  BY <1>0, AbandonMoves, ResumeMoves DEF Moves, ForkLabels
<1>2. CASE RecordOwnership(w)
  BY <1>0, <1>2 DEF RecordOwnership, Goto, ForkLabels
<1>3. CASE Reserve(w)
  <2>1. job[w].dec # "fork"
    BY <1>0, <1>3 DEF Reserve, Good, OnPath
  <2>2. job'[w] = job[w] \/ job'[w] = [job[w] EXCEPT !.holds = TRUE]
    BY <1>0, <1>1, <1>3 DEF Reserve
  <2>3. job'[w].dec = job[w].dec
    BY <1>0, <2>2 DEF Jobs
  <2> QED
    BY <2>1, <2>3
<1>4. CASE LockAdmission(w)
  <2>1. /\ pc[w] = "lock" /\ scope' = scope /\ pc'[w] \in {"read", "await"}
        /\ pc'[w] = "read" => job' = job
    BY <1>0, <1>1, <1>4 DEF LockAdmission, Goto
  <2>2. pc'[w] = "read" /\ job' = job /\ ~AppendSpawned(w)
    BY <2>1 DEF ForkLabels, AppendSpawned
  <2> QED
    BY <2>1, <2>2, ForkGoesOn DEF ForkLabels
<1>5. CASE ReadClaimStream(w)
  <2>1. /\ pc[w] = "read" /\ scope' = scope /\ pc'[w] = "append"
        /\ job' = [job EXCEPT ![w].tail = Len(control[job[w].to])]
    BY <1>0, <1>1, <1>5 DEF ReadClaimStream, Goto
  <2>2. job'[w].dec = job[w].dec /\ job'[w].env = job[w].env
    BY <1>0, <2>1 DEF Jobs
  <2>3. ~AppendSpawned(w)
    BY <2>1 DEF AppendSpawned
  <2> QED
    BY <2>1, <2>2, <2>3, ForkGoesOn DEF ForkLabels
<1>6. CASE AppendClaim(w)
  <2>1. /\ pc[w] = "append" /\ scope' = scope /\ job' = job
        /\ pc'[w] \in {"read", "commit"} /\ ~AppendSpawned(w)
    BY <1>0, <1>6 DEF AppendClaim, Goto, AppendSpawned
  <2>2. Scoped(pc'[w], job'[w], w, scope')
    BY <2>1 DEF ForkInv, Scoped, ForkLabels
  <2>3. job[w].env \in Envelopes
    BY <2>1, PinnedJob
  <2>4. ClaimsOn(Threads, job[w].env) = {}
    BY <2>1, DisciplinePerWorker DEF ClaimCore, Disciplined
  <2>5. \A s \in Threads : Spawns(control[s], job[w].env) = {}
    BY <2>3, <2>4, NothingBeforeClaim
  <2>6. Childless(pc'[w], job'[w], control)
    BY <2>1, <2>5 DEF Childless
  <2> QED
    BY <2>1, <2>2, <2>6, ForkMove
<1>7. CASE CommitAdmission(w) \/ CreateChild(w)
  <2>1. /\ pc[w] \in {"commit", "create"} /\ scope' = scope /\ job' = job
        /\ ~AppendSpawned(w)
    BY <1>7 DEF CommitAdmission, CreateChild, AppendSpawned
  <2> QED
    BY <2>1, ForkGoesOn DEF ForkLabels
<1>8. CASE TakeScope(w)
  <2>1. /\ pc[w] = "scope" /\ ~AppendSpawned(w) /\ job' = job
        /\ pc'[w] \in {"lock", "adopt", "create", "done"}
    BY <1>0, <1>1, <1>8 DEF TakeScope, Goto, AppendSpawned
  <2>2. pc'[w] \in {"lock", "create"}
    BY <2>1 DEF ForkLabels
  <2>3. /\ scope' = w
        /\ pc'[w] = "create" =>
              job[w].rec /\ ~SpawnedFor(job[w].to, job[w].turn)
    BY <1>0, <1>1, <1>8, <2>2 DEF TakeScope, Goto
  <2>4. Scoped(pc'[w], job'[w], w, scope')
    BY <2>3 DEF Scoped
  <2>5. Childless(pc'[w], job'[w], control)
    <3> SUFFICES ASSUME pc'[w] = "create", NEW s \in Threads,
                        NEW i \in Spawns(control[s], job[w].env)
                 PROVE  FALSE
      BY <2>1, <2>2 DEF Childless
    <3>1. job[w].to \in Threads /\ job[w].env \in Envelopes
      BY <2>1, PinnedJob DEF Pinned, Labels
    <3>2. HasClaim(control[job[w].to], job[w].env, job[w].turn, job[w].dec)
      BY <1>0, <2>1, <2>3 DEF Good, Backed
    <3>3. PICK k \in DOMAIN control[job[w].to] :
             /\ control[job[w].to][k].kind = "claimed"
             /\ control[job[w].to][k].env = job[w].env
             /\ control[job[w].to][k].turn = job[w].turn
      BY <3>2 DEF HasClaim
    <3>4. /\ i \in DOMAIN control[s] /\ control[s][i].kind = "spawned"
          /\ control[s][i].env = job[w].env
      BY DEF Spawns
    <3>5. SpawnsGood(control[s])
      BY DEF SettleInv, StreamGood
    <3>6. PICK j \in DOMAIN control[s] :
             /\ control[s][j].kind = "claimed"
             /\ control[s][j].env = job[w].env
             /\ control[s][j].turn = control[s][i].turn
      BY <3>4, <3>5 DEF SpawnsGood
    <3>7. s = job[w].to /\ j = k
      BY <3>1, <3>3, <3>6, SameClaim
    <3>8. control[s][i].turn = job[w].turn
      BY <3>3, <3>6, <3>7
    <3>9. SpawnedFor(job[w].to, job[w].turn)
      BY <3>4, <3>7, <3>8 DEF SpawnedFor
    <3> QED
      BY <2>3, <3>9
  <2> QED
    BY <2>1, <2>4, <2>5, ForkMove
<1> QED
  BY <1>2, <1>3, <1>4, <1>5, <1>6, <1>7, <1>8 DEF Entering

\* The spawn itself: the scope lock keeps every other fork out.
LEMMA AppendSpawnedFork ==
    ASSUME TypeInv, SettleInv, ForkInv, NEW w \in Workers, AppendSpawned(w)
    PROVE  ForkInv'
<1> DEFINE t == job[w].to
           x == Event("spawned", job[w].env, job[w].turn, job[w].dec)
           n == Len(control[t]) + 1
<1>1. /\ pc[w] = "spawn" /\ scope' = scope /\ job' = job /\ pc'[w] = "rebind"
      /\ control' = [control EXCEPT ![t] = Append(@, x)]
      /\ control \in [Threads -> Seq(Events)]
  BY DEF AppendSpawned, Goto, TypeInv, TypeOK
<1>2. Steps(w)
  BY DEF Steps, Apply
<1>3. job[w].env \in Envelopes /\ t \in Threads
  BY <1>1, PinnedJob DEF Pinned, Labels
<1>4. x \in Events /\ x.kind = "spawned" /\ x.env = job[w].env
  BY <1>1, OwnEvents DEF Pinned, Labels
<1>5. job[w].dec = "fork"
  BY <1>1 DEF SettleInv, Good, OnPath
<1>6. scope = w /\ \A s \in Threads : Spawns(control[s], job[w].env) = {}
  BY <1>1, <1>5 DEF ForkInv, Scoped, Childless, ForkLabels
<1> HIDE DEF x
<1>7. ASSUME NEW v \in Workers PROVE Scoped(pc'[v], job'[v], v, scope')
  <2>1. CASE v = w
    BY <1>1, <2>1 DEF Scoped, ForkLabels
  <2>2. CASE v # w
    BY <1>2, <2>2, OthersScoped
  <2> QED
    BY <2>1, <2>2
<1>8. ASSUME NEW v \in Workers PROVE Childless(pc'[v], job'[v], control')
  <2>1. CASE v = w
    BY <1>1, <2>1 DEF Childless
  <2>2. CASE v # w
    <3>1. /\ Scoped(pc[v], job[v], v, scope) /\ pc'[v] = pc[v]
          /\ job'[v].dec = job[v].dec
      BY <1>2, <2>2, OthersScoped
    <3> QED
      BY <1>6, <2>2, <3>1 DEF Scoped, Childless, ForkLabels
  <2> QED
    BY <2>1, <2>2
<1>9. ASSUME NEW e \in Envelopes, NEW s \in Threads, NEW i \in Spawns(control'[s], e)
      PROVE  \/ e = job[w].env /\ s = t /\ i = n
             \/ e # job[w].env /\ i \in Spawns(control[s], e)
  <2>1. CASE s # t
    <3>1. control'[s] = control[s]
      BY <1>1, <1>3, <2>1
    <3> QED
      BY <1>6, <1>9, <3>1
  <2>2. CASE s = t
    <3>1. control'[s] = Append(control[s], x) /\ control[s] \in Seq(Events)
      BY <1>1, <1>3, <2>2
    <3>2. CASE e # job[w].env
      BY <1>4, <1>9, <3>1, <3>2, AppendSpawns
    <3>3. CASE e = job[w].env
      <4>1. i \in DOMAIN control'[s] /\ control'[s][i].kind = "spawned"
            /\ control'[s][i].env = e
        BY <1>9 DEF Spawns
      <4>2. CASE i \in DOMAIN control[s]
        <5>1. control'[s][i] = control[s][i]
          BY <1>4, <3>1, <4>2, AppendAt
        <5>2. i \in Spawns(control[s], e)
          BY <4>1, <4>2, <5>1 DEF Spawns
        <5> QED
          BY <1>6, <3>3, <5>2
      <4>3. CASE i \notin DOMAIN control[s]
        BY <1>4, <2>2, <3>1, <3>3, <4>1, <4>3, AppendAt
      <4> QED
        BY <4>2, <4>3
    <3> QED
      BY <3>2, <3>3
  <2> QED
    BY <2>1, <2>2
<1> HIDE DEF n
<1>10. SpawnsOnce(control')
  <2> SUFFICES ASSUME NEW e \in Envelopes, NEW s \in Threads,
                      NEW r \in Threads, NEW i \in Spawns(control'[s], e),
                      NEW k \in Spawns(control'[r], e)
               PROVE  s = r /\ i = k
    BY DEF SpawnsOnce
  <2>1. CASE e = job[w].env
    BY <1>9, <2>1
  <2>2. CASE e # job[w].env
    <3>1. i \in Spawns(control[s], e) /\ k \in Spawns(control[r], e)
      BY <1>9, <2>2
    <3> QED
      BY <3>1 DEF ForkInv, SpawnsOnce
  <2> QED
    BY <2>1, <2>2
<1> QED
  BY <1>7, <1>8, <1>10 DEF ForkInv

LEMMA ForkStep ==
    ASSUME TypeInv, ClaimCore, SettleInv, ForkInv, [Next]_vars
    PROVE  ForkInv'
<1>1. ASSUME NEW w \in Workers, Steps(w) PROVE ForkInv'
  <2>1. CASE AppendSpawned(w)
    BY <2>1, AppendSpawnedFork
  <2>2. CASE ~AppendSpawned(w) /\ pc'[w] \in ForkLabels /\ job'[w].dec = "fork"
    <3>1. Entering(w)
      BY <1>1, <2>2, StepMoves
    <3> QED
      BY <1>1, <2>2, <3>1, EnteringFork
  <2>3. CASE ~AppendSpawned(w) /\ (pc'[w] \notin ForkLabels \/ job'[w].dec # "fork")
    BY <1>1, <2>3, ForkLeaves
  <2> QED
    BY <2>1, <2>2, <2>3
<1>2. CASE Crash
  <2>1. control' = control /\ \A w \in Workers : pc'[w] = "idle"
    BY <1>2 DEF Crash
  <2> QED
    BY <2>1 DEF ForkInv, Scoped, Childless, ForkLabels
<1>3. CASE pc' = pc /\ job' = job /\ control' = control /\ scope' = scope
  BY <1>3 DEF ForkInv
<1>4. \/ \E w \in Workers : Steps(w)
      \/ Crash
      \/ pc' = pc /\ job' = job /\ control' = control /\ scope' = scope
  BY DEF Next, Steps, Expire, Execute, StartCommand, CompileContext,
         ActiveCommand, FinishTurn, FailTurn, DeliverAnswer, Drained, vars
<1> QED
  BY <1>1, <1>2, <1>3, <1>4

LEMMA InitFork == Init => ForkInv
<1> SUFFICES ASSUME Init PROVE ForkInv
  OBVIOUS
<1>1. \A s \in Threads : DOMAIN control[s] = {}
  BY DEF Init
<1>2. \A w \in Workers : pc[w] = "idle"
  BY DEF Init
<1> QED
  BY <1>1, <1>2 DEF ForkInv, Scoped, Childless, SpawnsOnce, Spawns, ForkLabels

(***************************************************************************)
(* No effects without a claim: what reaches a mailbox, a runtime or a      *)
(* thread stream is the turn of a claim, and a child exists under a fork   *)
(* claim.                                                                  *)
(***************************************************************************)
\* The turns a runtime may be given under the journal C.
LawTurns(C) ==
    {u \in MaybeTurns : u # None =>
        \E s \in Threads : \E i \in DOMAIN C[s] :
            /\ C[s][i].kind = "claimed" /\ C[s][i].env = u[1]
            /\ C[s][i].turn = u}
LawCommands(C) == {c \in Commands : c.turn \in LawTurns(C)}
LawRecords(C) == {x \in Records : x.turn \in LawTurns(C)}

Lawful(r, C) ==
    /\ r.running \in LawTurns(C) /\ r.mailbox \in Seq(LawCommands(C))
    /\ r.up = "absent" => r.running = None

ForkIn(C, e) ==
    \E s \in Threads : \E i \in DOMAIN C[s] :
        /\ C[s][i].kind = "claimed" /\ C[s][i].env = e
        /\ C[s][i].dec = "fork"

ThreadInv ==
    /\ \A t \in Threads : Lawful(thr[t], control)
    /\ \A t \in Threads : trace[t] \in Seq(LawRecords(control))
    /\ \A e \in Envelopes : thr[e].up # "absent" => ForkIn(control, e)
    /\ route \in Envelopes => ForkIn(control, route)
    /\ \A w \in Workers : pc[w] = "reload" => thr[job[w].to].up # "absent"

\* What a step may do to the runtimes under the journal it starts from.
Tame ==
    \A t \in Threads :
        /\ Lawful(thr'[t], control)
        /\ thr[t].up # "absent" => thr'[t].up # "absent"
        /\ thr'[t].up # "absent" =>
              thr[t].up # "absent" \/ t = Root \/ ForkIn(control, t)

LEMMA LawGrows ==
    ASSUME JournalGrows
    PROVE  /\ LawTurns(control) \subseteq LawTurns(control')
           /\ \A e : ForkIn(control, e) => ForkIn(control', e)
<1>1. \A s \in Threads : \A i \in DOMAIN control[s] :
          i \in DOMAIN control'[s] /\ control'[s][i] = control[s][i]
  BY DEF JournalGrows, Grows
<1>2. LawTurns(control) \subseteq LawTurns(control')
  BY <1>1 DEF LawTurns
<1>3. \A e : ForkIn(control, e) => ForkIn(control', e)
  BY <1>1 DEF ForkIn
<1> QED
  BY <1>2, <1>3

LEMMA SeqWidens ==
    ASSUME NEW A, NEW B, A \subseteq B, NEW q \in Seq(A)
    PROVE  q \in Seq(B)
<1>1. Len(q) \in Nat /\ DOMAIN q = 1..Len(q) /\ q \in [1..Len(q) -> A]
  BY LenProperties
<1>2. q \in [1..Len(q) -> B]
  BY <1>1
<1> QED
  BY <1>1, <1>2, SeqDef

LEMMA LawfulGrows ==
    ASSUME JournalGrows, NEW r, Lawful(r, control)
    PROVE  Lawful(r, control')
<1>1. LawTurns(control) \subseteq LawTurns(control')
  BY LawGrows
<1>2. LawCommands(control) \subseteq LawCommands(control')
  BY <1>1 DEF LawCommands
<1>3. r.mailbox \in Seq(LawCommands(control'))
  BY <1>2, SeqWidens DEF Lawful
<1> QED
  BY <1>1, <1>3 DEF Lawful

\* A step with a tame effect on the runtimes keeps the invariant.
LEMMA TameStep ==
    ASSUME ThreadInv, JournalGrows, Tame,
           \A t \in Threads : trace'[t] \in Seq(LawRecords(control)),
           route' \in Envelopes => ForkIn(control, route'),
           \A w \in Workers :
               pc'[w] = "reload" => thr'[job'[w].to].up # "absent"
    PROVE  ThreadInv'
<1>1. ASSUME NEW t \in Threads PROVE Lawful(thr'[t], control')
  BY LawfulGrows DEF Tame
<1>2. ASSUME NEW t \in Threads PROVE trace'[t] \in Seq(LawRecords(control'))
  <2>1. LawRecords(control) \subseteq LawRecords(control')
    BY LawGrows DEF LawRecords
  <2> QED
    BY <2>1, SeqWidens
<1>3. ASSUME NEW e \in Envelopes, thr'[e].up # "absent"
      PROVE  ForkIn(control', e)
  <2>1. e \in Threads /\ e # Root
    BY IngressAssumption DEF IngressAssumption, Threads
  <2>2. thr[e].up # "absent" \/ ForkIn(control, e)
    BY <1>3, <2>1 DEF Tame
  <2>3. ForkIn(control, e)
    BY <2>2 DEF ThreadInv
  <2> QED
    BY <2>3, LawGrows
<1>4. route' \in Envelopes => ForkIn(control', route')
  BY LawGrows
<1> QED
  BY <1>1, <1>2, <1>3, <1>4 DEF ThreadInv

(***************************************************************************)
(* The runtimes, under each kind of update.                                *)
(***************************************************************************)
LEMMA SameRuntimes ==
    ASSUME ThreadInv, thr' = thr
    PROVE  Tame
BY DEF ThreadInv, Tame

LEMMA OneRuntime ==
    ASSUME TypeInv, ThreadInv, NEW t \in Threads, NEW r,
           thr' = [thr EXCEPT ![t] = r], Lawful(r, control),
           thr[t].up # "absent" => r.up # "absent",
           r.up # "absent" =>
               thr[t].up # "absent" \/ t = Root \/ ForkIn(control, t)
    PROVE  Tame
<1>1. thr \in [Threads -> Runtimes]
  BY DEF TypeInv, TypeOK
<1> SUFFICES ASSUME NEW s \in Threads
             PROVE  /\ Lawful(thr'[s], control)
                    /\ thr[s].up # "absent" => thr'[s].up # "absent"
                    /\ thr'[s].up # "absent" =>
                         thr[s].up # "absent" \/ s = Root \/ ForkIn(control, s)
  BY DEF Tame
<1>2. CASE s = t
  BY <1>1, <1>2
<1>3. CASE s # t
  BY <1>1, <1>3 DEF ThreadInv
<1> QED
  BY <1>2, <1>3

\* A runtime that keeps its status, its turn and its mailbox.
LEMMA SameWork ==
    ASSUME NEW r, NEW q, NEW C, Lawful(r, C), q.up = r.up,
           q.running = r.running, q.mailbox = r.mailbox
    PROVE  Lawful(q, C)
BY DEF Lawful

LEMMA NoTurnLawful == ASSUME NEW C PROVE None \in LawTurns(C)
BY DEF LawTurns, MaybeTurns

LEMMA FreshLawful ==
    ASSUME NEW C, NEW x
    PROVE  /\ Lawful(Resident, C) /\ Resident.up = "live"
           /\ Lawful([Resident EXCEPT !.ctx = x], C)
           /\ [Resident EXCEPT !.ctx = x].up = "live"
           /\ Lawful(Absent, C) /\ Absent.up = "absent"
<1>1. <<>> \in Seq(LawCommands(C))
  OBVIOUS
<1> QED
  BY <1>1, NoTurnLawful DEF Lawful, Resident, Absent

LEMMA FreshRuntime ==
    ASSUME TypeInv, ThreadInv, NEW t \in Threads, NEW x,
           \/ thr' = [thr EXCEPT ![t] = Resident]
           \/ thr' = [thr EXCEPT ![t] = [Resident EXCEPT !.ctx = x]],
           thr[t].up # "absent" \/ t = Root \/ ForkIn(control, t)
    PROVE  Tame
BY FreshLawful, OneRuntime

\* Reservations are not work.
LEMMA ReservedOnly ==
    ASSUME TypeInv, ThreadInv, NEW t \in Threads, NEW R,
           thr' = [thr EXCEPT ![t].reserved = R]
    PROVE  Tame
<1> DEFINE r == [thr[t] EXCEPT !.reserved = R]
<1>1. thr \in [Threads -> Runtimes] /\ thr[t] \in Runtimes
  BY DEF TypeInv, TypeOK
<1>2. /\ r.up = thr[t].up /\ r.running = thr[t].running
      /\ r.mailbox = thr[t].mailbox
  BY <1>1 DEF Runtimes
<1>3. thr' = [thr EXCEPT ![t] = r]
  BY <1>1
<1> HIDE DEF r
<1>4. Lawful(r, control)
  BY <1>2, SameWork DEF ThreadInv
<1> QED
  BY <1>2, <1>3, <1>4, OneRuntime

LEMMA DropTame ==
    ASSUME TypeInv, ThreadInv, NEW w \in Workers, thr' = DropReservation(w)
    PROVE  Tame
<1>1. thr \in [Threads -> Runtimes]
  BY DEF TypeInv, TypeOK
<1>2. CASE thr' = thr
  BY <1>2, SameRuntimes
<1>3. CASE /\ job[w].to \in Threads
           /\ thr' = [thr EXCEPT ![job[w].to].reserved =
                         thr[job[w].to].reserved \ {job[w].turn}]
  BY <1>3, ReservedOnly
<1>4. CASE /\ job[w].to \notin Threads
           /\ thr' = [thr EXCEPT ![job[w].to].reserved =
                         thr[job[w].to].reserved \ {job[w].turn}]
  <2>1. thr' = thr
    BY <1>1, <1>4
  <2> QED
    BY <1>2, <2>1
<1> QED
  BY <1>2, <1>3, <1>4 DEF DropReservation

\* A command of a claimed turn, or a cancel, joins the mailbox.
LEMMA PostTame ==
    ASSUME TypeInv, ThreadInv, NEW t \in Threads, NEW c \in LawCommands(control),
           NEW R,
           \/ thr' = [thr EXCEPT ![t].mailbox = Append(@, c)]
           \/ thr' = [thr EXCEPT ![t] =
                         [thr[t] EXCEPT !.reserved = R,
                                        !.mailbox = Append(@, c)]]
    PROVE  Tame
<1> DEFINE m == Append(thr[t].mailbox, c)
           r == [thr[t] EXCEPT !.mailbox = m]
           q == [thr[t] EXCEPT !.reserved = R, !.mailbox = m]
<1>1. thr \in [Threads -> Runtimes] /\ thr[t] \in Runtimes
  BY DEF TypeInv, TypeOK
<1>2. m \in Seq(LawCommands(control))
  BY DEF ThreadInv, Lawful
<1>3. thr' = [thr EXCEPT ![t] = r] \/ thr' = [thr EXCEPT ![t] = q]
  BY <1>1
<1> HIDE DEF m
<1>4. /\ r.up = thr[t].up /\ r.running = thr[t].running /\ r.mailbox = m
      /\ q.up = thr[t].up /\ q.running = thr[t].running /\ q.mailbox = m
  BY <1>1 DEF Runtimes
<1> HIDE DEF r, q
<1>5. Lawful(r, control) /\ Lawful(q, control)
  BY <1>2, <1>4 DEF ThreadInv, Lawful
<1> QED
  BY <1>3, <1>4, <1>5, OneRuntime

(***************************************************************************)
(* Every step is tame.                                                     *)
(***************************************************************************)
\* An apply that performs effects carries the turn of a claim.
LEMMA BackedTurn ==
    ASSUME TypeInv, SettleInv, NEW w \in Workers, pc[w] \in Effects
    PROVE  /\ job[w].turn \in LawTurns(control)
           /\ job[w].dec = "fork" => ForkIn(control, job[w].env)
<1>1. pc[w] \in Pinned /\ pc[w] # "idle"
  BY DEF Effects, Pinned, Labels
<1>2. /\ job[w].to \in Threads /\ job[w].env \in Envelopes
      /\ job[w].turn \in {job[w].env} \X Attempts
  BY <1>1, PinnedJob
<1>3. HasClaim(control[job[w].to], job[w].env, job[w].turn, job[w].dec)
  BY DEF SettleInv, Good, Backed
<1>4. PICK i \in DOMAIN control[job[w].to] :
         /\ control[job[w].to][i].kind = "claimed"
         /\ control[job[w].to][i].env = job[w].env
         /\ control[job[w].to][i].turn = job[w].turn
         /\ control[job[w].to][i].dec = job[w].dec
  BY <1>3 DEF HasClaim
<1>5. job[w].turn \in MaybeTurns /\ job[w].turn[1] = job[w].env
  BY <1>2 DEF MaybeTurns, Turns
<1>6. job[w].turn \in LawTurns(control)
  BY <1>2, <1>4, <1>5 DEF LawTurns
<1>7. job[w].dec = "fork" => ForkIn(control, job[w].env)
  BY <1>2, <1>4 DEF ForkIn
<1> QED
  BY <1>6, <1>7

LEMMA SubmissionLawful ==
    ASSUME NEW C, NEW u \in LawTurns(C), NEW d
    PROVE  Submission(u, d) \in LawCommands(C)
<1>1. u \in MaybeTurns
  BY DEF LawTurns
<1>2. Submission(u, d) \in Commands /\ Submission(u, d).turn = u
  BY <1>1, SubmissionTyped DEF Submission
<1> QED
  BY <1>2 DEF LawCommands

\* What the bound thread of a conversation rests on.
LEMMA WitnessTame ==
    ASSUME TypeInv, ThreadInv, NEW w \in Workers, Witness(w)
    PROVE  /\ Tame
           /\ route' \in Envelopes => ForkIn(control, route')
<1>1. PICK t : /\ t = IF route = None THEN Root ELSE route
               /\ route' = t
               /\ thr' = IF thr[t].up = "absent"
                         THEN [thr EXCEPT ![t] = Resident] ELSE thr
  BY DEF Witness
<1>2. t \in Threads
  BY <1>1 DEF TypeInv, TypeOK, Threads
<1>3. t = Root \/ ForkIn(control, t)
  BY <1>1, <1>2 DEF ThreadInv, Threads
<1>4. Tame
  BY <1>1, <1>2, <1>3, SameRuntimes, FreshRuntime
<1> QED
  BY <1>1, <1>3, <1>4, IngressAssumption DEF IngressAssumption

LEMMA ReserveTame ==
    ASSUME TypeInv, ThreadInv, NEW w \in Workers, Reserve(w)
    PROVE  Tame
<1>1. job[w].to \in Threads
  BY PinnedJob DEF Reserve, Pinned, Labels
<1>2. \/ thr' = thr
      \/ thr' = [thr EXCEPT ![job[w].to].reserved =
                    thr[job[w].to].reserved \cup {job[w].turn}]
      \/ thr' = DropReservation(w)
  BY DEF Reserve, Abandon
<1>3. CASE thr' = [thr EXCEPT ![job[w].to].reserved =
                      thr[job[w].to].reserved \cup {job[w].turn}]
  BY <1>1, <1>3, ReservedOnly
<1> QED
  BY <1>2, <1>3, SameRuntimes, DropTame

LEMMA PostsTame ==
    ASSUME TypeInv, SettleInv, ThreadInv, NEW w \in Workers,
           CancelActive(w) \/ SubmitTurn(w)
    PROVE  Tame
<1>1. pc[w] \in Effects /\ pc[w] \in Pinned
  BY DEF CancelActive, SubmitTurn, Effects, Pinned, Labels
<1>2. job[w].to \in Threads /\ job[w].turn \in LawTurns(control)
  BY <1>1, PinnedJob, BackedTurn
<1> DEFINE c == [mode |-> "cancel", turn |-> None]
           u == Submission(job[w].turn, job[w].dec)
<1>3. c \in LawCommands(control)
  <2>1. c \in Commands
    BY DEF Commands, MaybeTurns
  <2> QED
    BY <2>1, NoTurnLawful DEF LawCommands
<1>4. u \in LawCommands(control)
  BY <1>2, SubmissionLawful
<1>5. \/ thr' = thr
      \/ thr' = [thr EXCEPT ![job[w].to].mailbox = Append(@, c)]
      \/ thr' = [thr EXCEPT ![job[w].to].mailbox = Append(@, u)]
  BY DEF CancelActive, SubmitTurn
<1> HIDE DEF c, u
<1> QED
  BY <1>2, <1>3, <1>4, <1>5, SameRuntimes, PostTame

LEMMA ReloadTame ==
    ASSUME TypeInv, ThreadInv, NEW w \in Workers, Reload(w)
    PROVE  Tame
<1>1. /\ job[w].to \in Threads /\ thr[job[w].to].up # "absent"
      /\ thr' = [thr EXCEPT ![job[w].to] =
                    [Resident EXCEPT !.ctx = thr[job[w].to].ctx]]
  BY PinnedJob DEF Reload, Pinned, Labels, ThreadInv
<1> QED
  BY <1>1, FreshRuntime

LEMMA CreateChildTame ==
    ASSUME TypeInv, SettleInv, ThreadInv, NEW w \in Workers, CreateChild(w)
    PROVE  Tame
<1>1. pc[w] = "create" /\ pc[w] \in Effects
  BY DEF CreateChild, Effects
<1>2. job[w].env \in Threads
  BY <1>1, PinnedJob DEF Threads
<1>3. job[w].dec = "fork"
  BY <1>1 DEF SettleInv, Good, OnPath
<1>4. ForkIn(control, job[w].env)
  BY <1>1, <1>3, BackedTurn
<1>5. thr' = thr \/ thr' = [thr EXCEPT ![job[w].env] = Resident]
  BY DEF CreateChild
<1> QED
  BY <1>2, <1>4, <1>5, SameRuntimes, FreshRuntime

LEMMA SubmitForkTame ==
    ASSUME TypeInv, SettleInv, ThreadInv, NEW w \in Workers, SubmitFork(w)
    PROVE  Tame
<1>1. pc[w] \in Effects /\ pc[w] # "idle"
  BY DEF SubmitFork, Effects
<1>2. job[w].env \in Threads /\ job[w].turn \in LawTurns(control)
  BY <1>1, PinnedJob, BackedTurn DEF Threads
<1> DEFINE t == job[w].env
           u == Submission(job[w].turn, "fork")
           R == thr[t].reserved \cup {job[w].turn}
<1>3. u \in LawCommands(control)
  BY <1>2, SubmissionLawful
<1>4. \/ thr' = thr
      \/ thr' = DropReservation(w)
      \/ thr' = [thr EXCEPT ![t] =
                    [thr[t] EXCEPT !.reserved = R, !.mailbox = Append(@, u)]]
  BY DEF SubmitFork, Abandon
<1> HIDE DEF u, R
<1> QED
  BY <1>2, <1>3, <1>4, SameRuntimes, DropTame, PostTame

\* The remaining steps of an apply leave the runtimes alone, or drop a
\* reservation.
LEMMA ApplyTame ==
    ASSUME TypeInv, SettleInv, ThreadInv, NEW w \in Workers, Steps(w)
    PROVE  Tame
<1>1. CASE \/ Witness(w) \/ Reserve(w) \/ CancelActive(w) \/ SubmitTurn(w)
           \/ Reload(w) \/ CreateChild(w) \/ SubmitFork(w)
  BY <1>1, WitnessTame, ReserveTame, PostsTame, ReloadTame, CreateChildTame,
     SubmitForkTame
<1>2. CASE ~(\/ Witness(w) \/ Reserve(w) \/ CancelActive(w) \/ SubmitTurn(w)
             \/ Reload(w) \/ CreateChild(w) \/ SubmitFork(w))
  <2>1. thr' = thr \/ thr' = DropReservation(w)
    BY <1>2 DEF Steps, Apply, Fault, Lease, FoldOutcome, RecordDecision,
       RecordOwnership, LockAdmission, AwaitOutcome, ReadClaimStream,
       AppendClaim, CommitAdmission, AwaitEvidence, ReadSettleStream,
       AppendSettle, Recover, CheckEvidence, TakeScope, AppendSpawned,
       RebindRoute, Timeout, Complete, Abandon, Resume
  <2> QED
    BY <2>1, SameRuntimes, DropTame
<1> QED
  BY <1>1, <1>2

LEMMA ApplyRoute ==
    ASSUME TypeInv, SettleInv, ThreadInv, NEW w \in Workers, Steps(w)
    PROVE  /\ route' \in Envelopes => ForkIn(control, route')
           /\ trace' = trace
<1>1. CASE Witness(w)
  BY <1>1, WitnessTame DEF Witness
<1>2. CASE RebindRoute(w)
  <2>1. /\ pc[w] \in {"rebind", "adopt"} /\ route' = job[w].env
        /\ trace' = trace
    BY <1>2 DEF RebindRoute
  <2>2. job[w].dec = "fork" /\ pc[w] \in Effects
    BY <2>1 DEF SettleInv, Good, OnPath, Effects
  <2> QED
    BY <2>1, <2>2, BackedTurn
<1>3. CASE ~Witness(w) /\ ~RebindRoute(w)
  <2>1. route' = route /\ trace' = trace
    BY <1>3 DEF Steps, Apply, Fault, Lease, FoldOutcome, RecordDecision,
       RecordOwnership, Reserve, LockAdmission, AwaitOutcome,
       ReadClaimStream, AppendClaim, CommitAdmission, CancelActive,
       SubmitTurn, AwaitEvidence, ReadSettleStream, AppendSettle, Recover,
       Reload, CheckEvidence, TakeScope, CreateChild, AppendSpawned,
       SubmitFork, Timeout, Complete
  <2> QED
    BY <2>1 DEF ThreadInv
<1> QED
  BY <1>1, <1>2, <1>3

LEMMA ApplyThreads ==
    ASSUME TypeInv, SettleInv, ThreadInv, NEW w \in Workers, Steps(w)
    PROVE  ThreadInv'
<1>1. Tame /\ JournalGrows
  BY ApplyTame, StepGrows
<1>2. /\ route' \in Envelopes => ForkIn(control, route')
      /\ \A t \in Threads : trace'[t] \in Seq(LawRecords(control))
  BY ApplyRoute DEF ThreadInv
<1>3. ASSUME NEW v \in Workers, pc'[v] = "reload"
      PROVE  thr'[job'[v].to].up # "absent"
  <2>1. CASE v # w
    <3>1. pc[v] = "reload" /\ job'[v].to = job[v].to
      BY <1>3, <2>1, StepMoves DEF SameJob
    <3>2. job[v].to \in Threads /\ thr[job[v].to].up # "absent"
      BY <3>1, PinnedJob DEF ThreadInv, Pinned, Labels
    <3> QED
      BY <1>1, <3>1, <3>2 DEF Tame
  <2>2. CASE v = w
    <3>1. Recover(w)
      BY <1>3, <2>2, StepMoves
    <3>2. pc[w] = "recover" /\ thr' = thr /\ job' = job
      BY <3>1 DEF Recover
    <3>3. thr[job[w].to].up = "failed"
      <4>1. pc \in [Workers -> Labels]
        BY DEF TypeInv, TypeOK
      <4>2. PICK l : /\ Goto(w, IF thr[job[w].to].up = "failed" THEN "reload" ELSE l)
                     /\ l \in {"scope", "cancel", "check"}
        BY <3>1 DEF Recover
      <4> QED
        BY <1>3, <2>2, <4>1, <4>2 DEF Goto
    <3> QED
      BY <2>2, <3>2, <3>3
  <2> QED
    BY <2>1, <2>2
<1> QED
  BY <1>1, <1>2, <1>3, TameStep

LEMMA CrashThreads ==
    ASSUME TypeInv, ThreadInv, Crash
    PROVE  ThreadInv'
<1>1. /\ control' = control /\ route' = route /\ trace' = trace
      /\ \A w \in Workers : pc'[w] = "idle"
      /\ \A t \in Threads :
            thr'[t] = IF thr[t].up = "absent" THEN Absent
                      ELSE [Resident EXCEPT !.ctx = thr[t].ctx]
  BY DEF Crash
<1>2. JournalGrows
  BY <1>1, StreamsTyped, GrowsSame DEF JournalGrows
<1>3. ASSUME NEW t \in Threads
      PROVE  /\ Lawful(thr'[t], control)
             /\ thr[t].up # "absent" <=> thr'[t].up # "absent"
  <2>1. CASE thr[t].up = "absent"
    <3>1. thr'[t] = Absent
      BY <1>1, <2>1
    <3> QED
      BY <2>1, <3>1, FreshLawful
  <2>2. CASE thr[t].up # "absent"
    <3>1. thr'[t] = [Resident EXCEPT !.ctx = thr[t].ctx]
      BY <1>1, <2>2
    <3> QED
      BY <2>2, <3>1, FreshLawful
  <2> QED
    BY <2>1, <2>2
<1>4. Tame
  BY <1>3 DEF Tame
<1> QED
  BY <1>1, <1>2, <1>4, TameStep DEF ThreadInv

(***************************************************************************)
(* The executing side works off what it was lawfully given.                *)
(***************************************************************************)
LawTrace == \A t \in Threads : trace'[t] \in Seq(LawRecords(control))

LEMMA RecordLawful ==
    ASSUME TypeInv, ThreadInv, NEW t \in Threads, NEW u \in LawTurns(control),
           NEW kind \in {"compiled", "steered", "failed"}
    PROVE  /\ Record(t, kind, u) => LawTrace
           /\ RecordSteer(t, u) => LawTrace
           /\ UNCHANGED trace => LawTrace
<1>1. /\ \A s \in Threads : trace[s] \in Seq(LawRecords(control))
      /\ trace \in [Threads -> Seq(Records)] /\ u \in MaybeTurns
  BY DEF ThreadInv, TypeInv, TypeOK, LawTurns
<1>2. ASSUME NEW k \in {"compiled", "steered", "failed"}, Record(t, k, u)
      PROVE  LawTrace
  <2> DEFINE x == [kind |-> k, turn |-> u]
  <2>1. x \in LawRecords(control)
    BY <1>1 DEF LawRecords, Records
  <2>2. trace' = [trace EXCEPT ![t] = Append(@, x)]
    BY <1>2 DEF Record
  <2> HIDE DEF x
  <2>3. ASSUME NEW s \in Threads PROVE trace'[s] \in Seq(LawRecords(control))
    <3>1. CASE s = t
      <4>1. trace'[s] = Append(trace[s], x)
        BY <1>1, <2>2, <3>1
      <4> QED
        BY <1>1, <2>1, <4>1
    <3>2. CASE s # t
      BY <1>1, <2>2, <3>2
    <3> QED
      BY <3>1, <3>2
  <2> QED
    BY <2>3 DEF LawTrace
<1>3. UNCHANGED trace => LawTrace
  BY <1>1 DEF LawTrace
<1> QED
  BY <1>2, <1>3 DEF RecordSteer

\* A runtime that works on: its new turn and mailbox are lawful.
LEMMA WorksOn ==
    ASSUME TypeInv, ThreadInv, NEW t \in Threads, NEW r,
           thr' = [thr EXCEPT ![t] = r], r.running \in LawTurns(control),
           r.mailbox \in Seq(LawCommands(control)),
           thr[t].up # "absent", r.up # "absent"
    PROVE  Tame
<1>1. Lawful(r, control)
  BY DEF Lawful
<1> QED
  BY <1>1, OneRuntime

LEMMA StartCommandTame ==
    ASSUME TypeInv, ThreadInv, NEW t \in Threads, StartCommand(t)
    PROVE  Tame /\ LawTrace
<1> DEFINE c == Head(thr[t].mailbox)
           m == Tail(thr[t].mailbox)
           r == [thr[t] EXCEPT !.mailbox = m]
           r2 == [r EXCEPT !.ctx = c.turn]
           r3 == [r EXCEPT !.running = c.turn, !.traced = FALSE,
                           !.ctx = c.turn]
<1>1. /\ thr[t] \in Runtimes /\ thr[t].up = "live" /\ thr[t].running = None
      /\ thr[t].mailbox \in Seq(LawCommands(control)) /\ thr[t].mailbox # <<>>
  BY DEF TypeInv, TypeOK, StartCommand, ThreadInv, Lawful
<1>2. c \in LawCommands(control) /\ m \in Seq(LawCommands(control))
  BY <1>1, HeadTailProperties
<1>3. c.turn \in LawTurns(control)
  BY <1>2 DEF LawCommands
<1>4. /\ \/ thr' = [thr EXCEPT ![t] = r] \/ thr' = [thr EXCEPT ![t] = r2]
         \/ thr' = [thr EXCEPT ![t] = r3]
      /\ UNCHANGED trace \/ RecordSteer(t, c.turn)
  BY DEF StartCommand
<1> HIDE DEF c, m
<1>5. /\ r.up = "live" /\ r.running = None /\ r.mailbox = m
      /\ r2.up = "live" /\ r2.running = None /\ r2.mailbox = m
      /\ r3.up = "live" /\ r3.running = c.turn /\ r3.mailbox = m
  BY <1>1 DEF Runtimes
<1> HIDE DEF r, r2, r3
<1>6. None \in LawTurns(control)
  BY NoTurnLawful
<1>7. Tame
  BY <1>1, <1>2, <1>3, <1>4, <1>5, <1>6, WorksOn
<1>8. LawTrace
  BY <1>3, <1>4, RecordLawful
<1> QED
  BY <1>7, <1>8

LEMMA ActiveCommandTame ==
    ASSUME TypeInv, ThreadInv, NEW t \in Threads, ActiveCommand(t)
    PROVE  Tame /\ LawTrace
<1> DEFINE L == LawCommands(control)
           box == thr[t].mailbox
<1>1. /\ thr[t] \in Runtimes /\ thr[t].up # "absent" /\ box \in Seq(L)
      /\ thr[t].running \in LawTurns(control)
  BY DEF TypeInv, TypeOK, ActiveCommand, ThreadInv, Lawful
<1>2. PICK i \in DOMAIN box :
        LET c == box[i]
            rest == RemoveAt(box, i)
        IN  \/ /\ thr' = [thr EXCEPT ![t] =
                             [@ EXCEPT !.mailbox = rest, !.ctx = c.turn]]
               /\ RecordSteer(t, c.turn)
            \/ /\ thr' = [thr EXCEPT ![t] =
                             [@ EXCEPT !.mailbox = rest, !.running = None]]
               /\ UNCHANGED trace
            \/ /\ thr' = [thr EXCEPT ![t] =
                       [@ EXCEPT !.running = None, !.mailbox =
                                 <<Submission(c.turn, "queue")>> \o rest]]
               /\ UNCHANGED trace
  BY DEF ActiveCommand
<1> DEFINE c == box[i]
           rest == RemoveAt(box, i)
           front == <<Submission(c.turn, "queue")>> \o rest
<1>3. c.turn \in LawTurns(control)
  <2>1. c \in L
    BY <1>1, <1>2
  <2> QED
    BY <2>1 DEF LawCommands
<1>4. rest \in Seq(L)
  <2> HIDE DEF L
  <2>1. i \in 1..Len(box)
    BY <1>1, <1>2
  <2>2. SubSeq(box, 1, i - 1) \in Seq(L)
    BY <1>1, <2>1, SubSeqProperties
  <2>3. SubSeq(box, i + 1, Len(box)) \in Seq(L)
    BY <1>1, <2>1, SubSeqProperties
  <2> QED
    BY <2>2, <2>3, ConcatProperties DEF RemoveAt
<1>5. front \in Seq(L)
  <2>1. Submission(c.turn, "queue") \in L
    BY <1>3, SubmissionLawful
  <2> HIDE DEF L
  <2>2. <<Submission(c.turn, "queue")>> \in Seq(L)
    BY <2>1
  <2> QED
    BY <1>4, <2>2, ConcatProperties
<1>6. PICK r1 : /\ r1 = [thr[t] EXCEPT !.mailbox = rest, !.ctx = c.turn]
  OBVIOUS
<1>7. PICK r2 : r2 = [thr[t] EXCEPT !.mailbox = rest, !.running = None]
  OBVIOUS
<1>8. PICK r3 : r3 = [thr[t] EXCEPT !.running = None, !.mailbox = front]
  OBVIOUS
<1>9. /\ \/ thr' = [thr EXCEPT ![t] = r1] \/ thr' = [thr EXCEPT ![t] = r2]
         \/ thr' = [thr EXCEPT ![t] = r3]
      /\ UNCHANGED trace \/ RecordSteer(t, c.turn)
  BY <1>2, <1>6, <1>7, <1>8
<1> HIDE DEF c, rest, front, box, L
<1>10. /\ r1.up = thr[t].up /\ r1.running = thr[t].running /\ r1.mailbox = rest
       /\ r2.up = thr[t].up /\ r2.running = None /\ r2.mailbox = rest
       /\ r3.up = thr[t].up /\ r3.running = None /\ r3.mailbox = front
  BY <1>1, <1>6, <1>7, <1>8 DEF Runtimes
<1>11. None \in LawTurns(control)
  BY NoTurnLawful
<1>12. Tame
  BY <1>1, <1>4, <1>5, <1>9, <1>10, <1>11, WorksOn DEF L
<1>13. LawTrace
  BY <1>3, <1>9, RecordLawful
<1> QED
  BY <1>12, <1>13

LEMMA TurnEndsTame ==
    ASSUME TypeInv, ThreadInv, NEW t \in Threads,
           CompileContext(t) \/ FinishTurn(t) \/ FailTurn(t)
    PROVE  Tame /\ LawTrace
<1> DEFINE r1 == [thr[t] EXCEPT !.traced = TRUE]
           r2 == [thr[t] EXCEPT !.running = None]
           r3 == [thr[t] EXCEPT !.up = "failed", !.mailbox = <<>>,
                                !.running = None, !.traced = FALSE]
<1>1. /\ thr \in [Threads -> Runtimes] /\ thr[t] \in Runtimes
      /\ thr[t].up # "absent" /\ thr[t].running \in LawTurns(control)
      /\ thr[t].mailbox \in Seq(LawCommands(control))
  BY DEF TypeInv, TypeOK, CompileContext, FinishTurn, FailTurn, ThreadInv,
         Lawful
<1>2. /\ \/ thr' = [thr EXCEPT ![t] = r1] \/ thr' = [thr EXCEPT ![t] = r2]
         \/ thr' = [thr EXCEPT ![t] = r3]
      /\ \/ UNCHANGED trace \/ Record(t, "compiled", thr[t].running)
         \/ Record(t, "failed", thr[t].running)
  BY <1>1 DEF CompileContext, FinishTurn, FailTurn
<1>3. /\ r1.up = thr[t].up /\ r1.running = thr[t].running
      /\ r1.mailbox = thr[t].mailbox
      /\ r2.up = thr[t].up /\ r2.running = None /\ r2.mailbox = thr[t].mailbox
      /\ r3.up = "failed" /\ r3.running = None /\ r3.mailbox = <<>>
  BY <1>1 DEF Runtimes
<1> HIDE DEF r1, r2, r3
<1>4. None \in LawTurns(control) /\ <<>> \in Seq(LawCommands(control))
  BY NoTurnLawful
<1>5. Tame
  BY <1>1, <1>2, <1>3, <1>4, WorksOn
<1>6. LawTrace
  BY <1>1, <1>2, RecordLawful
<1> QED
  BY <1>5, <1>6

LEMMA ThreadStep ==
    ASSUME TypeInv, SettleInv, ThreadInv, [Next]_vars
    PROVE  ThreadInv'
<1>1. CASE \E t \in Threads : Execute(t) \/ FailTurn(t)
  <2>1. Tame /\ LawTrace
    BY <1>1, StartCommandTame, ActiveCommandTame, TurnEndsTame DEF Execute
  <2>2. control' = control /\ route' = route /\ pc' = pc /\ job' = job
    BY <1>1 DEF Execute, StartCommand, ActiveCommand, CompileContext,
                FinishTurn, FailTurn
  <2>3. JournalGrows
    BY <2>2, StreamsTyped, GrowsSame DEF JournalGrows
  <2>4. ASSUME NEW w \in Workers, pc'[w] = "reload"
        PROVE  thr'[job'[w].to].up # "absent"
    <3>1. job[w].to \in Threads /\ thr[job[w].to].up # "absent"
      BY <2>2, <2>4, PinnedJob DEF ThreadInv, Pinned, Labels
    <3> QED
      BY <2>1, <2>2, <3>1 DEF Tame
  <2> QED
    BY <2>1, <2>2, <2>3, <2>4, TameStep DEF ThreadInv, LawTrace
<1>2. CASE /\ control' = control /\ route' = route /\ pc' = pc /\ job' = job
           /\ thr' = thr /\ trace' = trace
  BY <1>2 DEF ThreadInv
<1>3. \/ \E w \in Workers : Steps(w)
      \/ Crash
      \/ \E t \in Threads : Execute(t) \/ FailTurn(t)
      \/ /\ control' = control /\ route' = route /\ pc' = pc /\ job' = job
         /\ thr' = thr /\ trace' = trace
  BY DEF Next, Steps, Expire, DeliverAnswer, Drained, vars
<1> QED
  BY <1>1, <1>2, <1>3, ApplyThreads, CrashThreads

LEMMA InitThreads == Init => ThreadInv
<1> SUFFICES ASSUME Init PROVE ThreadInv
  OBVIOUS
<1>1. /\ \A t \in Threads : thr[t] = Absent /\ trace[t] = <<>>
      /\ \A w \in Workers : pc[w] = "idle"
      /\ route = None
  BY DEF Init
<1>2. Absent.up = "absent" /\ Lawful(Absent, control)
  BY FreshLawful
<1>3. <<>> \in Seq(LawRecords(control)) /\ Envelopes \subseteq Threads
  BY DEF Threads
<1> QED
  BY <1>1, <1>2, <1>3, IngressAssumption DEF ThreadInv, IngressAssumption

(***************************************************************************)
(* The theorems about forks and executions.                                *)
(***************************************************************************)
\* The whole invariant of the protocol, in every reachable state.
THEOREM IngressInvariant ==
    Spec => [](TypeInv /\ ClaimCore /\ SettleInv /\ ForkInv /\ ThreadInv)
<1>1. Init => TypeInv /\ ClaimCore /\ SettleInv /\ ForkInv /\ ThreadInv
  BY InitType, InitClaims, InitSettle, InitFork, InitThreads
<1>2. TypeInv /\ ClaimCore /\ SettleInv /\ ForkInv /\ ThreadInv /\ [Next]_vars
         => (TypeInv /\ ClaimCore /\ SettleInv /\ ForkInv /\ ThreadInv)'
  BY TypeStep, ClaimStep, SettleStep, ForkStep, ThreadStep
<1> QED
  BY <1>1, <1>2, PTL DEF Spec

\* A fork child exists only under a fork claim of its envelope, and one
\* thread.spawned at most names it, whatever cut a crash fell on.
THEOREM OneChild == Spec => []OneChildPerForkClaim
<1>1. ForkInv /\ ThreadInv => OneChildPerForkClaim
  <2> SUFFICES ASSUME ForkInv, ThreadInv, NEW e \in Envelopes
               PROVE  /\ thr[e].up # "absent" =>
                            \E s \in Threads :
                               \E i \in EventsOf(s, "claimed", e) :
                                  control[s][i].dec = "fork"
                      /\ Cardinality(UNION {{s} \X EventsOf(s, "spawned", e) :
                                              s \in Threads}) <= 1
    BY DEF OneChildPerForkClaim
  <2>1. thr[e].up # "absent" =>
           \E s \in Threads : \E i \in EventsOf(s, "claimed", e) :
              control[s][i].dec = "fork"
    BY DEF ThreadInv, ForkIn, EventsOf
  <2> DEFINE S == UNION {{s} \X EventsOf(s, "spawned", e) : s \in Threads}
  <2>2. ASSUME NEW c \in S, NEW d \in S PROVE c = d
    <3>1. PICK s \in Threads : c \in {s} \X EventsOf(s, "spawned", e)
      OBVIOUS
    <3>2. PICK r \in Threads : d \in {r} \X EventsOf(r, "spawned", e)
      OBVIOUS
    <3>3. /\ c = <<s, c[2]>> /\ c[2] \in EventsOf(s, "spawned", e)
          /\ d = <<r, d[2]>> /\ d[2] \in EventsOf(r, "spawned", e)
      BY <3>1, <3>2
    <3>4. c[2] \in Spawns(control[s], e) /\ d[2] \in Spawns(control[r], e)
      BY <3>3 DEF EventsOf, Spawns
    <3>5. s = r /\ c[2] = d[2]
      BY <3>4 DEF ForkInv, SpawnsOnce
    <3> QED
      BY <3>3, <3>5
  <2>3. Cardinality(S) <= 1
    <3> HIDE DEF S
    <3>1. CASE S = {}
      BY <3>1, FS_EmptySet
    <3>2. CASE S # {}
      <4>1. PICK c : S = {c}
        BY <2>2, <3>2
      <4>2. Cardinality({c}) = 1
        BY FS_Singleton, Zenon
      <4> QED
        BY <4>1, <4>2
    <3> QED
      BY <3>1, <3>2
  <2> QED
    BY <2>1, <2>3
<1> QED
  BY <1>1, IngressInvariant, PTL

\* Every turn in a mailbox, in a runtime or in an execution record is the
\* turn a durable claim of its envelope names.
THEOREM ClaimedTurnsRun == Spec => []OnlyClaimedTurnsRun
<1>1. ThreadInv => OnlyClaimedTurnsRun
  <2> SUFFICES ASSUME ThreadInv, NEW t \in Threads,
                      NEW u \in {trace[t][i].turn : i \in DOMAIN trace[t]}
                        \cup {thr[t].running}
                        \cup {thr[t].mailbox[i].turn :
                                 i \in DOMAIN thr[t].mailbox},
                      u # None
               PROVE  \E s \in Threads : \E i \in EventsOf(s, "claimed", u[1]) :
                         control[s][i].turn = u
    BY DEF OnlyClaimedTurnsRun
  <2>1. ASSUME NEW i \in DOMAIN trace[t]
        PROVE  trace[t][i].turn \in LawTurns(control)
    <3>1. trace[t] \in Seq(LawRecords(control))
      BY DEF ThreadInv
    <3>2. trace[t][i] \in LawRecords(control)
      BY <3>1
    <3> QED
      BY <3>2 DEF LawRecords
  <2>2. ASSUME NEW i \in DOMAIN thr[t].mailbox
        PROVE  thr[t].mailbox[i].turn \in LawTurns(control)
    <3>1. thr[t].mailbox \in Seq(LawCommands(control))
      BY DEF ThreadInv, Lawful
    <3>2. thr[t].mailbox[i] \in LawCommands(control)
      BY <3>1
    <3> QED
      BY <3>2 DEF LawCommands
  <2>3. thr[t].running \in LawTurns(control)
    BY DEF ThreadInv, Lawful
  <2>4. u \in LawTurns(control)
    BY <2>1, <2>2, <2>3
  <2> QED
    BY <2>4 DEF LawTurns, EventsOf
<1> QED
  BY <1>1, IngressInvariant, PTL

(***************************************************************************)
(* The refinement of IngressPromise.                                       *)
(***************************************************************************)
ClaimAt(q, i, e) == i \in DOMAIN q /\ q[i].kind = "claimed" /\ q[i].env = e

\* The outcome that the claim at position i of stream s stands for.
ClaimValue(q, s, i) ==
    [state |-> IF Settles(q, q[i].turn) = {} THEN "claimed" ELSE "settled",
     at |-> s, turn |-> q[i].turn, dec |-> q[i].dec]

\* What the fold over every stream returns.
FoldSays ==
    \A e \in Envelopes :
        /\ (\A s \in Threads : \A i : ~ClaimAt(control[s], i, e)) =>
              Outcome[e] = NoOutcome("missing")
        /\ \A s \in Threads : \A i : ClaimAt(control[s], i, e) =>
              Outcome[e] = ClaimValue(control[s], s, i)

\* A message that has left the queue is leased by nobody.
QueueFree ==
    \A e \in Envelopes : queue[e].state = "archived" => queue[e].holder = None

LEMMA NotCorrupt ==
    ASSUME ClaimCore, SettleInv
    PROVE  ~Corrupt(Threads)
<1>1. \A e \in Envelopes : \A c, d \in ClaimsOn(Threads, e) : c = d
  BY DEF ClaimCore, ClaimsAreUnique
<1>2. ASSUME NEW s \in Threads, NEW i \in DOMAIN control[s],
             NEW j \in DOMAIN control[s],
             control[s][i].kind = "settled", control[s][j].kind = "settled",
             control[s][i].turn = control[s][j].turn
      PROVE  i = j
  <2>1. SettlesGood(control[s])
    BY DEF SettleInv, StreamGood
  <2>2. \A k \in Settles(control[s], control[s][i].turn) : k = i
    BY <1>2, <2>1 DEF SettlesGood
  <2>3. j \in Settles(control[s], control[s][i].turn)
    BY <1>2 DEF Settles
  <2> QED
    BY <2>2, <2>3
<1> QED
  BY <1>1, <1>2 DEF Corrupt

LEMMA FoldIsOutcome ==
    ASSUME TypeInv, ClaimCore, SettleInv
    PROVE  FoldSays
<1> SUFFICES ASSUME NEW e \in Envelopes
             PROVE  /\ (\A s \in Threads : \A i : ~ClaimAt(control[s], i, e)) =>
                          Outcome[e] = NoOutcome("missing")
                    /\ \A s \in Threads : \A i : ClaimAt(control[s], i, e) =>
                          Outcome[e] = ClaimValue(control[s], s, i)
  BY DEF FoldSays
<1>1. Outcome[e] = OutcomeFold(e, Threads) /\ ~Corrupt(Threads)
  BY NotCorrupt DEF Outcome
<1>2. ASSUME \A s \in Threads : \A i : ~ClaimAt(control[s], i, e)
      PROVE  Outcome[e] = NoOutcome("missing")
  <2>1. ClaimsOn(Threads, e) = {}
    BY <1>2 DEF ClaimsOn, EventsOf, ClaimAt
  <2> QED
    BY <1>1, <2>1 DEF OutcomeFold
<1>3. ASSUME NEW s \in Threads, NEW i, ClaimAt(control[s], i, e)
      PROVE  Outcome[e] = ClaimValue(control[s], s, i)
  <2> DEFINE claims == ClaimsOn(Threads, e)
             c == CHOOSE x \in claims : TRUE
             event == control[c[1]][c[2]]
  <2>1. <<s, i>> \in claims
    BY <1>3 DEF ClaimsOn, EventsOf, ClaimAt
  <2>2. c \in claims
    BY <2>1
  <2>3. c = <<s, i>>
    <3> HIDE DEF c
    <3> QED
      BY <2>1, <2>2 DEF ClaimCore, ClaimsAreUnique
  <2>4. claims # {}
    BY <2>1
  <2>5. OutcomeFold(e, Threads) =
           [state |-> IF SettlesOf(c[1], event.turn) = {}
                      THEN "claimed" ELSE "settled",
            at |-> c[1], turn |-> event.turn, dec |-> event.dec]
    BY <1>1, <2>4 DEF OutcomeFold
  <2>6. c[1] = s /\ event = control[s][i]
    <3> HIDE DEF c
    <3> QED
      BY <2>3
  <2>7. SettlesOf(s, control[s][i].turn) = Settles(control[s], control[s][i].turn)
    BY DEF SettlesOf, Settles
  <2> HIDE DEF claims, c, event
  <2> QED
    BY <1>1, <2>5, <2>6, <2>7 DEF ClaimValue
<1> QED
  BY <1>2, <1>3

(***************************************************************************)
(* What a step leaves of the outcomes.                                     *)
(***************************************************************************)
\* The outcome of e stays when nothing new claims it or settles a turn of it.
LEMMA OutcomeKept ==
    ASSUME TypeInv, FoldSays, FoldSays', JournalGrows, NEW e \in Envelopes,
           \A s \in Threads : \A i \in DOMAIN control'[s] \ DOMAIN control[s] :
               /\ control'[s][i].kind = "claimed" => control'[s][i].env # e
               /\ control'[s][i].kind = "settled" =>
                      control'[s][i].turn \notin {e} \X Attempts
    PROVE  Outcome'[e] = Outcome[e]
<1>0. \A s \in Threads : \A i \in DOMAIN control[s] :
          i \in DOMAIN control'[s] /\ control'[s][i] = control[s][i]
  BY DEF JournalGrows, Grows
<1>1. CASE \A s \in Threads : \A i : ~ClaimAt(control[s], i, e)
  <2>1. \A s \in Threads : \A i : ~ClaimAt(control'[s], i, e)
    BY <1>0, <1>1 DEF ClaimAt
  <2>2. Outcome[e] = NoOutcome("missing")
    BY <1>1 DEF FoldSays
  <2>3. Outcome'[e] = NoOutcome("missing")
    BY <2>1 DEF FoldSays, NoOutcome
  <2> QED
    BY <2>2, <2>3
<1>2. ASSUME NEW s \in Threads, NEW i, ClaimAt(control[s], i, e)
      PROVE  Outcome'[e] = Outcome[e]
  <2>1. i \in DOMAIN control[s] /\ control'[s][i] = control[s][i]
    BY <1>0, <1>2 DEF ClaimAt
  <2>2. ClaimAt(control'[s], i, e)
    BY <1>0, <1>2 DEF ClaimAt
  <2>3. control[s][i].turn \in {e} \X Attempts
    BY <1>2 DEF ClaimAt, TypeInv, ClaimShape, Shaped
  <2>4. Settles(control'[s], control[s][i].turn) =
           Settles(control[s], control[s][i].turn)
    <3>1. ASSUME NEW k \in Settles(control'[s], control[s][i].turn)
          PROVE  k \in Settles(control[s], control[s][i].turn)
      <4>1. /\ k \in DOMAIN control'[s] /\ control'[s][k].kind = "settled"
            /\ control'[s][k].turn = control[s][i].turn
        BY <3>1 DEF Settles
      <4>2. k \in DOMAIN control[s]
        BY <2>3, <4>1
      <4> QED
        BY <1>0, <4>1, <4>2 DEF Settles
    <3>2. ASSUME NEW k \in Settles(control[s], control[s][i].turn)
          PROVE  k \in Settles(control'[s], control[s][i].turn)
      BY <1>0, <3>2 DEF Settles
    <3> QED
      BY <3>1, <3>2
  <2>5. Outcome[e] = ClaimValue(control[s], s, i)
    BY <1>2 DEF FoldSays
  <2>6. Outcome'[e] = ClaimValue(control'[s], s, i)
    BY <2>2 DEF FoldSays
  <2> QED
    BY <2>1, <2>4, <2>5, <2>6 DEF ClaimValue
<1> QED
  BY <1>1, <1>2

\* What is new in the journal after an append or two.
LEMMA NewEvents ==
    ASSUME TypeInv, NEW s \in Threads, NEW x \in Events, NEW y \in Events,
           \/ control' = [control EXCEPT ![s] = Append(@, x)]
           \/ control' = [control EXCEPT ![s] = Append(Append(@, x), y)]
    PROVE  \A t \in Threads : \A i \in DOMAIN control'[t] \ DOMAIN control[t] :
               t = s /\ control'[t][i] \in {x, y}
<1>1. control \in [Threads -> Seq(Events)]
  BY DEF TypeInv, TypeOK
<1> SUFFICES ASSUME NEW t \in Threads,
                    NEW i \in DOMAIN control'[t] \ DOMAIN control[t]
             PROVE  t = s /\ control'[t][i] \in {x, y}
  OBVIOUS
<1>2. t = s
  BY <1>1
<1> DEFINE p == Append(control[s], x)
<1>3. p \in Seq(Events) /\ control[s] \in Seq(Events)
  BY <1>1
<1>4. control'[t] = p \/ control'[t] = Append(p, y)
  BY <1>1, <1>2
<1>5. \A k \in DOMAIN p : k \in DOMAIN control[t] \/ p[k] = x
  BY <1>2, <1>3, AppendAt
<1> HIDE DEF p
<1>6. \A k \in DOMAIN Append(p, y) :
         \/ k \in DOMAIN p /\ Append(p, y)[k] = p[k]
         \/ Append(p, y)[k] = y
  BY <1>3, AppendAt
<1> QED
  BY <1>2, <1>4, <1>5, <1>6

\* The outcomes as functions on the envelopes.
LEMMA OutcomeFunction ==
    /\ Outcome = [x \in Envelopes |-> Outcome[x]]
    /\ Outcome' = [x \in Envelopes |-> Outcome'[x]]
BY DEF Outcome

LEMMA OutcomesSame ==
    ASSUME \A x \in Envelopes : Outcome'[x] = Outcome[x]
    PROVE  Outcome' = Outcome
BY OutcomeFunction

LEMMA OutcomesExcept ==
    ASSUME NEW e \in Envelopes, NEW v, Outcome'[e] = v,
           \A x \in Envelopes \ {e} : Outcome'[x] = Outcome[x]
    PROVE  Outcome' = [Outcome EXCEPT ![e] = v]
BY OutcomeFunction

(***************************************************************************)
(* Each step is a step of the promise, or none.                            *)
(***************************************************************************)
\* The archive of the queue under a step that does not complete a message.
LEMMA ArchiveKept ==
    ASSUME TypeInv, QueueFree, NEW w \in Workers, Steps(w), ~Complete(w)
    PROVE  Archived' = Archived /\ QueueFree'
<1>0. queue \in [Envelopes -> Messages] /\ w # None
  BY IngressAssumption DEF TypeInv, TypeOK, IngressAssumption
<1>1. CASE queue' = queue
  BY <1>1 DEF Archived, QueueFree
<1>2. ASSUME NEW e \in Envelopes, NEW m, queue[e].state # "archived",
             m.state # "archived", queue' = [queue EXCEPT ![e] = m]
      PROVE  Archived' = Archived /\ QueueFree'
  <2>1. \A x \in Envelopes : queue'[x] = IF x = e THEN m ELSE queue[x]
    BY <1>0, <1>2
  <2> QED
    BY <1>2, <2>1 DEF Archived, QueueFree
<1>3. CASE \E e \in Envelopes : Lease(w, e)
  <2>1. PICK e \in Envelopes : Lease(w, e)
    BY <1>3
  <2> DEFINE m == [state |-> "leased", attempt |-> queue[e].attempt + 1,
                   holder |-> w]
  <2>2. /\ queue[e].state # "archived" /\ queue' = [queue EXCEPT ![e] = m]
        /\ m.state # "archived"
    BY <2>1 DEF Lease
  <2> HIDE DEF m
  <2> QED
    BY <1>2, <2>2
<1>4. CASE pc[w] # "idle" /\ Abandon(w)
  <2> DEFINE e == job[w].env
             m == [queue[e] EXCEPT !.state = "ready", !.holder = None]
  <2>1. e \in Envelopes /\ queue[e] \in Messages
    BY <1>0, <1>4, PinnedJob
  <2>2. m.state # "archived"
    BY <2>1 DEF Messages
  <2>3. \/ queue' = queue
        \/ queue[e].holder = w /\ queue' = [queue EXCEPT ![e] = m]
    BY <1>4, <2>1 DEF Abandon
  <2>4. queue[e].holder = w => queue[e].state # "archived"
    BY <1>0, <2>1 DEF QueueFree
  <2> HIDE DEF e, m
  <2> QED
    BY <1>1, <1>2, <2>1, <2>2, <2>3, <2>4
<1>5. \/ queue' = queue \/ \E e \in Envelopes : Lease(w, e)
      \/ pc[w] # "idle" /\ Abandon(w)
  BY DEF Steps, Apply, Fault, FoldOutcome, Witness, RecordDecision,
     RecordOwnership, Reserve, LockAdmission, AwaitOutcome, ReadClaimStream,
     AppendClaim, CommitAdmission, CancelActive, SubmitTurn, AwaitEvidence,
     ReadSettleStream, AppendSettle, Recover, Reload, CheckEvidence,
     TakeScope, CreateChild, AppendSpawned, RebindRoute, SubmitFork, Timeout
<1> QED
  BY <1>1, <1>3, <1>4, <1>5

\* Steps that append neither a claim nor a settle.
LEMMA PlainStep ==
    ASSUME TypeInv, FoldSays, FoldSays', NEW w \in Workers, Steps(w),
           ~AppendClaim(w), ~AppendSettle(w)
    PROVE  Outcome' = Outcome
<1>1. CASE control' = control
  <2>1. JournalGrows
    BY StepGrows
  <2>2. ASSUME NEW e \in Envelopes PROVE Outcome'[e] = Outcome[e]
    BY <1>1, <2>1, OutcomeKept
  <2> QED
    BY <2>2, OutcomesSame
<1>2. ASSUME NEW s \in Threads, NEW x \in Events,
             x.kind \notin {"claimed", "settled"},
             control' = [control EXCEPT ![s] = Append(@, x)]
      PROVE  Outcome' = Outcome
  <2>1. JournalGrows
    BY StepGrows
  <2>2. \A t \in Threads : \A i \in DOMAIN control'[t] \ DOMAIN control[t] :
           control'[t][i] = x
    BY <1>2, NewEvents
  <2>3. ASSUME NEW e \in Envelopes PROVE Outcome'[e] = Outcome[e]
    BY <1>2, <2>1, <2>2, OutcomeKept
  <2> QED
    BY <2>3, OutcomesSame
<1>3. CASE AppendSpawned(w)
  <2> DEFINE x == Event("spawned", job[w].env, job[w].turn, job[w].dec)
  <2>1. pc[w] \in Pinned
    BY <1>3 DEF AppendSpawned, Pinned, Labels
  <2>2. x \in Events /\ x.kind = "spawned" /\ job[w].to \in Threads
    BY <2>1, OwnEvents, PinnedJob
  <2>3. control' = [control EXCEPT ![job[w].to] = Append(@, x)]
    BY <1>3 DEF AppendSpawned
  <2> HIDE DEF x
  <2> QED
    BY <1>2, <2>2, <2>3
<1> QED
  BY <1>1, <1>2, <1>3, StepJournal

\* The claim is the promise's claim.
LEMMA ClaimRefines ==
    ASSUME TypeInv, ClaimCore, SettleInv, FoldSays, FoldSays',
           NEW w \in Workers, AppendClaim(w), Archived' = Archived,
           Outcome' # Outcome
    PROVE  Promise!Claim(job[w].env)
<1> DEFINE e == job[w].env
           t == job[w].to
           u == job[w].turn
           d == job[w].dec
           q == control[t]
           c == Event("claimed", e, u, d)
           x == Event("settled", e, u, d)
           n == Len(q) + 1
<1>1. /\ pc[w] = "append" /\ pc[w] \in Pinned /\ Steps(w)
      /\ control \in [Threads -> Seq(Events)]
  BY DEF AppendClaim, Pinned, Labels, Steps, Apply, TypeInv, TypeOK
<1>2. /\ e \in Envelopes /\ t \in Threads /\ u \in {e} \X Attempts
      /\ d \in AllPolicies
  BY <1>1, PinnedJob
<1>3. /\ c \in Events /\ c.kind = "claimed" /\ c.env = e /\ c.turn = u
      /\ c.dec = d
      /\ x \in Events /\ x.kind = "settled" /\ x.env = e /\ x.turn = u
  BY <1>1, OwnEvents
<1>4. JournalGrows
  BY <1>1, StepGrows
<1>5. ClaimsOn(Threads, e) = {}
  BY <1>1, DisciplinePerWorker DEF ClaimCore, Disciplined
<1>6. \A s \in Threads : \A i : ~ClaimAt(control[s], i, e)
  BY <1>5, ClaimPositions DEF ClaimAt
<1>7. Outcome[e] = NoOutcome("missing")
  BY <1>2, <1>6 DEF FoldSays
<1>8. control' # control
  <2> SUFFICES ASSUME control' = control PROVE FALSE
    OBVIOUS
  <2>1. ASSUME NEW y \in Envelopes PROVE Outcome'[y] = Outcome[y]
    BY <1>4, OutcomeKept
  <2> QED
    BY <2>1, OutcomesSame
<1>9. control' = [control EXCEPT ![t] = IF d = "observe"
                     THEN Append(Append(q, c), x) ELSE Append(q, c)]
  BY <1>8 DEF AppendClaim, ClaimBatch
<1>10. \A s \in Threads : \A i \in DOMAIN control'[s] \ DOMAIN control[s] :
          s = t /\ control'[s][i] \in {c, x}
  <2> HIDE DEF c, x
  <2> QED
    BY <1>2, <1>3, <1>9, NewEvents
<1>11. ASSUME NEW y \in Envelopes \ {e} PROVE Outcome'[y] = Outcome[y]
  <2>1. u \notin {y} \X Attempts
    BY <1>2
  <2> HIDE DEF c, x, e, u
  <2> QED
    BY <1>3, <1>4, <1>10, <2>1, OutcomeKept
<1>12. /\ q \in Seq(Events) /\ control'[t] \in Seq(Events)
       /\ control'[t] = IF d = "observe" THEN Append(Append(q, c), x)
                        ELSE Append(q, c)
  <2> HIDE DEF c, x
  <2> QED
    BY <1>1, <1>2, <1>3, <1>9
<1>13. Settles(q, u) = {}
  <2>1. ASSUME NEW k \in Settles(q, u) PROVE FALSE
    <3>1. k \in DOMAIN q /\ q[k].kind = "settled" /\ q[k].turn = u
      BY <2>1 DEF Settles
    <3>2. SettlesGood(q)
      BY <1>2 DEF SettleInv, StreamGood
    <3>3. PICK j \in 1..(k - 1) : q[j].kind = "claimed" /\ q[j].turn = u
      BY <3>1, <3>2 DEF SettlesGood
    <3>4. j \in DOMAIN q
      BY <1>12, <3>1, <3>3
    <3>5. q[j].turn \in {q[j].env} \X Attempts
      BY <1>2, <3>3, <3>4 DEF TypeInv, ClaimShape, Shaped
    <3>6. q[j].env = e
      BY <1>2, <3>3, <3>5
    <3> QED
      BY <1>2, <1>6, <3>3, <3>4, <3>6 DEF ClaimAt
  <2> QED
    BY <2>1
<1> HIDE DEF c, x, e, u, d, t, q
<1>14. PICK p : p = Append(q, c)
  OBVIOUS
<1>15. /\ p \in Seq(Events) /\ Len(p) = n /\ n \in DOMAIN p /\ p[n] = c
       /\ \A i \in DOMAIN p : i = n \/ (i \in DOMAIN q /\ p[i] = q[i])
  BY <1>3, <1>12, <1>14, AppendAt
<1>16. Settles(p, u) = {}
  BY <1>3, <1>13, <1>15 DEF Settles
<1>17. ClaimAt(control'[t], n, e) /\ control'[t][n] = c
  <2>1. CASE d = "observe"
    <3>1. control'[t] = Append(p, x)
      BY <1>12, <1>14, <2>1
    <3>2. n \in DOMAIN control'[t] /\ control'[t][n] = c
      BY <1>3, <1>15, <3>1, AppendAt
    <3> QED
      BY <1>3, <3>2 DEF ClaimAt
  <2>2. CASE d # "observe"
    <3>1. control'[t] = p
      BY <1>12, <1>14, <2>2
    <3> QED
      BY <1>3, <1>15, <3>1 DEF ClaimAt
  <2> QED
    BY <2>1, <2>2
<1>18. Settles(control'[t], u) = {} <=> d # "observe"
  <2>1. CASE d = "observe"
    <3>1. control'[t] = Append(p, x)
      BY <1>12, <1>14, <2>1
    <3>2. /\ Len(p) + 1 \in DOMAIN control'[t]
          /\ control'[t][Len(p) + 1] = x
      BY <1>3, <1>15, <3>1, AppendAt
    <3>3. Len(p) + 1 \in Settles(control'[t], u)
      BY <1>3, <3>2 DEF Settles
    <3> QED
      BY <2>1, <3>3
  <2>2. CASE d # "observe"
    BY <1>12, <1>14, <1>16, <2>2
  <2> QED
    BY <2>1, <2>2
<1> HIDE DEF n
<1>19. Outcome'[e] = ClaimValue(control'[t], t, n)
  BY <1>2, <1>17 DEF FoldSays
<1>20. Outcome'[e] = [state |-> IF d = "observe" THEN "settled" ELSE "claimed",
                      at |-> t, turn |-> u, dec |-> d]
  BY <1>3, <1>17, <1>18, <1>19 DEF ClaimValue
<1>21. PICK k \in Attempts : u = <<e, k>>
  BY <1>2
<1>22. Outcome' = [Outcome EXCEPT ![e] =
          [state |-> IF d = "observe" THEN "settled" ELSE "claimed",
           at |-> t, turn |-> <<e, k>>, dec |-> d]]
  BY <1>2, <1>11, <1>20, <1>21, OutcomesExcept
<1>23. Promise!Claim(e)
  BY <1>2, <1>7, <1>21, <1>22 DEF Promise!Claim, Promise!Missing, NoOutcome
<1> QED
  BY <1>23 DEF e

\* The settle is the promise's settle: the fence shows it is the first.
LEMMA SettleRefines ==
    ASSUME TypeInv, SettleInv, FoldSays, FoldSays', NEW w \in Workers,
           AppendSettle(w), Archived' = Archived, Outcome' # Outcome
    PROVE  Promise!Settle(job[w].env)
<1> DEFINE e == job[w].env
           t == job[w].to
           u == job[w].turn
           q == control[t]
           x == Event("settled", e, u, job[w].dec)
           n == Len(q) + 1
<1>1. /\ pc[w] = "settling" /\ pc[w] \in Pinned /\ Steps(w)
      /\ control \in [Threads -> Seq(Events)] /\ pc[w] \in Effects
  BY DEF AppendSettle, Pinned, Labels, Steps, Apply, TypeInv, TypeOK, Effects
<1>2. /\ e \in Envelopes /\ t \in Threads /\ u \in {e} \X Attempts
      /\ job[w].tail \in Nat
  BY <1>1, PinnedJob
<1>3. x \in Events /\ x.kind = "settled" /\ x.env = e /\ x.turn = u
  BY <1>1, OwnEvents
<1>4. JournalGrows
  BY <1>1, StepGrows
<1>5. control' # control
  <2> SUFFICES ASSUME control' = control PROVE FALSE
    OBVIOUS
  <2>1. ASSUME NEW y \in Envelopes PROVE Outcome'[y] = Outcome[y]
    BY <1>4, OutcomeKept
  <2> QED
    BY <2>1, OutcomesSame
<1>6. control' = [control EXCEPT ![t] = Append(@, x)] /\ Len(q) = job[w].tail
  BY <1>5 DEF AppendSettle
<1>7. HasClaim(q, e, u, job[w].dec) /\ Fenced("settling", job[w], q)
  BY <1>1 DEF SettleInv, Good, Backed
<1>8. Settles(q, u) = {}
  <2>1. q \in Seq(Events)
    BY <1>1, <1>2
  <2>2. \A i \in Settles(q, u) : i > Len(q) /\ i \in DOMAIN q
    BY <1>6, <1>7 DEF Fenced, Settles
  <2> HIDE DEF q, u
  <2>3. ASSUME NEW i \in Settles(q, u) PROVE FALSE
    <3>1. i \in 1..Len(q) /\ i > Len(q) /\ Len(q) \in Nat
      BY <2>1, <2>2, <2>3
    <3> QED
      BY <3>1
  <2> QED
    BY <2>3
<1> HIDE DEF x
<1>9. \A s \in Threads : \A i \in DOMAIN control'[s] \ DOMAIN control[s] :
         s = t /\ control'[s][i] = x
  BY <1>2, <1>3, <1>6, NewEvents
<1>10. /\ q \in Seq(Events) /\ control'[t] = Append(q, x)
  BY <1>1, <1>2, <1>6
<1> HIDE DEF e, u, t, q
<1>11. ASSUME NEW y \in Envelopes \ {e} PROVE Outcome'[y] = Outcome[y]
  <2>1. u \notin {y} \X Attempts
    BY <1>2
  <2> QED
    BY <1>3, <1>4, <1>9, <2>1, OutcomeKept
<1>12. PICK k : ClaimAt(q, k, e) /\ q[k].turn = u
  BY <1>7 DEF HasClaim, ClaimAt
<1>13. /\ n \in DOMAIN control'[t] /\ control'[t][n] = x
       /\ \A i \in DOMAIN q : i \in DOMAIN control'[t] /\ control'[t][i] = q[i]
  BY <1>3, <1>10, AppendAt
<1>14. ClaimAt(control'[t], k, e) /\ control'[t][k] = q[k]
  BY <1>12, <1>13 DEF ClaimAt
<1>15. n \in Settles(control'[t], u)
  BY <1>3, <1>13 DEF Settles
<1> HIDE DEF n
<1>16. Outcome[e] = [state |-> "claimed", at |-> t, turn |-> u, dec |-> q[k].dec]
  <2>1. Outcome[e] = ClaimValue(q, t, k)
    BY <1>2, <1>12 DEF FoldSays, q
  <2> QED
    BY <1>8, <1>12, <2>1 DEF ClaimValue
<1>17. Outcome'[e] = [state |-> "settled", at |-> t, turn |-> u, dec |-> q[k].dec]
  <2>1. Outcome'[e] = ClaimValue(control'[t], t, k)
    BY <1>2, <1>14 DEF FoldSays
  <2> QED
    BY <1>12, <1>14, <1>15, <2>1 DEF ClaimValue
<1>18. Outcome[e].state = "claimed" /\ Outcome'[e] = [Outcome[e] EXCEPT !.state = "settled"]
  BY <1>16, <1>17
<1>19. Outcome' = [Outcome EXCEPT ![e] = [Outcome[e] EXCEPT !.state = "settled"]]
  BY <1>2, <1>11, <1>18, OutcomesExcept
<1>20. Promise!Settle(e)
  BY <1>18, <1>19 DEF Promise!Settle
<1> QED
  BY <1>20 DEF e

\* A message is completed for an outcome.
LEMMA CompleteRefines ==
    ASSUME TypeInv, SettleInv, FoldSays, QueueFree, NEW w \in Workers,
           Complete(w), Outcome' = Outcome
    PROVE  /\ Promise!Archive(job[w].env) \/ Archived' = Archived
           /\ QueueFree'
<1> DEFINE e == job[w].env
           m == [queue[e] EXCEPT !.state = "archived", !.holder = None]
<1>1. /\ pc[w] = "done" /\ queue \in [Envelopes -> Messages]
      /\ queue' = queue \/ queue' = [queue EXCEPT ![e] = m]
  BY DEF Complete, TypeInv, TypeOK
<1>2. e \in Envelopes /\ queue[e] \in Messages
  BY <1>1, PinnedJob
<1>3. m.state = "archived" /\ m.holder = None
  BY <1>2 DEF Messages
<1>4. Outcomes(e, control)
  BY <1>1 DEF SettleInv, Good, Concluded
<1> HIDE DEF e, m
<1>5. PICK s \in Threads : \E i \in DOMAIN control[s] :
         /\ control[s][i].kind = "claimed" /\ control[s][i].env = e
         /\ \/ control[s][i].dec = "fork"
            \/ Settles(control[s], control[s][i].turn) # {}
  BY <1>4 DEF Outcomes
<1>6. PICK i \in DOMAIN control[s] :
         /\ control[s][i].kind = "claimed" /\ control[s][i].env = e
         /\ \/ control[s][i].dec = "fork"
            \/ Settles(control[s], control[s][i].turn) # {}
  BY <1>5
<1>7. Outcome[e] = ClaimValue(control[s], s, i)
  BY <1>2, <1>6 DEF FoldSays, ClaimAt
<1>8. \/ Outcome[e].state = "settled"
      \/ Outcome[e].state = "claimed" /\ Outcome[e].dec = "fork"
  BY <1>6, <1>7 DEF ClaimValue
<1>9. CASE queue' = queue
  BY <1>9 DEF Archived, QueueFree
<1>10. CASE queue' = [queue EXCEPT ![e] = m]
  <2>1. \A x \in Envelopes : queue'[x] = IF x = e THEN m ELSE queue[x]
    BY <1>1, <1>10
  <2>2. Archived' = Archived \cup {e}
    BY <1>2, <1>3, <2>1 DEF Archived
  <2>3. QueueFree'
    BY <1>3, <2>1 DEF QueueFree
  <2> QED
    BY <1>8, <2>2, <2>3 DEF Promise!Archive, e
<1> QED
  BY <1>1, <1>9, <1>10

\* A step of the protocol is a step of the promise, or leaves it alone.
LEMMA StepRefines ==
    ASSUME TypeInv, ClaimCore, SettleInv, FoldSays, FoldSays', QueueFree,
           [Next]_vars
    PROVE  QueueFree' /\ [Promise!Next]_<<Outcome, Archived>>
<1>1. ASSUME NEW w \in Workers, Steps(w)
      PROVE  QueueFree' /\ [Promise!Next]_<<Outcome, Archived>>
  <2>1. pc[w] # "idle" => job[w].env \in Envelopes
    BY PinnedJob
  <2>2. CASE Complete(w)
    <3>1. ~AppendClaim(w) /\ ~AppendSettle(w) /\ pc[w] # "idle"
      BY <2>2 DEF Complete, AppendClaim, AppendSettle
    <3>2. Outcome' = Outcome
      BY <1>1, <3>1, PlainStep
    <3>3. QueueFree' /\ (Promise!Archive(job[w].env) \/ Archived' = Archived)
      BY <2>2, <3>2, CompleteRefines
    <3> QED
      BY <2>1, <3>1, <3>2, <3>3 DEF Promise!Next
  <2>3. CASE ~Complete(w) /\ AppendClaim(w)
    <3>1. Archived' = Archived /\ QueueFree' /\ pc[w] # "idle"
      BY <1>1, <2>3, ArchiveKept DEF AppendClaim
    <3>2. Outcome' = Outcome \/ Promise!Claim(job[w].env)
      BY <2>3, <3>1, ClaimRefines
    <3> QED
      BY <2>1, <3>1, <3>2 DEF Promise!Next
  <2>4. CASE ~Complete(w) /\ AppendSettle(w)
    <3>1. Archived' = Archived /\ QueueFree' /\ pc[w] # "idle"
      BY <1>1, <2>4, ArchiveKept DEF AppendSettle
    <3>2. Outcome' = Outcome \/ Promise!Settle(job[w].env)
      BY <2>4, <3>1, SettleRefines
    <3> QED
      BY <2>1, <3>1, <3>2 DEF Promise!Next
  <2>5. CASE ~Complete(w) /\ ~AppendClaim(w) /\ ~AppendSettle(w)
    <3>1. Archived' = Archived /\ QueueFree'
      BY <1>1, <2>5, ArchiveKept
    <3>2. Outcome' = Outcome
      BY <1>1, <2>5, PlainStep
    <3> QED
      BY <3>1, <3>2
  <2> QED
    BY <2>2, <2>3, <2>4, <2>5
<1>2. CASE control' = control
  <2>1. JournalGrows
    BY <1>2, StreamsTyped, GrowsSame DEF JournalGrows
  <2>2. ASSUME NEW y \in Envelopes PROVE Outcome'[y] = Outcome[y]
    BY <1>2, <2>1, OutcomeKept
  <2>3. Outcome' = Outcome
    BY <2>2, OutcomesSame
  <2>4. CASE queue' = queue
    BY <2>3, <2>4 DEF Archived, QueueFree
  <2>5. CASE \E e \in Envelopes : Expire(e)
    <3>1. PICK e \in Envelopes : Expire(e)
      BY <2>5
    <3> DEFINE m == [queue[e] EXCEPT !.state = "ready", !.holder = None]
    <3>2. /\ queue \in [Envelopes -> Messages] /\ queue[e] \in Messages
          /\ queue[e].state = "leased" /\ queue' = [queue EXCEPT ![e] = m]
      BY <3>1 DEF Expire, TypeInv, TypeOK
    <3>3. m.state = "ready"
      BY <3>2 DEF Messages
    <3> HIDE DEF m
    <3>4. \A x \in Envelopes : queue'[x] = IF x = e THEN m ELSE queue[x]
      BY <3>2
    <3>5. Archived' = Archived /\ QueueFree'
      BY <3>2, <3>3, <3>4 DEF Archived, QueueFree
    <3> QED
      BY <2>3, <3>5
  <2>6. CASE queue' # queue /\ ~\E e \in Envelopes : Expire(e)
    BY <1>1, <2>6 DEF Next, Steps, Execute, StartCommand, CompileContext,
       ActiveCommand, FinishTurn, FailTurn, DeliverAnswer, Crash, Drained,
       vars
  <2> QED
    BY <2>4, <2>5, <2>6
<1>3. (\E w \in Workers : Steps(w)) \/ control' = control
  BY DEF Next, Steps, Expire, Execute, StartCommand, CompileContext,
     ActiveCommand, FinishTurn, FailTurn, DeliverAnswer, Crash, Drained, vars
<1> QED
  BY <1>1, <1>2, <1>3

LEMMA InitRefines == Init => Promise!Init /\ QueueFree
<1> SUFFICES ASSUME Init PROVE Promise!Init /\ QueueFree
  OBVIOUS
<1>1. TypeInv /\ ClaimCore /\ SettleInv
  BY InitType, InitClaims, InitSettle
<1>2. FoldSays
  BY <1>1, FoldIsOutcome
<1>3. \A s \in Threads : DOMAIN control[s] = {}
  BY DEF Init
<1>4. \A e \in Envelopes : Outcome[e] = NoOutcome("missing")
  BY <1>2, <1>3 DEF FoldSays, ClaimAt
<1>5. Outcome = [e \in Envelopes |-> NoOutcome("missing")]
  BY <1>4, OutcomeFunction
<1>6. Archived = {} /\ QueueFree
  BY DEF Init, Archived, QueueFree
<1> QED
  BY <1>5, <1>6 DEF Promise!Init, Promise!Missing, NoOutcome

\* The protocol implements its promise: whatever the workers, the
\* redeliveries, the errors and the restarts, an envelope is claimed once, on
\* one stream and for one turn, settled at most once after that, and leaves
\* the queue only for a settled claim or a fork.
THEOREM Refinement == Spec => ImplementsPromise
<1>1. Init => Promise!Init /\ QueueFree
  BY InitRefines
<1>2. TypeInv /\ ClaimCore /\ SettleInv => FoldSays
  BY FoldIsOutcome
<1>3. TypeInv /\ ClaimCore /\ SettleInv /\ FoldSays /\ FoldSays' /\ QueueFree
      /\ [Next]_vars => QueueFree' /\ [Promise!Next]_<<Outcome, Archived>>
  BY StepRefines
<1>4. Spec => [](TypeInv /\ ClaimCore /\ SettleInv)
  BY SettleInvariant
<1> QED
  BY <1>1, <1>2, <1>3, <1>4, PTL DEF Spec, ImplementsPromise, Promise!Spec
=============================================================================

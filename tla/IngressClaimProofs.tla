------------------------ MODULE IngressClaimProofs --------------------------
(***************************************************************************)
(* One claim per envelope across every control stream, and an ownership    *)
(* row for every claim, proved for any sets of envelopes and workers and   *)
(* any failure bounds.                                                     *)
(***************************************************************************)
EXTENDS IngressOutcomeProofs, WellFoundedInduction

(***************************************************************************)
(* Claims on the journal.                                                  *)
(***************************************************************************)
\* The claims of an envelope are positions of the journal.
LEMMA ClaimPositions ==
    ASSUME NEW e, NEW c, NEW S
    PROVE  c \in ClaimsOn(S, e) <=>
               \E s \in S : \E i \in DOMAIN control[s] :
                   /\ c = <<s, i>>
                   /\ control[s][i].kind = "claimed" /\ control[s][i].env = e
<1>1. ASSUME c \in ClaimsOn(S, e)
      PROVE  \E s \in S : \E i \in DOMAIN control[s] :
                   /\ c = <<s, i>>
                   /\ control[s][i].kind = "claimed" /\ control[s][i].env = e
  <2>1. PICK s \in S : c \in {s} \X EventsOf(s, "claimed", e)
    BY <1>1 DEF ClaimsOn
  <2>2. PICK i \in EventsOf(s, "claimed", e) : c = <<s, i>>
    BY <2>1
  <2> QED
    BY <2>2 DEF EventsOf
<1>2. ASSUME NEW s \in S, NEW i \in DOMAIN control[s], c = <<s, i>>,
             control[s][i].kind = "claimed", control[s][i].env = e
      PROVE  c \in ClaimsOn(S, e)
  <2>1. i \in EventsOf(s, "claimed", e)
    BY <1>2 DEF EventsOf
  <2>2. c \in {s} \X EventsOf(s, "claimed", e)
    BY <1>2, <2>1
  <2> QED
    BY <2>2 DEF ClaimsOn
<1> QED
  BY <1>1, <1>2

\* A claim and its journal entry after a step.
LEMMA ClaimPositionsNext ==
    ASSUME NEW CONSTANT e, NEW CONSTANT c
    PROVE  (c \in ClaimsOn(Threads, e))' <=>
               \E s \in Threads : \E i \in DOMAIN control'[s] :
                   /\ c = <<s, i>>
                   /\ control'[s][i].kind = "claimed"
                   /\ control'[s][i].env = e
<1>1. ASSUME (c \in ClaimsOn(Threads, e))'
      PROVE  \E s \in Threads : \E i \in DOMAIN control'[s] :
                   /\ c = <<s, i>>
                   /\ control'[s][i].kind = "claimed"
                   /\ control'[s][i].env = e
  <2>1. PICK s \in Threads : c \in {s} \X EventsOf(s, "claimed", e)'
    BY <1>1 DEF ClaimsOn
  <2>2. PICK i \in EventsOf(s, "claimed", e)' : c = <<s, i>>
    BY <2>1
  <2> QED
    BY <2>2 DEF EventsOf
<1>2. ASSUME NEW s \in Threads, NEW i \in DOMAIN control'[s], c = <<s, i>>,
             control'[s][i].kind = "claimed", control'[s][i].env = e
      PROVE  (c \in ClaimsOn(Threads, e))'
  <2>1. i \in EventsOf(s, "claimed", e)'
    BY <1>2 DEF EventsOf
  <2>2. c \in {s} \X EventsOf(s, "claimed", e)'
    BY <1>2, <2>1
  <2> QED
    BY <2>2 DEF ClaimsOn
<1> QED
  BY <1>1, <1>2

ClaimsKept == \A e \in Envelopes : ClaimsOn(Threads, e)' = ClaimsOn(Threads, e)

LEMMA SameClaims ==
    ASSUME control' = control
    PROVE  ClaimsKept
BY DEF ClaimsKept, ClaimsOn, EventsOf

\* Appending anything but a claim keeps every envelope's claims.
LEMMA AppendKeepsClaims ==
    ASSUME TypeInv, NEW s \in Threads, NEW x \in Events, x.kind # "claimed",
           control' = [control EXCEPT ![s] = Append(@, x)]
    PROVE  ClaimsKept
<1>1. control \in [Threads -> Seq(Events)]
  BY DEF TypeInv, TypeOK
<1>2. ASSUME NEW e \in Envelopes, NEW t \in Threads
      PROVE  EventsOf(t, "claimed", e)' = EventsOf(t, "claimed", e)
  <2>1. CASE t # s
    BY <1>1, <2>1 DEF EventsOf
  <2>2. CASE t = s
    <3>1. control'[t] = Append(control[t], x) /\ control[t] \in Seq(Events)
      BY <1>1, <2>2
    <3>2. ASSUME NEW i
          PROVE  i \in EventsOf(t, "claimed", e)' <=>
                     i \in EventsOf(t, "claimed", e)
      <4>1. DOMAIN control'[t] = 1..(Len(control[t]) + 1)
            /\ DOMAIN control[t] = 1..Len(control[t])
            /\ Len(control[t]) \in Nat
        BY <3>1
      <4>2. CASE i = Len(control[t]) + 1
        <5>1. control'[t][i] = x /\ i \notin DOMAIN control[t]
          BY <3>1, <4>1, <4>2
        <5> QED
          BY <5>1 DEF EventsOf
      <4>3. CASE i \in 1..Len(control[t])
        <5>1. control'[t][i] = control[t][i]
          BY <3>1, <4>1, <4>3
        <5> QED
          BY <4>1, <4>3, <5>1 DEF EventsOf
      <4>4. CASE i \notin 1..(Len(control[t]) + 1)
        BY <4>1, <4>4 DEF EventsOf
      <4> QED
        BY <4>1, <4>2, <4>3, <4>4
    <3> QED
      BY <3>2
  <2> QED
    BY <2>1, <2>2
<1> QED
  BY <1>2 DEF ClaimsKept, ClaimsOn

(***************************************************************************)
(* Steps outside the admission transaction.                                *)
(***************************************************************************)
ClaimCore == LockDiscipline /\ ClaimsAreUnique /\ ClaimIsOwned
Critical == {"read", "append", "commit"}

\* Steps that leave claims, ownership, the lock and the workers alone.
LEMMA QuietStep ==
    ASSUME ClaimCore, ClaimsKept, TypeInv, owner' = owner, lock' = lock,
           pc' = pc, job' = job
    PROVE  ClaimCore'
<1>1. LockDiscipline'
  <2> SUFFICES ASSUME NEW w \in Workers
               PROVE  /\ pc[w] \in {"read", "append", "commit"} =>
                             lock = w /\ OwnRow(w) \in owner
                      /\ pc[w] \in {"read", "append"} =>
                             ClaimsOn(Threads, job[w].env)' = {}
                      /\ pc[w] = "commit" =>
                             \A c \in ClaimsOn(Threads, job[w].env)' :
                                 c[1] = job[w].to
    BY DEF LockDiscipline, OwnRow
  <2>1. pc[w] # "idle" => job[w].env \in Envelopes
    BY DEF TypeInv, JobShape
  <2> QED
    BY <2>1 DEF ClaimCore, LockDiscipline, ClaimsKept
<1>2. ClaimsAreUnique'
  BY DEF ClaimCore, ClaimsAreUnique, ClaimsKept
<1>3. ClaimIsOwned'
  BY DEF ClaimCore, ClaimIsOwned, ClaimsKept, OwnerStreams, OwnerRows
<1> QED
  BY <1>1, <1>2, <1>3 DEF ClaimCore

\* What the discipline asks of one worker.
Disciplined(w) ==
    /\ pc[w] \in Critical => lock = w /\ OwnRow(w) \in owner
    /\ pc[w] \in {"read", "append"} => ClaimsOn(Threads, job[w].env) = {}
    /\ pc[w] = "commit" =>
           \A c \in ClaimsOn(Threads, job[w].env) : c[1] = job[w].to

LEMMA DisciplinePerWorker ==
    /\ LockDiscipline <=> \A w \in Workers : Disciplined(w)
    /\ LockDiscipline' <=> \A w \in Workers : Disciplined(w)'
BY DEF LockDiscipline, Disciplined, Critical

\* Worker w moves to a label outside the admission transaction, keeping or
\* dropping the lock, while the other workers keep what they carry.
LEMMA OutsideStep ==
    ASSUME ClaimCore, TypeInv, ClaimsKept, NEW w \in Workers, NEW label,
           label \notin Critical, pc' = [pc EXCEPT ![w] = label],
           \A v \in Workers \ {w} :
               /\ job'[v].env = job[v].env /\ job'[v].att = job[v].att
               /\ job'[v].to = job[v].to,
           owner' = owner, lock' = lock \/ LeaveLock(w)
    PROVE  ClaimCore'
<1>1. ASSUME NEW v \in Workers PROVE Disciplined(v)'
  <2>1. CASE v = w
    <3>1. pc'[v] \notin Critical
      BY <2>1 DEF TypeInv, TypeOK
    <3> QED
      BY <3>1 DEF Disciplined, Critical
  <2>2. CASE v # w
    <3>1. pc'[v] = pc[v] /\ Disciplined(v)
      BY <2>2, DisciplinePerWorker DEF TypeInv, TypeOK, ClaimCore
    <3>2. /\ job'[v].env = job[v].env /\ job'[v].to = job[v].to
          /\ OwnRow(v)' = OwnRow(v)
      BY <2>2 DEF OwnRow
    <3>3. pc[v] \in Critical => job[v].env \in Envelopes
      BY DEF TypeInv, JobShape, Critical
    <3>4. pc[v] \in Critical =>
             ClaimsOn(Threads, job[v].env)' = ClaimsOn(Threads, job[v].env)
      BY <3>2, <3>3 DEF ClaimsKept, ClaimsOn, EventsOf
    <3>5. pc[v] \in Critical => lock' = v
      BY <2>2, <3>1 DEF Disciplined, LeaveLock
    <3> QED
      BY <3>1, <3>2, <3>4, <3>5 DEF Disciplined, Critical
  <2> QED
    BY <2>1, <2>2
<1>2. ClaimsAreUnique'
  BY DEF ClaimCore, ClaimsAreUnique, ClaimsKept
<1>3. ClaimIsOwned'
  BY DEF ClaimCore, ClaimIsOwned, ClaimsKept, OwnerStreams, OwnerRows
<1> QED
  BY <1>1, <1>2, <1>3, DisciplinePerWorker DEF ClaimCore

LEMMA AbandonKeeps ==
    ASSUME ClaimCore, TypeInv, ClaimsKept, NEW w \in Workers, Abandon(w),
           owner' = owner
    PROVE  ClaimCore'
<1>1. \A v \in Workers \ {w} : job'[v] = job[v]
  BY DEF Abandon, TypeInv, TypeOK
<1>2. pc' = [pc EXCEPT ![w] = "idle"] /\ LeaveLock(w)
  BY DEF Abandon, Goto
<1>3. "idle" \notin Critical
  BY DEF Critical
<1> QED
  BY <1>1, <1>2, <1>3, OutsideStep

\* What an apply does with an existing outcome, apart from the pruning.
LEMMA ResumeFacts ==
    ASSUME TypeInv, NEW w \in Workers, NEW found, NEW loser,
           Resume(w, found, loser)
    PROVE  \E label \in {"done", "recover"} :
               /\ label \notin Critical /\ pc' = [pc EXCEPT ![w] = label]
               /\ \A v \in Workers \ {w} : job'[v] = job[v]
               /\ LeaveLock(w)
<1>1. \A v \in Workers \ {w} : job'[v] = job[v]
  BY DEF Resume, TypeInv, TypeOK
<1>2. PICK label \in {"done", "recover"} : pc' = [pc EXCEPT ![w] = label]
  BY DEF Resume, Goto
<1> QED
  BY <1>1, <1>2 DEF Resume, Critical

LEMMA ResumeKeeps ==
    ASSUME ClaimCore, TypeInv, ClaimsKept, NEW w \in Workers, NEW found,
           NEW loser, Resume(w, found, loser), owner' = owner
    PROVE  ClaimCore'
BY ResumeFacts, OutsideStep

\* No worker is inside the admission transaction while the lock is free.
LEMMA FreeLock ==
    ASSUME ClaimCore, lock = None
    PROVE  \A v \in Workers : pc[v] \notin Critical
BY IngressAssumption, DisciplinePerWorker
DEF ClaimCore, Disciplined, IngressAssumption

\* Two workers are never inside it together.
LEMMA OneCritical ==
    ASSUME ClaimCore, NEW w \in Workers, NEW v \in Workers,
           pc[w] \in Critical, pc[v] \in Critical
    PROVE  v = w
BY DisciplinePerWorker DEF ClaimCore, Disciplined

(***************************************************************************)
(* The steps of the claim.                                                 *)
(***************************************************************************)
LEMMA RecordOwnershipKeeps ==
    ASSUME ClaimCore, TypeInv, NEW w \in Workers, RecordOwnership(w)
    PROVE  ClaimCore'
<1>1. ClaimsKept
  BY SameClaims DEF RecordOwnership
<1>2. PICK l \in {"scope", "lock", "reserve"} : pc' = [pc EXCEPT ![w] = l]
  BY DEF RecordOwnership, Goto
<1>3. \A v \in Workers : pc[v] \notin Critical
  BY FreeLock DEF RecordOwnership
<1>4. ASSUME NEW v \in Workers PROVE Disciplined(v)'
  <2>1. pc'[v] \notin Critical
    BY <1>2, <1>3 DEF Critical, TypeInv, TypeOK
  <2> QED
    BY <2>1 DEF Disciplined, Critical
<1>5. ClaimsAreUnique'
  BY <1>1 DEF ClaimCore, ClaimsAreUnique, ClaimsKept
<1>6. ClaimIsOwned'
  <2>1. \A e \in Envelopes : OwnerStreams(e) \subseteq OwnerStreams(e)'
    BY DEF RecordOwnership, OwnerStreams, OwnerRows
  <2> QED
    BY <1>1, <2>1 DEF ClaimCore, ClaimIsOwned, ClaimsKept
<1> QED
  BY <1>4, <1>5, <1>6, DisciplinePerWorker DEF ClaimCore

\* A nonempty set of rows has one of least attempt.
LEMMA EarliestRow ==
    ASSUME NEW R \in SUBSET Rows, R # {}
    PROVE  \E r \in R : \A q \in R : r.att <= q.att
<1> DEFINE A == {r.att : r \in R}
           lt == {p \in Nat \X Nat : p[1] < p[2]}
<1>1. A \subseteq Nat /\ A # {}
  BY IngressAssumption DEF Rows, Attempts, IngressAssumption
<1>2. IsWellFoundedOn(lt, Nat)
  BY NatLessThanWellFounded DEF OpToRel
<1>3. PICK a \in A : \A b \in A : <<b, a>> \notin lt
  <2> HIDE DEF lt, A
  <2> QED
    BY <1>1, <1>2, WFMin
<1>4. ASSUME NEW b \in A PROVE a <= b
  <2>1. a \in Nat /\ b \in Nat /\ <<b, a>> \notin lt
    BY <1>1, <1>3
  <2>2. ~(b < a)
    BY <2>1
  <2> QED
    BY <2>1, <2>2
<1> QED
  BY <1>4

LEMMA LockAdmissionKeeps ==
    ASSUME ClaimCore, TypeInv, NEW w \in Workers, LockAdmission(w)
    PROVE  ClaimCore'
<1>0. PICK e \in Envelopes : e = job[w].env
  BY DEF LockAdmission, TypeInv, JobShape
<1> DEFINE found == OutcomeFold(e, OwnerStreams(e))
<1>1. ClaimsKept
  BY SameClaims DEF LockAdmission
<1>2. lock = None /\ OwnerStreams(e) \in SUBSET Threads
  BY OwnerStreamsTyped DEF LockAdmission, TypeInv
<1>3. \A v \in Workers : pc[v] \notin Critical
  BY <1>2, FreeLock
<1>4. ClaimsAreUnique'
  BY <1>1 DEF ClaimCore, ClaimsAreUnique, ClaimsKept
<1>5. CASE Abandon(w) /\ UNCHANGED owner
  BY <1>1, <1>5, AbandonKeeps
<1>6. CASE /\ found.state \in {"claimed", "settled"}
           /\ owner' = PruneToStream(e, found.at)
           /\ Resume(w, found, job[w].dec = "fork")
  <2>1. PICK label \in {"done", "recover"} :
           label \notin Critical /\ pc' = [pc EXCEPT ![w] = label]
    BY <1>6, ResumeFacts
  <2>2. ASSUME NEW v \in Workers PROVE Disciplined(v)'
    <3>1. pc'[v] \notin Critical
      BY <1>3, <2>1 DEF TypeInv, TypeOK
    <3> QED
      BY <3>1 DEF Disciplined, Critical
  <2>3. /\ found.at \in OwnerStreams(e) /\ found.at \in Threads
        /\ EventsOf(found.at, "claimed", e) # {}
    BY <1>2, <1>6, FoldFacts DEF TypeInv
  <2>4. \A c \in ClaimsOn(Threads, e) : c[1] = found.at
    <3>1. PICK i \in EventsOf(found.at, "claimed", e) : TRUE
      BY <2>3
    <3>2. <<found.at, i>> \in ClaimsOn(Threads, e)
      BY <2>3, <3>1 DEF ClaimsOn
    <3> HIDE DEF found
    <3> QED
      BY <1>2, <3>2 DEF ClaimCore, ClaimsAreUnique
  <2>5. found.at \in OwnerStreams(e)'
    <3> DEFINE R == {r \in OwnerRows(e) : r.stream = found.at}
    <3>1. R \in SUBSET Rows /\ R # {}
      BY <2>3 DEF OwnerStreams, OwnerRows, TypeInv, TypeOK
    <3>2. PICK r \in R : \A q \in R : r.att <= q.att
      BY <3>1, EarliestRow
    <3>3. r \in owner' /\ r.env = e /\ r.stream = found.at
      BY <1>6, <3>1, <3>2 DEF PruneToStream, OwnerRows
    <3> QED
      BY <3>3 DEF OwnerStreams, OwnerRows
  <2>6. \A x \in Envelopes \ {e} : OwnerStreams(x)' = OwnerStreams(x)
    <3>1. ASSUME NEW x \in Envelopes \ {e} PROVE OwnerRows(x)' = OwnerRows(x)
      BY <1>6 DEF OwnerRows, PruneToStream
    <3> QED
      BY <3>1 DEF OwnerStreams
  <2>7. ClaimIsOwned'
    <3>1. ASSUME NEW x \in Envelopes, NEW c \in ClaimsOn(Threads, x)
          PROVE  c[1] \in OwnerStreams(x)'
      BY <2>4, <2>5, <2>6 DEF ClaimCore, ClaimIsOwned
    <3> QED
      BY <1>1, <3>1 DEF ClaimIsOwned, ClaimsKept
  <2> QED
    BY <1>4, <2>2, <2>7, DisciplinePerWorker DEF ClaimCore
<1>7. CASE /\ found.state = "missing" /\ IsCurrent(w) /\ lock' = w
           /\ Goto(w, "read") /\ job' = job /\ owner' = owner
  <2>1. ClaimsOn(OwnerStreams(e), e) = {}
    BY <1>7 DEF OutcomeFold, NoOutcome
  <2>2. ClaimsOn(Threads, e) = {}
    <3>1. ASSUME NEW c \in ClaimsOn(Threads, e) PROVE FALSE
      <4>1. c[1] \in OwnerStreams(e)
        BY <1>2 DEF ClaimCore, ClaimIsOwned
      <4>2. c \in ClaimsOn(OwnerStreams(e), e)
        BY <4>1, ClaimPositions
      <4> QED
        BY <2>1, <4>2
    <3> QED
      BY <3>1
  <2>3. ASSUME NEW v \in Workers PROVE Disciplined(v)'
    <3>1. CASE v = w
      <4>1. pc'[v] = "read"
        BY <1>7, <3>1 DEF Goto, TypeInv, TypeOK
      <4>2. OwnRow(v)' \in owner'
        BY <1>7, <3>1 DEF IsCurrent, OwnRow
      <4>3. ClaimsOn(Threads, job[v].env)' = {}
        BY <1>0, <1>1, <1>7, <2>2, <3>1 DEF ClaimsKept
      <4> QED
        BY <1>7, <3>1, <4>1, <4>2, <4>3 DEF Disciplined, Critical
    <3>2. CASE v # w
      <4>1. pc'[v] \notin Critical
        BY <1>3, <1>7, <3>2 DEF Goto, TypeInv, TypeOK
      <4> QED
        BY <4>1 DEF Disciplined, Critical
    <3> QED
      BY <3>1, <3>2
  <2>4. ClaimIsOwned'
    BY <1>1, <1>7
    DEF ClaimCore, ClaimIsOwned, ClaimsKept, OwnerStreams, OwnerRows
  <2> QED
    BY <1>4, <2>3, <2>4, DisciplinePerWorker DEF ClaimCore
<1>8. CASE /\ Goto(w, "await") /\ lock' = lock /\ owner' = owner
           /\ job' = [job EXCEPT ![w].seen = OwnerStreams(e)]
  <2>1. \A v \in Workers \ {w} : job'[v] = job[v]
    BY <1>0, <1>8 DEF TypeInv, TypeOK
  <2>2. "await" \notin Critical
    BY DEF Critical
  <2> QED
    BY <1>1, <1>8, <2>1, <2>2, OutsideStep DEF Goto
<1> QED
  BY <1>0, <1>5, <1>6, <1>7, <1>8 DEF LockAdmission

LEMMA ReadClaimStreamKeeps ==
    ASSUME ClaimCore, TypeInv, NEW w \in Workers, ReadClaimStream(w)
    PROVE  ClaimCore'
<1>0. PICK e \in Envelopes : e = job[w].env
  BY DEF ReadClaimStream, TypeInv, JobShape
<1> DEFINE found == OutcomeFold(e, {job[w].to})
<1>1. ClaimsKept
  BY SameClaims DEF ReadClaimStream
<1>2. job[w].to \in Threads /\ pc[w] = "read"
  BY DEF ReadClaimStream, TypeInv, JobShape
<1>3. Disciplined(w) /\ ClaimsOn(Threads, e) = {}
  BY <1>0, <1>2, DisciplinePerWorker DEF ClaimCore, Disciplined
<1>4. CASE Abandon(w) /\ UNCHANGED owner
  BY <1>1, <1>4, AbandonKeeps
<1>5. CASE found.state \in {"claimed", "settled"}
  <2>1. {job[w].to} \in SUBSET Threads
    BY <1>2
  <2>2. /\ found.at \in Threads /\ EventsOf(found.at, "claimed", e) # {}
    BY <1>2, <1>5, <2>1, FoldFacts DEF TypeInv
  <2>3. ClaimsOn(Threads, e) # {}
    <3>1. PICK i \in EventsOf(found.at, "claimed", e) : TRUE
      BY <2>2
    <3>2. <<found.at, i>> \in {found.at} \X EventsOf(found.at, "claimed", e)
      BY <3>1
    <3> QED
      BY <2>2, <3>2 DEF ClaimsOn
  <2> QED
    BY <1>3, <2>3
<1>6. CASE /\ job' = [job EXCEPT ![w].tail = Len(control[job[w].to])]
           /\ Goto(w, "append") /\ owner' = owner /\ lock' = lock
  <2>1. ASSUME NEW v \in Workers
        PROVE  /\ job'[v].env = job[v].env /\ job'[v].to = job[v].to
               /\ OwnRow(v)' = OwnRow(v)
    BY <1>6 DEF OwnRow, TypeInv, TypeOK, Jobs
  <2>2. ASSUME NEW v \in Workers PROVE Disciplined(v)'
    <3>1. CASE v = w
      <4>1. pc'[v] = "append"
        BY <1>6, <3>1 DEF Goto, TypeInv, TypeOK
      <4>2. ClaimsOn(Threads, job[v].env)' = {}
        BY <1>0, <1>1, <1>3, <2>1, <3>1 DEF ClaimsKept
      <4>3. lock' = v /\ OwnRow(v)' \in owner'
        BY <1>2, <1>3, <1>6, <2>1, <3>1 DEF Disciplined, Critical
      <4> QED
        BY <4>1, <4>2, <4>3 DEF Disciplined
    <3>2. CASE v # w
      <4>1. pc'[v] \notin Critical
        BY <1>2, <1>6, <3>2, OneCritical
        DEF Goto, TypeInv, TypeOK, Critical
      <4> QED
        BY <4>1 DEF Disciplined, Critical
    <3> QED
      BY <3>1, <3>2
  <2>3. ClaimsAreUnique'
    BY <1>1 DEF ClaimCore, ClaimsAreUnique, ClaimsKept
  <2>4. ClaimIsOwned'
    BY <1>1, <1>6
    DEF ClaimCore, ClaimIsOwned, ClaimsKept, OwnerStreams, OwnerRows
  <2> QED
    BY <2>2, <2>3, <2>4, DisciplinePerWorker DEF ClaimCore
<1> QED
  BY <1>0, <1>4, <1>5, <1>6 DEF ReadClaimStream

\* The batch adds one claim, at the position after the stream's tail.
LEMMA BatchClaims ==
    ASSUME TypeInv, NEW w \in Workers, pc[w] = "append",
           NEW i \in DOMAIN ClaimBatch(w)
    PROVE  \/ /\ i \in DOMAIN control[job[w].to]
              /\ ClaimBatch(w)[i] = control[job[w].to][i]
           \/ /\ i = Len(control[job[w].to]) + 1
              /\ ClaimBatch(w)[i].env = job[w].env
           \/ ClaimBatch(w)[i].kind = "settled"
<1> DEFINE q == control[job[w].to]
           c == Event("claimed", job[w].env, job[w].turn, job[w].dec)
           s == Event("settled", job[w].env, job[w].turn, job[w].dec)
<1>1. q \in Seq(Events) /\ Len(q) \in Nat
  <2>1. job[w].to \in Threads /\ control \in [Threads -> Seq(Events)]
    BY DEF TypeInv, TypeOK, JobShape
  <2>2. q \in Seq(Events)
    BY <2>1
  <2> QED
    BY <2>2, LenProperties
<1>2. c.env = job[w].env /\ s.kind = "settled"
  BY DEF Event
<1>3. ClaimBatch(w) = IF job[w].dec = "observe"
                      THEN Append(Append(q, c), s) ELSE Append(q, c)
  BY DEF ClaimBatch
<1> HIDE DEF q, c, s
<1>4. ASSUME NEW k \in DOMAIN Append(q, c)
      PROVE  \/ k \in DOMAIN q /\ Append(q, c)[k] = q[k]
             \/ k = Len(q) + 1 /\ Append(q, c)[k] = c
  BY <1>1
<1>5. ASSUME NEW k \in DOMAIN Append(Append(q, c), s)
      PROVE  \/ /\ k \in DOMAIN Append(q, c)
                /\ Append(Append(q, c), s)[k] = Append(q, c)[k]
             \/ Append(Append(q, c), s)[k] = s
  BY <1>1
<1>6. CASE job[w].dec = "observe"
  BY <1>2, <1>3, <1>4, <1>5, <1>6 DEF q
<1>7. CASE job[w].dec # "observe"
  BY <1>2, <1>3, <1>4, <1>7 DEF q
<1> QED
  BY <1>6, <1>7

\* The batch keeps the stream it extends.
LEMMA BatchKeeps ==
    ASSUME TypeInv, NEW w \in Workers, pc[w] = "append",
           NEW i \in DOMAIN control[job[w].to]
    PROVE  /\ i \in DOMAIN ClaimBatch(w)
           /\ ClaimBatch(w)[i] = control[job[w].to][i]
<1> DEFINE q == control[job[w].to]
           c == Event("claimed", job[w].env, job[w].turn, job[w].dec)
           s == Event("settled", job[w].env, job[w].turn, job[w].dec)
<1>1. q \in Seq(Events) /\ Len(q) \in Nat
  <2>1. job[w].to \in Threads /\ control \in [Threads -> Seq(Events)]
    BY DEF TypeInv, TypeOK, JobShape
  <2>2. q \in Seq(Events)
    BY <2>1
  <2> QED
    BY <2>2, LenProperties
<1>2. ClaimBatch(w) = IF job[w].dec = "observe"
                      THEN Append(Append(q, c), s) ELSE Append(q, c)
  BY DEF ClaimBatch
<1> HIDE DEF q, c, s
<1>3. i \in DOMAIN q
  BY DEF q
<1>4. i \in DOMAIN Append(q, c) /\ Append(q, c)[i] = q[i]
  BY <1>1, <1>3
<1>5. /\ i \in DOMAIN Append(Append(q, c), s)
      /\ Append(Append(q, c), s)[i] = q[i]
  BY <1>1, <1>3, <1>4
<1> QED
  BY <1>2, <1>4, <1>5 DEF q

LEMMA AppendClaimKeeps ==
    ASSUME ClaimCore, TypeInv, NEW w \in Workers, AppendClaim(w)
    PROVE  ClaimCore'
<1>0. PICK e \in Envelopes : e = job[w].env
  BY DEF AppendClaim, TypeInv, JobShape
<1>1. /\ job[w].to \in Threads /\ pc[w] = "append"
      /\ job' = job /\ owner' = owner /\ lock' = lock
  BY DEF AppendClaim, TypeInv, JobShape
<1>2. /\ ClaimsOn(Threads, e) = {} /\ lock = w /\ OwnRow(w) \in owner
  BY <1>0, <1>1, DisciplinePerWorker DEF ClaimCore, Disciplined, Critical
<1>3. ASSUME NEW v \in Workers, v # w PROVE pc[v] \notin Critical
  BY <1>1, <1>3, OneCritical DEF Critical
<1>4. CASE control' = control /\ Goto(w, "read")
  <2>1. ClaimsKept
    BY <1>4, SameClaims
  <2>2. ASSUME NEW v \in Workers PROVE Disciplined(v)'
    <3>1. CASE v = w
      <4>1. pc'[v] = "read" /\ lock' = v /\ OwnRow(v)' \in owner'
        BY <1>1, <1>2, <1>4, <3>1 DEF Goto, TypeInv, TypeOK, OwnRow
      <4>2. ClaimsOn(Threads, job[v].env)' = {}
        BY <1>0, <1>1, <1>2, <2>1, <3>1 DEF ClaimsKept
      <4> QED
        BY <4>1, <4>2 DEF Disciplined
    <3>2. CASE v # w
      <4>1. pc'[v] \notin Critical
        BY <1>3, <1>4, <3>2 DEF Goto, TypeInv, TypeOK
      <4> QED
        BY <4>1 DEF Disciplined, Critical
    <3> QED
      BY <3>1, <3>2
  <2>3. ClaimsAreUnique' /\ ClaimIsOwned'
    BY <1>1, <2>1 DEF ClaimCore, ClaimsAreUnique, ClaimIsOwned, ClaimsKept,
                      OwnerStreams, OwnerRows
  <2> QED
    BY <2>2, <2>3, DisciplinePerWorker DEF ClaimCore
<1>5. CASE /\ control' = [control EXCEPT ![job[w].to] = ClaimBatch(w)]
           /\ Goto(w, "commit")
  <2> DEFINE n == Len(control[job[w].to]) + 1
  <2>1. control \in [Threads -> Seq(Events)]
    BY DEF TypeInv, TypeOK
  <2>2. ASSUME NEW x \in Envelopes, NEW c \in ClaimsOn(Threads, x)'
        PROVE  \/ c \in ClaimsOn(Threads, x)
               \/ x = e /\ c = <<job[w].to, n>>
    <3>0. PICK s \in Threads : \E i \in DOMAIN control'[s] :
             /\ c = <<s, i>> /\ control'[s][i].kind = "claimed"
             /\ control'[s][i].env = x
      BY <2>2, ClaimPositionsNext
    <3>1. PICK i \in DOMAIN control'[s] :
             /\ c = <<s, i>> /\ control'[s][i].kind = "claimed"
             /\ control'[s][i].env = x
      BY <3>0
    <3>2. CASE s # job[w].to
      <4>1. control'[s] = control[s]
        BY <1>1, <1>5, <2>1, <3>2
      <4> QED
        BY <3>1, <4>1, ClaimPositions
    <3>3. CASE s = job[w].to
      <4>1. control'[s] = ClaimBatch(w)
        BY <1>1, <1>5, <2>1, <3>3
      <4>2. \/ i \in DOMAIN control[s] /\ ClaimBatch(w)[i] = control[s][i]
            \/ i = n /\ ClaimBatch(w)[i].env = e
        BY <1>0, <1>1, <3>1, <3>3, <4>1, BatchClaims
      <4> QED
        BY <3>1, <3>3, <4>1, <4>2, ClaimPositions
    <3> QED
      BY <3>2, <3>3
  <2>3. ASSUME NEW c \in ClaimsOn(Threads, e)' PROVE c = <<job[w].to, n>>
    BY <1>2, <2>2, <2>3
  <2>4. ASSUME NEW x \in Envelopes, x # e, NEW c \in ClaimsOn(Threads, x)'
        PROVE  c \in ClaimsOn(Threads, x)
    BY <2>2, <2>4
  <2>5. ClaimsAreUnique'
    <3>1. ASSUME NEW x \in Envelopes, NEW c \in ClaimsOn(Threads, x)',
                 NEW d \in ClaimsOn(Threads, x)'
          PROVE  c = d
      BY <2>3, <2>4, <3>1 DEF ClaimCore, ClaimsAreUnique
    <3> QED
      BY <3>1 DEF ClaimsAreUnique
  <2>6. ClaimIsOwned'
    <3>1. ASSUME NEW x \in Envelopes, NEW c \in ClaimsOn(Threads, x)'
          PROVE  c[1] \in OwnerStreams(x)'
      <4>1. OwnerStreams(x)' = OwnerStreams(x)
        BY <1>1 DEF OwnerStreams, OwnerRows
      <4>2. CASE x = e
        <5>1. job[w].to \in OwnerStreams(e)
          BY <1>0, <1>2 DEF OwnerStreams, OwnerRows, OwnRow
        <5> QED
          BY <2>3, <4>1, <4>2, <5>1
      <4>3. CASE x # e
        BY <2>4, <4>1, <4>3 DEF ClaimCore, ClaimIsOwned
      <4> QED
        BY <4>2, <4>3
    <3> QED
      BY <3>1 DEF ClaimIsOwned
  <2>7. ASSUME NEW v \in Workers PROVE Disciplined(v)'
    <3>1. CASE v = w
      <4>1. pc'[v] = "commit" /\ lock' = v /\ OwnRow(v)' \in owner'
        BY <1>1, <1>2, <1>5, <3>1 DEF Goto, TypeInv, TypeOK, OwnRow
      <4>2. \A c \in ClaimsOn(Threads, e)' : c[1] = job[w].to
        BY <2>3
      <4>3. ClaimsOn(Threads, job[v].env)' = ClaimsOn(Threads, e)'
        BY <1>0, <1>1, <3>1
      <4> QED
        BY <1>1, <3>1, <4>1, <4>2, <4>3 DEF Disciplined
    <3>2. CASE v # w
      <4>1. pc'[v] \notin Critical
        BY <1>3, <1>5, <3>2 DEF Goto, TypeInv, TypeOK
      <4> QED
        BY <4>1 DEF Disciplined, Critical
    <3> QED
      BY <3>1, <3>2
  <2> QED
    BY <2>5, <2>6, <2>7, DisciplinePerWorker DEF ClaimCore
<1> QED
  BY <1>4, <1>5 DEF AppendClaim

LEMMA CommitAdmissionKeeps ==
    ASSUME ClaimCore, TypeInv, NEW w \in Workers, CommitAdmission(w)
    PROVE  ClaimCore'
<1>0. PICK e \in Envelopes : e = job[w].env
  BY DEF CommitAdmission, TypeInv, JobShape
<1>1. ClaimsKept
  BY SameClaims DEF CommitAdmission
<1>2. PICK l \in {"done", "cancel", "create", "submit"} :
         pc' = [pc EXCEPT ![w] = l]
  BY DEF CommitAdmission, Goto
<1>3. /\ pc[w] = "commit" /\ OwnRow(w) \in owner
      /\ \A c \in ClaimsOn(Threads, e) : c[1] = job[w].to
  BY <1>0, DisciplinePerWorker DEF CommitAdmission, ClaimCore, Disciplined,
                                   Critical
<1>4. ASSUME NEW v \in Workers PROVE Disciplined(v)'
  <2>1. pc'[v] \notin Critical
    <3>1. CASE v = w
      BY <1>2, <3>1 DEF TypeInv, TypeOK, Critical
    <3>2. CASE v # w
      BY <1>2, <1>3, <3>2, OneCritical DEF TypeInv, TypeOK, Critical
    <3> QED
      BY <3>1, <3>2
  <2> QED
    BY <2>1 DEF Disciplined, Critical
<1>5. ClaimsAreUnique'
  BY <1>1 DEF ClaimCore, ClaimsAreUnique, ClaimsKept
<1>6. ClaimIsOwned'
  <2>1. owner' = {r \in owner : r.env = e => r = OwnRow(w)}
    BY <1>0 DEF CommitAdmission, PruneToReservation
  <2>2. job[w].to \in OwnerStreams(e)'
    BY <1>0, <1>3, <2>1 DEF OwnerStreams, OwnerRows, OwnRow
  <2>3. \A x \in Envelopes \ {e} : OwnerStreams(x)' = OwnerStreams(x)
    <3>1. ASSUME NEW x \in Envelopes \ {e} PROVE OwnerRows(x)' = OwnerRows(x)
      BY <2>1 DEF OwnerRows
    <3> QED
      BY <3>1 DEF OwnerStreams
  <2>4. ASSUME NEW x \in Envelopes, NEW c \in ClaimsOn(Threads, x)
        PROVE  c[1] \in OwnerStreams(x)'
    BY <1>3, <2>2, <2>3 DEF ClaimCore, ClaimIsOwned
  <2> QED
    BY <1>1, <2>4 DEF ClaimIsOwned, ClaimsKept
<1> QED
  BY <1>4, <1>5, <1>6, DisciplinePerWorker DEF ClaimCore

(***************************************************************************)
(* Every other action leaves the claim invariant alone.                    *)
(***************************************************************************)
\* Worker w moves outside the admission transaction and touches at most its
\* own job.
LEMMA MoveKeeps ==
    ASSUME ClaimCore, TypeInv, ClaimsKept, NEW w \in Workers,
           NEW label \in Labels \ Critical, pc' = [pc EXCEPT ![w] = label],
           \A v \in Workers \ {w} : job'[v] = job[v],
           owner' = owner, lock' = lock
    PROVE  ClaimCore'
BY OutsideStep

\* The labels outside the admission transaction that the actions move to.
LEMMA OutsideLabels ==
    {"idle", "fold", "witness", "decide", "own", "reserve", "scope", "lock",
     "await", "cancel", "submit", "evidence", "settle", "settling", "recover",
     "reload", "check", "create", "spawn", "rebind", "adopt", "forksubmit",
     "done"} \subseteq Labels \ Critical
BY DEF Labels, Critical

LEMMA QueueKeeps ==
    ASSUME ClaimCore, TypeInv, NEW w \in Workers,
           (\E e \in Envelopes : Lease(w, e)) \/ Complete(w)
    PROVE  ClaimCore'
<1>1. ClaimsKept
  BY SameClaims DEF Lease, Complete
<1>2. \A v \in Workers \ {w} : job'[v] = job[v]
  BY DEF Lease, Complete, TypeInv, TypeOK
<1>3. PICK l \in {"fold", "idle"} : pc' = [pc EXCEPT ![w] = l]
  BY DEF Lease, Complete, Goto
<1> QED
  BY <1>1, <1>2, <1>3, OutsideLabels, MoveKeeps DEF Lease, Complete

LEMMA FoldOutcomeKeeps ==
    ASSUME ClaimCore, TypeInv, NEW w \in Workers, FoldOutcome(w)
    PROVE  ClaimCore'
<1> DEFINE found == IngressOutcomeOf(job[w].env)
<1>1. ClaimsKept /\ owner' = owner
  BY SameClaims DEF FoldOutcome
<1>2. CASE Goto(w, "witness") /\ lock' = lock /\ job' = job
  BY <1>1, <1>2, OutsideLabels, MoveKeeps DEF Goto
<1>3. CASE Abandon(w)
  BY <1>1, <1>3, AbandonKeeps
<1>4. CASE Resume(w, found, job[w].att = 1)
  <2> HIDE DEF found
  <2> QED
    BY <1>1, <1>4, ResumeKeeps
<1> QED
  BY <1>2, <1>3, <1>4 DEF FoldOutcome

LEMMA WitnessKeeps ==
    ASSUME ClaimCore, TypeInv, NEW w \in Workers, Witness(w)
    PROVE  ClaimCore'
<1> DEFINE e == job[w].env
           t == IF route = None THEN Root ELSE route
           x == Event("received", e, None, None)
<1>1. e \in Envelopes /\ t \in Threads
  BY DEF TypeInv, TypeOK, JobShape, Witness, Threads
<1>2. x \in Events /\ x.kind # "claimed"
  BY <1>1, EventTyped DEF EventKinds, MaybeTurns, Decisions, Event
<1>3. ClaimsKept
  <2>1. control' = control \/ control' = [control EXCEPT ![t] = Append(@, x)]
    BY DEF Witness
  <2> HIDE DEF t, x
  <2> QED
    BY <1>1, <1>2, <2>1, SameClaims, AppendKeepsClaims
<1>4. \A v \in Workers \ {w} : job'[v] = job[v]
  BY DEF Witness, TypeInv, TypeOK
<1> QED
  BY <1>3, <1>4, OutsideLabels, MoveKeeps DEF Witness, Goto

LEMMA RecordDecisionKeeps ==
    ASSUME ClaimCore, TypeInv, NEW w \in Workers, RecordDecision(w)
    PROVE  ClaimCore'
<1> DEFINE t == job[w].to
           x == Event("decided", job[w].env, None, job[w].dec)
<1>1. job[w].env \in Envelopes /\ t \in Threads /\ job[w].dec \in AllPolicies
  BY DEF TypeInv, JobShape, RecordDecision
<1>2. x \in Events /\ x.kind # "claimed"
  BY <1>1, EventTyped DEF EventKinds, MaybeTurns, Decisions, Event
<1>3. ClaimsKept /\ owner' = owner
  <2>1. control' = control \/ control' = [control EXCEPT ![t] = Append(@, x)]
    BY DEF RecordDecision
  <2> HIDE DEF t, x
  <2>2. ClaimsKept
    BY <1>1, <1>2, <2>1, SameClaims, AppendKeepsClaims
  <2> QED
    BY <2>2 DEF RecordDecision
<1>4. CASE Goto(w, "own") /\ lock' = lock /\ job' = job
  BY <1>3, <1>4, OutsideLabels, MoveKeeps DEF Goto
<1>5. CASE Abandon(w)
  BY <1>3, <1>5, AbandonKeeps
<1> QED
  BY <1>4, <1>5 DEF RecordDecision

LEMMA ReserveKeeps ==
    ASSUME ClaimCore, TypeInv, NEW w \in Workers, Reserve(w)
    PROVE  ClaimCore'
<1>1. ClaimsKept /\ owner' = owner
  BY SameClaims DEF Reserve
<1>2. CASE Abandon(w)
  BY <1>1, <1>2, AbandonKeeps
<1>3. CASE /\ \E l \in {"submit", "lock"} : Goto(w, l)
           /\ job' \in {job, [job EXCEPT ![w].holds = TRUE]} /\ lock' = lock
  <2>1. \A v \in Workers \ {w} : job'[v] = job[v]
    BY <1>3 DEF TypeInv, TypeOK
  <2> QED
    BY <1>1, <1>3, <2>1, OutsideLabels, MoveKeeps DEF Goto
<1> QED
  BY <1>2, <1>3 DEF Reserve

LEMMA AwaitOutcomeKeeps ==
    ASSUME ClaimCore, TypeInv, NEW w \in Workers, AwaitOutcome(w)
    PROVE  ClaimCore'
<1> DEFINE found == OutcomeFold(job[w].env, job[w].seen)
<1>1. ClaimsKept /\ owner' = owner
  BY SameClaims DEF AwaitOutcome
<1>2. CASE Abandon(w)
  BY <1>1, <1>2, AbandonKeeps
<1>3. CASE Resume(w, found, job[w].dec = "fork")
  <2> HIDE DEF found
  <2> QED
    BY <1>1, <1>3, ResumeKeeps
<1> QED
  BY <1>2, <1>3 DEF AwaitOutcome

\* Actions that only move w's label, job and runtime state.
LEMMA EffectsKeep ==
    ASSUME ClaimCore, TypeInv, NEW w \in Workers,
           \/ CancelActive(w) \/ SubmitTurn(w) \/ AwaitEvidence(w)
           \/ Recover(w) \/ CheckEvidence(w) \/ CreateChild(w)
           \/ RebindRoute(w)
    PROVE  ClaimCore'
<1>1. ClaimsKept /\ owner' = owner /\ lock' = lock
  <2>1. control' = control /\ owner' = owner /\ lock' = lock
    BY DEF CancelActive, SubmitTurn, AwaitEvidence, Recover, CheckEvidence,
           CreateChild, RebindRoute
  <2> QED
    BY <2>1, SameClaims
<1>2. \A v \in Workers \ {w} : job'[v] = job[v]
  BY DEF CancelActive, SubmitTurn, AwaitEvidence, Recover, CheckEvidence,
         CreateChild, RebindRoute, TypeInv, TypeOK
<1>3. \E l \in {"check", "submit", "evidence", "settle", "reload", "scope",
                "cancel", "reserve", "spawn", "forksubmit"} :
         pc' = [pc EXCEPT ![w] = l]
  <2>1. CASE CancelActive(w)
    BY <2>1 DEF CancelActive, Goto
  <2>2. CASE SubmitTurn(w)
    BY <2>2 DEF SubmitTurn, Goto
  <2>3. CASE AwaitEvidence(w)
    BY <2>3 DEF AwaitEvidence, Goto
  <2>4. CASE Recover(w)
    BY <2>4 DEF Recover, Goto
  <2>5. CASE CheckEvidence(w)
    BY <2>5 DEF CheckEvidence, Goto
  <2>6. CASE CreateChild(w)
    BY <2>6 DEF CreateChild, Goto
  <2>7. CASE RebindRoute(w)
    BY <2>7 DEF RebindRoute, Goto
  <2> QED
    BY <2>1, <2>2, <2>3, <2>4, <2>5, <2>6, <2>7
<1> QED
  BY <1>1, <1>2, <1>3, OutsideLabels, MoveKeeps

LEMMA ReadSettleStreamKeeps ==
    ASSUME ClaimCore, TypeInv, NEW w \in Workers, ReadSettleStream(w)
    PROVE  ClaimCore'
<1>1. ClaimsKept /\ owner' = owner
  BY SameClaims DEF ReadSettleStream
<1>2. CASE Abandon(w)
  BY <1>1, <1>2, AbandonKeeps
<1>3. CASE /\ \E l \in {"done", "settling"} : Goto(w, l)
           /\ \/ job' = job
              \/ job' = [job EXCEPT ![w].tail = Len(control[job[w].to])]
           /\ lock' = lock
  <2>1. \A v \in Workers \ {w} : job'[v] = job[v]
    BY <1>3 DEF TypeInv, TypeOK
  <2> QED
    BY <1>1, <1>3, <2>1, OutsideLabels, MoveKeeps DEF Goto
<1> QED
  BY <1>2, <1>3 DEF ReadSettleStream

LEMMA AppendsKeep ==
    ASSUME ClaimCore, TypeInv, NEW w \in Workers,
           AppendSettle(w) \/ AppendSpawned(w)
    PROVE  ClaimCore'
<1> DEFINE t == job[w].to
           x == Event("settled", job[w].env, job[w].turn, job[w].dec)
           y == Event("spawned", job[w].env, job[w].turn, job[w].dec)
<1>1. /\ job[w].env \in Envelopes /\ t \in Threads
      /\ job[w].turn \in {job[w].env} \X Attempts /\ job[w].dec \in AllPolicies
  BY DEF TypeInv, JobShape, AppendSettle, AppendSpawned
<1>2. job[w].turn \in MaybeTurns /\ job[w].dec \in Decisions
  BY <1>1 DEF MaybeTurns, Turns, Decisions
<1>3. x \in Events /\ x.kind # "claimed" /\ y \in Events /\ y.kind # "claimed"
  BY <1>1, <1>2, EventTyped DEF EventKinds, Event
<1>4. ClaimsKept
  <2>1. \/ control' = control \/ control' = [control EXCEPT ![t] = Append(@, x)]
        \/ control' = [control EXCEPT ![t] = Append(@, y)]
    BY DEF AppendSettle, AppendSpawned
  <2> HIDE DEF t, x, y
  <2> QED
    BY <1>1, <1>3, <2>1, SameClaims, AppendKeepsClaims
<1>5. PICK l \in {"done", "settle", "rebind"} : pc' = [pc EXCEPT ![w] = l]
  BY DEF AppendSettle, AppendSpawned, Goto
<1>6. job' = job /\ owner' = owner /\ lock' = lock
  BY DEF AppendSettle, AppendSpawned
<1> QED
  BY <1>4, <1>5, <1>6, OutsideLabels, MoveKeeps

LEMMA ReloadKeeps ==
    ASSUME ClaimCore, TypeInv, NEW w \in Workers, Reload(w)
    PROVE  ClaimCore'
<1>1. ClaimsKept /\ owner' = owner /\ lock' = lock
  BY SameClaims DEF Reload
<1>2. PICK l \in {"scope", "cancel", "check"} : pc' = [pc EXCEPT ![w] = l]
  BY DEF Reload, Goto
<1>3. ASSUME NEW v \in Workers
      PROVE  /\ job'[v].env = job[v].env /\ job'[v].att = job[v].att
             /\ job'[v].to = job[v].to
  <2>1. job[v] \in Jobs
    BY DEF TypeInv, TypeOK
  <2>2. job'[v] \in {job[v], [job[v] EXCEPT !.holds = FALSE]}
    BY DEF Reload
  <2> QED
    BY <2>1, <2>2 DEF Jobs
<1>4. l \notin Critical
  BY <1>2 DEF Critical
<1> QED
  BY <1>1, <1>2, <1>3, <1>4, OutsideStep

LEMMA TakeScopeKeeps ==
    ASSUME ClaimCore, TypeInv, NEW w \in Workers, TakeScope(w)
    PROVE  ClaimCore'
<1>1. ClaimsKept /\ owner' = owner
  BY SameClaims DEF TakeScope
<1>2. CASE Abandon(w)
  BY <1>1, <1>2, AbandonKeeps
<1>3. CASE /\ \E l \in {"lock", "adopt", "create", "done"} : Goto(w, l)
           /\ job' = job /\ lock' = lock
  BY <1>1, <1>3, OutsideLabels, MoveKeeps DEF Goto
<1> QED
  BY <1>2, <1>3 DEF TakeScope

LEMMA SubmitForkKeeps ==
    ASSUME ClaimCore, TypeInv, NEW w \in Workers, SubmitFork(w)
    PROVE  ClaimCore'
<1>1. ClaimsKept /\ owner' = owner
  BY SameClaims DEF SubmitFork
<1>2. CASE Abandon(w)
  BY <1>1, <1>2, AbandonKeeps
<1>3. CASE Goto(w, "settle") /\ job' = job /\ lock' = lock
  BY <1>1, <1>3, OutsideLabels, MoveKeeps DEF Goto
<1> QED
  BY <1>2, <1>3 DEF SubmitFork

LEMMA ErrorsKeep ==
    ASSUME ClaimCore, TypeInv, NEW w \in Workers, Timeout(w) \/ Fault(w)
    PROVE  ClaimCore'
<1>1. ClaimsKept /\ owner' = owner /\ Abandon(w)
  BY SameClaims DEF Timeout, Fault
<1> QED
  BY <1>1, AbandonKeeps

LEMMA CrashKeeps ==
    ASSUME ClaimCore, TypeInv, Crash
    PROVE  ClaimCore'
<1>1. ClaimsKept
  BY SameClaims DEF Crash
<1>2. ASSUME NEW v \in Workers PROVE Disciplined(v)'
  <2>1. pc'[v] = "idle"
    BY DEF Crash
  <2> QED
    BY <2>1 DEF Disciplined, Critical
<1>3. ClaimsAreUnique' /\ ClaimIsOwned'
  BY <1>1 DEF ClaimCore, ClaimsAreUnique, ClaimIsOwned, ClaimsKept,
              OwnerStreams, OwnerRows, Crash
<1> QED
  BY <1>2, <1>3, DisciplinePerWorker DEF ClaimCore

LEMMA ExecutionKeeps ==
    ASSUME ClaimCore, TypeInv,
           \/ \E t \in Threads : Execute(t) \/ FailTurn(t)
           \/ \E e \in Envelopes : Expire(e)
           \/ \E u \in answers : DeliverAnswer(u)
           \/ UNCHANGED vars
    PROVE  ClaimCore'
<1>1. /\ control' = control /\ owner' = owner /\ lock' = lock /\ pc' = pc
      /\ job' = job
  <2>1. CASE \E t \in Threads : Execute(t) \/ FailTurn(t)
    BY <2>1 DEF Execute, StartCommand, CompileContext, ActiveCommand,
                FinishTurn, FailTurn
  <2>2. CASE \E e \in Envelopes : Expire(e)
    BY <2>2 DEF Expire
  <2>3. CASE \E u \in answers : DeliverAnswer(u)
    BY <2>3 DEF DeliverAnswer
  <2>4. CASE UNCHANGED vars
    BY <2>4 DEF vars
  <2> QED
    BY <2>1, <2>2, <2>3, <2>4
<1> QED
  BY <1>1, SameClaims, QuietStep

LEMMA ClaimStep ==
    ASSUME ClaimCore, TypeInv, [Next]_vars
    PROVE  ClaimCore'
<1>1. ASSUME NEW w \in Workers, Apply(w) PROVE ClaimCore'
  BY <1>1, QueueKeeps, FoldOutcomeKeeps, WitnessKeeps, RecordDecisionKeeps,
     RecordOwnershipKeeps, ReserveKeeps, LockAdmissionKeeps,
     AwaitOutcomeKeeps, ReadClaimStreamKeeps, AppendClaimKeeps,
     CommitAdmissionKeeps, EffectsKeep, ReadSettleStreamKeeps, AppendsKeep,
     ReloadKeeps, TakeScopeKeeps, SubmitForkKeeps, ErrorsKeep
  DEF Apply
<1> QED
  BY <1>1, ErrorsKeep, CrashKeeps, ExecutionKeeps DEF Next, Drained

LEMMA InitClaims == Init => ClaimCore
<1> SUFFICES ASSUME Init PROVE ClaimCore
  OBVIOUS
<1>1. ASSUME NEW e \in Envelopes PROVE ClaimsOn(Threads, e) = {}
  <2>1. \A t \in Threads : DOMAIN control[t] = {}
    BY DEF Init
  <2> QED
    BY <2>1, ClaimPositions
<1> QED
  BY <1>1 DEF Init, ClaimCore, LockDiscipline, ClaimsAreUnique, ClaimIsOwned

\* The claim invariant holds in every reachable state.
THEOREM ClaimInvariant == Spec => []ClaimInv
<1>1. Init => TypeInv /\ ClaimCore
  BY InitType, InitClaims
<1>2. TypeInv /\ ClaimCore /\ [Next]_vars => (TypeInv /\ ClaimCore)'
  BY TypeStep, ClaimStep
<1>3. TypeInv /\ ClaimCore => ClaimInv
  BY DEF TypeInv, ClaimCore, ClaimInv
<1> QED
  BY <1>1, <1>2, <1>3, PTL DEF Spec

\* At most one claim per envelope, across all control streams, whatever the
\* number of workers, redeliveries, route changes, errors and restarts.
THEOREM OneClaim == Spec => []OneClaimPerEnvelope
<1>1. ClaimInv => OneClaimPerEnvelope
  <2> SUFFICES ASSUME ClaimInv, NEW e \in Envelopes
               PROVE  Cardinality(ClaimsOn(Threads, e)) <= 1
    BY DEF OneClaimPerEnvelope
  <2>1. CASE ClaimsOn(Threads, e) = {}
    BY <2>1, FS_EmptySet
  <2>2. CASE ClaimsOn(Threads, e) # {}
    <3>1. PICK c : ClaimsOn(Threads, e) = {c}
      BY <2>2 DEF ClaimInv, ClaimsAreUnique
    <3>2. Cardinality({c}) = 1
      BY FS_Singleton, Zenon
    <3> QED
      BY <3>1, <3>2
  <2> QED
    BY <2>1, <2>2
<1> QED
  BY <1>1, ClaimInvariant, PTL

\* Every claim keeps an ownership row on its stream, so the fold over the
\* recorded owner streams always finds it.
THEOREM OwnedClaim == Spec => []ClaimIsOwned
<1>1. ClaimInv => ClaimIsOwned
  BY DEF ClaimInv
<1> QED
  BY <1>1, ClaimInvariant, PTL
=============================================================================

---------------------- MODULE StreamPropagationProofs -----------------------
(***************************************************************************)
(* Proofs about StreamPropagation for any propagators, facts, batch size   *)
(* and bounds.  The parent's stream only grows, by whole batches at its    *)
(* end, so what was confirmed stays confirmed; a batch is a stretch of the *)
(* local stream right after the confirmed length (BatchInLocal), and each  *)
(* local stream numbers its records by position (LocalPositions).          *)
(***************************************************************************)
EXTENDS StreamPropagation, TLAPS, SequenceTheorems

InBatch == {"push", "renewing", "retry", "conflict", "pulled"}

BatchInLocal ==
    \A p \in Propagators : pc[p] \in InBatch =>
        pushed[p] <= batchEnd[p] /\ batchEnd[p] <= Len(local[p])

LocalPositions ==
    \A p \in Propagators : \A i \in 1..Len(local[p]) : local[p][i].seq = i

PropInv ==
    /\ PropagationTypeOK
    /\ ConfirmedIsDurable
    /\ PositionsKept
    /\ BatchInLocal
    /\ LocalPositions

(***************************************************************************)
(* Sequences.                                                              *)
(***************************************************************************)
\* e is s, continued up to length n as in t.
Continues(S, s, t, n, e) ==
    /\ e \in Seq(S) /\ Len(e) = n
    /\ \A i \in 1..Len(s) : e[i] = s[i]
    /\ \A i \in (Len(s) + 1)..n : e[i] = t[i]

\* A stretch of a sequence behind another one.
LEMMA Extended ==
    ASSUME NEW S, NEW s \in Seq(S), NEW t \in Seq(S), NEW n \in Nat,
           Len(s) <= n, n <= Len(t)
    PROVE  Continues(S, s, t, n, s \o SubSeq(t, Len(s) + 1, n))
<1>1. Len(s) \in Nat /\ Len(t) \in Nat
  BY LenProperties
<1> DEFINE u == SubSeq(t, Len(s) + 1, n)
<1>2. \A i \in (Len(s) + 1)..n : t[i] \in S
  BY <1>1, ElementOfSeq
<1>3. /\ u \in Seq(S)
      /\ Len(u) = n - Len(s)
      /\ \A i \in 1..(n - Len(s)) : u[i] = t[Len(s) + i]
  BY <1>1, <1>2, SubSeqProperties
<1> HIDE DEF u
<1>4. /\ s \o u \in Seq(S)
      /\ Len(s \o u) = n
      /\ \A i \in 1..n : (s \o u)[i] = IF i <= Len(s) THEN s[i] ELSE u[i - Len(s)]
  BY <1>1, <1>3, ConcatProperties
<1>5. \A i \in (Len(s) + 1)..n : (s \o u)[i] = t[i]
  <2> TAKE i \in (Len(s) + 1)..n
  <2>1. (s \o u)[i] = u[i - Len(s)]
    BY <1>1, <1>4
  <2>2. i - Len(s) \in 1..(n - Len(s)) /\ Len(s) + (i - Len(s)) = i
    BY <1>1
  <2> QED BY <2>1, <2>2, <1>3
<1>6. \A i \in 1..Len(s) : (s \o u)[i] = s[i]
  BY <1>1, <1>4
<1> QED BY <1>4, <1>5, <1>6 DEF u, Continues

(***************************************************************************)
(* Steps that leave the streams and the confirmed lengths alone.           *)
(***************************************************************************)
\* The numbers the invariant compares.
LEMMA Lengths ==
    ASSUME PropagationTypeOK
    PROVE  /\ Len(parent) \in Nat
           /\ \A p \in Propagators :
                 /\ local[p] \in Seq(Record) /\ Len(local[p]) \in Nat
                 /\ pushed[p] \in Nat /\ batchEnd[p] \in Nat /\ seen[p] \in Nat
                 /\ pc[p] \in Places
<1>1. parent \in Seq(Record) /\ local \in [Propagators -> Seq(Record)]
  BY DEF PropagationTypeOK
<1>2. Len(parent) \in Nat /\ \A p \in Propagators : Len(local[p]) \in Nat
  BY <1>1, LenProperties
<1> QED BY <1>1, <1>2 DEF PropagationTypeOK

\* One propagator moves to another place with another batch.
LEMMA BatchKept ==
    ASSUME PropInv, NEW p \in Propagators, NEW w, NEW e,
           UNCHANGED << local, pushed >>,
           pc' = [pc EXCEPT ![p] = w],
           batchEnd' = [batchEnd EXCEPT ![p] = e],
           w \in InBatch => pushed[p] <= e /\ e <= Len(local[p])
    PROVE  BatchInLocal'
BY Lengths DEF PropInv, PropagationTypeOK, BatchInLocal

LEMMA Quiet ==
    ASSUME PropInv, UNCHANGED << parent, local, pushed >>,
           PropagationTypeOK', BatchInLocal'
    PROVE  PropInv'
BY DEF PropInv, ConfirmedIsDurable, PositionsKept, LocalPositions

\* An attempt ends, with nothing else changed.
LEMMA SettleKeeps ==
    ASSUME PropInv, NEW p \in Propagators, NEW w \in Places \ InBatch,
           Settle(p, w), UNCHANGED << local, pushed >>
    PROVE  /\ BatchInLocal'
           /\ pc' \in [Propagators -> Places]
           /\ batchEnd' \in [Propagators -> Nat] /\ seen' \in [Propagators -> Nat]
<1>1. BatchInLocal'
  BY BatchKept DEF Settle
<1> QED BY <1>1 DEF Settle, PropInv, PropagationTypeOK

\* One propagator moves on within its batch.
LEMMA MoveKeeps ==
    ASSUME PropInv, NEW p \in Propagators, NEW w \in Places, pc[p] \in InBatch \/ w \notin InBatch,
           pc' = [pc EXCEPT ![p] = w], UNCHANGED << local, pushed, batchEnd >>
    PROVE  BatchInLocal' /\ pc' \in [Propagators -> Places]
<1>1. (pushed[p] <= batchEnd[p] /\ batchEnd[p] <= Len(local[p])) \/ w \notin InBatch
  BY DEF PropInv, BatchInLocal
<1>2. batchEnd' = [batchEnd EXCEPT ![p] = batchEnd[p]]
  BY DEF PropInv, PropagationTypeOK
<1>3. BatchInLocal'
  BY <1>1, <1>2, BatchKept
<1> QED BY <1>3 DEF PropInv, PropagationTypeOK

LEMMA ExpireKeeps == PropInv /\ Expire => PropInv'
<1> SUFFICES ASSUME PropInv, Expire PROVE PropInv'
  OBVIOUS
<1>1. PropagationTypeOK' /\ BatchInLocal'
  BY DEF PropInv, Expire, PropagationTypeOK, BatchInLocal
<1> QED BY <1>1, Quiet DEF Expire

LEMMA SupersedeKeeps ==
    ASSUME PropInv, NEW q \in Propagators, Supersede(q)
    PROVE  PropInv'
<1>1. "idle" \in Places /\ "idle" \notin InBatch
  BY DEF Places, Up, InBatch
<1>2. BatchInLocal' /\ pc' \in [Propagators -> Places]
  BY <1>1, MoveKeeps DEF Supersede
<1>3. PropagationTypeOK'
  BY <1>2 DEF PropInv, Supersede, PropagationTypeOK
<1> QED BY <1>2, <1>3, Quiet DEF Supersede

LEMMA DieRebootKeep ==
    ASSUME PropInv, NEW p \in Propagators, Die(p) \/ Reboot(p)
    PROVE  PropInv'
<1>1. {"idle", "down"} \subseteq Places \ InBatch
  BY DEF Places, Up, InBatch
<1>2. /\ BatchInLocal'
      /\ pc' \in [Propagators -> Places]
      /\ batchEnd' \in [Propagators -> Nat] /\ seen' \in [Propagators -> Nat]
  BY <1>1, SettleKeeps DEF Die, Reboot
<1>3. PropagationTypeOK'
  BY <1>2 DEF PropInv, Die, Reboot, PropagationTypeOK
<1> QED BY <1>2, <1>3, Quiet DEF Die, Reboot

LEMMA RenewKeeps ==
    ASSUME PropInv, NEW p \in Propagators, NEW reply \in Replies, NEW w \in Places,
           Renew(p, reply, w), pc[p] \in InBatch \/ w \notin InBatch
    PROVE  PropInv'
<1>1. {"idle", "fenced"} \subseteq Places \ InBatch
  BY DEF Places, Up, InBatch
<1>2. CASE Settle(p, "idle") \/ Settle(p, "fenced")
  <2>1. /\ BatchInLocal'
        /\ pc' \in [Propagators -> Places]
        /\ batchEnd' \in [Propagators -> Nat] /\ seen' \in [Propagators -> Nat]
    BY <1>1, <1>2, SettleKeeps DEF Renew
  <2>2. expired' \in BOOLEAN /\ UNCHANGED << parent, holder, granted, local, pushed >>
    BY DEF Renew
  <2>3. PropagationTypeOK'
    BY <2>1, <2>2 DEF PropInv, PropagationTypeOK
  <2> QED BY <2>1, <2>2, <2>3, Quiet
<1>3. CASE pc' = [pc EXCEPT ![p] = w] /\ UNCHANGED << batchEnd, seen >>
  <2>1. expired' \in BOOLEAN /\ UNCHANGED << parent, holder, granted, local, pushed >>
    BY DEF Renew
  <2>2. BatchInLocal' /\ pc' \in [Propagators -> Places]
    BY <1>3, <2>1, MoveKeeps
  <2>3. PropagationTypeOK'
    BY <1>3, <2>1, <2>2 DEF PropInv, PropagationTypeOK
  <2> QED BY <2>1, <2>2, <2>3, Quiet
<1> QED BY <1>2, <1>3 DEF Renew

LEMMA StartBatchKeeps ==
    ASSUME PropInv, NEW p \in Propagators, StartBatch(p)
    PROVE  PropInv'
<1> DEFINE e == IF Len(local[p]) - pushed[p] <= BatchSize
                THEN Len(local[p]) ELSE pushed[p] + BatchSize
<1>1. e \in Nat /\ pushed[p] <= e /\ e <= Len(local[p])
  BY Lengths, PropagationAssumption DEF PropInv, StartBatch
<1>2. batchEnd' = [batchEnd EXCEPT ![p] = e] /\ pc' = [pc EXCEPT ![p] = "push"]
  BY DEF StartBatch
<1> HIDE DEF e
<1>3. BatchInLocal'
  BY <1>1, <1>2, BatchKept DEF StartBatch
<1>4. "push" \in Places
  BY DEF Places, Up
<1>5. PropagationTypeOK'
  BY <1>1, <1>2, <1>4 DEF PropInv, StartBatch, PropagationTypeOK
<1> QED BY <1>3, <1>5, Quiet DEF StartBatch

LEMMA ConvergedKeeps ==
    ASSUME PropInv, NEW p \in Propagators, Converged(p)
    PROVE  PropInv'
<1>1. "idle" \in Places \ InBatch
  BY DEF Places, Up, InBatch
<1>2. /\ BatchInLocal'
      /\ pc' \in [Propagators -> Places]
      /\ batchEnd' \in [Propagators -> Nat] /\ seen' \in [Propagators -> Nat]
  BY <1>1, SettleKeeps DEF Converged
<1>3. PropagationTypeOK'
  BY <1>2 DEF PropInv, Converged, PropagationTypeOK
<1> QED BY <1>2, <1>3, Quiet DEF Converged

LEMMA PullKeeps ==
    ASSUME PropInv, NEW p \in Propagators, NEW reply \in Replies, Pull(p, reply)
    PROVE  PropInv'
<1>1. {"idle", "fenced"} \subseteq Places \ InBatch /\ "pulled" \in Places
  BY DEF Places, Up, InBatch
<1>2. CASE Settle(p, "idle") \/ Settle(p, "fenced")
  <2>1. /\ BatchInLocal'
        /\ pc' \in [Propagators -> Places]
        /\ batchEnd' \in [Propagators -> Nat] /\ seen' \in [Propagators -> Nat]
    BY <1>1, <1>2, SettleKeeps DEF Pull
  <2>2. PropagationTypeOK'
    BY <2>1 DEF PropInv, PropagationTypeOK, Pull
  <2> QED BY <2>1, <2>2, Quiet DEF Pull
<1>3. CASE /\ pc' = [pc EXCEPT ![p] = "pulled"]
           /\ seen' = [seen EXCEPT ![p] = Len(parent)]
           /\ UNCHANGED batchEnd
  <2>1. pc[p] \in InBatch
    BY DEF Pull, InBatch
  <2>2. BatchInLocal' /\ pc' \in [Propagators -> Places]
    BY <1>1, <1>3, <2>1, MoveKeeps DEF Pull
  <2>3. seen' \in [Propagators -> Nat]
    BY <1>3, Lengths DEF PropInv, PropagationTypeOK
  <2>4. PropagationTypeOK'
    BY <1>3, <2>2, <2>3 DEF PropInv, PropagationTypeOK, Pull
  <2> QED BY <2>2, <2>4, Quiet DEF Pull
<1> QED BY <1>2, <1>3 DEF Pull

(***************************************************************************)
(* Steps that write a stream or a confirmed length.                        *)
(***************************************************************************)
LEMMA AppendLocalKeeps ==
    ASSUME PropInv, NEW p \in Propagators, NEW f \in Facts, AppendLocal(p, f)
    PROVE  PropInv'
<1> DEFINE r == [by |-> p, seq |-> Len(local[p]) + 1, fact |-> f]
           s == Append(local[p], r)
<1>1. r \in Record
  BY Lengths DEF PropInv, Record
<1>2. r.seq = Len(local[p]) + 1
  OBVIOUS
<1>3. local' = [local EXCEPT ![p] = s]
  BY DEF AppendLocal
<1> HIDE DEF r
<1>4. /\ s \in Seq(Record) /\ Len(s) = Len(local[p]) + 1
      /\ \A i \in 1..Len(local[p]) : s[i] = local[p][i]
      /\ s[Len(local[p]) + 1] = r
  BY <1>1, Lengths, AppendProperties DEF PropInv
<1> HIDE DEF s
<1>5. PropagationTypeOK'
  BY <1>3, <1>4 DEF PropInv, PropagationTypeOK, AppendLocal
<1>6. ConfirmedIsDurable'
  <2> SUFFICES ASSUME NEW q \in Propagators
               PROVE  /\ pushed[q] <= Len(parent) /\ pushed[q] <= Len(local'[q])
                      /\ \A i \in 1..pushed[q] : parent[i] = local'[q][i]
    BY DEF AppendLocal, ConfirmedIsDurable
  <2>1. /\ pushed[q] <= Len(parent) /\ pushed[q] <= Len(local[q])
        /\ \A i \in 1..pushed[q] : parent[i] = local[q][i]
    BY DEF PropInv, ConfirmedIsDurable
  <2>2. CASE q = p
    <3>1. local'[q] = s
      BY <1>3, <2>2 DEF PropInv, PropagationTypeOK
    <3> QED BY <3>1, <2>1, <2>2, <1>4, Lengths DEF PropInv
  <2>3. CASE q # p
    BY <1>3, <2>1, <2>3 DEF PropInv, PropagationTypeOK
  <2> QED BY <2>2, <2>3
<1>7. PositionsKept'
  BY DEF PropInv, PositionsKept, AppendLocal
<1>8. BatchInLocal' /\ LocalPositions'
  <2> SUFFICES ASSUME NEW q \in Propagators
               PROVE  /\ pc[q] \in InBatch =>
                            pushed[q] <= batchEnd[q] /\ batchEnd[q] <= Len(local'[q])
                      /\ \A i \in 1..Len(local'[q]) : local'[q][i].seq = i
    BY DEF AppendLocal, BatchInLocal, LocalPositions
  <2>1. /\ pc[q] \in InBatch =>
              pushed[q] <= batchEnd[q] /\ batchEnd[q] <= Len(local[q])
        /\ \A i \in 1..Len(local[q]) : local[q][i].seq = i
    BY DEF PropInv, BatchInLocal, LocalPositions
  <2>2. CASE q = p
    <3>1. local'[q] = s
      BY <1>3, <2>2 DEF PropInv, PropagationTypeOK
    <3>2. pc[q] \in InBatch =>
            pushed[q] <= batchEnd[q] /\ batchEnd[q] <= Len(local'[q])
      BY <3>1, <2>1, <2>2, <1>4, Lengths DEF PropInv
    <3>3. ASSUME NEW i \in 1..Len(local'[q]) PROVE local'[q][i].seq = i
      <4>1. i \in 1..Len(local[p]) \/ i = Len(local[p]) + 1
        BY <3>1, <1>4, Lengths DEF PropInv
      <4>2. CASE i \in 1..Len(local[p])
        BY <4>2, <3>1, <2>1, <2>2, <1>4, Zenon
      <4>3. CASE i = Len(local[p]) + 1
        BY <4>3, <3>1, <1>2, <1>4, Zenon
      <4> QED BY <4>1, <4>2, <4>3
    <3> QED BY <3>2, <3>3
  <2>3. CASE q # p
    BY <1>3, <2>1, <2>3 DEF PropInv, PropagationTypeOK
  <2> QED BY <2>2, <2>3
<1> QED BY <1>5, <1>6, <1>7, <1>8 DEF PropInv

LEMMA TakeOverKeeps ==
    ASSUME PropInv, NEW q \in Propagators, NEW p \in Propagators, TakeOver(q, p)
    PROVE  PropInv'
<1>1. /\ local' = [local EXCEPT ![q] = local[p]]
      /\ pushed' = [pushed EXCEPT ![q] = pushed[p]]
      /\ pc' = [pc EXCEPT ![q] = "idle", ![p] = "retired"]
      /\ UNCHANGED << parent, batchEnd, seen >>
  BY DEF TakeOver
<1>2. {"idle", "retired"} \subseteq Places \ InBatch
  BY DEF Places, Up, InBatch
<1>3. /\ local' \in [Propagators -> Seq(Record)] /\ pushed' \in [Propagators -> Nat]
      /\ pc' \in [Propagators -> Places]
  BY <1>1, <1>2 DEF PropInv, PropagationTypeOK
<1>4. PropagationTypeOK'
  BY <1>1, <1>3 DEF PropInv, PropagationTypeOK, TakeOver
<1>5. ASSUME NEW o \in Propagators
      PROVE  \E x \in Propagators :
                /\ local'[o] = local[x] /\ pushed'[o] = pushed[x]
                /\ pc'[o] \in InBatch => pc[o] = pc'[o] /\ x = o
  <2>1. CASE o = q
    BY <1>1, <1>2, <2>1 DEF PropInv, PropagationTypeOK
  <2>2. CASE o # q
    BY <1>1, <1>2, <2>2 DEF PropInv, PropagationTypeOK
  <2> QED BY <2>1, <2>2
<1>6. ConfirmedIsDurable' /\ PositionsKept' /\ BatchInLocal' /\ LocalPositions'
  <2>1. ConfirmedIsDurable'
    BY <1>1, <1>5 DEF PropInv, ConfirmedIsDurable
  <2>2. PositionsKept'
    BY <1>1 DEF PropInv, PositionsKept
  <2>3. BatchInLocal'
    BY <1>1, <1>5 DEF PropInv, BatchInLocal
  <2>4. LocalPositions'
    BY <1>5 DEF PropInv, LocalPositions
  <2> QED BY <2>1, <2>2, <2>3, <2>4
<1> QED BY <1>4, <1>6 DEF PropInv

\* The parent's stream after a batch of p was accepted.
LEMMA Accepted ==
    ASSUME PropInv, NEW p \in Propagators, pc[p] \in InBatch,
           Len(parent) = pushed[p],
           parent' = parent \o SubSeq(local[p], pushed[p] + 1, batchEnd[p])
    PROVE  /\ parent' \in Seq(Record) /\ Len(parent') = batchEnd[p]
           /\ \A i \in 1..Len(parent) : parent'[i] = parent[i]
           /\ \A i \in 1..batchEnd[p] : parent'[i] = local[p][i]
           /\ \A i \in 1..batchEnd[p] : parent'[i].seq = i
<1>1. /\ parent \in Seq(Record) /\ local[p] \in Seq(Record)
      /\ batchEnd[p] \in Nat /\ pushed[p] \in Nat /\ Len(local[p]) \in Nat
  BY Lengths DEF PropInv, PropagationTypeOK
<1>2. Len(parent) <= batchEnd[p] /\ batchEnd[p] <= Len(local[p])
  BY DEF PropInv, BatchInLocal
<1>3. /\ parent' \in Seq(Record) /\ Len(parent') = batchEnd[p]
      /\ \A i \in 1..Len(parent) : parent'[i] = parent[i]
      /\ \A i \in (Len(parent) + 1)..batchEnd[p] : parent'[i] = local[p][i]
  <2>1. parent' = parent \o SubSeq(local[p], Len(parent) + 1, batchEnd[p])
    OBVIOUS
  <2>2. Continues(Record, parent, local[p], batchEnd[p],
                  parent \o SubSeq(local[p], Len(parent) + 1, batchEnd[p]))
    BY <1>1, <1>2, Extended, Zenon
  <2>3. Continues(Record, parent, local[p], batchEnd[p], parent')
    BY <2>1, <2>2, Zenon
  <2> QED BY <2>3 DEF Continues
<1>4. \A i \in 1..Len(parent) : parent[i] = local[p][i]
  BY DEF PropInv, ConfirmedIsDurable
<1>5. \A i \in 1..batchEnd[p] : parent'[i] = local[p][i]
  <2> TAKE i \in 1..batchEnd[p]
  <2>1. i \in 1..Len(parent) \/ i \in (Len(parent) + 1)..batchEnd[p]
    BY <1>1
  <2> QED BY <2>1, <1>3, <1>4, Zenon
<1>6. \A i \in 1..batchEnd[p] : local[p][i].seq = i
  BY <1>1, <1>2 DEF PropInv, LocalPositions
<1> QED BY <1>3, <1>5, <1>6

\* A step that extends the parent's stream, and confirms at most the batch
\* of one propagator that the parent now holds.
LEMMA ConfirmKeeps ==
    ASSUME PropInv, NEW p \in Propagators, NEW n \in Nat,
           parent' \in Seq(Record), Len(parent) <= Len(parent'),
           \A i \in 1..Len(parent) : parent'[i] = parent[i],
           UNCHANGED local, pushed' = [pushed EXCEPT ![p] = n],
           n <= Len(parent'), n <= Len(local[p]),
           \A i \in 1..n : parent'[i] = local[p][i]
    PROVE  ConfirmedIsDurable' /\ LocalPositions'
<1>1. LocalPositions'
  BY DEF PropInv, LocalPositions
<1>2. Len(parent') \in Nat /\ Len(parent) \in Nat
  BY LenProperties, Lengths DEF PropInv
<1>3. ASSUME NEW q \in Propagators
      PROVE  /\ pushed'[q] <= Len(parent') /\ pushed'[q] <= Len(local[q])
             /\ \A i \in 1..pushed'[q] : parent'[i] = local[q][i]
  <2>1. CASE q = p
    BY <2>1 DEF PropInv, PropagationTypeOK
  <2>2. CASE q # p
    <3>1. pushed'[q] = pushed[q] /\ pushed[q] \in Nat
      BY <2>2 DEF PropInv, PropagationTypeOK
    <3>2. /\ pushed[q] <= Len(parent) /\ pushed[q] <= Len(local[q])
          /\ \A i \in 1..pushed[q] : parent[i] = local[q][i]
      BY DEF PropInv, ConfirmedIsDurable
    <3>3. pushed[q] <= Len(parent')
      BY <3>1, <3>2, <1>2
    <3>4. \A i \in 1..pushed[q] : i \in 1..Len(parent)
      BY <3>1, <3>2, <1>2
    <3> QED BY <3>1, <3>2, <3>3, <3>4, Zenon
  <2> QED BY <2>1, <2>2
<1>4. ConfirmedIsDurable'
  BY <1>3 DEF ConfirmedIsDurable
<1> QED BY <1>1, <1>4

LEMMA PushKeeps ==
    ASSUME PropInv, NEW p \in Propagators, NEW reply \in Replies, Push(p, reply)
    PROVE  PropInv'
<1>1. pc[p] \in InBatch /\ UNCHANGED << holder, granted, expired, local >>
  BY DEF Push, InBatch
<1>2. /\ {"idle", "fenced"} \subseteq Places \ InBatch
      /\ {"renewing", "conflict"} \subseteq Places
  BY DEF Places, Up, InBatch
<1>3. /\ pushed[p] \in Nat /\ batchEnd[p] \in Nat /\ Len(local[p]) \in Nat
      /\ Len(parent) \in Nat /\ parent \in Seq(Record)
      /\ pushed[p] <= batchEnd[p] /\ batchEnd[p] <= Len(local[p])
  BY <1>1, Lengths DEF PropInv, PropagationTypeOK, BatchInLocal
<1>4. /\ parent' \in Seq(Record) /\ Len(parent) <= Len(parent')
      /\ \A i \in 1..Len(parent) : parent'[i] = parent[i]
      /\ PositionsKept'
      /\ PushVerdict(p) = "accepted" /\ reply # "dropped" =>
            /\ batchEnd[p] = Len(parent')
            /\ \A i \in 1..batchEnd[p] : parent'[i] = local[p][i]
  <2>1. CASE reply # "dropped" /\ PushVerdict(p) = "accepted"
    <3>1. Len(parent) = pushed[p]
      BY <2>1 DEF PushVerdict
    <3>2. parent' = parent \o SubSeq(local[p], pushed[p] + 1, batchEnd[p])
      BY <2>1 DEF Push
    <3>3. /\ parent' \in Seq(Record) /\ Len(parent') = batchEnd[p]
          /\ \A i \in 1..Len(parent) : parent'[i] = parent[i]
          /\ \A i \in 1..batchEnd[p] : parent'[i] = local[p][i]
          /\ \A i \in 1..batchEnd[p] : parent'[i].seq = i
      BY <1>1, <3>1, <3>2, Accepted, Zenon
    <3>4. Len(parent) <= Len(parent')
      BY <3>1, <3>3, <1>3
    <3>5. PositionsKept'
      BY <3>3 DEF PositionsKept
    <3> QED BY <3>3, <3>4, <3>5
  <2>2. CASE ~(reply # "dropped" /\ PushVerdict(p) = "accepted")
    <3>1. parent' = parent
      BY <2>2 DEF Push
    <3> QED BY <3>1, <2>2, <1>3 DEF PropInv, PositionsKept
  <2> QED BY <2>1, <2>2
<1>5. CASE Settle(p, "idle") /\ pushed' = [pushed EXCEPT ![p] = batchEnd[p]]
           /\ reply = "answered" /\ PushVerdict(p) = "accepted"
  <2>1. /\ batchEnd[p] = Len(parent')
        /\ \A i \in 1..batchEnd[p] : parent'[i] = local[p][i]
    BY <1>4, <1>5
  <2>2. ConfirmedIsDurable' /\ LocalPositions'
    <3>1. pushed' = [pushed EXCEPT ![p] = batchEnd[p]] /\ local' = local
      BY <1>1, <1>5
    <3>2. batchEnd[p] <= Len(parent')
      BY <1>3, <2>1
    <3> QED BY <3>1, <3>2, <1>3, <1>4, <2>1, ConfirmKeeps, Zenon
  <2>3. BatchInLocal'
    BY <1>1, <1>2, <1>5 DEF PropInv, PropagationTypeOK, BatchInLocal, Settle
  <2>4. PropagationTypeOK'
    BY <1>1, <1>2, <1>3, <1>4, <1>5 DEF PropInv, PropagationTypeOK, Settle
  <2> QED BY <1>4, <2>2, <2>3, <2>4 DEF PropInv
<1>6. CASE UNCHANGED pushed
  <2>1. ConfirmedIsDurable' /\ LocalPositions'
    <3>1. pushed' = [pushed EXCEPT ![p] = pushed[p]]
      BY <1>6 DEF PropInv, PropagationTypeOK
    <3>2. /\ pushed[p] <= Len(parent) /\ pushed[p] <= Len(local[p])
          /\ \A i \in 1..pushed[p] : parent[i] = local[p][i]
      BY DEF PropInv, ConfirmedIsDurable
    <3>3. Len(parent') \in Nat
      BY <1>4, LenProperties
    <3>4. pushed[p] <= Len(parent') /\ \A i \in 1..pushed[p] : i \in 1..Len(parent)
      BY <3>2, <3>3, <1>3, <1>4
    <3>5. \A i \in 1..pushed[p] : parent'[i] = local[p][i]
      BY <3>2, <3>4, <1>4, Zenon
    <3> QED BY <3>1, <3>2, <3>4, <3>5, <1>1, <1>3, <1>4, ConfirmKeeps
  <2>2. /\ BatchInLocal'
        /\ pc' \in [Propagators -> Places]
        /\ batchEnd' \in [Propagators -> Nat] /\ seen' \in [Propagators -> Nat]
    <3>1. CASE Settle(p, "idle") \/ Settle(p, "fenced")
      BY <3>1, <1>1, <1>2, <1>6, SettleKeeps
    <3>2. CASE \/ pc' = [pc EXCEPT ![p] = "renewing"] /\ UNCHANGED << batchEnd, seen >>
               \/ pc' = [pc EXCEPT ![p] = "conflict"] /\ UNCHANGED << batchEnd, seen >>
      <4>1. BatchInLocal' /\ pc' \in [Propagators -> Places]
        BY <3>2, <1>1, <1>2, <1>6, MoveKeeps
      <4> QED BY <4>1, <3>2 DEF PropInv, PropagationTypeOK
    <3>3. \/ Settle(p, "idle") \/ Settle(p, "fenced")
          \/ pc' = [pc EXCEPT ![p] = "renewing"] /\ UNCHANGED << batchEnd, seen >>
          \/ pc' = [pc EXCEPT ![p] = "conflict"] /\ UNCHANGED << batchEnd, seen >>
      BY DEF Push
    <3> QED BY <3>1, <3>2, <3>3
  <2>3. PropagationTypeOK'
    BY <1>1, <1>4, <1>6, <2>2 DEF PropInv, PropagationTypeOK
  <2> QED BY <1>4, <2>1, <2>2, <2>3 DEF PropInv
<1>7. \/ UNCHANGED pushed
      \/ /\ Settle(p, "idle") /\ pushed' = [pushed EXCEPT ![p] = batchEnd[p]]
         /\ reply = "answered" /\ PushVerdict(p) = "accepted"
  BY DEF Push
<1> QED BY <1>5, <1>6, <1>7

LEMMA ReconcileKeeps ==
    ASSUME PropInv, NEW p \in Propagators, Reconcile(p)
    PROVE  PropInv'
<1>1. /\ UNCHANGED << parent, holder, granted, expired, local >>
      /\ pc[p] \in InBatch
  BY DEF Reconcile, InBatch
<1>2. {"idle", "diverged"} \subseteq Places \ InBatch
  BY DEF Places, Up, InBatch
<1>3. CASE Settle(p, "diverged") /\ UNCHANGED pushed
  <2>1. /\ BatchInLocal'
        /\ pc' \in [Propagators -> Places]
        /\ batchEnd' \in [Propagators -> Nat] /\ seen' \in [Propagators -> Nat]
    BY <1>1, <1>2, <1>3, SettleKeeps
  <2>2. PropagationTypeOK'
    BY <1>1, <1>3, <2>1 DEF PropInv, PropagationTypeOK
  <2> QED BY <1>1, <1>3, <2>1, <2>2, Quiet
<1>4. CASE AdoptsBatch(p) /\ Settle(p, "idle")
           /\ pushed' = [pushed EXCEPT ![p] = batchEnd[p]]
  <2>1. /\ pushed[p] \in Nat /\ batchEnd[p] \in Nat /\ seen[p] \in Nat
        /\ Len(parent) \in Nat /\ Len(local[p]) \in Nat
        /\ parent \in Seq(Record)
    BY Lengths DEF PropInv, PropagationTypeOK
  <2>2. /\ batchEnd[p] <= seen[p] /\ seen[p] <= Len(parent) /\ seen[p] <= Len(local[p])
        /\ \A i \in (pushed[p] + 1)..seen[p] : parent[i] = local[p][i]
    BY <1>4 DEF AdoptsBatch, Agree
  <2>3. \A i \in 1..pushed[p] : parent[i] = local[p][i]
    BY DEF PropInv, ConfirmedIsDurable
  <2>4. batchEnd[p] <= Len(parent) /\ batchEnd[p] <= Len(local[p])
    BY <2>1, <2>2
  <2>5. \A i \in 1..batchEnd[p] : parent[i] = local[p][i]
    <3> TAKE i \in 1..batchEnd[p]
    <3>1. i \in 1..pushed[p] \/ i \in (pushed[p] + 1)..seen[p]
      BY <2>1, <2>2
    <3> QED BY <3>1, <2>2, <2>3
  <2>6. ConfirmedIsDurable' /\ LocalPositions'
    <3>1. /\ parent' \in Seq(Record) /\ Len(parent) <= Len(parent')
          /\ \A i \in 1..Len(parent) : parent'[i] = parent[i]
          /\ local' = local /\ pushed' = [pushed EXCEPT ![p] = batchEnd[p]]
      BY <1>1, <1>4, <2>1
    <3>2. /\ batchEnd[p] <= Len(parent')
          /\ \A i \in 1..batchEnd[p] : parent'[i] = local[p][i]
      BY <1>1, <2>4, <2>5
    <3> QED BY <3>1, <3>2, <2>1, <2>4, ConfirmKeeps, Zenon
  <2>7. BatchInLocal'
    BY <1>1, <1>2, <1>4 DEF PropInv, PropagationTypeOK, BatchInLocal, Settle
  <2>8. PropagationTypeOK'
    BY <1>1, <1>2, <1>4, <2>1 DEF PropInv, PropagationTypeOK, Settle
  <2>9. PositionsKept'
    BY <1>1 DEF PropInv, PositionsKept
  <2> QED BY <2>6, <2>7, <2>8, <2>9 DEF PropInv
<1> QED BY <1>3, <1>4 DEF Reconcile

(***************************************************************************)
(* The theorems.                                                           *)
(***************************************************************************)
LEMMA InitEstablishes ==
    ASSUME NEW w \in Places \ InBatch, InitAt(w)
    PROVE  PropInv
<1>1. "off" \in Places \ InBatch
  BY DEF Places, Up, InBatch
<1>2. << >> \in Seq(Record) /\ Len(<< >>) = 0
  OBVIOUS
<1>3. PropagationTypeOK
  BY <1>1, <1>2, PropagationAssumption DEF InitAt, PropagationTypeOK
<1>4. ConfirmedIsDurable
  BY <1>2 DEF InitAt, ConfirmedIsDurable
<1>5. PositionsKept
  BY <1>2 DEF InitAt, PositionsKept
<1>6. BatchInLocal
  BY <1>1 DEF InitAt, BatchInLocal
<1>7. LocalPositions
  BY <1>2 DEF InitAt, LocalPositions
<1> QED BY <1>3, <1>4, <1>5, <1>6, <1>7 DEF PropInv

LEMMA PropagateStepKeeps ==
    ASSUME PropInv, NEW p \in Propagators, NEW reply \in Replies,
           PropagateStep(p, reply)
    PROVE  PropInv'
<1>1. "renewed" \in Places \ InBatch /\ "retry" \in Places /\ "renewing" \in InBatch
  BY DEF Places, Up, InBatch
<1>2. CASE RenewIfDue(p, reply)
  BY <1>1, <1>2, RenewKeeps DEF RenewIfDue
<1>3. CASE RenewAfterExpiry(p, reply)
  BY <1>1, <1>3, RenewKeeps DEF RenewAfterExpiry
<1>4. CASE Push(p, reply)
  BY <1>4, PushKeeps
<1>5. CASE Pull(p, reply)
  BY <1>5, PullKeeps
<1> QED BY <1>2, <1>3, <1>4, <1>5 DEF PropagateStep

LEMMA StutterKeeps == PropInv /\ UNCHANGED propVars => PropInv'
BY DEF PropInv, propVars, PropagationTypeOK, ConfirmedIsDurable, PositionsKept,
       BatchInLocal, LocalPositions

LEMMA NextKeeps == PropInv /\ [Next]_propVars => PropInv'
<1> SUFFICES ASSUME PropInv, Next PROVE PropInv'
  BY StutterKeeps
<1>1. CASE Expire
  BY <1>1, ExpireKeeps
<1>2. CASE \E q \in Propagators : Supersede(q)
  BY <1>2, SupersedeKeeps
<1>3. CASE \E q, p \in Propagators : TakeOver(q, p)
  BY <1>3, TakeOverKeeps
<1>4. ASSUME NEW p \in Propagators, NEW f \in Facts, AppendLocal(p, f)
      PROVE  PropInv'
  BY <1>4, AppendLocalKeeps
<1>5. ASSUME NEW p \in Propagators, Die(p) \/ Reboot(p) PROVE PropInv'
  BY <1>5, DieRebootKeep
<1>6. ASSUME NEW p \in Propagators, StartBatch(p) PROVE PropInv'
  BY <1>6, StartBatchKeeps
<1>7. ASSUME NEW p \in Propagators, Converged(p) PROVE PropInv'
  BY <1>7, ConvergedKeeps
<1>8. ASSUME NEW p \in Propagators, Reconcile(p) PROVE PropInv'
  BY <1>8, ReconcileKeeps
<1>9. ASSUME NEW p \in Propagators, NEW reply \in Replies, PropagateStep(p, reply)
      PROVE  PropInv'
  BY <1>9, PropagateStepKeeps
<1> QED BY <1>1, <1>2, <1>3, <1>4, <1>5, <1>6, <1>7, <1>8, <1>9 DEF Next

\* propagator.rs: the invariant of the propagators of one stream, whatever
\* requests and answers are lost and whoever holds the lease.
THEOREM PropagationInvariant == Spec => []PropInv
<1>1. Init => PropInv
  <2>1. "idle" \in Places \ InBatch
    BY DEF Places, Up, InBatch
  <2> QED BY <2>1, InitEstablishes DEF Init
<1> QED BY <1>1, NextKeeps, PTL DEF Spec

\* propagator.rs: pushed_through never runs ahead of what the parent durably
\* holds, for any number of propagators and replacements.
THEOREM ConfirmedDurably == Spec => []ConfirmedIsDurable
<1>1. PropInv => ConfirmedIsDurable
  BY DEF PropInv
<1> QED BY <1>1, PropagationInvariant, PTL

\* lease.rs and propagator.rs: a batch pushed again after a lost answer is
\* never stored twice, and no batch leaves a gap.
THEOREM NoDuplicateNoGap == Spec => []PositionsKept
<1>1. PropInv => PositionsKept
  BY DEF PropInv
<1> QED BY <1>1, PropagationInvariant, PTL

\* What is stored is never rewritten and what is confirmed is never taken
\* back: the parent's stream only grows at its end, and the confirmed length
\* of a propagator never shrinks, through conflicts, reconciliations, deaths
\* and replacements.
OnlyGrows ==
    /\ Len(parent) <= Len(parent')
    /\ \A i \in 1..Len(parent) : parent'[i] = parent[i]
    /\ \A p \in granted : pushed[p] <= pushed'[p]

ConfirmedForGood == [][OnlyGrows]_propVars

LEMMA Confirms ==
    ASSUME PropInv, NEW p \in Propagators, pc[p] \in InBatch,
           pushed' \in {pushed, [pushed EXCEPT ![p] = batchEnd[p]]}
    PROVE  \A q \in granted : pushed[q] <= pushed'[q]
<1>1. /\ granted \subseteq Propagators /\ pushed \in [Propagators -> Nat]
      /\ pushed[p] <= batchEnd[p]
  BY DEF PropInv, PropagationTypeOK, BatchInLocal
<1> QED BY <1>1

LEMMA StepGrows == PropInv /\ [Next]_propVars => [OnlyGrows]_propVars
<1> SUFFICES ASSUME PropInv, Next PROVE OnlyGrows
  OBVIOUS
<1>1. /\ Len(parent) \in Nat /\ granted \subseteq Propagators
      /\ pushed \in [Propagators -> Nat]
  BY Lengths DEF PropInv, PropagationTypeOK
<1>2. ASSUME parent' = parent, \A p \in granted : pushed[p] <= pushed'[p]
      PROVE  OnlyGrows
  BY <1>1, <1>2 DEF OnlyGrows
<1>3. ASSUME UNCHANGED << parent, pushed >> PROVE OnlyGrows
  BY <1>1, <1>2, <1>3
<1>4. ASSUME NEW q \in Propagators, NEW p \in Propagators, TakeOver(q, p) PROVE OnlyGrows
  <2>1. /\ parent' = parent /\ q \notin granted
        /\ pushed' = [pushed EXCEPT ![q] = pushed[p]]
    BY <1>4 DEF TakeOver
  <2>2. \A x \in granted : pushed'[x] = pushed[x] /\ pushed[x] \in Nat
    BY <1>1, <2>1
  <2> QED BY <1>2, <2>1, <2>2
<1>5. ASSUME NEW p \in Propagators, Reconcile(p) PROVE OnlyGrows
  <2>1. /\ parent' = parent /\ pc[p] \in InBatch
        /\ pushed' \in {pushed, [pushed EXCEPT ![p] = batchEnd[p]]}
    BY <1>5 DEF Reconcile, InBatch
  <2> QED BY <1>2, <2>1, Confirms
<1>6. ASSUME NEW p \in Propagators, NEW reply \in Replies, Push(p, reply) PROVE OnlyGrows
  <2>1. pc[p] \in InBatch /\ pushed' \in {pushed, [pushed EXCEPT ![p] = batchEnd[p]]}
    BY <1>6 DEF Push, InBatch
  <2>2. \A x \in granted : pushed[x] <= pushed'[x]
    BY <2>1, Confirms
  <2>3. CASE parent' = parent
    BY <1>2, <2>2, <2>3
  <2>4. CASE parent' # parent
    <3>1. /\ PushVerdict(p) = "accepted"
          /\ parent' = parent \o SubSeq(local[p], pushed[p] + 1, batchEnd[p])
      BY <1>6, <2>4 DEF Push
    <3>2. Len(parent) = pushed[p]
      BY <3>1 DEF PushVerdict
    <3>3. Len(parent') = batchEnd[p] /\ \A i \in 1..Len(parent) : parent'[i] = parent[i]
      BY <2>1, <3>1, <3>2, Accepted
    <3>4. pushed[p] <= batchEnd[p]
      BY <2>1 DEF PropInv, BatchInLocal
    <3> QED BY <2>2, <3>2, <3>3, <3>4 DEF OnlyGrows
  <2> QED BY <2>3, <2>4
<1>7. ASSUME NEW p \in Propagators, NEW reply \in Replies, PropagateStep(p, reply)
      PROVE  OnlyGrows
  <2>1. CASE RenewIfDue(p, reply) \/ RenewAfterExpiry(p, reply) \/ Pull(p, reply)
    BY <1>3, <2>1 DEF RenewIfDue, RenewAfterExpiry, Renew, Pull
  <2> QED BY <1>6, <1>7, <2>1 DEF PropagateStep
<1>8. CASE Expire \/ \E q \in Propagators : Supersede(q)
  BY <1>3, <1>8 DEF Expire, Supersede
<1>9. ASSUME NEW p \in Propagators,
             \/ \E f \in Facts : AppendLocal(p, f)
             \/ Die(p) \/ Reboot(p) \/ StartBatch(p) \/ Converged(p)
      PROVE  OnlyGrows
  BY <1>3, <1>9 DEF AppendLocal, Die, Reboot, StartBatch, Converged
<1> QED BY <1>4, <1>5, <1>7, <1>8, <1>9 DEF Next

\* propagator.rs and append_if_current: no step rewrites a record the parent
\* holds or takes back a confirmation.
THEOREM ConfirmedStays == Spec => ConfirmedForGood
<1>1. PropInv /\ [Next]_propVars => [OnlyGrows]_propVars
  BY StepGrows
<1> QED BY <1>1, PropagationInvariant, PTL DEF Spec, ConfirmedForGood
=============================================================================

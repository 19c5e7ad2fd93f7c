------------------------ MODULE RemoteThreadProofs --------------------------
(***************************************************************************)
(* Proofs about RemoteThread for any dispatches, replacements and bounds.  *)
(*                                                                         *)
(* Streams: every step of the remote thread is a step of the propagators,  *)
(* leaves them alone, or starts the child, so the invariant of             *)
(* StreamPropagationProofs carries over.                                   *)
(*                                                                         *)
(* Queue: an unacknowledged row that lies before a row of the page is on   *)
(* the page (PageIsComplete), so the row handled next is the first one the *)
(* parent still offers, and moving the cursor to it passes nothing.        *)
(*                                                                         *)
(* Join: a settlement that has read the stream carries position 1, and the *)
(* append is fenced by the length of the stream.                           *)
(*                                                                         *)
(* Order (LaneInv): rows are submitted in the order of the queue, what     *)
(* waits in the child waits in that order, its stream starts turns in that *)
(* order, and what is recorded comes before what still waits.              *)
(*                                                                         *)
(* Truth (EchoInv, HandleInv): a terminal in any stream, the parent's or a *)
(* replacement's, is an echo of one in the child's own stream, where a     *)
(* turn has one, or a completion with a failure behind it; a settlement    *)
(* under way says what the parent held when it was made, and an open       *)
(* handle has an actor left to settle it, or one that met an error.        *)
(***************************************************************************)
EXTENDS RemoteRefinement, StreamPropagationProofs, WellFoundedInduction

QueueRow == [dispatch : Dispatches, acked : BOOLEAN]

QueueTypes ==
    /\ queue \in Seq(QueueRow)
    /\ cursor \in 0..Len(queue)
    /\ page \in SUBSET (1..Len(queue))
    /\ phase \in {"pull", "admit", "ack", "sync"}
    /\ waiting \in Seq(Dispatches) /\ submitted \in SUBSET Dispatches

\* No unacknowledged row before a row of the page is missing from it.
PageIsComplete ==
    \A k \in page : \A i \in 1..k : queue[i].acked \/ i \in page

AtARow ==
    /\ phase \in {"admit", "ack"} => page # {}
    /\ phase = "ack" => Dispatch \in submitted

QueueInv == QueueTypes /\ NoTurnDropped /\ PageIsComplete /\ AtARow

\* A settlement in memory: nothing, or a state to append at a position read.
Pending(x) ==
    x = None \/ \E s, u : \E n \in {0, 1} : x = [state |-> s, upto |-> u, next |-> n]

JoinInv ==
    /\ settle = [j \in Joiners |-> settle[j]]
    /\ \A j \in Joiners : Pending(settle[j])
    /\ joins = << >> \/ \E r : joins = << r >>

(***************************************************************************)
(* The queue.                                                              *)
(***************************************************************************)
LEMMA LeastNatural ==
    ASSUME NEW T \in SUBSET Nat, T # {}
    PROVE  \E x \in T : \A y \in T : x <= y
<1> DEFINE R == OpToRel(<, Nat)
<1>1. IsWellFoundedOn(R, Nat)
  BY NatLessThanWellFounded, Zenon
<1>2. \A x, y \in Nat : << y, x >> \in R <=> y < x
  BY DEF OpToRel
<1> HIDE DEF R
<1>3. PICK x \in T : \A y \in T : ~(<< y, x >> \in R)
  BY <1>1, WFMin, Zenon
<1>4. \A y \in T : ~(y < x)
  BY <1>2, <1>3, Zenon
<1>5. \A y \in T : x <= y
  BY <1>4
<1> QED BY <1>5

LEMMA RowIsFirst ==
    ASSUME QueueTypes, page # {}
    PROVE  /\ Row \in page /\ Row \in 1..Len(queue)
           /\ \A i \in page : Row <= i
<1>1. page \in SUBSET Nat /\ page \in SUBSET (1..Len(queue))
  BY DEF QueueTypes
<1>2. \E x \in page : \A y \in page : x <= y
  BY <1>1, LeastNatural, Zenon
<1>3. Row \in page /\ \A i \in page : Row <= i
  BY <1>2 DEF Row, Min
<1> QED BY <1>1, <1>3

LEMMA DispatchType ==
    ASSUME QueueTypes, page # {}
    PROVE  Dispatch \in Dispatches
<1>1. queue[Row] \in QueueRow
  BY RowIsFirst, ElementOfSeq DEF QueueTypes
<1> QED BY <1>1 DEF Dispatch, QueueRow

LEMMA QueueQuiet ==
    ASSUME QueueInv, UNCHANGED << queue, cursor, page, phase, submitted >>,
           waiting' \in Seq(Dispatches)
    PROVE  QueueInv'
BY DEF QueueInv, QueueTypes, NoTurnDropped, PageIsComplete, AtARow, Dispatch, Row

LEMMA QueueStays ==
    ASSUME QueueInv, UNCHANGED << queue, childVars >>
    PROVE  QueueInv'
BY QueueQuiet DEF childVars, QueueInv, QueueTypes

LEMMA EnqueueKeeps ==
    ASSUME QueueInv, NEW d \in Dispatches,
           queue' = queue \/ queue' = Enqueued(d), UNCHANGED childVars
    PROVE  QueueInv'
<1>1. CASE queue' = queue
  BY <1>1, QueueStays
<1>2. CASE queue' = Append(queue, [dispatch |-> d, acked |-> FALSE])
  <2> DEFINE r == [dispatch |-> d, acked |-> FALSE]
  <2>1. r \in QueueRow /\ ~r.acked
    BY DEF QueueRow
  <2>2. queue' = Append(queue, r)
    BY <1>2
  <2> HIDE DEF r
  <2>3. queue \in Seq(QueueRow) /\ Len(queue) \in Nat
    BY LenProperties DEF QueueInv, QueueTypes
  <2>4. /\ queue' \in Seq(QueueRow) /\ Len(queue') = Len(queue) + 1
        /\ \A i \in 1..Len(queue) : queue'[i] = queue[i]
        /\ queue'[Len(queue) + 1] = r
    BY <2>1, <2>2, <2>3, AppendProperties
  <2>5. \A i \in 1..Len(queue') : i \in 1..Len(queue) \/ i = Len(queue) + 1
    BY <2>3, <2>4
  <2>6. UNCHANGED << cursor, page, phase, waiting, submitted >>
    BY DEF childVars
  <2>7. QueueTypes'
    BY <2>3, <2>4, <2>6 DEF QueueInv, QueueTypes
  <2>8. NoTurnDropped'
    <3> SUFFICES ASSUME NEW i \in 1..Len(queue')
                 PROVE  /\ queue'[i].acked => queue'[i].dispatch \in submitted
                        /\ i <= cursor => queue'[i].acked
      BY <2>6 DEF NoTurnDropped
    <3>1. CASE i \in 1..Len(queue)
      BY <3>1, <2>4 DEF QueueInv, NoTurnDropped
    <3>2. CASE i = Len(queue) + 1
      <4>1. ~(i <= cursor)
        BY <3>2, <2>3 DEF QueueInv, QueueTypes
      <4> QED BY <4>1, <3>2, <2>1, <2>4, Zenon
    <3> QED BY <3>1, <3>2, <2>5
  <2>9. PageIsComplete'
    <3> SUFFICES ASSUME NEW k \in page, NEW i \in 1..k
                 PROVE  queue'[i].acked \/ i \in page
      BY <2>6 DEF PageIsComplete
    <3>1. i \in 1..Len(queue)
      BY <2>3 DEF QueueInv, QueueTypes
    <3>2. queue[i].acked \/ i \in page
      BY DEF QueueInv, PageIsComplete
    <3> QED BY <3>1, <3>2, <2>4
  <2>10. AtARow'
    <3>1. CASE page = {}
      BY <3>1, <2>6 DEF QueueInv, AtARow
    <3>2. CASE page # {}
      <4>1. Row \in 1..Len(queue) /\ Row' = Row
        BY <3>2, <2>6, RowIsFirst DEF QueueInv, Row
      <4>2. Dispatch' = Dispatch
        BY <4>1, <2>4 DEF Dispatch
      <4> QED BY <4>2, <3>2, <2>6 DEF QueueInv, AtARow
    <3> QED BY <3>1, <3>2
  <2> QED BY <2>7, <2>8, <2>9, <2>10 DEF QueueInv
<1> QED BY <1>1, <1>2 DEF Enqueued

LEMMA ChildPullKeeps == QueueInv /\ ChildPull => QueueInv'
<1> SUFFICES ASSUME QueueInv, ChildPull PROVE QueueInv'
  OBVIOUS
<1>1. /\ page' = {i \in (cursor + 1)..Len(queue) : ~queue[i].acked}
      /\ phase' = IF page' = {} THEN "sync" ELSE "admit"
      /\ UNCHANGED << queue, cursor, waiting, submitted >>
  BY DEF ChildPull
<1>2. cursor \in Nat /\ Len(queue) \in Nat /\ cursor <= Len(queue)
  BY LenProperties DEF QueueInv, QueueTypes
<1>3. QueueTypes'
  BY <1>1, <1>2 DEF QueueInv, QueueTypes
<1>4. NoTurnDropped'
  BY <1>1 DEF QueueInv, NoTurnDropped
<1>5. PageIsComplete'
  <2> SUFFICES ASSUME NEW k \in page', NEW i \in 1..k
               PROVE  queue[i].acked \/ i \in page'
    BY <1>1 DEF PageIsComplete
  <2>1. i \in 1..Len(queue) /\ (i <= cursor \/ i \in (cursor + 1)..Len(queue))
    BY <1>1, <1>2
  <2>2. i <= cursor => queue[i].acked
    BY <2>1 DEF QueueInv, NoTurnDropped
  <2> QED BY <2>1, <2>2, <1>1
<1>6. AtARow'
  BY <1>1 DEF AtARow
<1> QED BY <1>3, <1>4, <1>5, <1>6 DEF QueueInv

LEMMA ChildAdmitKeeps == QueueInv /\ ChildAdmit => QueueInv'
<1> SUFFICES ASSUME QueueInv, ChildAdmit PROVE QueueInv'
  OBVIOUS
<1>1. phase = "admit" /\ page # {} /\ UNCHANGED << queue, cursor >>
  BY DEF ChildAdmit, AtLoop, QueueInv, AtARow
<1>2. Dispatch \in Dispatches /\ waiting \in Seq(Dispatches) /\ submitted \in SUBSET Dispatches
  BY <1>1, DispatchType DEF QueueInv, QueueTypes
<1>3. /\ waiting' \in Seq(Dispatches) /\ submitted' \in SUBSET Dispatches
      /\ submitted \subseteq submitted'
  <2>1. CASE SubmitTurn
    BY <1>2, <2>1, AppendProperties DEF SubmitTurn
  <2>2. CASE UNCHANGED << waiting, submitted >>
    BY <1>2, <2>2
  <2> QED BY <2>1, <2>2 DEF ChildAdmit
<1>4. NoTurnDropped'
  BY <1>1, <1>3 DEF QueueInv, NoTurnDropped
<1>5. CASE SubmitTurn /\ phase' = "ack" /\ UNCHANGED page
  <2>1. Dispatch' = Dispatch /\ Dispatch \in submitted'
    BY <1>1, <1>5 DEF Dispatch, Row, SubmitTurn
  <2>2. AtARow'
    BY <1>1, <1>5, <2>1 DEF AtARow
  <2>3. QueueTypes' /\ PageIsComplete'
    BY <1>1, <1>3, <1>5 DEF QueueInv, QueueTypes, PageIsComplete
  <2> QED BY <1>4, <2>2, <2>3 DEF QueueInv
<1>6. CASE StartOver
  BY <1>1, <1>3, <1>4, <1>6 DEF StartOver, QueueInv, QueueTypes, PageIsComplete, AtARow
<1> QED BY <1>5, <1>6 DEF ChildAdmit

LEMMA ChildAckKeeps ==
    ASSUME QueueInv, NEW reply \in Replies, ChildAck(reply)
    PROVE  QueueInv'
<1>1. phase = "ack" /\ page # {} /\ Dispatch \in submitted
      /\ UNCHANGED << waiting, submitted >>
  BY DEF ChildAck, AtLoop, QueueInv, AtARow
<1> DEFINE m == Row
<1>2. /\ m \in page /\ m \in 1..Len(queue) /\ \A i \in page : m <= i
  BY <1>1, RowIsFirst DEF QueueInv
<1>3. queue[m].dispatch \in submitted
  BY <1>1 DEF Dispatch
<1> HIDE DEF m
<1>4. queue \in Seq(QueueRow) /\ Len(queue) \in Nat
  BY LenProperties DEF QueueInv, QueueTypes
<1>5. queue' = queue \/ queue' = [queue EXCEPT ![m] = [queue[m] EXCEPT !.acked = TRUE]]
  BY DEF ChildAck, Acked, m
<1>6. /\ queue' \in Seq(QueueRow) /\ Len(queue') = Len(queue)
      /\ \A i \in 1..Len(queue) :
            /\ i # m => queue'[i] = queue[i]
            /\ queue'[i].dispatch = queue[i].dispatch
            /\ queue[i].acked => queue'[i].acked
            /\ queue'[i].acked => queue[i].acked \/ i = m
  <2>1. CASE queue' = queue
    BY <1>4, <2>1
  <2>2. CASE queue' = [queue EXCEPT ![m] = [queue[m] EXCEPT !.acked = TRUE]]
    <3> DEFINE r == [queue[m] EXCEPT !.acked = TRUE]
    <3>0. queue[m] \in QueueRow
      BY <1>2, <1>4, ElementOfSeq
    <3>1. r \in QueueRow /\ r.dispatch = queue[m].dispatch /\ r.acked
      BY <3>0 DEF QueueRow
    <3>2. queue' = [queue EXCEPT ![m] = r]
      BY <2>2
    <3> HIDE DEF r
    <3>3. queue' \in Seq(QueueRow) /\ Len(queue') = Len(queue)
      BY <3>1, <3>2, <1>2, <1>4, ExceptSeq
    <3>4. \A i \in 1..Len(queue) : queue'[i] = IF i = m THEN r ELSE queue[i]
      BY <3>2, <1>2, <1>4
    <3> QED BY <3>1, <3>3, <3>4
  <2> QED BY <1>5, <2>1, <2>2
<1>7. ASSUME NEW i \in 1..Len(queue), queue'[i].acked
      PROVE  queue'[i].dispatch \in submitted
  <2>1. CASE queue[i].acked
    BY <2>1, <1>6 DEF QueueInv, NoTurnDropped
  <2>2. CASE i = m
    BY <2>2, <1>3, <1>6
  <2> QED BY <2>1, <2>2, <1>6, <1>7
<1>8. CASE StartOver /\ UNCHANGED cursor
  <2>1. QueueTypes' /\ PageIsComplete' /\ AtARow'
    BY <1>1, <1>6, <1>8 DEF StartOver, QueueInv, QueueTypes, PageIsComplete, AtARow
  <2>2. NoTurnDropped'
    BY <1>1, <1>6, <1>7, <1>8 DEF QueueInv, NoTurnDropped
  <2> QED BY <2>1, <2>2 DEF QueueInv
<1>9. CASE /\ reply = "answered"
           /\ cursor' = Row /\ page' = page \ {Row}
           /\ phase' = IF page = {Row} THEN "sync" ELSE "admit"
  <2>1. /\ cursor' = m /\ page' = page \ {m}
        /\ phase' = IF page = {m} THEN "sync" ELSE "admit"
    BY <1>9 DEF m
  <2>2. queue'[m].acked
    <3>1. queue' = [queue EXCEPT ![m].acked = TRUE]
      BY <1>9 DEF ChildAck, Acked, m
    <3>2. queue[m] \in QueueRow
      BY <1>2, <1>4, ElementOfSeq
    <3> QED BY <3>1, <3>2, <1>2, <1>4 DEF QueueRow
  <2>3. QueueTypes'
    BY <2>1, <1>1, <1>2, <1>4, <1>6 DEF QueueInv, QueueTypes
  <2>4. PageIsComplete'
    <3> SUFFICES ASSUME NEW k \in page \ {m}, NEW i \in 1..k
                 PROVE  queue'[i].acked \/ i \in page \ {m}
      BY <2>1 DEF PageIsComplete
    <3>1. i \in 1..Len(queue)
      BY <1>4 DEF QueueInv, QueueTypes
    <3>2. queue[i].acked \/ i \in page
      BY DEF QueueInv, PageIsComplete
    <3> QED BY <3>1, <3>2, <2>2, <1>6
  <2>5. ASSUME NEW i \in 1..Len(queue), i <= m PROVE queue'[i].acked
    <3>1. i \in 1..m
      BY <1>2, <1>4, <2>5
    <3>2. queue[i].acked \/ i \in page
      BY <3>1, <1>2 DEF QueueInv, PageIsComplete
    <3>3. CASE i \in page
      <4>1. i = m
        BY <3>3, <1>2, <1>4, <2>5
      <4> QED BY <4>1, <2>2
    <3> QED BY <3>2, <3>3, <1>6
  <2>6. NoTurnDropped'
    BY <2>1, <2>5, <1>1, <1>6, <1>7 DEF NoTurnDropped
  <2>7. AtARow'
    BY <2>1, <1>2 DEF AtARow
  <2> QED BY <2>3, <2>4, <2>6, <2>7 DEF QueueInv
<1> QED BY <1>8, <1>9 DEF ChildAck

(***************************************************************************)
(* The streams.                                                            *)
(***************************************************************************)
LEMMA SpawnChildKeeps == PropInv /\ SpawnChild => PropInv'
<1> SUFFICES ASSUME PropInv, SpawnChild PROVE PropInv'
  OBVIOUS
<1>1. "idle" \in Places /\ "idle" \notin InBatch
  BY DEF Places, Up, InBatch
<1>2. /\ pc' = [pc EXCEPT ![First] = "idle"]
      /\ UNCHANGED << parent, holder, granted, expired, local, pushed, batchEnd, seen >>
  BY DEF SpawnChild
<1>3. BatchInLocal' /\ pc' \in [Propagators -> Places]
  BY <1>1, <1>2, PropagationAssumption, MoveKeeps
<1>4. PropagationTypeOK'
  BY <1>2, <1>3 DEF PropInv, PropagationTypeOK
<1> QED BY <1>2, <1>3, <1>4, Quiet

LEMMA TurnFacts ==
    ASSUME QueueInv, waiting # << >>, NEW k \in Terminals \cup {"submitted"}
    PROVE  Fact(Head(waiting), k) \in Facts
<1>1. Head(waiting) \in Dispatches
  BY HeadTailProperties DEF QueueInv, QueueTypes
<1> QED BY <1>1, RemoteAssumption

\* The steps of a turn that leave a record on the child's stream.
TurnRecords == TurnStart \/ TurnEnd \/ TurnCompletionErrs \/ TurnFailsLate

LEMMA TurnAppends ==
    ASSUME TurnRecords
    PROVE  /\ waiting # << >>
           /\ \E k \in Terminals \cup {"submitted"} : AppendLocal(First, Fact(Head(waiting), k))
BY DEF TurnRecords, TurnStart, TurnEnd, TurnCompletionErrs, TurnFailsLate, Terminals

LEMMA StreamsKept == PropInv /\ QueueInv /\ [RemoteNext]_remoteVars => PropInv'
<1> SUFFICES ASSUME PropInv, QueueInv, [RemoteNext]_remoteVars PROVE PropInv'
  OBVIOUS
<1> USE PropagationAssumption
<1>1. ASSUME UNCHANGED propVars PROVE PropInv'
  BY <1>1, StutterKeeps
<1>2. ASSUME NEW j \in Joiners, SettleRead(j) \/ SettleAppend(j) \/ SettleFails(j)
      PROVE  PropInv'
  BY <1>1, <1>2 DEF SettleRead, SettleAppend, SettleFails
<1>3. CASE TurnEndUnrecorded
  BY <1>1, <1>3 DEF TurnEndUnrecorded
<1>4. CASE SpawnChild
  BY <1>4, SpawnChildKeeps
<1>5. CASE SpawnFails
  BY <1>1, <1>5 DEF SpawnFails
<1>6. ASSUME NEW d \in Dispatches, Submit(d) PROVE PropInv'
  BY <1>1, <1>6 DEF Submit
<1>7. CASE ChildExitObserved \/ TailPoll \/ DaemonCrash \/ DaemonStart
  BY <1>1, <1>7 DEF ChildExitObserved, TailPoll, DaemonCrash, DaemonStart
<1>8. CASE ChildPull \/ ChildAdmit
  BY <1>1, <1>8 DEF ChildPull, ChildAdmit
<1>9. ASSUME NEW reply \in Replies, ChildAck(reply) PROVE PropInv'
  BY <1>1, <1>9 DEF ChildAck
<1>10. CASE ChildSync
  <2>1. \/ StartBatch(First) \/ Converged(First) \/ Reconcile(First)
        \/ \E reply \in Replies : PropagateStep(First, reply)
    BY <1>10 DEF ChildSync
  <2> QED BY <2>1, StartBatchKeeps, ConvergedKeeps, ReconcileKeeps, PropagateStepKeeps
<1>11. CASE ChildSeesOrphan \/ ChildDies
  BY <1>11, DieRebootKeep DEF ChildSeesOrphan, ChildDies
<1>12. CASE TurnRecords
  <2>1. PICK k \in Terminals \cup {"submitted"} : AppendLocal(First, Fact(Head(waiting), k))
    BY <1>12, TurnAppends
  <2>2. Fact(Head(waiting), k) \in Facts
    BY <1>12, TurnAppends, TurnFacts
  <2> QED BY <2>1, <2>2, AppendLocalKeeps
<1>13. ASSUME NEW q \in Others, Replacement(q) \/ ReplacementStep(q) PROVE PropInv'
  <2>1. q \in Propagators
    BY DEF Others
  <2>2. CASE Replacement(q)
    BY <2>1, <2>2, SupersedeKeeps, TakeOverKeeps DEF Replacement
  <2>3. CASE ReplacementStep(q)
    <3>1. Fact(Spawn, "progress") \in Facts
      BY RemoteAssumption
    <3>2. \/ AppendLocal(q, Fact(Spawn, "progress")) \/ StartBatch(q) \/ Reconcile(q)
          \/ \E reply \in Replies : PropagateStep(q, reply)
      BY <2>3 DEF ReplacementStep
    <3> QED BY <2>1, <3>1, <3>2, AppendLocalKeeps, StartBatchKeeps, ReconcileKeeps,
               PropagateStepKeeps
  <2> QED BY <1>13, <2>2, <2>3
<1>14. CASE LeaseExpires
  BY <1>14, ExpireKeeps DEF LeaseExpires
<1>15. CASE UNCHANGED remoteVars
  BY <1>1, <1>15 DEF remoteVars
<1> QED BY <1>2, <1>3, <1>4, <1>5, <1>6, <1>7, <1>8, <1>9, <1>10, <1>11,
           <1>12, <1>13, <1>14, <1>15 DEF RemoteNext, TurnRecords

(***************************************************************************)
(* The queue and the joins under every step.                               *)
(***************************************************************************)
LEMMA QueueKept == QueueInv /\ [RemoteNext]_remoteVars => QueueInv'
<1> SUFFICES ASSUME QueueInv, [RemoteNext]_remoteVars PROVE QueueInv'
  OBVIOUS
<1>1. ASSUME UNCHANGED << queue, childVars >> PROVE QueueInv'
  BY <1>1, QueueStays
<1>2. ASSUME NEW j \in Joiners, SettleRead(j) \/ SettleAppend(j) \/ SettleFails(j)
      PROVE  QueueInv'
  BY <1>1, <1>2 DEF SettleRead, SettleAppend, SettleFails
<1>3. ASSUME Forgets, UNCHANGED queue PROVE QueueInv'
  <2>1. << >> \in Seq(Dispatches)
    OBVIOUS
  <2> QED BY <1>3, <2>1 DEF Forgets, StartOver, QueueInv, QueueTypes, NoTurnDropped,
                            PageIsComplete, AtARow
<1>4. CASE SpawnChild \/ SpawnFails
  BY <1>4, EnqueueKeeps, RemoteAssumption DEF SpawnChild, SpawnFails
<1>5. ASSUME NEW d \in Dispatches, Submit(d) PROVE QueueInv'
  BY <1>5, EnqueueKeeps DEF Submit
<1>6. CASE ChildExitObserved \/ TailPoll \/ DaemonCrash \/ DaemonStart
  BY <1>1, <1>6 DEF ChildExitObserved, TailPoll, DaemonCrash, DaemonStart
<1>7. CASE ChildPull
  BY <1>7, ChildPullKeeps
<1>8. CASE ChildAdmit
  BY <1>8, ChildAdmitKeeps
<1>9. ASSUME NEW reply \in Replies, ChildAck(reply) PROVE QueueInv'
  BY <1>9, ChildAckKeeps
<1>10. CASE ChildSync
  <2>1. CASE Forgets
    BY <1>3, <1>10, <2>1 DEF ChildSync
  <2>2. CASE /\ phase' \in {"pull", "sync"}
             /\ UNCHANGED << queue, cursor, page, waiting, submitted >>
    BY <2>2 DEF QueueInv, QueueTypes, NoTurnDropped, PageIsComplete, AtARow
  <2> QED BY <1>10, <2>1, <2>2 DEF ChildSync
<1>11. CASE ChildSeesOrphan \/ ChildDies
  BY <1>3, <1>11 DEF ChildSeesOrphan, ChildDies
<1>12. CASE TurnStart
  BY <1>1, <1>12 DEF TurnStart
<1>13. CASE TurnEnd \/ TurnCompletionErrs \/ TurnFailsLate \/ TurnEndUnrecorded
  <2>1. /\ waiting # << >> /\ waiting' \in {waiting, Tail(waiting)}
        /\ UNCHANGED << queue, cursor, page, phase, submitted >>
    BY <1>13 DEF TurnEnd, TurnCompletionErrs, TurnFailsLate, TurnEndUnrecorded, TurnFault
  <2>2. waiting' \in Seq(Dispatches)
    BY <2>1, HeadTailProperties DEF QueueInv, QueueTypes
  <2> QED BY <2>1, <2>2, QueueQuiet
<1>14. ASSUME NEW q \in Others, Replacement(q) \/ ReplacementStep(q) PROVE QueueInv'
  BY <1>1, <1>14 DEF Replacement, ReplacementStep
<1>15. CASE LeaseExpires
  BY <1>1, <1>15 DEF LeaseExpires
<1>16. CASE UNCHANGED remoteVars
  BY <1>1, <1>16 DEF remoteVars
<1> QED BY <1>2, <1>4, <1>5, <1>6, <1>7, <1>8, <1>9, <1>10, <1>11,
           <1>12, <1>13, <1>14, <1>15, <1>16 DEF RemoteNext

\* A settlement begins, ends or moves, and nothing is joined.
LEMMA SettleMoves ==
    ASSUME JoinInv, NEW j \in Joiners, NEW x, Pending(x),
           settle' = [settle EXCEPT ![j] = x], UNCHANGED joins
    PROVE  JoinInv'
BY DEF JoinInv

LEMMA FreshPending == \A s, u : Pending(Settlement(s, u)) /\ Pending(None)
BY DEF Pending, Settlement

LEMMA SettleReadKeeps ==
    ASSUME JoinInv, NEW j \in Joiners, SettleRead(j)
    PROVE  JoinInv'
<1>1. CASE SettleDone(j) /\ UNCHANGED joins
  BY <1>1, SettleMoves, FreshPending DEF SettleDone
<1>2. CASE joins = << >> /\ settle' = [settle EXCEPT ![j].next = Len(joins) + 1]
           /\ UNCHANGED joins
  <2>1. PICK s, u, n : settle[j] = [state |-> s, upto |-> u, next |-> n]
    BY DEF SettleRead, JoinInv, Pending
  <2> DEFINE x == [state |-> s, upto |-> u, next |-> 1]
  <2>2. [settle[j] EXCEPT !.next = 1] = x
    BY <2>1
  <2>3. Len(joins) + 1 = 1
    BY <1>2
  <2>4. settle' = [settle EXCEPT ![j] = [settle[j] EXCEPT !.next = 1]]
    BY <1>2, <2>3
  <2>5. settle' = [settle EXCEPT ![j] = x]
    BY <2>2, <2>4, Zenon
  <2>6. Pending(x)
    BY DEF Pending
  <2> HIDE DEF x
  <2> QED BY <1>2, <2>5, <2>6, SettleMoves
<1> QED BY <1>1, <1>2 DEF SettleRead, Joined

LEMMA SettleAppendKeeps ==
    ASSUME JoinInv, NEW j \in Joiners, SettleAppend(j)
    PROVE  JoinInv'
<1>1. PICK s, u : \E n \in {0, 1} : settle[j] = [state |-> s, upto |-> u, next |-> n]
  BY DEF SettleAppend, JoinInv, Pending
<1>2. settle[j].next = 1
  BY <1>1 DEF SettleAppend
<1>3. CASE settle[j].next = Len(joins) + 1
  <2>1. joins = << >>
    <3>1. ASSUME NEW r, joins = << r >> PROVE FALSE
      BY <3>1, <1>2, <1>3
    <3> QED BY <3>1 DEF JoinInv
  <2>2. \E r : joins' = << r >>
    BY <1>3, <2>1 DEF SettleAppend
  <2>3. settle' = [settle EXCEPT ![j] = None] /\ Pending(None)
    BY <1>3, FreshPending DEF SettleAppend, SettleDone
  <2> QED BY <2>2, <2>3 DEF JoinInv
<1>4. CASE settle[j].next # Len(joins) + 1
  <2> DEFINE x == [state |-> s, upto |-> u, next |-> 0]
  <2>1. settle' = [settle EXCEPT ![j] = [settle[j] EXCEPT !.next = 0]] /\ UNCHANGED joins
    BY <1>4 DEF SettleAppend
  <2>2. [settle[j] EXCEPT !.next = 0] = x
    BY <1>1
  <2>3. settle' = [settle EXCEPT ![j] = x]
    BY <2>1, <2>2, Zenon
  <2>4. Pending(x)
    BY DEF Pending
  <2> HIDE DEF x
  <2> QED BY <2>1, <2>3, <2>4, SettleMoves
<1> QED BY <1>3, <1>4

LEMMA JoinStays == JoinInv /\ UNCHANGED << joins, settle >> => JoinInv'
BY DEF JoinInv

LEMMA JoinKept == JoinInv /\ [RemoteNext]_remoteVars => JoinInv'
<1> SUFFICES ASSUME JoinInv, [RemoteNext]_remoteVars PROVE JoinInv'
  OBVIOUS
<1>1. ASSUME NEW j \in Joiners, SettleRead(j) PROVE JoinInv'
  BY <1>1, SettleReadKeeps
<1>2. ASSUME NEW j \in Joiners, SettleAppend(j) PROVE JoinInv'
  BY <1>2, SettleAppendKeeps
<1>3. ASSUME UNCHANGED << joins, settle >> PROVE JoinInv'
  BY <1>3, JoinStays
<1>4. ASSUME UNCHANGED parentVars PROVE JoinInv'
  BY <1>3, <1>4 DEF parentVars
<1>5. {"tail", "monitor", "executor", "recovery"} \subseteq Joiners
  BY DEF Joiners
<1>6. ASSUME NEW j \in Joiners, SettleFails(j) PROVE JoinInv'
  BY <1>6, SettleMoves, FreshPending DEF SettleFails
<1>7. CASE SpawnChild
  BY <1>3, <1>7 DEF SpawnChild
<1>8. CASE SpawnFails
  BY <1>5, <1>8, SettleMoves, FreshPending DEF SpawnFails
<1>9. CASE ChildExitObserved
  BY <1>5, <1>9, SettleMoves, FreshPending DEF ChildExitObserved
<1>10. CASE TailPoll
  <2>1. CASE UNCHANGED settle
    BY <1>3, <1>10, <2>1 DEF TailPoll
  <2>2. CASE settle' = [settle EXCEPT !["tail"] = Settlement(FirstTerminal(tailAt), Len(parent))]
    BY <1>5, <1>10, <2>2, SettleMoves, FreshPending DEF TailPoll
  <2> QED BY <1>10, <2>1, <2>2 DEF TailPoll
<1>11. CASE DaemonCrash
  <2>1. settle' = [j \in Joiners |-> None] /\ UNCHANGED joins
    BY <1>11 DEF DaemonCrash
  <2> QED BY <2>1, FreshPending DEF JoinInv
<1>12. CASE DaemonStart
  <2>1. CASE UNCHANGED settle
    BY <1>3, <1>12, <2>1 DEF DaemonStart
  <2>2. CASE settle' = [settle EXCEPT !["recovery"] = Settlement(Recovered, 0)]
    BY <1>5, <1>12, <2>2, SettleMoves, FreshPending DEF DaemonStart
  <2> QED BY <1>12, <2>1, <2>2 DEF DaemonStart
<1>13. ASSUME NEW d \in Dispatches, Submit(d) PROVE JoinInv'
  BY <1>4, <1>13 DEF Submit
<1>14. CASE ChildPull \/ ChildAdmit \/ ChildSync \/ ChildSeesOrphan \/ ChildDies
            \/ TurnStart \/ TurnEnd \/ TurnFailsLate \/ LeaseExpires
  BY <1>4, <1>14 DEF ChildPull, ChildAdmit, ChildSync, ChildSeesOrphan, ChildDies,
                     TurnStart, TurnEnd, TurnFailsLate, LeaseExpires
<1>15. ASSUME NEW reply \in Replies, ChildAck(reply) PROVE JoinInv'
  BY <1>4, <1>15 DEF ChildAck
<1>16. ASSUME NEW q \in Others, Replacement(q) \/ ReplacementStep(q) PROVE JoinInv'
  BY <1>4, <1>16 DEF Replacement, ReplacementStep
<1>17. CASE UNCHANGED remoteVars
  BY <1>4, <1>17 DEF remoteVars
<1>18. CASE TurnCompletionErrs \/ TurnEndUnrecorded
  BY <1>3, <1>18 DEF TurnCompletionErrs, TurnEndUnrecorded, TurnFault
<1> QED BY <1>1, <1>2, <1>6, <1>7, <1>8, <1>9, <1>10, <1>11, <1>12, <1>13,
           <1>14, <1>15, <1>16, <1>17, <1>18 DEF RemoteNext

(***************************************************************************)
(* The child's lane: what waits and what is recorded, in queue order.      *)
(***************************************************************************)
\* The rows of queue q order the dispatches.
Precedes(q, d, e) ==
    \E a, b \in 1..Len(q) : a < b /\ q[a].dispatch = d /\ q[b].dispatch = e

\* Each dispatch has one row, and rows are submitted in order.
Rows(q, sub) ==
    /\ \A a, b \in 1..Len(q) : q[a].dispatch = q[b].dispatch => a = b
    /\ \A d \in sub : \E a \in 1..Len(q) : q[a].dispatch = d
    /\ \A a, b \in 1..Len(q) :
          a < b /\ q[b].dispatch \in sub => q[a].dispatch \in sub

WaitsInOrder(q, sub, w) ==
    /\ \A i \in 1..Len(w) : w[i] \in sub
    /\ \A i, k \in 1..Len(w) : i < k => Precedes(q, w[i], w[k])

Starts(r) == r.fact.kind = "submitted"
Ends(r) == r.fact.kind \in Terminals

\* The child's stream records starts and ends of submitted turns.
RecordsOf(sub, l) ==
    \A i \in 1..Len(l) :
        \E d \in sub : \E k \in Terminals \cup {"submitted"} : l[i].fact = Fact(d, k)

\* Record i is of the turn at the head, which the last record starts, or
\* completes with the turn still to be left; only that record can end it.
Runs(l, w, i) ==
    /\ l[i].fact.turn = w[1]
    /\ l[Len(l)].fact \in {Fact(w[1], "submitted"), Fact(w[1], "completed")}
    /\ Ends(l[i]) => i = Len(l)

\* What is recorded comes before what waits, save for a turn that runs.
RecordsFirst(q, w, l) ==
    \A i \in 1..Len(l) : \A k \in 1..Len(w) :
        Precedes(q, l[i].fact.turn, w[k]) \/ (k = 1 /\ Runs(l, w, i))

\* The two ends a turn can have: a failure behind its completion.
EndsTwice(a, b) ==
    /\ a.fact.turn = b.fact.turn
    /\ a.fact.kind = "completed" /\ b.fact.kind = "failed"

\* Starts are recorded in the order of the queue, and so are ends.
RecordsInOrder(q, l) ==
    \A i, k \in 1..Len(l) : i < k =>
        /\ Starts(l[i]) /\ Starts(l[k]) => Precedes(q, l[i].fact.turn, l[k].fact.turn)
        /\ Ends(l[i]) /\ Ends(l[k]) =>
              Precedes(q, l[i].fact.turn, l[k].fact.turn) \/ EndsTwice(l[i], l[k])

Lane(q, sub, w, l) ==
    /\ WaitsInOrder(q, sub, w)
    /\ RecordsOf(sub, l)
    /\ RecordsFirst(q, w, l)
    /\ RecordsInOrder(q, l)

LaneInv ==
    /\ Rows(queue, submitted)
    /\ Lane(queue, submitted, waiting, local[First])

LEMMA KindsApart == "submitted" \notin Terminals /\ "progress" \notin Terminals
BY DEF Terminals

LEMMA LaneGrows ==
    ASSUME NEW q, NEW r, NEW sub, NEW more, NEW w, NEW l,
           Lane(q, sub, w, l), sub \subseteq more,
           \A d, e : Precedes(q, d, e) => Precedes(r, d, e)
    PROVE  Lane(r, more, w, l)
<1>1. WaitsInOrder(r, more, w)
  BY DEF Lane, WaitsInOrder
<1>2. RecordsOf(more, l)
  BY DEF Lane, RecordsOf
<1>3. RecordsFirst(r, w, l)
  BY DEF Lane, RecordsFirst
<1>4. RecordsInOrder(r, l)
  BY DEF Lane, RecordsInOrder
<1> QED BY <1>1, <1>2, <1>3, <1>4 DEF Lane

\* A queue that keeps the dispatches of its rows keeps their order.
LEMMA OrderKept ==
    ASSUME NEW q, NEW r, Len(q) \in Nat, Len(r) \in Nat, Len(q) <= Len(r),
           \A i \in 1..Len(q) : r[i].dispatch = q[i].dispatch
    PROVE  \A d, e : Precedes(q, d, e) => Precedes(r, d, e)
<1> SUFFICES ASSUME NEW d, NEW e, Precedes(q, d, e) PROVE Precedes(r, d, e)
  OBVIOUS
<1>1. PICK a, b \in 1..Len(q) : a < b /\ q[a].dispatch = d /\ q[b].dispatch = e
  BY DEF Precedes
<1>2. a \in 1..Len(r) /\ b \in 1..Len(r)
  OBVIOUS
<1>3. r[a].dispatch = d /\ r[b].dispatch = e
  BY <1>1
<1> QED BY <1>1, <1>2, <1>3 DEF Precedes

LEMMA Irreflexive ==
    ASSUME NEW q, NEW sub, NEW d, Len(q) \in Nat, Rows(q, sub), Precedes(q, d, d)
    PROVE  FALSE
<1>1. PICK a, b \in 1..Len(q) : a < b /\ q[a].dispatch = d /\ q[b].dispatch = d
  BY DEF Precedes
<1>2. a = b
  BY <1>1 DEF Rows
<1> QED BY <1>1, <1>2

\* The next row submitted comes after everything submitted before.
LEMMA NextIsLast ==
    ASSUME NEW q, NEW sub, Len(q) \in Nat, Rows(q, sub),
           NEW m \in 1..Len(q), q[m].dispatch \notin sub, NEW e \in sub
    PROVE  Precedes(q, e, q[m].dispatch)
<1>1. PICK a \in 1..Len(q) : q[a].dispatch = e
  BY DEF Rows
<1>2. ~(m < a)
  BY <1>1 DEF Rows
<1>3. a # m
  BY <1>1
<1>4. a < m
  BY <1>2, <1>3
<1> QED BY <1>1, <1>4 DEF Precedes

LEMMA RowsSubmit ==
    ASSUME NEW q, NEW sub, Len(q) \in Nat, Rows(q, sub), NEW m \in 1..Len(q),
           \A a \in 1..Len(q) : a < m => q[a].dispatch \in sub
    PROVE  Rows(q, sub \cup {q[m].dispatch})
<1> DEFINE d == q[m].dispatch
<1>1. \A e \in sub \cup {d} : \E a \in 1..Len(q) : q[a].dispatch = e
  BY DEF Rows
<1>2. ASSUME NEW a \in 1..Len(q), NEW b \in 1..Len(q), a < b, q[b].dispatch \in sub \cup {d}
      PROVE  q[a].dispatch \in sub
  <2>1. CASE q[b].dispatch \in sub
    BY <1>2, <2>1 DEF Rows
  <2>2. CASE q[b].dispatch = d
    <3>1. b = m
      BY <2>2 DEF Rows
    <3> QED BY <3>1, <1>2
  <2> QED BY <1>2, <2>1, <2>2
<1>3. \A a, b \in 1..Len(q) :
         a < b /\ q[b].dispatch \in sub \cup {d} => q[a].dispatch \in sub \cup {d}
  BY <1>2
<1>4. \A a, b \in 1..Len(q) : q[a].dispatch = q[b].dispatch => a = b
  BY DEF Rows
<1> QED BY <1>1, <1>3, <1>4 DEF Rows

LEMMA RowsAppend ==
    ASSUME NEW q \in Seq(QueueRow), NEW sub, Rows(q, sub), NEW row \in QueueRow,
           \A a \in 1..Len(q) : q[a].dispatch # row.dispatch
    PROVE  Rows(Append(q, row), sub)
<1> DEFINE r == Append(q, row)
<1>1. /\ Len(q) \in Nat /\ Len(r) = Len(q) + 1
      /\ \A i \in 1..Len(q) : r[i] = q[i]
      /\ r[Len(q) + 1] = row
  BY AppendProperties, LenProperties
<1> HIDE DEF r
<1>2. \A i \in 1..Len(r) : i \in 1..Len(q) \/ i = Len(q) + 1
  BY <1>1
<1>3. row.dispatch \notin sub
  BY DEF Rows
<1>4. ASSUME NEW a \in 1..Len(r), NEW b \in 1..Len(r), r[a].dispatch = r[b].dispatch
      PROVE  a = b
  <2>1. CASE a \in 1..Len(q) /\ b \in 1..Len(q)
    BY <2>1, <1>1, <1>4 DEF Rows
  <2>2. CASE a = Len(q) + 1 \/ b = Len(q) + 1
    BY <2>2, <1>1, <1>2, <1>4
  <2> QED BY <2>1, <2>2, <1>2
<1>5. ASSUME NEW d \in sub PROVE \E a \in 1..Len(r) : r[a].dispatch = d
  <2>1. PICK a \in 1..Len(q) : q[a].dispatch = d
    BY DEF Rows
  <2>2. a \in 1..Len(r) /\ r[a].dispatch = d
    BY <2>1, <1>1
  <2> QED BY <2>2
<1>6. ASSUME NEW a \in 1..Len(r), NEW b \in 1..Len(r), a < b, r[b].dispatch \in sub
      PROVE  r[a].dispatch \in sub
  <2>1. b \in 1..Len(q)
    BY <1>1, <1>2, <1>3, <1>6
  <2>2. a \in 1..Len(q)
    BY <2>1, <1>1, <1>6
  <2>3. q[b].dispatch \in sub
    BY <2>1, <1>1, <1>6
  <2> QED BY <2>1, <2>2, <2>3, <1>1, <1>6 DEF Rows
<1> QED BY <1>4, <1>5, <1>6 DEF Rows, r

\* A turn is submitted: it waits behind everything.
LEMMA LaneSubmit ==
    ASSUME NEW q, NEW sub, NEW w \in Seq(Dispatches), NEW l, Lane(q, sub, w, l),
           NEW d \in Dispatches, \A e \in sub : Precedes(q, e, d)
    PROVE  Lane(q, sub \cup {d}, Append(w, d), l)
<1> DEFINE v == Append(w, d)
           more == sub \cup {d}
<1>1. /\ Len(w) \in Nat /\ Len(v) = Len(w) + 1
      /\ \A i \in 1..Len(w) : v[i] = w[i]
      /\ v[Len(w) + 1] = d
  BY AppendProperties, LenProperties
<1>2. d \in more /\ sub \subseteq more
  OBVIOUS
<1> HIDE DEF v, more
<1>3. \A i \in 1..Len(v) : i \in 1..Len(w) \/ i = Len(w) + 1
  BY <1>1
<1>4. \A i \in 1..Len(w) : w[i] \in sub
  BY DEF Lane, WaitsInOrder
<1>5. WaitsInOrder(q, more, v)
  <2>1. \A i \in 1..Len(v) : v[i] \in more
    BY <1>1, <1>2, <1>3, <1>4
  <2>2. ASSUME NEW i \in 1..Len(v), NEW k \in 1..Len(v), i < k
        PROVE  Precedes(q, v[i], v[k])
    <3>1. i \in 1..Len(w)
      BY <1>1, <2>2
    <3>2. CASE k \in 1..Len(w)
      BY <3>1, <3>2, <2>2, <1>1 DEF Lane, WaitsInOrder
    <3>3. CASE k = Len(w) + 1
      BY <3>1, <3>3, <1>1, <1>4
    <3> QED BY <3>2, <3>3, <1>3
  <2> QED BY <2>1, <2>2 DEF WaitsInOrder
<1>6. RecordsOf(more, l)
  BY <1>2 DEF Lane, RecordsOf
<1>7. RecordsFirst(q, v, l)
  <2> SUFFICES ASSUME NEW i \in 1..Len(l), NEW k \in 1..Len(v)
               PROVE  Precedes(q, l[i].fact.turn, v[k]) \/ (k = 1 /\ Runs(l, v, i))
    BY DEF RecordsFirst
  <2>1. CASE k \in 1..Len(w)
    <3>1. Precedes(q, l[i].fact.turn, w[k]) \/ (k = 1 /\ Runs(l, w, i))
      BY <2>1 DEF Lane, RecordsFirst
    <3>2. v[k] = w[k]
      BY <2>1, <1>1
    <3>3. k = 1 /\ Runs(l, w, i) => Runs(l, v, i)
      BY <3>2 DEF Runs
    <3> QED BY <3>1, <3>2, <3>3
  <2>2. CASE k = Len(w) + 1
    <3>0. PICK e \in sub : \E x \in Terminals \cup {"submitted"} : l[i].fact = Fact(e, x)
      BY DEF Lane, RecordsOf
    <3>1. l[i].fact.turn \in sub
      BY <3>0 DEF Fact
    <3> QED BY <3>1, <2>2, <1>1
  <2> QED BY <2>1, <2>2, <1>3
<1>8. RecordsInOrder(q, l)
  BY DEF Lane
<1> QED BY <1>5, <1>6, <1>7, <1>8 DEF Lane, v, more

\* The turn at the head leaves, and nothing is recorded.
LEMMA LanePops ==
    ASSUME NEW q, NEW sub, NEW w \in Seq(Dispatches), NEW l, Lane(q, sub, w, l), w # << >>
    PROVE  Lane(q, sub, Tail(w), l)
<1> DEFINE v == Tail(w)
<1>1. /\ Len(w) \in Nat /\ Len(w) >= 1
      /\ Len(v) = Len(w) - 1 /\ \A i \in 1..Len(v) : v[i] = w[i + 1]
  BY HeadTailProperties, LenProperties, EmptySeq
<1> HIDE DEF v
<1>2. \A i \in 1..Len(v) : i + 1 \in 1..Len(w) /\ i + 1 # 1
  BY <1>1
<1>3. WaitsInOrder(q, sub, v)
  <2>1. \A i \in 1..Len(v) : v[i] \in sub
    BY <1>1, <1>2 DEF Lane, WaitsInOrder
  <2>2. ASSUME NEW i \in 1..Len(v), NEW j \in 1..Len(v), i < j
        PROVE  Precedes(q, v[i], v[j])
    <3>1. i + 1 < j + 1
      BY <2>2
    <3>2. Precedes(q, w[i + 1], w[j + 1])
      BY <3>1, <1>2 DEF Lane, WaitsInOrder
    <3> QED BY <3>2, <1>1
  <2> QED BY <2>1, <2>2 DEF WaitsInOrder
<1>4. RecordsFirst(q, v, l)
  <2> SUFFICES ASSUME NEW i \in 1..Len(l), NEW j \in 1..Len(v)
               PROVE  Precedes(q, l[i].fact.turn, v[j])
    BY DEF RecordsFirst
  <2>1. Precedes(q, l[i].fact.turn, w[j + 1])
    BY <1>2 DEF Lane, RecordsFirst
  <2> QED BY <2>1, <1>1
<1> QED BY <1>3, <1>4 DEF Lane, v

\* The turn at the head is recorded as started, as completed, or as ended
\* for good: a failure may follow its completion.
LEMMA LaneRecords ==
    ASSUME NEW q, NEW sub, NEW w \in Seq(Dispatches), NEW l \in Seq(Record),
           Lane(q, sub, w, l), w # << >>, NEW r \in Record,
           NEW k \in Terminals \cup {"submitted"}, r.fact = Fact(w[1], k),
           NEW started, started = (l # << >> /\ l[Len(l)].fact = Fact(w[1], "submitted")),
           NEW ending, ending = (l # << >> /\ l[Len(l)].fact = Fact(w[1], "completed"))
    PROVE  /\ k = "submitted" /\ ~started /\ ~ending => Lane(q, sub, w, Append(l, r))
           /\ k = "completed" /\ started => Lane(q, sub, w, Append(l, r))
           /\ k \in Terminals /\ started => Lane(q, sub, Tail(w), Append(l, r))
           /\ k = "failed" /\ ending => Lane(q, sub, Tail(w), Append(l, r))
<1> DEFINE m == Append(l, r)
           Allowed == \/ k = "submitted" /\ ~started /\ ~ending
                      \/ k \in Terminals /\ started
                      \/ k = "failed" /\ ending
<1>1. /\ Len(l) \in Nat /\ Len(m) = Len(l) + 1
      /\ \A i \in 1..Len(l) : m[i] = l[i]
      /\ m[Len(l) + 1] = r
  BY AppendProperties, LenProperties
<1>2. Len(w) \in Nat /\ Len(w) >= 1
  BY LenProperties, EmptySeq
<1> HIDE DEF m
<1>3. \A i \in 1..Len(m) : i \in 1..Len(l) \/ i = Len(l) + 1
  BY <1>1
<1>4. w[1] \in sub /\ 1 \in 1..Len(w)
  BY <1>2 DEF Lane, WaitsInOrder
<1>5. r.fact.turn = w[1] /\ r.fact.kind = k
  BY DEF Fact
<1>6. RecordsOf(sub, m)
  <2> SUFFICES ASSUME NEW i \in 1..Len(m)
               PROVE  \E d \in sub : \E x \in Terminals \cup {"submitted"} :
                         m[i].fact = Fact(d, x)
    BY DEF RecordsOf
  <2>1. CASE i \in 1..Len(l)
    BY <2>1, <1>1 DEF Lane, RecordsOf
  <2>2. CASE i = Len(l) + 1
    BY <2>2, <1>1, <1>4
  <2> QED BY <2>1, <2>2, <1>3
\* A record of the turn at the head shows that it started or is ending.
<1>7. ASSUME NEW i \in 1..Len(l)
      PROVE  Precedes(q, l[i].fact.turn, w[1]) \/ (Runs(l, w, i) /\ (started \/ ending))
  <2>1. Precedes(q, l[i].fact.turn, w[1]) \/ Runs(l, w, i)
    BY <1>4 DEF Lane, RecordsFirst
  <2>2. l # << >>
    BY <1>1
  <2> QED BY <2>1, <2>2 DEF Runs
<1>8. Fact(w[1], "submitted").kind = "submitted" /\ Fact(w[1], "completed").kind = "completed"
  BY DEF Fact
<1>9. ASSUME Allowed, NEW i \in 1..Len(l)
      PROVE  /\ Starts(l[i]) /\ Starts(r) => Precedes(q, l[i].fact.turn, w[1])
             /\ Ends(l[i]) /\ Ends(r) =>
                   Precedes(q, l[i].fact.turn, w[1]) \/ EndsTwice(l[i], r)
  <2>1. CASE k = "submitted" /\ ~started /\ ~ending
    <3>1. Precedes(q, l[i].fact.turn, w[1])
      BY <1>7, <2>1
    <3> QED BY <3>1
  <2>2. CASE k \in Terminals
    <3>1. ~Starts(r)
      BY <2>2, <1>5, KindsApart DEF Starts
    <3>2. ASSUME Ends(l[i]), Runs(l, w, i) PROVE EndsTwice(l[i], r)
      <4>1. i = Len(l) /\ l[i].fact.turn = w[1] /\ l # << >>
        BY <3>2, <1>1 DEF Runs
      <4>2. ~started
        BY <4>1, <3>2, <1>8, KindsApart DEF Ends
      <4>3. k = "failed" /\ ending
        BY <4>2, <1>9, <2>2, KindsApart
      <4>4. l[i].fact.kind = "completed"
        BY <4>1, <4>3, <1>8
      <4> QED BY <4>1, <4>3, <4>4, <1>5 DEF EndsTwice
    <3> QED BY <3>1, <3>2, <1>7
  <2> QED BY <2>1, <2>2, <1>9
<1>10. ASSUME Allowed PROVE RecordsInOrder(q, m)
  <2> SUFFICES ASSUME NEW i \in 1..Len(m), NEW j \in 1..Len(m), i < j
               PROVE  /\ Starts(m[i]) /\ Starts(m[j]) =>
                            Precedes(q, m[i].fact.turn, m[j].fact.turn)
                      /\ Ends(m[i]) /\ Ends(m[j]) =>
                            \/ Precedes(q, m[i].fact.turn, m[j].fact.turn)
                            \/ EndsTwice(m[i], m[j])
    BY DEF RecordsInOrder
  <2>1. i \in 1..Len(l) /\ m[i] = l[i]
    BY <1>1
  <2>2. CASE j \in 1..Len(l)
    <3>1. m[j] = l[j]
      BY <2>2, <1>1
    <3>2. RecordsInOrder(q, l)
      BY DEF Lane
    <3> QED BY <2>1, <2>2, <3>1, <3>2 DEF RecordsInOrder
  <2>3. CASE j = Len(l) + 1
    <3>1. m[j] = r
      BY <2>3, <1>1
    <3> QED BY <2>1, <3>1, <1>5, <1>9, <1>10
  <2> QED BY <2>2, <2>3, <1>3
\* A record of the head that ends it for now is the last one.
<1>11. ASSUME \/ k = "submitted" /\ ~started /\ ~ending
              \/ k = "completed" /\ started
       PROVE  Lane(q, sub, w, m)
  <2>1. RecordsFirst(q, w, m)
    <3> SUFFICES ASSUME NEW i \in 1..Len(m), NEW j \in 1..Len(w)
                 PROVE  Precedes(q, m[i].fact.turn, w[j]) \/ (j = 1 /\ Runs(m, w, i))
      BY DEF RecordsFirst
    <3>0. m[Len(m)].fact \in {Fact(w[1], "submitted"), Fact(w[1], "completed")}
      BY <1>1, <1>11
    <3>1. CASE i \in 1..Len(l)
      <4>1. Precedes(q, l[i].fact.turn, w[j]) \/ (j = 1 /\ Runs(l, w, i))
        BY <3>1 DEF Lane, RecordsFirst
      <4>2. ASSUME j = 1, Runs(l, w, i), ~Precedes(q, l[i].fact.turn, w[j]) PROVE Runs(m, w, i)
        <5>1. started
          BY <3>1, <4>2, <1>7, <1>11
        <5>2. ~Ends(l[i])
          BY <4>2, <5>1, <1>8, KindsApart DEF Runs, Ends
        <5> QED BY <4>2, <5>2, <3>0, <3>1, <1>1 DEF Runs
      <4> QED BY <4>1, <4>2, <3>1, <1>1
    <3>2. CASE i = Len(l) + 1 /\ j = 1
      BY <3>0, <3>2, <1>1, <1>5 DEF Runs
    <3>3. CASE i = Len(l) + 1 /\ j # 1
      <4>1. 1 < j
        BY <3>3, <1>2
      <4>2. Precedes(q, w[1], w[j])
        BY <4>1, <1>4 DEF Lane, WaitsInOrder
      <4> QED BY <4>2, <3>3, <1>1, <1>5
    <3> QED BY <3>1, <3>2, <3>3, <1>3
  <2>2. Allowed
    BY <1>11 DEF Terminals
  <2> QED BY <2>1, <2>2, <1>6, <1>10 DEF Lane
<1>12. ASSUME k \in Terminals /\ (started \/ (k = "failed" /\ ending))
       PROVE  Lane(q, sub, Tail(w), m)
  <2>1. Lane(q, sub, Tail(w), l)
    BY LanePops
  <2> DEFINE v == Tail(w)
  <2>2. /\ Len(v) = Len(w) - 1 /\ \A i \in 1..Len(v) : v[i] = w[i + 1]
    BY HeadTailProperties
  <2> HIDE DEF v
  <2>3. RecordsFirst(q, v, m)
    <3> SUFFICES ASSUME NEW i \in 1..Len(m), NEW j \in 1..Len(v)
                 PROVE  Precedes(q, m[i].fact.turn, v[j])
      BY DEF RecordsFirst
    <3>1. j + 1 \in 1..Len(w) /\ j + 1 # 1 /\ 1 < j + 1
      BY <2>2, <1>2
    <3>2. CASE i \in 1..Len(l)
      <4>1. Precedes(q, l[i].fact.turn, w[j + 1])
        BY <3>1, <3>2 DEF Lane, RecordsFirst
      <4> QED BY <4>1, <3>2, <1>1, <2>2
    <3>3. CASE i = Len(l) + 1
      <4>1. Precedes(q, w[1], w[j + 1])
        BY <3>1, <1>4 DEF Lane, WaitsInOrder
      <4> QED BY <4>1, <3>3, <1>1, <1>5, <2>2
    <3> QED BY <3>2, <3>3, <1>3
  <2>4. Allowed
    BY <1>12
  <2>5. WaitsInOrder(q, sub, v)
    BY <2>1 DEF Lane, v
  <2> QED BY <2>3, <2>4, <2>5, <1>6, <1>10 DEF Lane, v
<1> QED BY <1>11, <1>12 DEF m, Terminals

LEMMA AllBeforeSubmitted ==
    ASSUME QueueInv, page # {}
    PROVE  \A a \in 1..Len(queue) : a < Row => queue[a].dispatch \in submitted
<1> SUFFICES ASSUME NEW a \in 1..Len(queue), a < Row
             PROVE  queue[a].dispatch \in submitted
  OBVIOUS
<1>1. Row \in page /\ Row \in 1..Len(queue) /\ \A i \in page : Row <= i
  BY RowIsFirst DEF QueueInv
<1> DEFINE m == Row
<1> HIDE DEF m
<1>2. m \in Nat /\ a < m /\ m \in page /\ \A i \in page : m <= i
  BY <1>1 DEF m
<1>3. a \in 1..m /\ a \notin page
  BY <1>2, LenProperties DEF QueueInv, QueueTypes
<1>4. queue[a].acked
  BY <1>2, <1>3 DEF QueueInv, PageIsComplete
<1> QED BY <1>4 DEF QueueInv, NoTurnDropped

LEMMA SubmitTurnLane ==
    ASSUME QueueInv, LaneInv, page # {}, SubmitTurn, UNCHANGED << queue, local >>
    PROVE  LaneInv'
<1> DEFINE m == Row
           d == queue[m].dispatch
<1>1. m \in 1..Len(queue) /\ Dispatch = d /\ d \in Dispatches
  BY RowIsFirst, DispatchType DEF QueueInv, Dispatch
<1>2. \A a \in 1..Len(queue) : a < m => queue[a].dispatch \in submitted
  BY AllBeforeSubmitted
<1>3. /\ waiting' = IF d \in submitted THEN waiting ELSE Append(waiting, d)
      /\ submitted' = submitted \cup {d}
  BY <1>1 DEF SubmitTurn
<1>4. /\ Len(queue) \in Nat /\ waiting \in Seq(Dispatches)
      /\ Rows(queue, submitted) /\ Lane(queue, submitted, waiting, local[First])
  BY LenProperties DEF QueueInv, QueueTypes, LaneInv
<1> HIDE DEF m
<1>5. Rows(queue, submitted')
  BY <1>1, <1>2, <1>3, <1>4, RowsSubmit
<1>6. CASE d \in submitted
  <2>1. waiting' = waiting /\ submitted' = submitted
    BY <1>3, <1>6
  <2> QED BY <2>1, <1>4 DEF LaneInv
<1>7. CASE d \notin submitted
  <2>1. \A e \in submitted : Precedes(queue, e, d)
    BY <1>1, <1>4, <1>7, NextIsLast
  <2> HIDE DEF d
  <2>2. Lane(queue, submitted \cup {d}, Append(waiting, d), local[First])
    BY <2>1, <1>1, <1>4, LaneSubmit
  <2>3. waiting' = Append(waiting, d)
    BY <1>3, <1>7
  <2> QED BY <2>2, <2>3, <1>3, <1>5 DEF LaneInv
<1> QED BY <1>6, <1>7

LEMMA EnqueueLane ==
    ASSUME QueueInv, LaneInv, NEW d \in Dispatches,
           queue' = queue \/ queue' = Enqueued(d),
           UNCHANGED << submitted, waiting >>, local'[First] = local[First]
    PROVE  LaneInv'
<1>1. CASE queue' = queue
  BY <1>1 DEF LaneInv
<1>2. CASE ~HasRow(d) /\ queue' = Append(queue, [dispatch |-> d, acked |-> FALSE])
  <2> DEFINE r == [dispatch |-> d, acked |-> FALSE]
  <2>1. r \in QueueRow /\ r.dispatch = d
    BY DEF QueueRow
  <2>2. queue' = Append(queue, r)
    BY <1>2
  <2> HIDE DEF r
  <2>3. queue \in Seq(QueueRow) /\ Len(queue) \in Nat
    BY LenProperties DEF QueueInv, QueueTypes
  <2>4. /\ Len(queue') = Len(queue) + 1
        /\ \A i \in 1..Len(queue) : queue'[i] = queue[i]
    BY <2>1, <2>2, <2>3, AppendProperties
  <2>5. \A a \in 1..Len(queue) : queue[a].dispatch # r.dispatch
    BY <1>2, <2>1 DEF HasRow
  <2>6. Rows(queue', submitted)
    BY <2>1, <2>2, <2>3, <2>5, RowsAppend DEF LaneInv
  <2>7. /\ Len(queue') \in Nat /\ Len(queue) <= Len(queue')
        /\ \A i \in 1..Len(queue) : queue'[i].dispatch = queue[i].dispatch
    BY <2>3, <2>4
  <2>8. \A x, y : Precedes(queue, x, y) => Precedes(queue', x, y)
    BY <2>3, <2>7, OrderKept, Zenon
  <2>9. Lane(queue', submitted, waiting, local[First])
    BY <2>8, LaneGrows DEF LaneInv
  <2> QED BY <2>6, <2>9 DEF LaneInv
<1> QED BY <1>1, <1>2 DEF Enqueued

\* An acknowledgement leaves the dispatches of the rows alone.
LEMMA AckLane ==
    ASSUME QueueInv, LaneInv, page # {}, queue' = queue \/ queue' = Acked,
           UNCHANGED << submitted, waiting, local >>
    PROVE  LaneInv'
<1> DEFINE m == Row
<1>1. m \in 1..Len(queue)
  BY RowIsFirst DEF QueueInv
<1>2. queue' = queue \/ queue' = [queue EXCEPT ![m] = [queue[m] EXCEPT !.acked = TRUE]]
  BY DEF Acked
<1> HIDE DEF m
<1>3. queue \in Seq(QueueRow) /\ Len(queue) \in Nat
  BY LenProperties DEF QueueInv, QueueTypes
<1>4. CASE queue' = [queue EXCEPT ![m] = [queue[m] EXCEPT !.acked = TRUE]]
  <2> DEFINE r == [queue[m] EXCEPT !.acked = TRUE]
  <2>1. queue[m] \in QueueRow
    BY <1>1, <1>3, ElementOfSeq
  <2>2. r \in QueueRow /\ r.dispatch = queue[m].dispatch
    BY <2>1 DEF QueueRow
  <2>3. queue' = [queue EXCEPT ![m] = r]
    BY <1>4
  <2> HIDE DEF r
  <2>4. Len(queue') = Len(queue)
    BY <2>2, <2>3, <1>1, <1>3, ExceptSeq
  <2>5. \A i \in 1..Len(queue) : queue'[i].dispatch = queue[i].dispatch
    BY <2>2, <2>3, <1>1, <1>3
  <2>6. Rows(queue', submitted)
    BY <2>4, <2>5 DEF LaneInv, Rows
  <2>7. Len(queue) <= Len(queue') /\ Len(queue') \in Nat
    BY <2>4, <1>3
  <2>8. \A x, y : Precedes(queue, x, y) => Precedes(queue', x, y)
    BY <1>3, <2>5, <2>7, OrderKept, Zenon
  <2>9. Lane(queue', submitted, waiting, local[First])
    BY <2>8, LaneGrows DEF LaneInv
  <2> QED BY <2>6, <2>9 DEF LaneInv
<1>5. CASE queue' = queue
  BY <1>5 DEF LaneInv
<1> QED BY <1>2, <1>4, <1>5

\* The record a propagator appends.
Entry(p, f) == [by |-> p, seq |-> Len(local[p]) + 1, fact |-> f]

LEMMA AppendsEntry ==
    ASSUME PropInv, NEW p \in Propagators, NEW f \in Facts, AppendLocal(p, f)
    PROVE  /\ Entry(p, f) \in Record /\ Entry(p, f).fact = f
           /\ local'[p] = Append(local[p], Entry(p, f))
           /\ \A q \in Propagators : q # p => local'[q] = local[q]
           /\ UNCHANGED parent
<1>1. Entry(p, f) \in Record /\ Entry(p, f).fact = f
  BY Lengths DEF PropInv, Entry, Record
<1>2. local' = [local EXCEPT ![p] = Append(local[p], Entry(p, f))] /\ UNCHANGED parent
  BY DEF AppendLocal, Entry
<1>3. local \in [Propagators -> Seq(Record)]
  BY DEF PropInv, PropagationTypeOK
<1> QED BY <1>1, <1>2, <1>3

\* What each step of a turn appends, and whether the turn leaves.
TurnMoves(k) ==
    \/ k = "submitted" /\ ~Started /\ ~Ending /\ waiting' = waiting
    \/ k = "completed" /\ Started /\ waiting' = waiting
    \/ k \in Terminals /\ Started /\ waiting' = Tail(waiting)
    \/ k = "failed" /\ Ending /\ waiting' = Tail(waiting)

LEMMA TurnLane ==
    ASSUME PropInv, QueueInv, LaneInv, TurnRecords
    PROVE  LaneInv'
<1> USE PropagationAssumption
<1>1. waiting # << >> /\ UNCHANGED << queue, submitted >>
  BY DEF TurnRecords, TurnStart, TurnEnd, TurnCompletionErrs, TurnFailsLate, TurnFault,
         childVars
<1>2. PICK k \in Terminals \cup {"submitted"} :
         AppendLocal(First, Fact(Head(waiting), k)) /\ TurnMoves(k)
  <2>1. CASE TurnStart
    BY <2>1 DEF TurnStart, childVars, TurnMoves
  <2>2. CASE TurnEnd
    BY <2>2 DEF TurnEnd, TurnMoves
  <2>3. CASE TurnCompletionErrs
    BY <2>3 DEF TurnCompletionErrs, TurnMoves, Terminals
  <2>4. CASE TurnFailsLate
    BY <2>4 DEF TurnFailsLate, TurnMoves, Terminals
  <2> QED BY <2>1, <2>2, <2>3, <2>4 DEF TurnRecords
<1> DEFINE f == Fact(Head(waiting), k)
           r == Entry(First, f)
           l == local[First]
           started == l # << >> /\ l[Len(l)].fact = Fact(waiting[1], "submitted")
           ending == l # << >> /\ l[Len(l)].fact = Fact(waiting[1], "completed")
<1>3. f \in Facts
  BY <1>1, TurnFacts
<1>4. r \in Record /\ r.fact = f /\ local'[First] = Append(l, r)
  BY <1>2, <1>3, AppendsEntry
<1>5. l \in Seq(Record) /\ waiting \in Seq(Dispatches)
  BY Lengths DEF PropInv, QueueInv, QueueTypes
<1>6. Head(waiting) = waiting[1]
  BY <1>1, <1>5, HeadTailProperties
<1>7. (Started <=> started) /\ (Ending <=> ending)
  BY <1>6 DEF Started, Ending, LastIs, Last
<1>8. r.fact = Fact(waiting[1], k)
  BY <1>4, <1>6
<1>9. Lane(queue, submitted, waiting, l)
  BY DEF LaneInv
<1> HIDE DEF r, l
<1>10. /\ k = "submitted" /\ ~started /\ ~ending => Lane(queue, submitted, waiting, Append(l, r))
       /\ k = "completed" /\ started => Lane(queue, submitted, waiting, Append(l, r))
       /\ k \in Terminals /\ started => Lane(queue, submitted, Tail(waiting), Append(l, r))
       /\ k = "failed" /\ ending => Lane(queue, submitted, Tail(waiting), Append(l, r))
  <2> HIDE DEF f
  <2>1. PICK x, y : x = started /\ y = ending
    OBVIOUS
  <2>2. /\ k = "submitted" /\ ~x /\ ~y => Lane(queue, submitted, waiting, Append(l, r))
        /\ k = "completed" /\ x => Lane(queue, submitted, waiting, Append(l, r))
        /\ k \in Terminals /\ x => Lane(queue, submitted, Tail(waiting), Append(l, r))
        /\ k = "failed" /\ y => Lane(queue, submitted, Tail(waiting), Append(l, r))
    BY <2>1, <1>1, <1>4, <1>5, <1>8, <1>9, LaneRecords
  <2> QED BY <2>1, <2>2
<1> HIDE DEF started, ending
<1>11. Lane(queue, submitted, waiting', local'[First])
  BY <1>2, <1>4, <1>7, <1>10 DEF TurnMoves
<1> QED BY <1>1, <1>11 DEF LaneInv

LEMMA LaneEmpties ==
    ASSUME LaneInv, UNCHANGED << queue, submitted >>, waiting' = << >>,
           local'[First] = local[First]
    PROVE  LaneInv'
BY DEF LaneInv, Lane, WaitsInOrder, RecordsFirst

(***************************************************************************)
(* How a step moves the streams.                                           *)
(***************************************************************************)
\* The parent's stream grows by what propagator p holds there.
ParentGrows(p) ==
    /\ Len(parent) <= Len(parent') /\ Len(parent') <= Len(local[p])
    /\ \A i \in 1..Len(parent) : parent'[i] = parent[i]
    /\ \A i \in 1..Len(parent') : parent'[i] = local[p][i]

StreamsMove ==
    \/ UNCHANGED << parent, local >>
    \/ UNCHANGED local /\ daemon = "up" /\ \E p \in Propagators : ParentGrows(p)
    \/ TurnRecords
    \/ \E q \in Others : AppendLocal(q, Fact(Spawn, "progress"))
    \/ \E q \in Others : TakeOver(q, First)

LEMMA PushMoves ==
    ASSUME PropInv, NEW p \in Propagators, NEW reply \in Replies, Push(p, reply),
           Reachable(reply)
    PROVE  \/ UNCHANGED << parent, local >>
           \/ UNCHANGED local /\ daemon = "up" /\ ParentGrows(p)
<1>1. pc[p] \in InBatch /\ UNCHANGED local
  BY DEF Push, InBatch
<1>2. CASE reply # "dropped" /\ PushVerdict(p) = "accepted"
  <2>1. Len(parent) = pushed[p] /\ daemon = "up"
    BY <1>2 DEF PushVerdict, Reachable
  <2>2. parent' = parent \o SubSeq(local[p], pushed[p] + 1, batchEnd[p])
    BY <1>2 DEF Push
  <2>3. /\ Len(parent') = batchEnd[p]
        /\ \A i \in 1..Len(parent) : parent'[i] = parent[i]
        /\ \A i \in 1..batchEnd[p] : parent'[i] = local[p][i]
    BY <1>1, <2>1, <2>2, Accepted, Zenon
  <2>4. pushed[p] <= batchEnd[p] /\ batchEnd[p] <= Len(local[p])
    BY <1>1 DEF PropInv, BatchInLocal
  <2> QED BY <1>1, <2>1, <2>3, <2>4 DEF ParentGrows
<1>3. CASE ~(reply # "dropped" /\ PushVerdict(p) = "accepted")
  <2>1. parent' = parent
    BY <1>3 DEF Push
  <2> QED BY <1>1, <2>1
<1> QED BY <1>2, <1>3

LEMMA StepMoves ==
    ASSUME PropInv, NEW p \in Propagators, NEW reply \in Replies,
           PropagateStep(p, reply), Reachable(reply)
    PROVE  StreamsMove
<1>1. CASE Push(p, reply)
  BY <1>1, PushMoves DEF StreamsMove
<1>2. CASE RenewIfDue(p, reply) \/ RenewAfterExpiry(p, reply) \/ Pull(p, reply)
  BY <1>2 DEF RenewIfDue, RenewAfterExpiry, Renew, Pull, StreamsMove
<1> QED BY <1>1, <1>2 DEF PropagateStep

LEMMA RemoteMoves ==
    ASSUME PropInv, [RemoteNext]_remoteVars
    PROVE  StreamsMove
<1> USE PropagationAssumption
<1>1. ASSUME UNCHANGED << parent, local >> PROVE StreamsMove
  BY <1>1 DEF StreamsMove
<1>2. ASSUME UNCHANGED propVars PROVE StreamsMove
  BY <1>1, <1>2 DEF propVars
<1>3. ASSUME NEW j \in Joiners, SettleRead(j) \/ SettleAppend(j) \/ SettleFails(j)
      PROVE  StreamsMove
  BY <1>2, <1>3 DEF SettleRead, SettleAppend, SettleFails
<1>4. CASE TurnEndUnrecorded \/ SpawnFails \/ ChildExitObserved \/ TailPoll
           \/ DaemonCrash \/ DaemonStart
  BY <1>2, <1>4 DEF TurnEndUnrecorded, SpawnFails, ChildExitObserved, TailPoll,
                    DaemonCrash, DaemonStart
<1>5. CASE SpawnChild
  BY <1>1, <1>5 DEF SpawnChild
<1>6. ASSUME NEW d \in Dispatches, Submit(d) PROVE StreamsMove
  BY <1>2, <1>6 DEF Submit
<1>7. CASE ChildPull \/ ChildAdmit
  BY <1>2, <1>7 DEF ChildPull, ChildAdmit
<1>8. ASSUME NEW reply \in Replies, ChildAck(reply) PROVE StreamsMove
  BY <1>2, <1>8 DEF ChildAck
<1>9. ASSUME NEW p \in Propagators, StartBatch(p) \/ Converged(p) \/ Reconcile(p) \/ Die(p)
      PROVE  StreamsMove
  BY <1>1, <1>9 DEF StartBatch, Converged, Reconcile, Die
<1>10. CASE ChildSync
  <2>1. \/ StartBatch(First) \/ Converged(First) \/ Reconcile(First)
        \/ \E reply \in Replies : Reachable(reply) /\ PropagateStep(First, reply)
    BY <1>10 DEF ChildSync
  <2> QED BY <2>1, <1>9, StepMoves
<1>11. CASE ChildSeesOrphan \/ ChildDies
  BY <1>9, <1>11 DEF ChildSeesOrphan, ChildDies
<1>12. CASE TurnRecords
  BY <1>12 DEF StreamsMove
<1>13. ASSUME NEW q \in Others, Replacement(q) PROVE StreamsMove
  <2>1. CASE Supersede(q)
    BY <1>1, <2>1 DEF Supersede
  <2>2. CASE TakeOver(q, First)
    BY <2>2 DEF StreamsMove
  <2> QED BY <1>13, <2>1, <2>2 DEF Replacement
<1>14. ASSUME NEW q \in Others, ReplacementStep(q) PROVE StreamsMove
  <2>1. \/ AppendLocal(q, Fact(Spawn, "progress"))
        \/ StartBatch(q) \/ Reconcile(q)
        \/ \E reply \in Replies : Reachable(reply) /\ PropagateStep(q, reply)
    BY <1>14 DEF ReplacementStep
  <2>2. q \in Propagators
    BY DEF Others
  <2>3. CASE AppendLocal(q, Fact(Spawn, "progress"))
    BY <2>3 DEF StreamsMove
  <2> QED BY <2>1, <2>2, <2>3, <1>9, StepMoves
<1>15. CASE LeaseExpires
  BY <1>1, <1>15 DEF LeaseExpires, Expire
<1>16. CASE UNCHANGED remoteVars
  BY <1>2, <1>16 DEF remoteVars
<1> QED BY <1>3, <1>4, <1>5, <1>6, <1>7, <1>8, <1>10, <1>11, <1>12, <1>13, <1>14,
           <1>15, <1>16 DEF RemoteNext, TurnRecords

LEMMA LaneStays ==
    ASSUME LaneInv, UNCHANGED << queue, submitted, waiting >>, local'[First] = local[First]
    PROVE  LaneInv'
BY DEF LaneInv

\* A step that is not a turn of the child leaves the child's stream alone.
LEMMA ChildStreamStays ==
    ASSUME PropInv, StreamsMove, ~TurnRecords
    PROVE  local'[First] = local[First]
<1>1. local \in [Propagators -> Seq(Record)] /\ First \in Propagators
  BY PropagationAssumption DEF PropInv, PropagationTypeOK
<1>2. ASSUME NEW q \in Others, AppendLocal(q, Fact(Spawn, "progress"))
      PROVE  local'[First] = local[First]
  BY <1>1, <1>2 DEF AppendLocal, Others
<1>3. ASSUME NEW q \in Others, TakeOver(q, First)
      PROVE  local'[First] = local[First]
  BY <1>1, <1>3 DEF TakeOver, Others
<1> QED BY <1>2, <1>3 DEF StreamsMove

LEMMA LaneKept ==
    PropInv /\ QueueInv /\ LaneInv /\ [RemoteNext]_remoteVars => LaneInv'
<1> SUFFICES ASSUME PropInv, QueueInv, LaneInv, [RemoteNext]_remoteVars PROVE LaneInv'
  OBVIOUS
<1>1. CASE TurnRecords
  BY <1>1, TurnLane
<1>2. CASE ~TurnRecords
  <2>1. local'[First] = local[First]
    BY <1>2, RemoteMoves, ChildStreamStays
  <2>2. ASSUME UNCHANGED << queue, submitted, waiting >> PROVE LaneInv'
    BY <2>1, <2>2, LaneStays
  <2>3. ASSUME UNCHANGED << queue, childVars >> PROVE LaneInv'
    BY <2>2, <2>3 DEF childVars
  <2>4. ASSUME NEW j \in Joiners, SettleRead(j) \/ SettleAppend(j) \/ SettleFails(j)
        PROVE  LaneInv'
    BY <2>3, <2>4 DEF SettleRead, SettleAppend, SettleFails
  <2>5. CASE ChildExitObserved \/ TailPoll \/ DaemonCrash \/ DaemonStart
    BY <2>3, <2>5 DEF ChildExitObserved, TailPoll, DaemonCrash, DaemonStart
  <2>6. CASE SpawnChild \/ SpawnFails
    BY <2>1, <2>6, EnqueueLane, RemoteAssumption DEF SpawnChild, SpawnFails, childVars
  <2>7. ASSUME NEW d \in Dispatches, Submit(d) PROVE LaneInv'
    BY <2>1, <2>7, EnqueueLane DEF Submit, childVars
  <2>8. CASE ChildPull
    BY <2>2, <2>8 DEF ChildPull
  <2>9. CASE ChildAdmit
    <3>1. page # {} /\ UNCHANGED << queue, local >>
      BY <2>9 DEF ChildAdmit, AtLoop, QueueInv, AtARow, propVars
    <3>2. SubmitTurn \/ UNCHANGED << waiting, submitted >>
      BY <2>9 DEF ChildAdmit
    <3> QED BY <3>1, <3>2, <2>2, SubmitTurnLane
  <2>10. ASSUME NEW reply \in Replies, ChildAck(reply) PROVE LaneInv'
    <3>1. page # {} /\ UNCHANGED << submitted, waiting, local >>
      BY <2>10 DEF ChildAck, AtLoop, QueueInv, AtARow, propVars
    <3>2. queue' = queue \/ queue' = Acked
      BY <2>10 DEF ChildAck
    <3> QED BY <3>1, <3>2, AckLane
  <2>11. CASE ChildSync \/ ChildSeesOrphan \/ ChildDies
    <3>1. UNCHANGED << queue, submitted >> /\ (waiting' = << >> \/ UNCHANGED waiting)
      BY <2>11 DEF ChildSync, ChildSeesOrphan, ChildDies, Forgets
    <3> QED BY <2>1, <2>2, <3>1, LaneEmpties
  <2>12. CASE LeaseExpires
    BY <2>3, <2>12 DEF LeaseExpires
  <2>13. ASSUME NEW q \in Others, Replacement(q) \/ ReplacementStep(q) PROVE LaneInv'
    BY <2>3, <2>13 DEF Replacement, ReplacementStep
  <2>14. CASE UNCHANGED remoteVars
    BY <2>3, <2>14 DEF remoteVars
  <2>15. CASE TurnEndUnrecorded
    <3>1. waiting # << >> /\ waiting' = Tail(waiting) /\ UNCHANGED << queue, submitted >>
      BY <2>15 DEF TurnEndUnrecorded, TurnFault
    <3> QED BY <2>1, <3>1, LanePops DEF LaneInv, QueueInv, QueueTypes
  <2> QED BY <1>2, <2>4, <2>5, <2>6, <2>7, <2>8, <2>9, <2>10, <2>11, <2>12, <2>13,
             <2>14, <2>15 DEF RemoteNext, TurnRecords
<1> QED BY <1>1, <1>2

(***************************************************************************)
(* Terminals.                                                              *)
(***************************************************************************)
\* A terminal occurs in stream s only as an echo of the child's stream l.
Echoes(s, l) ==
    \A i \in 1..Len(s) : s[i].fact.kind \in Terminals => i \in 1..Len(l) /\ s[i] = l[i]

EchoInv ==
    /\ Echoes(parent, local[First])
    /\ \A q \in Propagators : Echoes(local[q], local[First])

LEMMA EchoAppend ==
    ASSUME NEW s \in Seq(Record), NEW l \in Seq(Record), NEW r \in Record, Echoes(s, l)
    PROVE  /\ Echoes(s, Append(l, r))
           /\ r.fact.kind \notin Terminals => Echoes(Append(s, r), l)
<1> DEFINE m == Append(l, r)
           t == Append(s, r)
<1>1. /\ Len(l) \in Nat /\ Len(m) = Len(l) + 1
      /\ \A i \in 1..Len(l) : m[i] = l[i]
  BY AppendProperties, LenProperties
<1>2. /\ Len(s) \in Nat /\ Len(t) = Len(s) + 1
      /\ \A i \in 1..Len(s) : t[i] = s[i]
      /\ t[Len(s) + 1] = r
  BY AppendProperties, LenProperties
<1> HIDE DEF m, t
<1>3. Echoes(s, m)
  BY <1>1 DEF Echoes
<1>4. ASSUME r.fact.kind \notin Terminals PROVE Echoes(t, l)
  <2> SUFFICES ASSUME NEW i \in 1..Len(t), t[i].fact.kind \in Terminals
               PROVE  i \in 1..Len(l) /\ t[i] = l[i]
    BY DEF Echoes
  <2>1. i # Len(s) + 1
    BY <1>2, <1>4
  <2>2. i \in 1..Len(s) /\ t[i] = s[i]
    BY <2>1, <1>2
  <2> QED BY <2>2 DEF Echoes
<1> QED BY <1>3, <1>4 DEF m, t

LEMMA EchoKept == PropInv /\ QueueInv /\ EchoInv /\ StreamsMove => EchoInv'
<1> SUFFICES ASSUME PropInv, QueueInv, EchoInv, StreamsMove PROVE EchoInv'
  OBVIOUS
<1>1. /\ First \in Propagators /\ parent \in Seq(Record)
      /\ \A q \in Propagators : local[q] \in Seq(Record)
  BY PropagationAssumption, Lengths DEF PropInv, PropagationTypeOK
<1>2. CASE UNCHANGED << parent, local >>
  BY <1>2 DEF EchoInv
<1>3. ASSUME UNCHANGED local, NEW p \in Propagators, ParentGrows(p) PROVE EchoInv'
  <2>1. Len(parent') <= Len(local[p]) /\ \A i \in 1..Len(parent') : parent'[i] = local[p][i]
    BY <1>3 DEF ParentGrows
  <2>2. Echoes(local[p], local[First]) /\ Len(local[p]) \in Nat
    BY <1>1, LenProperties DEF EchoInv
  <2>3. ASSUME NEW i \in 1..Len(parent'), parent'[i].fact.kind \in Terminals
        PROVE  i \in 1..Len(local[First]) /\ parent'[i] = local[First][i]
    <3>1. i \in 1..Len(local[p]) /\ parent'[i] = local[p][i]
      BY <2>1, <2>2
    <3> QED BY <3>1, <2>2, <2>3 DEF Echoes
  <2>4. Echoes(parent', local[First])
    BY <2>3 DEF Echoes
  <2> QED BY <2>4, <1>3 DEF EchoInv
<1>4. CASE TurnRecords
  <2>1. PICK k \in Terminals \cup {"submitted"} : AppendLocal(First, Fact(Head(waiting), k))
    BY <1>4, TurnAppends
  <2> DEFINE r == Entry(First, Fact(Head(waiting), k))
  <2>2. Fact(Head(waiting), k) \in Facts
    BY <1>4, TurnAppends, TurnFacts
  <2>3. /\ r \in Record /\ local'[First] = Append(local[First], r)
        /\ \A q \in Propagators : q # First => local'[q] = local[q]
        /\ UNCHANGED parent
    BY <1>1, <2>1, <2>2, AppendsEntry
  <2> HIDE DEF r
  <2>4. Echoes(parent', local'[First])
    BY <1>1, <2>3, EchoAppend DEF EchoInv
  <2>5. ASSUME NEW q \in Propagators PROVE Echoes(local'[q], local'[First])
    <3>1. CASE q = First
      BY <3>1 DEF Echoes
    <3>2. CASE q # First
      BY <3>2, <1>1, <2>3, EchoAppend DEF EchoInv
    <3> QED BY <3>1, <3>2
  <2> QED BY <2>4, <2>5 DEF EchoInv
<1>5. ASSUME NEW q \in Others, AppendLocal(q, Fact(Spawn, "progress")) PROVE EchoInv'
  <2> DEFINE f == Fact(Spawn, "progress")
             r == Entry(q, f)
  <2>1. f \in Facts /\ q \in Propagators /\ q # First
    BY RemoteAssumption DEF Others
  <2>2. /\ r \in Record /\ r.fact = f /\ local'[q] = Append(local[q], r)
        /\ \A p \in Propagators : p # q => local'[p] = local[p]
        /\ UNCHANGED parent
    BY <1>5, <2>1, AppendsEntry
  <2>3. r.fact.kind \notin Terminals
    BY <2>2, KindsApart DEF Fact
  <2> HIDE DEF r, f
  <2>4. local'[First] = local[First]
    BY <1>1, <2>1, <2>2
  <2>5. ASSUME NEW p \in Propagators PROVE Echoes(local'[p], local[First])
    <3>1. CASE p = q
      BY <3>1, <1>1, <2>2, <2>3, EchoAppend DEF EchoInv
    <3>2. CASE p # q
      BY <3>2, <2>2 DEF EchoInv
    <3> QED BY <3>1, <3>2
  <2> QED BY <2>2, <2>4, <2>5 DEF EchoInv
<1>6. ASSUME NEW q \in Others, TakeOver(q, First) PROVE EchoInv'
  <2>1. q \in Propagators /\ q # First
    BY DEF Others
  <2>2. local' = [local EXCEPT ![q] = local[First]] /\ UNCHANGED parent
    BY <1>6 DEF TakeOver
  <2>3. local \in [Propagators -> Seq(Record)]
    BY DEF PropInv, PropagationTypeOK
  <2>4. local'[First] = local[First]
    BY <1>1, <2>1, <2>2, <2>3
  <2>5. ASSUME NEW p \in Propagators PROVE Echoes(local'[p], local[First])
    BY <2>1, <2>2, <2>3, <1>1 DEF EchoInv
  <2> QED BY <2>2, <2>4, <2>5 DEF EchoInv
<1> QED BY <1>2, <1>3, <1>4, <1>5, <1>6 DEF StreamsMove

\* Of two terminals of the spawn turn that the parent holds, the first is
\* its completion and the second the failure behind it.
LEMMA TerminalsInOrder ==
    ASSUME QueueInv, LaneInv, EchoInv,
           NEW i \in 1..Len(parent), NamesSpawnTurn(parent[i])
    PROVE  /\ parent[i].fact = Fact(Spawn, parent[i].fact.kind)
           /\ \A k \in 1..Len(parent) :
                 NamesSpawnTurn(parent[k]) /\ i < k => EndsTwice(parent[i], parent[k])
<1> DEFINE l == local[First]
<1>1. \A k \in 1..Len(parent) : NamesSpawnTurn(parent[k]) =>
         k \in 1..Len(l) /\ parent[k] = l[k] /\ Ends(l[k]) /\ l[k].fact.turn = Spawn
  BY DEF EchoInv, Echoes, NamesSpawnTurn, Ends
<1>2. Lane(queue, submitted, waiting, l) /\ Rows(queue, submitted) /\ Len(queue) \in Nat
  BY LenProperties DEF LaneInv, QueueInv, QueueTypes
<1> HIDE DEF l
<1>3. PICK d \in submitted : \E x \in Terminals \cup {"submitted"} : l[i].fact = Fact(d, x)
  BY <1>1, <1>2 DEF Lane, RecordsOf
<1>4. parent[i].fact = Fact(Spawn, parent[i].fact.kind)
  BY <1>1, <1>3 DEF Fact
<1>5. ~Precedes(queue, Spawn, Spawn)
  BY <1>2, Irreflexive
<1>6. ASSUME NEW k \in 1..Len(parent), NamesSpawnTurn(parent[k]), i < k
      PROVE  EndsTwice(parent[i], parent[k])
  <2>1. /\ i \in 1..Len(l) /\ Ends(l[i]) /\ l[i].fact.turn = Spawn /\ parent[i] = l[i]
        /\ k \in 1..Len(l) /\ Ends(l[k]) /\ l[k].fact.turn = Spawn /\ parent[k] = l[k]
    BY <1>1, <1>6
  <2>2. Precedes(queue, l[i].fact.turn, l[k].fact.turn) \/ EndsTwice(l[i], l[k])
    BY <2>1, <1>2, <1>6 DEF Lane, RecordsInOrder
  <2> QED BY <2>1, <2>2, <1>5
<1> QED BY <1>4, <1>6

LEMMA NamesDurable ==
    ASSUME NEW k \in Terminals, NEW i \in 1..Len(parent), parent[i].fact = Fact(Spawn, k)
    PROVE  NamesSpawnTurn(parent[i]) /\ parent[i].fact.kind = k
<1>1. parent[i].fact.kind = k /\ parent[i].fact.turn = Spawn
  BY DEF Fact
<1> QED BY <1>1 DEF NamesSpawnTurn

\* A completion the parent holds comes before any other terminal it holds.
LEMMA CompletionComesFirst ==
    ASSUME PropInv, QueueInv, LaneInv, EchoInv, Durable("completed"),
           NEW i \in 1..Len(parent), NamesSpawnTurn(parent[i]),
           \A k \in 1..Len(parent) : NamesSpawnTurn(parent[k]) => i <= k
    PROVE  parent[i].fact.kind = "completed"
<1>1. PICK c \in 1..Len(parent) : parent[c].fact = Fact(Spawn, "completed")
  BY DEF Durable
<1>2. NamesSpawnTurn(parent[c]) /\ parent[c].fact.kind = "completed"
  BY <1>1, NamesDurable DEF Terminals
<1>3. i <= c /\ Len(parent) \in Nat
  BY <1>2, Lengths DEF PropInv
<1>4. i < c => EndsTwice(parent[i], parent[c])
  BY <1>2, TerminalsInOrder
<1>5. ~EndsTwice(parent[i], parent[c])
  BY <1>2 DEF EndsTwice
<1>6. i = c
  BY <1>3, <1>4, <1>5
<1> QED BY <1>2, <1>6

\* The same of all terminals of the spawn turn, and in the next state.
TerminalsOrdered ==
    \A i, k \in 1..Len(parent) :
        NamesSpawnTurn(parent[i]) /\ NamesSpawnTurn(parent[k]) /\ i < k =>
            EndsTwice(parent[i], parent[k])

LEMMA TerminalsAreOrdered == QueueInv /\ LaneInv /\ EchoInv => TerminalsOrdered
BY TerminalsInOrder DEF TerminalsOrdered

LEMMA TerminalsAreOrderedNext == (QueueInv /\ LaneInv /\ EchoInv => TerminalsOrdered)'
BY TerminalsAreOrdered, PTL

\* What the parent holds stays.
LEMMA DurableGrows ==
    ASSUME Len(parent) \in Nat, Len(parent') \in Nat, Len(parent) <= Len(parent'),
           \A i \in 1..Len(parent) : parent'[i] = parent[i],
           NEW k, Durable(k)
    PROVE  Durable(k)'
<1>1. PICK i \in 1..Len(parent) : parent[i].fact = Fact(Spawn, k)
  BY DEF Durable
<1>2. i \in 1..Len(parent')
  OBVIOUS
<1> QED BY <1>1, <1>2 DEF Durable

\* No completion of the spawn turn comes behind a failure of it.
LEMMA FailureIsLast ==
    ASSUME Len(parent) \in Nat, Len(parent') \in Nat, Len(parent) <= Len(parent'),
           \A i \in 1..Len(parent) : parent'[i] = parent[i],
           TerminalsOrdered', Durable("failed"), ~Durable("completed")
    PROVE  ~Durable("completed")'
<1> SUFFICES ASSUME Durable("completed")' PROVE FALSE
  OBVIOUS
<1>1. PICK i \in 1..Len(parent) : parent[i].fact = Fact(Spawn, "failed")
  BY DEF Durable
<1>2. PICK c \in 1..Len(parent') : parent'[c].fact = Fact(Spawn, "completed")
  BY DEF Durable
<1>3. ~(c \in 1..Len(parent))
  BY <1>2 DEF Durable
<1>4. i < c /\ i \in 1..Len(parent') /\ parent'[i] = parent[i]
  BY <1>3
<1>5. NamesSpawnTurn(parent'[i]) /\ NamesSpawnTurn(parent'[c])
  BY <1>1, <1>2, <1>4 DEF Fact, NamesSpawnTurn, Terminals
<1>6. EndsTwice(parent'[i], parent'[c])
  BY <1>4, <1>5 DEF TerminalsOrdered
<1>7. parent'[c].fact.kind = "completed"
  BY <1>2 DEF Fact
<1> QED BY <1>6, <1>7 DEF EndsTwice

(***************************************************************************)
(* The parent's handle.                                                    *)
(***************************************************************************)
HandleTypes ==
    /\ daemon \in {"up", "down", "recovering"} /\ orphan \in BOOLEAN
    /\ exec \in {"none", "serving", "failed", "retried", "lost"}
    /\ monitored \in BOOLEAN /\ gaveUp \subseteq Joiners
    /\ tailAt \in 0..Len(parent) /\ tailJoined \in BOOLEAN
    /\ joins \in Seq([state : Terminals, by : Joiners])
    /\ settle \in [Joiners -> {None} \cup Settlements]
    /\ settle["tail"] # None => settle["tail"].upto \in 0..Len(parent)
    /\ crashes \in 0..MaxCrash /\ faults \in 0..MaxFault

\* A settlement of the tail or of the sweep carries what the parent holds.
\* The tail's stays true because no completion comes behind a failure, the
\* sweep's because a daemon that recovers takes no push.
TruthInv ==
    /\ settle["tail"] # None =>
          /\ Durable(settle["tail"].state)
          /\ settle["tail"].state = "completed" <=> Durable("completed")
    /\ settle["recovery"] # None =>
          /\ daemon = "recovering"
          /\ settle["recovery"].state = "completed" <=> Durable("completed")

\* Until the tail has folded a terminal it has passed none.
TailInv == ~tailJoined => \A i \in 1..tailAt : ~NamesSpawnTurn(parent[i])

\* Who is left to settle a handle that has no join, or gave up on it.
SettlerInv ==
    \/ Joined
    \/ /\ exec \in {"failed", "retried"} =>
             settle["executor"] # None \/ "executor" \in gaveUp
       /\ exec = "lost" => daemon # "up" \/ "recovery" \in gaveUp \/ Conflicting
       /\ monitored => settle["monitor"] # None \/ "monitor" \in gaveUp
       /\ ~tailJoined

HandleInv == HandleTypes /\ TruthInv /\ TailInv /\ SettlerInv

LEMMA JoinerNames == {"tail", "monitor", "executor", "recovery"} \subseteq Joiners
BY DEF Joiners

LEMMA Settled ==
    ASSUME HandleTypes, NEW j \in Joiners, NEW x \in {None} \cup Settlements,
           settle' = [settle EXCEPT ![j] = x]
    PROVE  /\ settle' \in [Joiners -> {None} \cup Settlements]
           /\ settle'[j] = x
           /\ \A k \in Joiners : k # j => settle'[k] = settle[k]
BY DEF HandleTypes

LEMMA FreshSettlement ==
    ASSUME NEW s \in Terminals, NEW u \in Nat
    PROVE  /\ Settlement(s, u) \in Settlements /\ Settlement(s, u) # None
           /\ Settlement(s, u).state = s /\ Settlement(s, u).upto = u
<1>1. Settlement(s, u) \in Settlements
  BY DEF Settlement, Settlements
<1>2. Settlement(s, u).state = s /\ Settlement(s, u).upto = u
  BY DEF Settlement
<1> QED BY <1>1, <1>2, RemoteAssumption

\* The parent's own state stays, but for a storage error a turn has met.
ParentStays ==
    /\ UNCHANGED << daemon, orphan, exec, monitored, tailAt, tailJoined,
                    joins, settle, gaveUp, crashes >>
    /\ faults' \in 0..MaxFault

\* A step of the child or of a replacement: the parent's stream may grow.
LEMMA HandleStays ==
    ASSUME HandleInv, PropInv, ParentStays, Len(parent') \in Nat,
           Len(parent) <= Len(parent'),
           \A i \in 1..Len(parent) : parent'[i] = parent[i],
           daemon # "up" => parent' = parent, TerminalsOrdered'
    PROVE  HandleInv'
<1>1. /\ UNCHANGED << daemon, orphan, exec, monitored, tailAt, tailJoined,
                      joins, settle, gaveUp, crashes >>
      /\ faults' \in 0..MaxFault
  BY DEF ParentStays
<1>2. Len(parent) \in Nat
  BY Lengths DEF PropInv
<1>3. \A k : Durable(k) => Durable(k)'
  BY <1>2, DurableGrows
<1>4. HandleTypes'
  BY <1>1, <1>2 DEF HandleInv, HandleTypes
<1>5. Durable("failed") /\ ~Durable("completed") => ~Durable("completed")'
  BY <1>2, FailureIsLast
<1>6. settle["recovery"] # None => parent' = parent
  BY DEF HandleInv, TruthInv
<1>7. TruthInv'
  <2>1. settle["tail"] # None => settle["tail"].state \in Terminals
    BY JoinerNames DEF HandleInv, HandleTypes, Settlements
  <2>2. settle["recovery"] # None =>
           (Durable("completed")' <=> Durable("completed"))
    BY <1>6 DEF Durable
  <2>3. ASSUME NEW s \in Terminals, Durable(s), s = "completed" <=> Durable("completed")
        PROVE  Durable(s)' /\ (s = "completed" <=> Durable("completed")')
    BY <2>3, <1>3, <1>5 DEF Terminals
  <2>4. settle["tail"] # None =>
           /\ Durable(settle["tail"].state)
           /\ settle["tail"].state = "completed" <=> Durable("completed")
    BY DEF HandleInv, TruthInv
  <2>5. settle'["tail"] # None =>
           /\ Durable(settle["tail"].state)'
           /\ settle'["tail"].state = "completed" <=> Durable("completed")'
    BY <1>1, <2>1, <2>3, <2>4 DEF Durable
  <2> QED BY <1>1, <2>2, <2>5 DEF HandleInv, TruthInv
<1>8. TailInv'
  <2>1. \A i \in 1..tailAt : i \in 1..Len(parent)
    BY <1>2 DEF HandleInv, HandleTypes
  <2> QED BY <1>1, <2>1 DEF HandleInv, TailInv
<1>9. SettlerInv'
  <2>1. Conflicting => Conflicting'
    BY <1>3 DEF Conflicting
  <2> QED BY <1>1, <2>1 DEF HandleInv, SettlerInv, Joined
<1> QED BY <1>4, <1>7, <1>8, <1>9 DEF HandleInv

\* The end of a settlement finds the handle joined.
LEMMA SettleDoneHandle ==
    ASSUME HandleInv, NEW j \in Joiners, settle[j] # None, SettleDone(j),
           UNCHANGED parent, joins' \in Seq([state : Terminals, by : Joiners]),
           joins' # << >>
    PROVE  HandleInv'
<1>1. /\ settle' = [settle EXCEPT ![j] = None]
      /\ tailAt' = IF j = "tail" THEN settle[j].upto ELSE tailAt
      /\ tailJoined' = (tailJoined \/ j = "tail")
      /\ daemon' = IF j = "recovery" THEN "up" ELSE daemon
      /\ UNCHANGED << orphan, exec, monitored, gaveUp, crashes, faults >>
  BY DEF SettleDone
<1>2. /\ settle' \in [Joiners -> {None} \cup Settlements]
      /\ settle'[j] = None
      /\ \A k \in Joiners : k # j => settle'[k] = settle[k]
  BY <1>1, Settled DEF HandleInv
<1>3. settle'["tail"] # None => settle'["tail"] = settle["tail"]
  BY <1>2, JoinerNames
<1>4. settle'["recovery"] # None => j # "recovery" /\ settle'["recovery"] = settle["recovery"]
  BY <1>2, JoinerNames
<1>5. HandleTypes'
  BY <1>1, <1>2, <1>3 DEF HandleInv, HandleTypes
<1>6. TruthInv'
  BY <1>1, <1>3, <1>4 DEF HandleInv, TruthInv, Durable
<1>7. TailInv'
  BY <1>1 DEF HandleInv, TailInv
<1>8. SettlerInv'
  BY DEF SettlerInv, Joined
<1> QED BY <1>5, <1>6, <1>7, <1>8 DEF HandleInv

\* A settlement goes on with the state and the page it began with.
LEMMA SettleGoesOn ==
    ASSUME HandleInv, NEW j \in Joiners, settle[j] # None, NEW n \in Nat,
           settle' = [settle EXCEPT ![j].next = n],
           UNCHANGED << parent, daemon, orphan, exec, monitored, tailAt,
                        tailJoined, joins, gaveUp, crashes, faults >>
    PROVE  HandleInv'
<1> DEFINE x == [settle[j] EXCEPT !.next = n]
<1>0. settle[j] \in Settlements
  BY DEF HandleInv, HandleTypes
<1>1. x \in Settlements /\ x.state = settle[j].state /\ x.upto = settle[j].upto
  BY <1>0 DEF Settlements
<1>2. settle' = [settle EXCEPT ![j] = x]
  OBVIOUS
<1> HIDE DEF x
<1>3. x # None
  BY <1>1, RemoteAssumption
<1>4. /\ settle' \in [Joiners -> {None} \cup Settlements]
      /\ settle'[j] = x
      /\ \A k \in Joiners : k # j => settle'[k] = settle[k]
  BY <1>1, <1>2, Settled DEF HandleInv
<1>5. \A k \in Joiners : /\ settle'[k] # None <=> settle[k] # None
                         /\ settle'[k] # None => /\ settle'[k].state = settle[k].state
                                                 /\ settle'[k].upto = settle[k].upto
  BY <1>1, <1>3, <1>4
<1>6. HandleTypes'
  BY <1>4, <1>5, JoinerNames DEF HandleInv, HandleTypes
<1>7. TruthInv'
  BY <1>5, JoinerNames DEF HandleInv, TruthInv, Durable
<1>8. SettlerInv' /\ TailInv'
  <2>1. Conflicting' <=> Conflicting
    BY DEF Conflicting, Durable
  <2> QED BY <1>5, <2>1, JoinerNames DEF HandleInv, SettlerInv, TailInv, Joined
<1> QED BY <1>6, <1>7, <1>8 DEF HandleInv

LEMMA SettleReadHandle ==
    ASSUME HandleInv, NEW j \in Joiners, SettleRead(j)
    PROVE  HandleInv'
<1>1. settle[j] # None /\ UNCHANGED parent
  BY DEF SettleRead, propVars
<1>2. joins \in Seq([state : Terminals, by : Joiners]) /\ Len(joins) \in Nat
  BY LenProperties DEF HandleInv, HandleTypes
<1>3. CASE Joined
  BY <1>1, <1>2, <1>3, SettleDoneHandle DEF SettleRead, Joined
<1>4. CASE ~Joined
  <2>1. Len(joins) + 1 \in Nat
    BY <1>2
  <2>2. /\ settle' = [settle EXCEPT ![j].next = Len(joins) + 1]
        /\ UNCHANGED << daemon, orphan, exec, monitored, tailAt,
                        tailJoined, joins, gaveUp, crashes, faults >>
    BY <1>4 DEF SettleRead
  <2> QED BY <1>1, <2>1, <2>2, SettleGoesOn, Zenon
<1> QED BY <1>3, <1>4

LEMMA SettleAppendHandle ==
    ASSUME HandleInv, NEW j \in Joiners, SettleAppend(j)
    PROVE  HandleInv'
<1>1. settle[j] # None /\ UNCHANGED parent
  BY DEF SettleAppend, propVars
<1>2. CASE settle[j].next = Len(joins) + 1
  <2> DEFINE r == [state |-> settle[j].state, by |-> j]
  <2>1. joins' = Append(joins, r) /\ SettleDone(j)
    BY <1>2 DEF SettleAppend
  <2>2. settle[j] \in Settlements
    BY <1>1 DEF HandleInv, HandleTypes
  <2>3. r \in [state : Terminals, by : Joiners]
    BY <2>2 DEF Settlements
  <2>4. joins \in Seq([state : Terminals, by : Joiners]) /\ Len(joins) \in Nat
    BY LenProperties DEF HandleInv, HandleTypes
  <2> HIDE DEF r
  <2>5. joins' \in Seq([state : Terminals, by : Joiners]) /\ Len(joins') = Len(joins) + 1
    BY <2>1, <2>3, <2>4, AppendProperties
  <2>6. joins' # << >>
    BY <2>4, <2>5
  <2> QED BY <1>1, <2>1, <2>5, <2>6, SettleDoneHandle
<1>3. CASE settle[j].next # Len(joins) + 1
  <2>1. /\ settle' = [settle EXCEPT ![j].next = 0]
        /\ UNCHANGED << daemon, orphan, exec, monitored, tailAt,
                        tailJoined, joins, gaveUp, crashes, faults >>
    BY <1>3 DEF SettleAppend
  <2> QED BY <1>1, <2>1, SettleGoesOn
<1> QED BY <1>2, <1>3

\* A settlement that fails is tried again, taken up by the tail's next poll,
\* or given up.
LEMMA SettleFailsHandle ==
    ASSUME HandleInv, NEW j \in Joiners, SettleFails(j)
    PROVE  HandleInv'
<1>1. /\ settle[j] # None /\ faults < MaxFault /\ faults' = faults + 1
      /\ UNCHANGED << parent, orphan, monitored, tailAt, tailJoined, joins, crashes >>
  BY DEF SettleFails, propVars
<1>2. faults' \in 0..MaxFault
  BY <1>1, RemoteAssumption DEF HandleInv, HandleTypes
<1>3. TailInv' /\ (Conflicting' <=> Conflicting)
  BY <1>1 DEF HandleInv, TailInv, Conflicting, Durable
<1>4. ASSUME j = "executor", exec = "failed", exec' = "retried",
             settle' = [settle EXCEPT ![j] = Settlement("failed", 0)],
             UNCHANGED << daemon, gaveUp >>
      PROVE  HandleInv'
  <2> DEFINE x == Settlement("failed", 0)
  <2>1. x \in Settlements /\ x # None
    BY FreshSettlement DEF Terminals
  <2>2. settle' = [settle EXCEPT ![j] = x]
    BY <1>4
  <2> HIDE DEF x
  <2>3. /\ settle' \in [Joiners -> {None} \cup Settlements]
        /\ settle'["executor"] = x
        /\ \A k \in Joiners : k # "executor" => settle'[k] = settle[k]
    BY <1>4, <2>1, <2>2, Settled DEF HandleInv
  <2>4. HandleTypes' /\ TruthInv'
    BY <1>1, <1>2, <1>4, <2>3, JoinerNames DEF HandleInv, HandleTypes, TruthInv, Durable
  <2>5. SettlerInv'
    BY <1>1, <1>3, <1>4, <2>1, <2>3, JoinerNames DEF HandleInv, SettlerInv, Joined
  <2> QED BY <1>3, <2>4, <2>5 DEF HandleInv
<1>5. ASSUME settle' = [settle EXCEPT ![j] = None],
             daemon' = IF j = "recovery" THEN "up" ELSE daemon,
             gaveUp' = gaveUp \cup ({j} \ {"tail"}),
             UNCHANGED exec
      PROVE  HandleInv'
  <2>1. /\ settle' \in [Joiners -> {None} \cup Settlements]
        /\ settle'[j] = None
        /\ \A k \in Joiners : k # j => settle'[k] = settle[k]
    BY <1>5, Settled DEF HandleInv
  <2>2. settle'["tail"] # None => settle'["tail"] = settle["tail"]
    BY <2>1, JoinerNames
  <2>3. settle'["recovery"] # None =>
           j # "recovery" /\ settle'["recovery"] = settle["recovery"]
    BY <2>1, JoinerNames
  <2>4. \A k \in {"monitor", "executor", "recovery"} :
           \/ settle'[k] = settle[k] /\ k # j
           \/ k = j /\ k \in gaveUp'
    BY <1>5, <2>1, JoinerNames
  <2>5. gaveUp \subseteq gaveUp' /\ gaveUp' \subseteq Joiners
    BY <1>5 DEF HandleInv, HandleTypes
  <2>6. HandleTypes'
    BY <1>1, <1>2, <1>5, <2>1, <2>2, <2>5 DEF HandleInv, HandleTypes
  <2>7. TruthInv'
    BY <1>1, <1>5, <2>2, <2>3 DEF HandleInv, TruthInv, Durable
  <2>8. SettlerInv'
    BY <1>1, <1>3, <1>5, <2>4, <2>5 DEF HandleInv, SettlerInv, Joined
  <2> QED BY <1>3, <2>6, <2>7, <2>8 DEF HandleInv
<1> QED BY <1>4, <1>5 DEF SettleFails

LEMMA SpawnHandle == HandleInv /\ (SpawnChild \/ SpawnFails) => HandleInv'
<1> SUFFICES ASSUME HandleInv, SpawnChild \/ SpawnFails PROVE HandleInv'
  OBVIOUS
<1>1. CASE SpawnChild
  <2>1. /\ exec' = "serving"
        /\ UNCHANGED << parent, daemon, orphan, monitored, tailAt, tailJoined,
                        joins, settle, gaveUp, crashes, faults >>
    BY <1>1 DEF SpawnChild
  <2>2. HandleTypes' /\ TruthInv'
    BY <2>1 DEF HandleInv, HandleTypes, TruthInv, Durable
  <2>3. SettlerInv' /\ TailInv'
    BY <2>1 DEF HandleInv, SettlerInv, TailInv, Joined
  <2> QED BY <2>2, <2>3 DEF HandleInv
<1>2. CASE SpawnFails
  <2> DEFINE x == Settlement("failed", 0)
  <2>1. /\ exec' = "failed" /\ settle' = [settle EXCEPT !["executor"] = x]
        /\ UNCHANGED << parent, daemon, orphan, monitored, tailAt, tailJoined,
                        joins, gaveUp, crashes, faults >>
    BY <1>2 DEF SpawnFails, propVars
  <2>2. x \in Settlements /\ x # None
    BY FreshSettlement DEF Terminals
  <2> HIDE DEF x
  <2>3. /\ settle' \in [Joiners -> {None} \cup Settlements]
        /\ settle'["executor"] = x
        /\ \A k \in Joiners : k # "executor" => settle'[k] = settle[k]
    BY <2>1, <2>2, JoinerNames, Settled DEF HandleInv
  <2>4. HandleTypes' /\ TruthInv'
    BY <2>1, <2>3, JoinerNames DEF HandleInv, HandleTypes, TruthInv, Durable
  <2>5. SettlerInv' /\ TailInv'
    BY <2>1, <2>2, <2>3, JoinerNames DEF HandleInv, SettlerInv, TailInv, Joined
  <2> QED BY <2>4, <2>5 DEF HandleInv
<1> QED BY <1>1, <1>2

LEMMA ChildExitHandle == HandleInv /\ ChildExitObserved => HandleInv'
<1> SUFFICES ASSUME HandleInv, ChildExitObserved PROVE HandleInv'
  OBVIOUS
<1> DEFINE x == Settlement("failed", 0)
<1>1. /\ monitored' = TRUE /\ settle' = [settle EXCEPT !["monitor"] = x]
      /\ UNCHANGED << parent, daemon, orphan, exec, tailAt, tailJoined,
                      joins, gaveUp, crashes, faults >>
  BY DEF ChildExitObserved, propVars
<1>2. x \in Settlements /\ x # None
  BY FreshSettlement DEF Terminals
<1> HIDE DEF x
<1>3. /\ settle' \in [Joiners -> {None} \cup Settlements]
      /\ settle'["monitor"] = x
      /\ \A k \in Joiners : k # "monitor" => settle'[k] = settle[k]
  BY <1>1, <1>2, JoinerNames, Settled DEF HandleInv
<1>4. HandleTypes' /\ TruthInv'
  BY <1>1, <1>3, JoinerNames DEF HandleInv, HandleTypes, TruthInv, Durable
<1>5. SettlerInv' /\ TailInv'
  <2>1. Conflicting' <=> Conflicting
    BY <1>1 DEF Conflicting, Durable
  <2> QED BY <1>1, <1>2, <1>3, <2>1, JoinerNames
          DEF HandleInv, SettlerInv, TailInv, Joined
<1> QED BY <1>4, <1>5 DEF HandleInv

\* What a fold of the parent's stream finds is the first terminal there.
LEMMA FoldFinds ==
    ASSUME PropInv, NEW from \in Nat, TerminalsAfter(from) # {}
    PROVE  \E i \in TerminalsAfter(from) :
              /\ i \in 1..Len(parent) /\ NamesSpawnTurn(parent[i])
              /\ FirstTerminal(from) = parent[i].fact.kind
              /\ \A k \in TerminalsAfter(from) : i <= k
<1>1. Len(parent) \in Nat
  BY Lengths DEF PropInv
<1>2. TerminalsAfter(from) \in SUBSET Nat
  BY <1>1 DEF TerminalsAfter
<1>3. \E i \in TerminalsAfter(from) : \A k \in TerminalsAfter(from) : i <= k
  BY <1>2, LeastNatural, Zenon
<1> DEFINE i == CHOOSE i \in TerminalsAfter(from) : \A k \in TerminalsAfter(from) : i <= k
<1>4. /\ i \in TerminalsAfter(from) /\ FirstTerminal(from) = parent[i].fact.kind
      /\ \A k \in TerminalsAfter(from) : i <= k
  BY <1>3 DEF FirstTerminal
<1> HIDE DEF i
<1>5. i \in 1..Len(parent) /\ NamesSpawnTurn(parent[i])
  BY <1>1, <1>4 DEF TerminalsAfter
<1> QED BY <1>4, <1>5

\* With no terminal before it, that one says whether the turn completed.
LEMMA FoldIsTrue ==
    ASSUME PropInv, QueueInv, LaneInv, EchoInv, NEW from \in Nat,
           from <= Len(parent), TerminalsAfter(from) # {},
           \A i \in 1..from : ~NamesSpawnTurn(parent[i])
    PROVE  /\ FirstTerminal(from) \in Terminals /\ Durable(FirstTerminal(from))
           /\ FirstTerminal(from) = "completed" <=> Durable("completed")
<1>0. Len(parent) \in Nat
  BY Lengths DEF PropInv
<1>1. PICK i \in 1..Len(parent) :
         /\ NamesSpawnTurn(parent[i]) /\ FirstTerminal(from) = parent[i].fact.kind
         /\ \A k \in TerminalsAfter(from) : i <= k
  BY FoldFinds
<1>2. parent[i].fact.kind \in Terminals
  BY <1>1 DEF NamesSpawnTurn
<1>3. Durable(parent[i].fact.kind)
  BY <1>1, TerminalsInOrder DEF Durable
<1>4. \A k \in 1..Len(parent) : NamesSpawnTurn(parent[k]) => i <= k
  <2> SUFFICES ASSUME NEW k \in 1..Len(parent), NamesSpawnTurn(parent[k]) PROVE i <= k
    OBVIOUS
  <2>1. k \in (from + 1)..Len(parent)
    BY <1>0
  <2> QED BY <1>1, <2>1 DEF TerminalsAfter
<1>5. Durable("completed") => parent[i].fact.kind = "completed"
  BY <1>1, <1>4, CompletionComesFirst
<1> QED BY <1>1, <1>2, <1>3, <1>5

LEMMA TailPollHandle ==
    ASSUME PropInv, QueueInv, LaneInv, EchoInv, HandleInv, TailPoll
    PROVE  HandleInv'
<1>1. /\ tailAt < Len(parent)
      /\ UNCHANGED << parent, daemon, orphan, exec, monitored, tailJoined,
                      joins, gaveUp, crashes, faults >>
  BY DEF TailPoll, propVars
<1>2. Len(parent) \in Nat /\ tailAt \in Nat
  BY Lengths DEF PropInv, HandleInv, HandleTypes
<1>5. Conflicting' <=> Conflicting
  BY <1>1 DEF Conflicting, Durable
<1>3. CASE ~tailJoined /\ TerminalsAfter(tailAt) # {}
  <2> DEFINE s == FirstTerminal(tailAt)
             x == Settlement(s, Len(parent))
  <2>1. \A i \in 1..tailAt : ~NamesSpawnTurn(parent[i])
    BY <1>3 DEF HandleInv, TailInv
  <2>2. s \in Terminals
    BY <1>1, <1>2, <1>3, <2>1, FoldIsTrue
  <2>3. Durable(s) /\ (s = "completed" <=> Durable("completed"))
    BY <1>1, <1>2, <1>3, <2>1, FoldIsTrue
  <2>4. x \in Settlements /\ x # None /\ x.state = s /\ x.upto = Len(parent)
    BY <1>2, <2>2, FreshSettlement
  <2>5. settle' = [settle EXCEPT !["tail"] = x] /\ UNCHANGED tailAt
    BY <1>3 DEF TailPoll
  <2> HIDE DEF x, s
  <2>6. /\ settle' \in [Joiners -> {None} \cup Settlements]
        /\ settle'["tail"] = x
        /\ \A k \in Joiners : k # "tail" => settle'[k] = settle[k]
    BY <2>4, <2>5, JoinerNames, Settled DEF HandleInv
  <2>7. HandleTypes'
    BY <1>1, <1>2, <2>4, <2>5, <2>6 DEF HandleInv, HandleTypes
  <2>8. TruthInv'
    BY <1>1, <2>3, <2>4, <2>6, JoinerNames DEF HandleInv, TruthInv, Durable
  <2>9. SettlerInv' /\ TailInv'
    BY <1>1, <1>5, <2>5, <2>6, JoinerNames DEF HandleInv, SettlerInv, TailInv, Joined
  <2> QED BY <2>7, <2>8, <2>9 DEF HandleInv
<1>4. CASE ~(~tailJoined /\ TerminalsAfter(tailAt) # {})
  <2>1. tailAt' = Len(parent) /\ UNCHANGED settle
    BY <1>4 DEF TailPoll
  <2>2. HandleTypes' /\ TruthInv'
    BY <1>1, <1>2, <2>1 DEF HandleInv, HandleTypes, TruthInv, Durable
  <2>3. ASSUME ~tailJoined, NEW i \in 1..Len(parent) PROVE ~NamesSpawnTurn(parent[i])
    <3>1. CASE i \in 1..tailAt
      BY <2>3, <3>1 DEF HandleInv, TailInv
    <3>2. CASE i \in (tailAt + 1)..Len(parent)
      BY <1>4, <2>3, <3>2 DEF TerminalsAfter
    <3> QED BY <3>1, <3>2, <1>2
  <2>4. TailInv'
    BY <1>1, <2>1, <2>3 DEF TailInv
  <2>5. SettlerInv'
    BY <1>1, <1>5, <2>1 DEF HandleInv, SettlerInv, Joined
  <2> QED BY <2>2, <2>4, <2>5 DEF HandleInv
<1> QED BY <1>3, <1>4

LEMMA DaemonCrashHandle == HandleInv /\ DaemonCrash => HandleInv'
<1> SUFFICES ASSUME HandleInv, DaemonCrash PROVE HandleInv'
  OBVIOUS
<1>1. /\ daemon' = "down" /\ crashes < MaxCrash /\ crashes' = crashes + 1
      /\ orphan' = TRUE /\ exec' = "lost" /\ monitored' = FALSE
      /\ tailAt' = 0 /\ tailJoined' = FALSE
      /\ settle' = [j \in Joiners |-> None] /\ gaveUp' = {}
      /\ UNCHANGED << parent, joins, faults >>
  BY DEF DaemonCrash, propVars
<1>2. \A j \in Joiners : settle'[j] = None
  BY <1>1
<1>3. 0 \in 0..Len(parent)
  BY DEF HandleInv, HandleTypes
<1>4. HandleTypes'
  <2>1. settle' \in [Joiners -> {None} \cup Settlements]
    BY <1>1
  <2>2. crashes' \in 0..MaxCrash
    BY <1>1, RemoteAssumption DEF HandleInv, HandleTypes
  <2>3. settle'["tail"] = None
    BY <1>2, JoinerNames
  <2> QED BY <1>1, <1>3, <2>1, <2>2, <2>3 DEF HandleInv, HandleTypes
<1>5. TruthInv'
  BY <1>2, JoinerNames DEF TruthInv
<1>6. SettlerInv' /\ TailInv'
  BY <1>1 DEF SettlerInv, TailInv
<1> QED BY <1>4, <1>5, <1>6 DEF HandleInv

\* The sweep's state is completed exactly when the completion is durable.
LEMMA RecoveredIsTrue ==
    ASSUME PropInv, QueueInv, LaneInv, EchoInv
    PROVE  Recovered \in Terminals /\ (Recovered = "completed" <=> Durable("completed"))
<1>0. Len(parent) \in Nat
  BY Lengths DEF PropInv
<1>1. ASSUME NEW k \in Terminals, NEW i \in 1..Len(parent), parent[i].fact = Fact(Spawn, k)
      PROVE  i \in TerminalsAfter(0)
  BY <1>0, <1>1, NamesDurable DEF TerminalsAfter
<1>2. CASE TerminalsAfter(0) = {}
  <2>1. Recovered = "failed"
    BY <1>2 DEF Recovered
  <2>2. ~Durable("completed")
    BY <1>1, <1>2 DEF Durable, Terminals
  <2> QED BY <2>1, <2>2 DEF Terminals
<1>3. CASE TerminalsAfter(0) # {}
  BY <1>0, <1>3, FoldIsTrue DEF Recovered
<1> QED BY <1>2, <1>3

LEMMA DaemonStartHandle ==
    ASSUME PropInv, QueueInv, LaneInv, EchoInv, HandleInv, DaemonStart
    PROVE  HandleInv'
<1>1. /\ daemon = "down"
      /\ UNCHANGED << parent, orphan, exec, monitored, tailAt, tailJoined,
                      joins, gaveUp, crashes, faults >>
  BY DEF DaemonStart, propVars
<1>0. TailInv' /\ (Conflicting' <=> Conflicting)
  BY <1>1 DEF HandleInv, TailInv, Conflicting, Durable
<1>2. CASE Joined \/ Conflicting
  <2>1. daemon' = "up" /\ UNCHANGED settle
    BY <1>2 DEF DaemonStart
  <2>2. settle["recovery"] = None
    BY <1>1 DEF HandleInv, TruthInv
  <2>3. HandleTypes' /\ TruthInv'
    BY <1>1, <2>1, <2>2 DEF HandleInv, HandleTypes, TruthInv, Durable
  <2>4. SettlerInv'
    BY <1>0, <1>1, <1>2, <2>1 DEF HandleInv, SettlerInv, Joined
  <2> QED BY <1>0, <2>3, <2>4 DEF HandleInv
<1>3. CASE ~(Joined \/ Conflicting)
  <2> DEFINE x == Settlement(Recovered, 0)
  <2>1. daemon' = "recovering" /\ settle' = [settle EXCEPT !["recovery"] = x]
    BY <1>3 DEF DaemonStart
  <2>2. x \in Settlements /\ x # None /\ x.state = Recovered
    BY RecoveredIsTrue, FreshSettlement
  <2> HIDE DEF x
  <2>3. /\ settle' \in [Joiners -> {None} \cup Settlements]
        /\ settle'["recovery"] = x
        /\ \A k \in Joiners : k # "recovery" => settle'[k] = settle[k]
    BY <2>1, <2>2, JoinerNames, Settled DEF HandleInv
  <2>4. HandleTypes'
    BY <1>1, <2>1, <2>3, JoinerNames DEF HandleInv, HandleTypes
  <2>5. TruthInv'
    BY <1>1, <2>1, <2>2, <2>3, RecoveredIsTrue, JoinerNames DEF HandleInv, TruthInv, Durable
  <2>6. SettlerInv'
    BY <1>1, <2>1, <2>3, JoinerNames DEF HandleInv, SettlerInv, Joined
  <2> QED BY <1>0, <2>4, <2>5, <2>6 DEF HandleInv
<1> QED BY <1>2, <1>3

LEMMA HandleKept ==
    PropInv /\ QueueInv /\ LaneInv /\ EchoInv /\ HandleInv /\ [RemoteNext]_remoteVars
        => HandleInv'
<1> SUFFICES ASSUME PropInv, QueueInv, LaneInv, EchoInv, HandleInv,
                    [RemoteNext]_remoteVars
             PROVE  HandleInv'
  OBVIOUS
<1>0. TerminalsOrdered'
  <2>1. QueueInv' /\ LaneInv' /\ EchoInv'
    BY QueueKept, LaneKept, RemoteMoves, EchoKept
  <2> QED BY <2>1, TerminalsAreOrderedNext
<1>1. ASSUME ParentStays PROVE HandleInv'
  <2>0. Len(parent) \in Nat /\ \A p \in Propagators : Len(local[p]) \in Nat
    BY Lengths DEF PropInv
  <2>1. CASE parent' = parent
    BY <1>0, <1>1, <2>0, <2>1, HandleStays
  <2>2. ASSUME daemon = "up", NEW p \in Propagators, ParentGrows(p) PROVE HandleInv'
    <3>1. Len(parent') \in Nat
      BY StreamsKept, Lengths DEF PropInv, PropagationTypeOK
    <3>2. /\ Len(parent) <= Len(parent')
          /\ \A i \in 1..Len(parent) : parent'[i] = parent[i]
      BY <2>2 DEF ParentGrows
    <3> QED BY <1>0, <1>1, <2>2, <3>1, <3>2, HandleStays
  <2>3. CASE TurnRecords
    BY <2>1, <2>3, TurnAppends DEF AppendLocal
  <2>4. ASSUME NEW q \in Others,
               AppendLocal(q, Fact(Spawn, "progress")) \/ TakeOver(q, First)
        PROVE  HandleInv'
    BY <2>1, <2>4 DEF AppendLocal, TakeOver
  <2> QED BY <2>1, <2>2, <2>3, <2>4, RemoteMoves DEF StreamsMove
<1>15. ASSUME UNCHANGED parentVars PROVE HandleInv'
  <2>1. ParentStays
    BY <1>15 DEF parentVars, ParentStays, HandleInv, HandleTypes
  <2> QED BY <1>1, <2>1
<1>16. ASSUME TurnFault PROVE HandleInv'
  <2>1. faults' \in 0..MaxFault
    BY <1>16, RemoteAssumption DEF TurnFault, HandleInv, HandleTypes
  <2>2. ParentStays
    BY <1>16, <2>1 DEF TurnFault, ParentStays
  <2> QED BY <1>1, <2>2
<1>17. CASE TurnCompletionErrs \/ TurnEndUnrecorded
  BY <1>16, <1>17 DEF TurnCompletionErrs, TurnEndUnrecorded
<1>2. ASSUME NEW j \in Joiners, SettleRead(j) PROVE HandleInv'
  BY <1>2, SettleReadHandle
<1>3. ASSUME NEW j \in Joiners, SettleAppend(j) PROVE HandleInv'
  BY <1>3, SettleAppendHandle
<1>4. ASSUME NEW j \in Joiners, SettleFails(j) PROVE HandleInv'
  BY <1>4, SettleFailsHandle
<1>5. CASE SpawnChild \/ SpawnFails
  BY <1>5, SpawnHandle
<1>6. CASE ChildExitObserved
  BY <1>6, ChildExitHandle
<1>7. CASE TailPoll
  BY <1>7, TailPollHandle
<1>8. CASE DaemonCrash
  BY <1>8, DaemonCrashHandle
<1>9. CASE DaemonStart
  BY <1>9, DaemonStartHandle
<1>10. ASSUME NEW d \in Dispatches, Submit(d) PROVE HandleInv'
  BY <1>15, <1>10 DEF Submit
<1>11. CASE ChildPull \/ ChildAdmit \/ ChildSync \/ ChildSeesOrphan \/ ChildDies
            \/ TurnStart \/ TurnEnd \/ TurnFailsLate \/ LeaseExpires
  BY <1>15, <1>11 DEF ChildPull, ChildAdmit, ChildSync, ChildSeesOrphan, ChildDies,
                     TurnStart, TurnEnd, TurnFailsLate, LeaseExpires
<1>12. ASSUME NEW reply \in Replies, ChildAck(reply) PROVE HandleInv'
  BY <1>15, <1>12 DEF ChildAck
<1>13. ASSUME NEW q \in Others, Replacement(q) \/ ReplacementStep(q) PROVE HandleInv'
  BY <1>15, <1>13 DEF Replacement, ReplacementStep
<1>14. CASE UNCHANGED remoteVars
  BY <1>15, <1>14 DEF remoteVars
<1> QED BY <1>2, <1>3, <1>4, <1>5, <1>6, <1>7, <1>8, <1>9, <1>10, <1>11, <1>12,
           <1>13, <1>14, <1>17 DEF RemoteNext

(***************************************************************************)
(* The child at rest.                                                      *)
(***************************************************************************)
LEMMA OffIsNotUp == "off" \notin Up
BY DEF Up

\* A process that does not run stays where it is, or its database is taken
\* over; no grant is its own.
FirstRests ==
    \/ pc'[First] = pc[First]
    \/ pc[First] = "down" /\ pc'[First] = "retired"

LEMMA RestsWhile ==
    ASSUME PropInv, ~ChildUp, NEW p \in Propagators,
           \/ StartBatch(p) \/ Converged(p) \/ Reconcile(p) \/ Die(p)
           \/ \E f : AppendLocal(p, f)
           \/ \E reply \in Replies : PropagateStep(p, reply)
           \/ p # First /\ (Supersede(p) \/ TakeOver(p, First))
    PROVE  FirstRests
<1>1. pc \in [Propagators -> Places] /\ First \in Propagators
  BY PropagationAssumption DEF PropInv, PropagationTypeOK
<1>2. ASSUME NEW w, p # First, pc' = [pc EXCEPT ![p] = w] PROVE FirstRests
  BY <1>1, <1>2 DEF FirstRests
<1>3. ASSUME StartBatch(p) \/ Converged(p) \/ Reconcile(p) \/ Die(p)
      PROVE  FirstRests
  <2>1. p # First
    BY <1>3 DEF StartBatch, Converged, Reconcile, Die, ChildUp, Up
  <2>2. \E w : pc' = [pc EXCEPT ![p] = w]
    BY <1>3 DEF StartBatch, Converged, Reconcile, Die, Settle
  <2> QED BY <1>2, <2>1, <2>2
<1>4. ASSUME NEW f, AppendLocal(p, f) PROVE FirstRests
  BY <1>4 DEF AppendLocal, FirstRests
<1>5. ASSUME NEW reply \in Replies, PropagateStep(p, reply) PROVE FirstRests
  <2>1. p # First
    BY <1>5 DEF PropagateStep, RenewIfDue, RenewAfterExpiry, Push, Pull, ChildUp, Up
  <2>2. \E w : pc' = [pc EXCEPT ![p] = w]
    BY <1>5 DEF PropagateStep, RenewIfDue, RenewAfterExpiry, Renew, Push, Pull, Settle
  <2> QED BY <1>2, <2>1, <2>2
<1>6. ASSUME p # First, Supersede(p) PROVE FirstRests
  BY <1>2, <1>6 DEF Supersede
<1>7. ASSUME p # First, TakeOver(p, First) PROVE FirstRests
  BY <1>1, <1>7 DEF TakeOver, FirstRests
<1> QED BY <1>3, <1>4, <1>5, <1>6, <1>7

LEMMA ChildRests ==
    ASSUME PropInv, ~ChildUp, [RemoteNext]_remoteVars
    PROVE  SpawnChild \/ FirstRests
<1> USE PropagationAssumption
<1>1. ASSUME UNCHANGED propVars PROVE FirstRests
  BY <1>1 DEF propVars, FirstRests
<1>2. ASSUME NEW j \in Joiners, SettleRead(j) \/ SettleAppend(j) \/ SettleFails(j)
      PROVE  FirstRests
  BY <1>1, <1>2 DEF SettleRead, SettleAppend, SettleFails
<1>3. CASE SpawnFails \/ ChildExitObserved \/ TailPoll \/ DaemonCrash \/ DaemonStart
  BY <1>1, <1>3 DEF SpawnFails, ChildExitObserved, TailPoll, DaemonCrash, DaemonStart
<1>4. ASSUME NEW d \in Dispatches, Submit(d) PROVE FirstRests
  BY <1>1, <1>4 DEF Submit
<1>5. CASE ChildPull \/ ChildAdmit \/ TurnEndUnrecorded
  BY <1>1, <1>5 DEF ChildPull, ChildAdmit, TurnEndUnrecorded
<1>6. ASSUME NEW reply \in Replies, ChildAck(reply) PROVE FirstRests
  BY <1>1, <1>6 DEF ChildAck
<1>7. CASE ChildSync
  <2>1. \/ StartBatch(First) \/ Converged(First) \/ Reconcile(First)
        \/ \E reply \in Replies : PropagateStep(First, reply)
    BY <1>7 DEF ChildSync
  <2> QED BY <2>1, RestsWhile
<1>8. CASE ChildSeesOrphan \/ ChildDies
  BY <1>8, RestsWhile DEF ChildSeesOrphan, ChildDies
<1>9. CASE TurnRecords
  BY <1>9, TurnAppends, RestsWhile
<1>10. ASSUME NEW q \in Others, Replacement(q) PROVE FirstRests
  <2>1. q \in Propagators /\ q # First /\ (Supersede(q) \/ TakeOver(q, First))
    BY <1>10 DEF Replacement, Others
  <2> QED BY <2>1, RestsWhile
<1>11. ASSUME NEW q \in Others, ReplacementStep(q) PROVE FirstRests
  <2>1. /\ q \in Propagators
        /\ \/ \E f : AppendLocal(q, f)
           \/ StartBatch(q) \/ Reconcile(q)
           \/ \E reply \in Replies : PropagateStep(q, reply)
    BY <1>11 DEF ReplacementStep, Others
  <2> QED BY <2>1, RestsWhile
<1>12. CASE LeaseExpires
  BY <1>12 DEF LeaseExpires, Expire, FirstRests
<1>13. CASE UNCHANGED remoteVars
  BY <1>1, <1>13 DEF remoteVars
<1> QED BY <1>2, <1>3, <1>4, <1>5, <1>6, <1>7, <1>8, <1>9, <1>10, <1>11, <1>12,
           <1>13 DEF RemoteNext, TurnRecords

\* Who changes the executor's state of the thread.
LEMMA ExecMoves ==
    ASSUME [RemoteNext]_remoteVars
    PROVE  \/ UNCHANGED << exec, monitored >>
           \/ ChildExitObserved
           \/ exec \in {"none", "failed"} /\ exec' # "none" /\ UNCHANGED monitored
           \/ exec' = "lost" /\ monitored' = FALSE
<1>1. ASSUME UNCHANGED parentVars PROVE UNCHANGED << exec, monitored >>
  BY <1>1 DEF parentVars
<1>2. ASSUME NEW j \in Joiners, SettleRead(j) \/ SettleAppend(j)
      PROVE  UNCHANGED << exec, monitored >>
  BY <1>2 DEF SettleRead, SettleAppend, SettleDone
<1>3. ASSUME NEW j \in Joiners, SettleFails(j)
      PROVE  \/ UNCHANGED << exec, monitored >>
             \/ exec = "failed" /\ exec' = "retried" /\ UNCHANGED monitored
  BY <1>3 DEF SettleFails
<1>4. CASE TailPoll \/ DaemonStart \/ TurnCompletionErrs \/ TurnEndUnrecorded
  BY <1>4 DEF TailPoll, DaemonStart, TurnCompletionErrs, TurnEndUnrecorded, TurnFault
<1>5. CASE SpawnChild \/ SpawnFails \/ DaemonCrash
  BY <1>5 DEF SpawnChild, SpawnFails, DaemonCrash
<1>6. ASSUME NEW d \in Dispatches, Submit(d) PROVE UNCHANGED << exec, monitored >>
  BY <1>1, <1>6 DEF Submit
<1>7. CASE ChildPull \/ ChildAdmit \/ ChildSync \/ ChildSeesOrphan \/ ChildDies
           \/ TurnStart \/ TurnEnd \/ TurnFailsLate \/ LeaseExpires
  BY <1>1, <1>7 DEF ChildPull, ChildAdmit, ChildSync, ChildSeesOrphan, ChildDies,
                    TurnStart, TurnEnd, TurnFailsLate, LeaseExpires
<1>8. ASSUME NEW reply \in Replies, ChildAck(reply) PROVE UNCHANGED << exec, monitored >>
  BY <1>1, <1>8 DEF ChildAck
<1>9. ASSUME NEW q \in Others, Replacement(q) \/ ReplacementStep(q)
      PROVE  UNCHANGED << exec, monitored >>
  BY <1>1, <1>9 DEF Replacement, ReplacementStep
<1>10. CASE UNCHANGED remoteVars
  BY <1>1, <1>10 DEF remoteVars
<1> QED BY <1>2, <1>3, <1>4, <1>5, <1>6, <1>7, <1>8, <1>9, <1>10 DEF RemoteNext

\* Until the executor spawns it, the child has taken no step, and what the
\* monitor has seen end does not run again.
RestInv ==
    /\ exec = "none" => pc[First] = "off"
    /\ monitored => exec = "serving" /\ ~ChildUp

LEMMA RestKept == PropInv /\ RestInv /\ [RemoteNext]_remoteVars => RestInv'
<1> SUFFICES ASSUME PropInv, RestInv, [RemoteNext]_remoteVars PROVE RestInv'
  OBVIOUS
<1>1. FirstRests /\ ~ChildUp => ~ChildUp'
  BY DEF FirstRests, ChildUp, Up
<1>2. exec' = "none" => exec = "none"
  BY ExecMoves DEF ChildExitObserved
<1>3. exec' = "none" => pc'[First] = "off"
  <2>1. exec' = "none" => pc[First] = "off" /\ ~ChildUp /\ ~SpawnChild
    BY <1>2, OffIsNotUp DEF RestInv, ChildUp, SpawnChild
  <2> QED BY <2>1, ChildRests DEF FirstRests
<1>4. ASSUME monitored, UNCHANGED exec PROVE exec' = "serving" /\ ~ChildUp'
  <2>1. exec = "serving" /\ ~ChildUp /\ ~SpawnChild
    BY <1>4 DEF RestInv, SpawnChild
  <2> QED BY <1>1, <1>4, <2>1, ChildRests
<1>5. CASE ChildExitObserved
  BY <1>3, <1>5 DEF ChildExitObserved, propVars, RestInv, ChildUp
<1>6. CASE ~ChildExitObserved
  <2>1. monitored' => monitored /\ UNCHANGED exec
    BY <1>6, ExecMoves DEF RestInv
  <2> QED BY <1>3, <1>4, <2>1 DEF RestInv
<1> QED BY <1>5, <1>6

(***************************************************************************)
(* The theorems.                                                           *)
(***************************************************************************)
RemoteInv ==
    /\ PropInv
    /\ QueueInv
    /\ JoinInv
    /\ LaneInv
    /\ EchoInv
    /\ HandleInv
    /\ RestInv

LEMMA RemoteInitEstablishes == RemoteInit => RemoteInv
<1> SUFFICES ASSUME RemoteInit PROVE RemoteInv
  OBVIOUS
<1>1. "off" \in Places \ InBatch
  BY DEF Places, Up, InBatch
<1>2. PropInv
  BY <1>1, InitEstablishes DEF RemoteInit
<1>3. << >> \in Seq(QueueRow) /\ << >> \in Seq(Dispatches) /\ Len(<< >>) = 0
  OBVIOUS
<1>4. QueueInv
  BY <1>3 DEF RemoteInit, QueueInv, QueueTypes, NoTurnDropped, PageIsComplete, AtARow
<1>5. JoinInv
  BY FreshPending DEF RemoteInit, JoinInv
<1>6. parent = << >> /\ \A p \in Propagators : local[p] = << >>
  BY DEF RemoteInit, InitAt
<1>7. local[First] = << >>
  BY <1>6, PropagationAssumption
<1>8. queue = << >> /\ waiting = << >> /\ submitted = {}
  BY DEF RemoteInit
<1>9. LaneInv
  BY <1>7, <1>8 DEF LaneInv, Rows, Lane, WaitsInOrder, RecordsOf, RecordsFirst, RecordsInOrder
<1>10. EchoInv
  BY <1>6 DEF EchoInv, Echoes
<1>11. /\ daemon = "up" /\ orphan = FALSE /\ exec = "none" /\ monitored = FALSE
       /\ tailAt = 0 /\ tailJoined = FALSE /\ joins = << >>
       /\ settle = [j \in Joiners |-> None] /\ gaveUp = {}
       /\ crashes = 0 /\ faults = 0
  BY DEF RemoteInit
<1>12. /\ settle \in [Joiners -> {None} \cup Settlements]
       /\ settle["tail"] = None /\ settle["recovery"] = None
  BY <1>11, JoinerNames
<1>13. HandleTypes
  <2>1. tailAt \in 0..Len(parent) /\ joins \in Seq([state : Terminals, by : Joiners])
    BY <1>3, <1>6, <1>11
  <2>2. crashes \in 0..MaxCrash /\ faults \in 0..MaxFault
    BY <1>11, RemoteAssumption
  <2> QED BY <1>11, <1>12, <2>1, <2>2 DEF HandleTypes
<1>14. TruthInv /\ TailInv /\ SettlerInv
  BY <1>11, <1>12 DEF TruthInv, TailInv, SettlerInv
<1>15. RestInv
  BY <1>11, PropagationAssumption DEF RemoteInit, InitAt, RestInv
<1> QED BY <1>2, <1>4, <1>5, <1>9, <1>10, <1>13, <1>14, <1>15 DEF RemoteInv, HandleInv

\* The inductive invariant of the remote thread: what is confirmed, the rows
\* the child handles, the order of its turns, where terminals come from, and
\* what each settlement under way has read.
THEOREM RemoteInvariant == RemoteSpec => []RemoteInv
<1>1. RemoteInv /\ [RemoteNext]_remoteVars => RemoteInv'
  <2> SUFFICES ASSUME RemoteInv, [RemoteNext]_remoteVars PROVE RemoteInv'
    OBVIOUS
  <2>1. PropInv /\ QueueInv /\ JoinInv /\ LaneInv /\ EchoInv /\ HandleInv /\ RestInv
    BY DEF RemoteInv
  <2>2. PropInv' /\ QueueInv' /\ JoinInv'
    BY <2>1, StreamsKept, QueueKept, JoinKept
  <2>3. LaneInv'
    BY <2>1, LaneKept
  <2>4. EchoInv'
    BY <2>1, RemoteMoves, EchoKept
  <2>5. HandleInv' /\ RestInv'
    BY <2>1, HandleKept, RestKept
  <2> QED BY <2>2, <2>3, <2>4, <2>5 DEF RemoteInv
<1> QED BY <1>1, RemoteInitEstablishes, PTL DEF RemoteSpec

\* Executor, child, queue, tail, joins and recovery keep their types: the
\* tail's cursor never passes the parent's stream, the child's cursor and
\* page never pass the queue, and a settlement's state is a terminal.
THEOREM RemoteTypes == RemoteSpec => []RemoteTypeOK
<1>1. RemoteInv => RemoteTypeOK
  BY DEF RemoteInv, PropInv, QueueInv, QueueTypes, QueueRow, HandleInv, HandleTypes,
         RemoteTypeOK
<1> QED BY <1>1, RemoteInvariant, PTL

\* propagator.rs run by run_remote_child: with daemon crashes, lost answers,
\* orphaned children and replacements, what a propagator has confirmed is in
\* the parent's store, with the same record at the same position.
THEOREM RemoteConfirmedDurably == RemoteSpec => []ConfirmedIsDurable
<1>1. RemoteInv => ConfirmedIsDurable
  BY DEF RemoteInv, PropInv
<1> QED BY <1>1, RemoteInvariant, PTL

\* lease.rs: in the whole remote thread too, no re-pushed batch is stored
\* twice and none leaves a gap.
THEOREM RemoteNoDuplicateNoGap == RemoteSpec => []PositionsKept
<1>1. RemoteInv => PositionsKept
  BY DEF RemoteInv, PropInv
<1> QED BY <1>1, RemoteInvariant, PTL

\* remote_ingress_queue.rs and run_remote_child: whatever answers are lost
\* and whatever attempts fail, an acknowledged row's turn was submitted and
\* the child's cursor has not passed a row that the parent still offers.
THEOREM RemoteNoTurnDropped == RemoteSpec => []NoTurnDropped
<1>1. RemoteInv => NoTurnDropped
  BY DEF RemoteInv, QueueInv
<1> QED BY <1>1, RemoteInvariant, PTL

\* append_thread_joined_first_wins: the tail, the monitor, a failing spawn
\* and the recovery sweep join the handle at most once between them.
THEOREM RemoteJoinedOnce == RemoteSpec => []JoinedOnce
<1>1. RemoteInv => JoinedOnce
  <2> SUFFICES ASSUME JoinInv PROVE Len(joins) <= 1
    BY DEF JoinedOnce, RemoteInv
  <2>1. CASE joins = << >>
    BY <2>1
  <2>2. ASSUME NEW r, joins = << r >> PROVE Len(joins) <= 1
    BY <2>2
  <2> QED BY <2>1, <2>2 DEF JoinInv
<1> QED BY <1>1, RemoteInvariant, PTL

\* run_remote_child and the queue: with answers lost, attempts repeated and
\* the child's cursor behind, the turns the child starts are distinct
\* dispatches of the queue in queue order.
THEOREM RemoteInjectedOnce == RemoteSpec => []InjectedOnceInOrder
<1>1. RemoteInv => InjectedOnceInOrder
  <2> SUFFICES ASSUME RemoteInv,
                      NEW i \in 1..Len(local[First]), NEW k \in 1..Len(local[First]),
                      i < k, StartsTurn(i), StartsTurn(k)
               PROVE  \E a, b \in 1..Len(queue) :
                         /\ a < b
                         /\ queue[a].dispatch = local[First][i].fact.turn
                         /\ queue[b].dispatch = local[First][k].fact.turn
    BY DEF InjectedOnceInOrder
  <2>1. RecordsInOrder(queue, local[First])
    BY DEF RemoteInv, LaneInv, Lane
  <2>2. Precedes(queue, local[First][i].fact.turn, local[First][k].fact.turn)
    BY <2>1 DEF RecordsInOrder, Starts, StartsTurn
  <2> QED BY <2>2 DEF Precedes
<1> QED BY <1>1, RemoteInvariant, PTL

\* run_parent_tail, the process monitor, spawn_shielded and the recovery
\* sweep: for any number of crashes, storage errors and replacements, a
\* handle without a join has someone left to settle it, unless the last
\* settler of this daemon met a storage error and gave up, or a daemon has
\* started over a child whose terminals conflict.
THEOREM RemoteHandleSettled == RemoteSpec => []OpenHandleHasASettler
<1>1. RemoteInv => OpenHandleHasASettler
  <2> SUFFICES ASSUME RemoteInv, ~Joined, daemon = "up", exec # "none",
                      \A j \in Joiners : settle[j] = None, ~LeftOpen
               PROVE  /\ exec = "serving"
                      /\ \/ ChildUp /\ ~Durable("completed") /\ ~Durable("failed")
                         \/ ~ChildUp /\ ~monitored
                         \/ TerminalsAfter(tailAt) # {}
    BY DEF OpenHandleHasASettler
  <2>1. HandleTypes /\ TailInv /\ SettlerInv /\ RestInv /\ Len(parent) \in Nat
    BY Lengths DEF RemoteInv, HandleInv, PropInv
  <2>2. /\ exec \notin {"failed", "retried"} /\ exec # "lost"
        /\ ~monitored /\ ~tailJoined
    BY <2>1, JoinerNames DEF SettlerInv, RestInv, LeftOpen
  <2>3. exec = "serving" /\ \A i \in 1..tailAt : ~NamesSpawnTurn(parent[i])
    BY <2>1, <2>2 DEF HandleTypes, TailInv
  <2>4. ASSUME NEW k \in Terminals, Durable(k) PROVE TerminalsAfter(tailAt) # {}
    <3>1. PICK i \in 1..Len(parent) : parent[i].fact = Fact(Spawn, k)
      BY <2>4 DEF Durable
    <3>2. NamesSpawnTurn(parent[i])
      BY <3>1, NamesDurable
    <3>3. i \in (tailAt + 1)..Len(parent)
      BY <2>1, <2>3, <3>2 DEF HandleTypes
    <3> QED BY <3>2, <3>3 DEF TerminalsAfter
  <2>5. Durable("completed") \/ Durable("failed") => TerminalsAfter(tailAt) # {}
    BY <2>4 DEF Terminals
  <2> QED BY <2>2, <2>3, <2>5
<1> QED BY <1>1, RemoteInvariant, PTL

\* fold_child_terminal_truth and the parent's tail: a join by either says
\* completed exactly when the completion is in the parent's store at that
\* moment, however long the settlement was under way.
THEOREM RemoteJoinsTruth == RemoteSpec => JoinFollowsDurableTruth
<1> DEFINE Truth ==
        \A i \in (Len(joins) + 1)..Len(joins') :
            LET j == joins'[i]
            IN  /\ j.by \in {"tail", "recovery"} =>
                       (j.state = "completed" <=> Durable("completed"))
                /\ j.by = "tail" => Durable(j.state)
<1>1. RemoteInv /\ [RemoteNext]_remoteVars => [Truth]_remoteVars
  <2> SUFFICES ASSUME RemoteInv, [RemoteNext]_remoteVars PROVE Truth
    OBVIOUS
  <2>1. joins \in Seq([state : Terminals, by : Joiners]) /\ Len(joins) \in Nat
    BY LenProperties DEF RemoteInv, HandleInv, HandleTypes
  <2>2. CASE UNCHANGED joins
    BY <2>1, <2>2
  <2>3. ASSUME NEW j \in Joiners, SettleAppend(j), joins' # joins PROVE Truth
    <3> DEFINE s == settle[j].state
               r == [state |-> s, by |-> j]
    <3>1. joins' = Append(joins, r) /\ settle[j] # None
      BY <2>3 DEF SettleAppend
    <3>2. settle[j] \in Settlements
      BY <3>1 DEF RemoteInv, HandleInv, HandleTypes
    <3>3. r \in [state : Terminals, by : Joiners] /\ r.state = s /\ r.by = j
      BY <3>2 DEF Settlements
    <3>4. j = "tail" => Durable(s) /\ (s = "completed" <=> Durable("completed"))
      BY <3>1 DEF RemoteInv, HandleInv, TruthInv
    <3>5. j = "recovery" => (s = "completed" <=> Durable("completed"))
      BY <3>1 DEF RemoteInv, HandleInv, TruthInv
    <3> HIDE DEF r
    <3>7. Len(joins') = Len(joins) + 1 /\ joins'[Len(joins) + 1] = r
      BY <2>1, <3>1, <3>3, AppendProperties
    <3>8. \A i \in (Len(joins) + 1)..Len(joins') : joins'[i] = r
      BY <2>1, <3>7
    <3> QED BY <3>3, <3>4, <3>5, <3>8
  <2>4. ASSUME NEW j \in Joiners, SettleRead(j) \/ SettleFails(j) PROVE Truth
    BY <2>2, <2>4 DEF SettleRead, SettleFails
  <2>5. ASSUME UNCHANGED parentVars PROVE Truth
    BY <2>2, <2>5 DEF parentVars
  <2>6. CASE SpawnChild \/ SpawnFails \/ ChildExitObserved \/ TailPoll
             \/ DaemonCrash \/ DaemonStart \/ TurnCompletionErrs \/ TurnEndUnrecorded
    BY <2>2, <2>6 DEF SpawnChild, SpawnFails, ChildExitObserved, TailPoll, DaemonCrash,
                      DaemonStart, TurnCompletionErrs, TurnEndUnrecorded, TurnFault
  <2>7. ASSUME NEW d \in Dispatches, Submit(d) PROVE Truth
    BY <2>5, <2>7 DEF Submit
  <2>8. CASE ChildPull \/ ChildAdmit \/ ChildSync \/ ChildSeesOrphan \/ ChildDies
             \/ TurnStart \/ TurnEnd \/ TurnFailsLate \/ LeaseExpires
    BY <2>5, <2>8 DEF ChildPull, ChildAdmit, ChildSync, ChildSeesOrphan, ChildDies,
                      TurnStart, TurnEnd, TurnFailsLate, LeaseExpires
  <2>9. ASSUME NEW reply \in Replies, ChildAck(reply) PROVE Truth
    BY <2>5, <2>9 DEF ChildAck
  <2>10. ASSUME NEW q \in Others, Replacement(q) \/ ReplacementStep(q) PROVE Truth
    BY <2>5, <2>10 DEF Replacement, ReplacementStep
  <2>11. CASE UNCHANGED remoteVars
    BY <2>5, <2>11 DEF remoteVars
  <2> HIDE DEF Truth
  <2> QED BY <2>2, <2>3, <2>4, <2>6, <2>7, <2>8, <2>9, <2>10, <2>11 DEF RemoteNext
<1> QED BY <1>1, RemoteInvariant, PTL DEF RemoteSpec, JoinFollowsDurableTruth

(***************************************************************************)
(* The handle keeps its promise.                                           *)
(***************************************************************************)
\* The joiners that do not look have nothing but a failure to report.
UnseenInv ==
    \A j \in {"monitor", "executor"} : settle[j] # None => settle[j].state = "failed"

LEMMA JoinsMove ==
    ASSUME [RemoteNext]_remoteVars
    PROVE  UNCHANGED joins \/ \E j \in Joiners : SettleAppend(j)
<1>1. ASSUME UNCHANGED parentVars PROVE UNCHANGED joins
  BY <1>1 DEF parentVars
<1>2. ASSUME NEW j \in Joiners, SettleRead(j) \/ SettleFails(j) PROVE UNCHANGED joins
  BY <1>2 DEF SettleRead, SettleFails
<1>3. CASE SpawnChild \/ SpawnFails \/ ChildExitObserved \/ TailPoll
           \/ DaemonCrash \/ DaemonStart \/ TurnCompletionErrs \/ TurnEndUnrecorded
  BY <1>3 DEF SpawnChild, SpawnFails, ChildExitObserved, TailPoll, DaemonCrash,
              DaemonStart, TurnCompletionErrs, TurnEndUnrecorded, TurnFault
<1>4. ASSUME NEW d \in Dispatches, Submit(d) PROVE UNCHANGED joins
  BY <1>1, <1>4 DEF Submit
<1>5. CASE ChildPull \/ ChildAdmit \/ ChildSync \/ ChildSeesOrphan \/ ChildDies
           \/ TurnStart \/ TurnEnd \/ TurnFailsLate \/ LeaseExpires
  BY <1>1, <1>5 DEF ChildPull, ChildAdmit, ChildSync, ChildSeesOrphan, ChildDies,
                    TurnStart, TurnEnd, TurnFailsLate, LeaseExpires
<1>6. ASSUME NEW reply \in Replies, ChildAck(reply) PROVE UNCHANGED joins
  BY <1>1, <1>6 DEF ChildAck
<1>7. ASSUME NEW q \in Others, Replacement(q) \/ ReplacementStep(q) PROVE UNCHANGED joins
  BY <1>1, <1>7 DEF Replacement, ReplacementStep
<1>8. CASE UNCHANGED remoteVars
  BY <1>1, <1>8 DEF remoteVars
<1> QED BY <1>2, <1>3, <1>4, <1>5, <1>6, <1>7, <1>8 DEF RemoteNext

LEMMA UnseenKept == RemoteInv /\ UnseenInv /\ [RemoteNext]_remoteVars => UnseenInv'
<1> SUFFICES ASSUME RemoteInv, UnseenInv, [RemoteNext]_remoteVars PROVE UnseenInv'
  OBVIOUS
<1>1. HandleTypes /\ settle \in [Joiners -> {None} \cup Settlements]
  BY DEF RemoteInv, HandleInv, HandleTypes
<1>2. ASSUME UNCHANGED settle PROVE UnseenInv'
  BY <1>2 DEF UnseenInv
<1>3. ASSUME UNCHANGED parentVars PROVE UnseenInv'
  BY <1>2, <1>3 DEF parentVars
<1>4. ASSUME NEW j \in Joiners, NEW x, settle' = [settle EXCEPT ![j] = x],
             \/ x = None
             \/ j \in {"tail", "recovery"}
             \/ x.state = "failed"
             \/ /\ settle[j] # None
                /\ x.state = settle[j].state
      PROVE  UnseenInv'
  <2> SUFFICES ASSUME NEW k \in {"monitor", "executor"}, settle'[k] # None
               PROVE  settle'[k].state = "failed"
    BY DEF UnseenInv
  <2>1. k \in Joiners
    BY DEF Joiners
  <2>2. CASE k = j
    BY <1>1, <1>4, <2>1, <2>2 DEF UnseenInv
  <2>3. CASE k # j
    BY <1>1, <1>4, <2>1, <2>3 DEF UnseenInv
  <2> QED BY <2>2, <2>3
<1>5. ASSUME NEW j \in Joiners, SettleDone(j) PROVE UnseenInv'
  BY <1>4, <1>5 DEF SettleDone
<1>6. ASSUME NEW j \in Joiners, NEW n, settle[j] # None,
             settle' = [settle EXCEPT ![j].next = n]
      PROVE  UnseenInv'
  <2> DEFINE x == [settle[j] EXCEPT !.next = n]
  <2>1. settle[j] \in Settlements
    BY <1>1, <1>6
  <2>2. x.state = settle[j].state
    BY <2>1 DEF Settlements
  <2>3. settle' = [settle EXCEPT ![j] = x]
    BY <1>6
  <2> HIDE DEF x
  <2> QED BY <1>4, <1>6, <2>2, <2>3
<1>7. ASSUME NEW j \in Joiners, SettleRead(j) PROVE UnseenInv'
  BY <1>5, <1>6, <1>7 DEF SettleRead
<1>8. ASSUME NEW j \in Joiners, SettleAppend(j) PROVE UnseenInv'
  BY <1>5, <1>6, <1>8 DEF SettleAppend
<1>10. Settlement("failed", 0).state = "failed"
  BY DEF Settlement
<1>9. ASSUME NEW j \in Joiners, SettleFails(j) PROVE UnseenInv'
  <2>1. PICK x : x = Settlement("failed", 0) /\ x.state = "failed"
    BY <1>10
  <2>2. settle' = [settle EXCEPT ![j] = x] \/ settle' = [settle EXCEPT ![j] = None]
    BY <1>9, <2>1 DEF SettleFails
  <2> QED BY <1>4, <2>1, <2>2
<1>22. CASE TurnCompletionErrs \/ TurnEndUnrecorded
  BY <1>2, <1>22 DEF TurnCompletionErrs, TurnEndUnrecorded, TurnFault
<1>11. CASE SpawnFails
  <2>1. settle' = [settle EXCEPT !["executor"] = Settlement("failed", 0)]
    BY <1>11 DEF SpawnFails
  <2>2. "executor" \in Joiners
    BY JoinerNames
  <2>3. PICK x : x = Settlement("failed", 0) /\ x.state = "failed"
    BY <1>10
  <2>4. settle' = [settle EXCEPT !["executor"] = x]
    BY <2>1, <2>3
  <2> QED BY <1>4, <2>2, <2>3, <2>4
<1>12. CASE ChildExitObserved
  <2>1. settle' = [settle EXCEPT !["monitor"] = Settlement("failed", 0)]
    BY <1>12 DEF ChildExitObserved
  <2>2. "monitor" \in Joiners
    BY JoinerNames
  <2>3. PICK x : x = Settlement("failed", 0) /\ x.state = "failed"
    BY <1>10
  <2>4. settle' = [settle EXCEPT !["monitor"] = x]
    BY <2>1, <2>3
  <2> QED BY <1>4, <2>2, <2>3, <2>4
<1>13. CASE TailPoll
  BY <1>2, <1>4, <1>13, JoinerNames DEF TailPoll
<1>14. CASE DaemonCrash
  BY <1>14, JoinerNames DEF DaemonCrash, UnseenInv
<1>15. CASE DaemonStart
  BY <1>2, <1>4, <1>15, JoinerNames DEF DaemonStart
<1>16. CASE SpawnChild
  BY <1>2, <1>16 DEF SpawnChild
<1>17. ASSUME NEW d \in Dispatches, Submit(d) PROVE UnseenInv'
  BY <1>3, <1>17 DEF Submit
<1>18. CASE ChildPull \/ ChildAdmit \/ ChildSync \/ ChildSeesOrphan \/ ChildDies
            \/ TurnStart \/ TurnEnd \/ TurnFailsLate \/ LeaseExpires
  BY <1>3, <1>18 DEF ChildPull, ChildAdmit, ChildSync, ChildSeesOrphan, ChildDies,
                     TurnStart, TurnEnd, TurnFailsLate, LeaseExpires
<1>19. ASSUME NEW reply \in Replies, ChildAck(reply) PROVE UnseenInv'
  BY <1>3, <1>19 DEF ChildAck
<1>20. ASSUME NEW q \in Others, Replacement(q) \/ ReplacementStep(q) PROVE UnseenInv'
  BY <1>3, <1>20 DEF Replacement, ReplacementStep
<1>21. CASE UNCHANGED remoteVars
  BY <1>3, <1>21 DEF remoteVars
<1> QED BY <1>7, <1>8, <1>9, <1>11, <1>12, <1>13, <1>14, <1>15, <1>16, <1>17, <1>18,
           <1>19, <1>20, <1>21, <1>22 DEF RemoteNext

\* What SpawnTruth says of the ends the parent holds.
LEMMA TruthNames ==
    /\ SpawnTruth \in Terminals \cup {"open"}
    /\ SpawnTruth = "completed" <=> Durable("completed")
    /\ SpawnTruth = "failed" <=> Durable("failed") /\ ~Durable("completed")
BY DEF SpawnTruth, Terminals

\* The end of the spawn turn stays once it is durable: a failure that comes
\* behind a completion does not count, and no completion comes behind a
\* failure.
LEMMA TruthStays ==
    ASSUME RemoteInv, [RemoteNext]_remoteVars, SpawnTruth # "open"
    PROVE  SpawnTruth' = SpawnTruth
<1>1. PropInv /\ QueueInv /\ LaneInv /\ EchoInv
  BY DEF RemoteInv
<1>2. /\ Len(parent) \in Nat /\ Len(parent') \in Nat /\ Len(parent) <= Len(parent')
      /\ \A i \in 1..Len(parent) : parent'[i] = parent[i]
  <2>1. PropInv' /\ StreamsMove
    BY <1>1, StreamsKept, RemoteMoves
  <2>2. Len(parent) \in Nat /\ Len(parent') \in Nat
    BY <1>1, <2>1, LenProperties DEF PropInv, PropagationTypeOK
  <2>3. CASE parent' = parent
    BY <2>2, <2>3
  <2>4. ASSUME NEW p \in Propagators, ParentGrows(p)
        PROVE  /\ Len(parent) <= Len(parent')
               /\ \A i \in 1..Len(parent) : parent'[i] = parent[i]
    BY <2>4 DEF ParentGrows
  <2>5. CASE TurnRecords
    BY <2>3, <2>5, TurnAppends DEF AppendLocal
  <2>6. ASSUME NEW q \in Others,
               AppendLocal(q, Fact(Spawn, "progress")) \/ TakeOver(q, First)
        PROVE  parent' = parent
    BY <2>6 DEF AppendLocal, TakeOver
  <2> QED BY <2>1, <2>2, <2>3, <2>4, <2>5, <2>6 DEF StreamsMove
<1>3. TerminalsOrdered'
  <2>1. QueueInv' /\ LaneInv' /\ EchoInv'
    BY <1>1, QueueKept, LaneKept, RemoteMoves, EchoKept
  <2> QED BY <2>1, TerminalsAreOrderedNext
<1>4. CASE Durable("completed")
  <2>1. Durable("completed")'
    BY <1>2, <1>4, DurableGrows
  <2> QED BY <1>4, <2>1 DEF SpawnTruth
<1>5. CASE Durable("failed") /\ ~Durable("completed")
  <2>1. Durable("failed")'
    BY <1>2, <1>5, DurableGrows
  <2>2. ~Durable("completed")'
    BY <1>2, <1>3, <1>5, FailureIsLast
  <2> QED BY <1>5, <2>1, <2>2 DEF SpawnTruth
<1> QED BY <1>4, <1>5 DEF SpawnTruth

LEMMA HandleStep ==
    RemoteInv /\ UnseenInv /\ [RemoteNext]_remoteVars => [HP!Next]_<<SpawnTruth, joins>>
<1> SUFFICES ASSUME RemoteInv, UnseenInv, [RemoteNext]_remoteVars
             PROVE  HP!Next \/ UNCHANGED << SpawnTruth, joins >>
  OBVIOUS
<1>1. PropInv /\ JoinInv /\ HandleTypes /\ TruthInv
  BY DEF RemoteInv, HandleInv
<1>3. ASSUME UNCHANGED joins, SpawnTruth' # SpawnTruth PROVE HP!Next
  <2>1. SpawnTruth = "open"
    BY <1>3, TruthStays
  <2>2. SpawnTruth' \in Terminals
    BY <1>3, <2>1 DEF SpawnTruth, Terminals
  <2>3. PICK end \in Terminals : SpawnTruth' = end
    BY <2>2
  <2>4. HP!Finish(end)
    BY <1>3, <2>1, <2>3 DEF HP!Finish
  <2> QED BY <2>4 DEF HP!Next
<1>4. ASSUME NEW j \in Joiners, SettleAppend(j), joins' # joins PROVE HP!Next
  <2> DEFINE s == settle[j].state
             r == [state |-> s, by |-> j]
  <2>1. /\ joins' = Append(joins, r) /\ settle[j] # None
        /\ settle[j].next > 0 /\ settle[j].next = Len(joins) + 1
        /\ UNCHANGED parent
    BY <1>4 DEF SettleAppend, propVars
  <2>2. settle[j] \in Settlements /\ s \in Terminals
    BY <1>1, <2>1 DEF HandleTypes, Settlements
  <2>3. settle[j].next = 1
    BY <1>1, <2>1 DEF JoinInv, Pending
  <2>4. joins = << >>
    <3>1. ASSUME NEW x, joins = << x >> PROVE FALSE
      BY <2>1, <2>3, <3>1
    <3> QED BY <1>1, <3>1 DEF JoinInv
  <2>5. joins' = << r >>
    BY <2>1, <2>4
  <2>6. SpawnTruth' = SpawnTruth
    BY <2>1 DEF SpawnTruth, Durable
  <2>7. CASE j = "tail"
    <3>1. SpawnTruth = s /\ SpawnTruth # "open"
      BY <1>1, <2>1, <2>2, <2>7, TruthNames DEF TruthInv, Terminals
    <3>2. HP!Report("tail")
      BY <2>4, <2>5, <2>6, <2>7, <3>1 DEF HP!Report, HP!Join
    <3> QED BY <3>2 DEF HP!Next
  <2>8. CASE j = "recovery"
    <3>1. s = "completed" <=> Durable("completed")
      BY <1>1, <2>1, <2>8 DEF TruthInv
    <3>2. s = IF SpawnTruth = "open" THEN "failed" ELSE SpawnTruth
      BY <2>2, <3>1, TruthNames DEF Terminals
    <3>3. HP!Observe("recovery")
      BY <2>4, <2>5, <2>6, <2>8, <3>2 DEF HP!Observe, HP!Join
    <3> QED BY <3>3 DEF HP!Next
  <2>9. CASE j \in {"monitor", "executor"}
    <3>1. s = "failed"
      BY <2>1, <2>9 DEF UnseenInv
    <3>2. HP!GiveUp(j)
      BY <2>4, <2>5, <2>6, <3>1 DEF HP!GiveUp, HP!Join
    <3> QED BY <2>9, <3>2 DEF HP!Next
  <2> QED BY <2>7, <2>8, <2>9 DEF Joiners
<1> QED BY <1>3, <1>4, JoinsMove

LEMMA HandleInit == RemoteInit => HP!Init /\ UnseenInv
<1> SUFFICES ASSUME RemoteInit PROVE HP!Init /\ UnseenInv
  OBVIOUS
<1>1. parent = << >> /\ joins = << >>
  BY DEF RemoteInit, InitAt
<1>2. \A k : ~Durable(k)
  BY <1>1 DEF Durable
<1>3. UnseenInv
  BY JoinerNames DEF RemoteInit, UnseenInv
<1> QED BY <1>1, <1>2, <1>3 DEF HP!Init, SpawnTruth

\* append_thread_joined_first_wins and fold_child_terminal_truth implement
\* the handle's promise for any number of crashes, faults, replacements and
\* dispatches: one durable end of the spawn turn, one join, and a join that
\* says that end unless its author could not see it.
THEOREM HandleKeepsPromise == RemoteSpec => ImplementsHandlePromise
<1>1. RemoteInit => HP!Init /\ UnseenInv
  BY HandleInit
<1>3. RemoteInv /\ UnseenInv /\ [RemoteNext]_remoteVars => UnseenInv'
  BY UnseenKept
<1>4. RemoteInv /\ UnseenInv /\ [RemoteNext]_remoteVars =>
         [HP!Next]_<<SpawnTruth, joins>>
  BY HandleStep
<1> QED BY <1>1, <1>3, <1>4, RemoteInvariant, PTL
        DEF RemoteSpec, ImplementsHandlePromise, HP!Spec

(***************************************************************************)
(* The remote thread's streams are StreamPropagation's.                    *)
(***************************************************************************)
\* A propagator that moves, moves in the mapped places too.
LEMMA PlacedMoves ==
    ASSUME PropInv, NEW p \in Propagators, NEW w, w # "off",
           pc' = [pc EXCEPT ![p] = w]
    PROVE  Placed' = [Placed EXCEPT ![p] = w]
<1>1. pc \in [Propagators -> Places]
  BY DEF PropInv, PropagationTypeOK
<1> QED BY <1>1 DEF Placed

\* A started propagator is where it is.
LEMMA PlacedIs ==
    ASSUME NEW p \in Propagators, pc[p] # "off"
    PROVE  Placed[p] = pc[p]
BY DEF Placed

LEMMA SettleMaps ==
    ASSUME PropInv, NEW p \in Propagators, NEW w, w # "off", Settle(p, w)
    PROVE  SP!Settle(p, w)
BY PlacedMoves DEF Settle, SP!Settle

LEMMA RenewMaps ==
    ASSUME PropInv, NEW p \in Propagators, NEW reply, NEW next, next # "off",
           Renew(p, reply, next)
    PROVE  SP!Renew(p, reply, next)
<1>1. /\ Settle(p, "idle") => SP!Settle(p, "idle")
      /\ Settle(p, "fenced") => SP!Settle(p, "fenced")
      /\ pc' = [pc EXCEPT ![p] = next] => Placed' = [Placed EXCEPT ![p] = next]
  BY SettleMaps, PlacedMoves
<1> QED BY <1>1 DEF Renew, SP!Renew

LEMMA PushMaps ==
    ASSUME PropInv, NEW p \in Propagators, NEW reply, Push(p, reply)
    PROVE  SP!Push(p, reply)
<1>1. pc[p] \in {"push", "retry"} /\ Placed[p] = pc[p]
  BY PlacedIs DEF Push
<1>2. SP!PushVerdict(p) = PushVerdict(p)
  BY DEF PushVerdict, SP!PushVerdict
<1>3. /\ Settle(p, "idle") => SP!Settle(p, "idle")
      /\ Settle(p, "fenced") => SP!Settle(p, "fenced")
  BY SettleMaps
<1>4. /\ pc' = [pc EXCEPT ![p] = "renewing"] => Placed' = [Placed EXCEPT ![p] = "renewing"]
      /\ pc' = [pc EXCEPT ![p] = "conflict"] => Placed' = [Placed EXCEPT ![p] = "conflict"]
  BY PlacedMoves
<1> DEFINE verdict == IF reply = "answered" THEN PushVerdict(p) ELSE "none"
<1>5. \/ verdict = "none" /\ SP!Settle(p, "idle") /\ UNCHANGED pushed
      \/ /\ verdict = "accepted" /\ SP!Settle(p, "idle")
         /\ pushed' = [pushed EXCEPT ![p] = batchEnd[p]]
      \/ /\ verdict = "expired" /\ Placed[p] = "push"
         /\ Placed' = [Placed EXCEPT ![p] = "renewing"]
         /\ UNCHANGED << batchEnd, seen, pushed >>
      \/ /\ verdict = "conflict" /\ Placed' = [Placed EXCEPT ![p] = "conflict"]
         /\ UNCHANGED << batchEnd, seen, pushed >>
      \/ /\ \/ verdict = "superseded"
            \/ verdict = "expired" /\ Placed[p] = "retry"
         /\ SP!Settle(p, "fenced") /\ UNCHANGED pushed
  <2>1. \/ verdict = "none" /\ Settle(p, "idle") /\ UNCHANGED pushed
        \/ /\ verdict = "accepted" /\ Settle(p, "idle")
           /\ pushed' = [pushed EXCEPT ![p] = batchEnd[p]]
        \/ /\ verdict = "expired" /\ pc[p] = "push"
           /\ pc' = [pc EXCEPT ![p] = "renewing"]
           /\ UNCHANGED << batchEnd, seen, pushed >>
        \/ /\ verdict = "conflict" /\ pc' = [pc EXCEPT ![p] = "conflict"]
           /\ UNCHANGED << batchEnd, seen, pushed >>
        \/ /\ \/ verdict = "superseded"
              \/ verdict = "expired" /\ pc[p] = "retry"
           /\ Settle(p, "fenced") /\ UNCHANGED pushed
    BY DEF Push
  <2> HIDE DEF verdict
  <2> QED BY <1>1, <1>3, <1>4, <2>1
<1>6. /\ parent' = IF reply # "dropped" /\ PushVerdict(p) = "accepted"
                   THEN parent \o SubSeq(local[p], pushed[p] + 1, batchEnd[p])
                   ELSE parent
      /\ UNCHANGED << holder, granted, expired, local >>
  BY DEF Push
<1> QED BY <1>1, <1>2, <1>5, <1>6 DEF SP!Push

LEMMA PullMaps ==
    ASSUME PropInv, NEW p \in Propagators, NEW reply, Pull(p, reply)
    PROVE  SP!Pull(p, reply)
<1>1. Placed[p] = "conflict"
  BY PlacedIs DEF Pull
<1>2. /\ Settle(p, "idle") => SP!Settle(p, "idle")
      /\ Settle(p, "fenced") => SP!Settle(p, "fenced")
      /\ pc' = [pc EXCEPT ![p] = "pulled"] => Placed' = [Placed EXCEPT ![p] = "pulled"]
  BY SettleMaps, PlacedMoves
<1> QED BY <1>1, <1>2 DEF Pull, SP!Pull

LEMMA PropagateMaps ==
    ASSUME PropInv, NEW p \in Propagators, NEW reply \in Replies,
           PropagateStep(p, reply)
    PROVE  SP!Next
<1>1. CASE RenewIfDue(p, reply)
  <2>1. Placed[p] = "idle" /\ SP!Renew(p, reply, "renewed")
    BY <1>1, PlacedIs, RenewMaps DEF RenewIfDue
  <2> QED BY <2>1 DEF SP!RenewIfDue, SP!PropagateStep, SP!Next, SP!Replies, Replies
<1>2. CASE RenewAfterExpiry(p, reply)
  <2>1. Placed[p] = "renewing" /\ SP!Renew(p, reply, "retry")
    BY <1>2, PlacedIs, RenewMaps DEF RenewAfterExpiry
  <2> QED BY <2>1 DEF SP!RenewAfterExpiry, SP!PropagateStep, SP!Next, SP!Replies, Replies
<1>3. CASE Push(p, reply) \/ Pull(p, reply)
  <2>1. SP!Push(p, reply) \/ SP!Pull(p, reply)
    BY <1>3, PushMaps, PullMaps
  <2> QED BY <2>1 DEF SP!PropagateStep, SP!Next, SP!Replies, Replies
<1> QED BY <1>1, <1>2, <1>3 DEF PropagateStep

LEMMA BatchMaps ==
    ASSUME PropInv, NEW p \in Propagators,
           StartBatch(p) \/ Converged(p) \/ Reconcile(p) \/ Die(p)
    PROVE  SP!Next
<1>1. CASE StartBatch(p)
  <2>1. Placed[p] \in {"idle", "renewed"} /\ Placed' = [Placed EXCEPT ![p] = "push"]
    BY <1>1, PlacedIs, PlacedMoves DEF StartBatch
  <2>2. SP!StartBatch(p)
    BY <1>1, <2>1 DEF StartBatch, SP!StartBatch
  <2> QED BY <2>2 DEF SP!Next
<1>2. CASE Converged(p)
  <2>1. Placed[p] \in {"idle", "renewed"} /\ SP!Settle(p, "idle")
    BY <1>2, PlacedIs, SettleMaps DEF Converged
  <2>2. SP!Converged(p)
    BY <1>2, <2>1 DEF Converged, SP!Converged
  <2> QED BY <2>2 DEF SP!Next
<1>3. CASE Reconcile(p)
  <2>1. Placed[p] = "pulled"
    BY <1>3, PlacedIs DEF Reconcile
  <2>2. SP!AdoptsBatch(p) <=> AdoptsBatch(p)
    BY DEF AdoptsBatch, SP!AdoptsBatch, Agree, SP!Agree
  <2>3. /\ Settle(p, "idle") => SP!Settle(p, "idle")
        /\ Settle(p, "diverged") => SP!Settle(p, "diverged")
    BY SettleMaps
  <2>4. SP!Reconcile(p)
    BY <1>3, <2>1, <2>2, <2>3 DEF Reconcile, SP!Reconcile
  <2> QED BY <2>4 DEF SP!Next
<1>4. CASE Die(p)
  <2>1. Placed[p] \in Up /\ SP!Settle(p, "down")
    BY <1>4, PlacedIs, OffIsNotUp, SettleMaps DEF Die
  <2>2. SP!Die(p)
    BY <1>4, <2>1 DEF Die, SP!Die, Up, SP!Up
  <2> QED BY <2>2 DEF SP!Next
<1> QED BY <1>1, <1>2, <1>3, <1>4

LEMMA AppendMaps ==
    ASSUME PropInv, NEW p \in Propagators, NEW f \in Facts, AppendLocal(p, f)
    PROVE  SP!Next
<1>1. Placed[p] \in Up /\ Placed' = Placed
  BY PlacedIs, OffIsNotUp DEF AppendLocal, Placed
<1>2. SP!AppendLocal(p, f)
  BY <1>1 DEF AppendLocal, SP!AppendLocal, Up, SP!Up
<1> QED BY <1>2 DEF SP!Next

LEMMA GrantMaps ==
    ASSUME PropInv, NEW q \in Others, Supersede(q) \/ TakeOver(q, First)
    PROVE  SP!Next
<1>1. /\ q \in Propagators /\ First \in Propagators /\ q # First
      /\ pc \in [Propagators -> Places]
  BY PropagationAssumption DEF Others, PropInv, PropagationTypeOK
<1>2. CASE Supersede(q)
  <2>1. Placed' = [Placed EXCEPT ![q] = "idle"]
    BY <1>1, <1>2, PlacedMoves DEF Supersede
  <2>2. SP!Supersede(q)
    BY <1>2, <2>1 DEF Supersede, SP!Supersede
  <2> QED BY <1>1, <2>2 DEF SP!Next
<1>3. CASE TakeOver(q, First)
  <2>1. Placed[First] = "down"
    BY <1>1, <1>3, PlacedIs DEF TakeOver
  <2>2. pc' = [pc EXCEPT ![q] = "idle", ![First] = "retired"]
    BY <1>3 DEF TakeOver
  <2>3. Placed' = [Placed EXCEPT ![q] = "idle", ![First] = "retired"]
    BY <1>1, <2>2 DEF Placed
  <2>4. SP!TakeOver(q, First)
    BY <1>3, <2>1, <2>3 DEF TakeOver, SP!TakeOver
  <2> QED BY <1>1, <2>4 DEF SP!Next
<1> QED BY <1>2, <1>3

LEMMA StreamsStep ==
    RemoteInv /\ [RemoteNext]_remoteVars => [SP!Next]_(SP!propVars)
<1> SUFFICES ASSUME RemoteInv, [RemoteNext]_remoteVars
             PROVE  SP!Next \/ UNCHANGED SP!propVars
  OBVIOUS
<1> USE PropagationAssumption
<1>0. PropInv /\ QueueInv
  BY DEF RemoteInv
<1>1. ASSUME UNCHANGED propVars PROVE UNCHANGED SP!propVars
  BY <1>1 DEF propVars, SP!propVars, Placed
<1>2. ASSUME NEW j \in Joiners, SettleRead(j) \/ SettleAppend(j) \/ SettleFails(j)
      PROVE  UNCHANGED SP!propVars
  BY <1>1, <1>2 DEF SettleRead, SettleAppend, SettleFails
<1>3. CASE SpawnFails \/ ChildExitObserved \/ TailPoll \/ DaemonCrash \/ DaemonStart
           \/ TurnEndUnrecorded
  BY <1>1, <1>3 DEF SpawnFails, ChildExitObserved, TailPoll, DaemonCrash, DaemonStart,
                    TurnEndUnrecorded
<1>4. ASSUME NEW d \in Dispatches, Submit(d) PROVE UNCHANGED SP!propVars
  BY <1>1, <1>4 DEF Submit
<1>5. CASE ChildPull \/ ChildAdmit
  BY <1>1, <1>5 DEF ChildPull, ChildAdmit
<1>6. ASSUME NEW reply \in Replies, ChildAck(reply) PROVE UNCHANGED SP!propVars
  BY <1>1, <1>6 DEF ChildAck
<1>7. CASE SpawnChild
  <2>1. pc[First] = "off"
    BY <1>7 DEF SpawnChild, RemoteInv, RestInv
  <2>2. /\ pc' = [pc EXCEPT ![First] = "idle"]
        /\ UNCHANGED << parent, holder, granted, expired, local, pushed, batchEnd, seen >>
    BY <1>7 DEF SpawnChild
  <2>3. pc \in [Propagators -> Places]
    BY <1>0 DEF PropInv, PropagationTypeOK
  <2>4. Placed' = Placed
    BY <2>1, <2>2, <2>3 DEF Placed
  <2> QED BY <2>2, <2>4 DEF SP!propVars
<1>8. CASE ChildSync
  <2>1. \/ StartBatch(First) \/ Converged(First) \/ Reconcile(First)
        \/ \E reply \in Replies : PropagateStep(First, reply)
    BY <1>8 DEF ChildSync
  <2> QED BY <1>0, <2>1, BatchMaps, PropagateMaps
<1>9. CASE ChildSeesOrphan \/ ChildDies
  BY <1>0, <1>9, BatchMaps DEF ChildSeesOrphan, ChildDies
<1>10. CASE TurnRecords
  <2>1. PICK k \in Terminals \cup {"submitted"} : AppendLocal(First, Fact(Head(waiting), k))
    BY <1>10, TurnAppends
  <2>2. Fact(Head(waiting), k) \in Facts
    BY <1>0, <1>10, TurnAppends, TurnFacts
  <2> QED BY <1>0, <2>1, <2>2, AppendMaps
<1>11. ASSUME NEW q \in Others, Replacement(q) PROVE SP!Next
  BY <1>0, <1>11, GrantMaps DEF Replacement
<1>12. ASSUME NEW q \in Others, ReplacementStep(q) PROVE SP!Next
  <2>1. Fact(Spawn, "progress") \in Facts /\ q \in Propagators
    BY RemoteAssumption DEF Others
  <2>2. \/ AppendLocal(q, Fact(Spawn, "progress")) \/ StartBatch(q) \/ Reconcile(q)
        \/ \E reply \in Replies : PropagateStep(q, reply)
    BY <1>12 DEF ReplacementStep
  <2> QED BY <1>0, <2>1, <2>2, AppendMaps, BatchMaps, PropagateMaps
<1>13. CASE LeaseExpires
  <2>1. Placed' = Placed
    BY <1>13 DEF LeaseExpires, Expire, Placed
  <2>2. SP!Expire
    BY <1>13, <2>1 DEF LeaseExpires, Expire, SP!Expire
  <2> QED BY <2>2 DEF SP!Next
<1>14. CASE UNCHANGED remoteVars
  BY <1>1, <1>14 DEF remoteVars
<1> QED BY <1>2, <1>3, <1>4, <1>5, <1>6, <1>7, <1>8, <1>9, <1>10, <1>11, <1>12,
           <1>13, <1>14 DEF RemoteNext, TurnRecords

LEMMA StreamsInit == RemoteInit => SP!Init
BY PropagationAssumption DEF RemoteInit, InitAt, SP!Init, SP!InitAt, Placed

\* run_remote_child, the executor and the replacements use the propagator
\* only as propagator.rs means it: the whole remote thread implements
\* StreamPropagation, so what is proved of the propagators alone holds of
\* them in place.
THEOREM StreamsPropagate == RemoteSpec => ImplementsPropagation
<1>1. RemoteInit => SP!Init
  BY StreamsInit
<1>2. RemoteInv /\ [RemoteNext]_remoteVars => [SP!Next]_(SP!propVars)
  BY StreamsStep
<1> QED BY <1>1, <1>2, RemoteInvariant, PTL
        DEF RemoteSpec, ImplementsPropagation, SP!Spec
=============================================================================

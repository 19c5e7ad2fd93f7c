--------------------------- MODULE RemoteThread -----------------------------
(***************************************************************************)
(* One remote thread: the parent daemon's executor, the child process it   *)
(* starts, the queue that carries turns to the child, the propagator that  *)
(* carries the child's stream back, and the tasks that settle the parent's *)
(* handle with the first thread.joined record.                             *)
(*                                                                         *)
(* The model starts when thread.spawned is on the parent's control stream. *)
(* The child is StreamPropagation's First; other propagators are           *)
(* replacements that an operator grants the stream to.  A turn is named by *)
(* its dispatch.  The child's ingress lane is IngressOutcome's: here it    *)
(* submits a dispatch at most once, and an attempt that reports a          *)
(* transient error may have submitted it or not.                           *)
(***************************************************************************)
EXTENDS StreamPropagation, SequencesExt

CONSTANTS Spawn,       \* the dispatch that spawned the thread
          Dispatches,  \* it and the ones submitted to the thread later
          None,
          MaxCrash,    \* bound on the deaths of the daemon
          MaxForeign,  \* bound on the records a replacement writes
          MaxFault     \* bound on the storage errors settlers and turns meet

Fact(d, k) == [turn |-> d, kind |-> k]
Terminals == {"completed", "failed"}
Joiners == {"tail", "monitor", "executor", "recovery"}

\* A join under way: its state, the position the tail has read up to, and
\* the position it will be appended at (0: the stream is still to be read).
Settlements == [state : Terminals, upto : Nat, next : Nat]

ASSUME RemoteAssumption ==
    /\ Spawn \in Dispatches
    /\ None \notin Dispatches
    /\ None \notin Settlements
    /\ {Fact(d, k) : d \in Dispatches,
                     k \in Terminals \cup {"submitted", "progress"}} \subseteq Facts
    /\ MaxCrash \in Nat /\ MaxForeign \in Nat /\ MaxFault \in Nat

VARIABLES queue,      \* verlet_remote_ingress_queue, in sequence order
          cursor,     \* the child's persisted queue cursor
          page,       \* rows of the last pull the child still has to handle
          phase,      \* where the child's loop is
          waiting,    \* turns the child's runtime has accepted, oldest first
          submitted,  \* dispatches the child's ingress lane has submitted
          daemon,     \* the parent daemon: up, down or recovering
          orphan,     \* the daemon that started the child is gone
          exec,       \* the executor's state of this thread
          monitored,  \* the exit of the child has been observed
          tailAt,     \* the parent tail's cursor
          tailJoined, \* the tail has folded a terminal of the spawn turn
          joins,      \* the handle's thread.joined records, in stream order
          settle,     \* settlements under way, by who started them
          gaveUp,     \* settlers that met a storage error and stopped
          crashes, faults

childVars == << cursor, page, phase, waiting, submitted >>
parentVars == << daemon, orphan, exec, monitored, tailAt, tailJoined,
                 joins, settle, gaveUp, crashes, faults >>
remoteVars == << propVars, queue, childVars, parentVars >>

ChildUp == pc[First] \in Up

\* An exchange that the endpoint processes needs a serving daemon.
Reachable(reply) == reply = "dropped" \/ daemon = "up"

RemoteInit ==
    /\ InitAt("off")
    /\ queue = <<>> /\ cursor = 0 /\ page = {} /\ phase = "pull"
    /\ waiting = <<>> /\ submitted = {}
    /\ daemon = "up" /\ orphan = FALSE /\ exec = "none" /\ monitored = FALSE
    /\ tailAt = 0 /\ tailJoined = FALSE
    /\ joins = <<>>
    /\ settle = [j \in Joiners |-> None] /\ gaveUp = {}
    /\ crashes = 0 /\ faults = 0

(***************************************************************************)
(* Joining: append_thread_joined_first_wins.                               *)
(***************************************************************************)
Joined == joins # <<>>

Settlement(state, upto) == [state |-> state, upto |-> upto, next |-> 0]

\* One settlement ends; the tail then moves its cursor past the page, and
\* the recovery sweep lets the daemon serve.
SettleDone(j) ==
    /\ settle' = [settle EXCEPT ![j] = None]
    /\ tailAt' = IF j = "tail" THEN settle[j].upto ELSE tailAt
    /\ tailJoined' = (tailJoined \/ j = "tail")
    /\ daemon' = IF j = "recovery" THEN "up" ELSE daemon
    /\ UNCHANGED << orphan, exec, monitored, gaveUp, crashes, faults >>

SettleRead(j) ==
    /\ settle[j] # None /\ settle[j].next = 0
    /\ IF Joined THEN SettleDone(j) /\ UNCHANGED joins
       ELSE /\ settle' = [settle EXCEPT ![j].next = Len(joins) + 1]
            /\ UNCHANGED << daemon, orphan, exec, monitored, tailAt,
                            tailJoined, joins, gaveUp, crashes, faults >>
    /\ UNCHANGED << propVars, queue, childVars >>

\* Mutant: the join is appended without the sequence fence.
SettleAppendUnfenced(j) ==
    /\ settle[j] # None /\ settle[j].next > 0
    /\ joins' = Append(joins,
          [state |-> settle[j].state, by |-> j])
    /\ SettleDone(j)
    /\ UNCHANGED << propVars, queue, childVars >>

SettleAppend(j) ==
    /\ settle[j] # None /\ settle[j].next > 0
    /\ IF settle[j].next = Len(joins) + 1
       THEN /\ joins' = Append(joins,
                  [state |-> settle[j].state, by |-> j])
            /\ SettleDone(j)
       ELSE /\ settle' = [settle EXCEPT ![j].next = 0]
            /\ UNCHANGED << daemon, orphan, exec, monitored, tailAt,
                            tailJoined, joins, gaveUp, crashes, faults >>
    /\ UNCHANGED << propVars, queue, childVars >>

\* A storage error ends a settlement.  The tail keeps its cursor and reads
\* the page again.  After spawn_shielded's own settlement its caller, unless
\* it was dropped, tries once more.  Everyone else gives up: the monitor and
\* the spawn only print the error, the sweep skips the thread and the daemon
\* goes on to serve.
SettleFails(j) ==
    /\ settle[j] # None /\ faults < MaxFault
    /\ faults' = faults + 1
    /\ \/ /\ j = "executor" /\ exec = "failed"
          /\ exec' = "retried"
          /\ settle' = [settle EXCEPT ![j] = Settlement("failed", 0)]
          /\ UNCHANGED << daemon, gaveUp >>
       \/ /\ settle' = [settle EXCEPT ![j] = None]
          /\ daemon' = IF j = "recovery" THEN "up" ELSE daemon
          /\ gaveUp' = gaveUp \cup ({j} \ {"tail"})
          /\ UNCHANGED exec
    /\ UNCHANGED << propVars, queue, childVars, orphan, monitored, tailAt,
                    tailJoined, joins, crashes >>

(***************************************************************************)
(* The terminal truth of the spawn turn.                                   *)
(***************************************************************************)
\* project_child_terminal_record and terminal_record_names_turn.
NamesSpawnTurn(r) == r.fact.kind \in Terminals /\ r.fact.turn = Spawn

TerminalsAfter(from) == {i \in (from + 1)..Len(parent) : NamesSpawnTurn(parent[i])}

FirstTerminal(from) ==
    parent[CHOOSE i \in TerminalsAfter(from) :
              \A k \in TerminalsAfter(from) : i <= k].fact.kind

\* Mutant: the sweep fails what was running without reading the child.
RecoveredFailed == "failed"

Durable(k) == \E i \in 1..Len(parent) : parent[i].fact = Fact(Spawn, k)

\* fold_child_terminal_truth finds terminals of both kinds: an error.
Conflicting == Durable("completed") /\ Durable("failed")

\* fold_child_terminal_truth, or failed when the child left no terminal.
Recovered == IF TerminalsAfter(0) = {} THEN "failed" ELSE FirstTerminal(0)

(***************************************************************************)
(* The executor.                                                           *)
(***************************************************************************)
HasRow(d) == \E i \in 1..Len(queue) : queue[i].dispatch = d

\* enqueue: a dispatch that has a row folds to it.
Enqueued(d) ==
    IF HasRow(d) THEN queue
    ELSE Append(queue, [dispatch |-> d, acked |-> FALSE])

\* spawn: lease, credentials, first row, process, monitor and tail.
SpawnChild ==
    /\ daemon = "up" /\ exec = "none"
    /\ queue' = Enqueued(Spawn)
    /\ exec' = "serving"
    /\ pc' = [pc EXCEPT ![First] = "idle"]
    /\ UNCHANGED << parent, holder, granted, expired, local, pushed, batchEnd, seen,
                    childVars, daemon, orphan, monitored, tailAt, tailJoined,
                    joins, settle, gaveUp, crashes, faults >>

\* spawn_shielded: an error before or after the first row is enqueued.
SpawnFails ==
    /\ daemon = "up" /\ exec = "none"
    /\ queue' \in {queue, Enqueued(Spawn)}
    /\ exec' = "failed"
    /\ settle' = [settle EXCEPT !["executor"] = Settlement("failed", 0)]
    /\ UNCHANGED << propVars, childVars, daemon, orphan, monitored, tailAt,
                    tailJoined, joins, gaveUp, crashes, faults >>

\* submit.
Submit(d) ==
    /\ daemon = "up" /\ exec = "serving"
    /\ ~HasRow(d)
    /\ queue' = Enqueued(d)
    /\ UNCHANGED << propVars, childVars, parentVars >>

\* The monitor of the child process: settle_remote_process_death.
ChildExitObserved ==
    /\ daemon = "up" /\ exec = "serving" /\ ~ChildUp /\ ~monitored
    /\ monitored' = TRUE
    /\ settle' = [settle EXCEPT !["monitor"] = Settlement("failed", 0)]
    /\ UNCHANGED << propVars, queue, childVars, daemon, orphan, exec, tailAt,
                    tailJoined, joins, gaveUp, crashes, faults >>

\* Mutant: the next cursor is the one after the last record.
TailPollPast ==
    /\ daemon = "up" /\ exec = "serving" /\ settle["tail"] = None
    /\ tailAt < Len(parent)
    /\ tailAt' = Len(parent) + 1
    /\ UNCHANGED << propVars, queue, childVars, daemon, orphan, exec,
                    monitored, tailJoined, joins, settle, gaveUp, crashes, faults >>

\* Mutant: the cursor moves on before the page's terminal is folded.
TailPollEager ==
    /\ daemon = "up" /\ exec = "serving" /\ settle["tail"] = None
    /\ tailAt < Len(parent)
    /\ tailAt' = Len(parent)
    /\ IF ~tailJoined /\ TerminalsAfter(tailAt) # {}
       THEN settle' = [settle EXCEPT !["tail"] =
                Settlement(FirstTerminal(tailAt), Len(parent))]
       ELSE UNCHANGED settle
    /\ UNCHANGED << propVars, queue, childVars, daemon, orphan, exec,
                    monitored, tailJoined, joins, gaveUp, crashes, faults >>

\* run_parent_tail, one poll: a page without a terminal of the spawn turn is
\* folded at once, one with a terminal waits for its settlement.
TailPoll ==
    /\ daemon = "up" /\ exec = "serving" /\ settle["tail"] = None
    /\ tailAt < Len(parent)
    /\ IF ~tailJoined /\ TerminalsAfter(tailAt) # {}
       THEN /\ settle' = [settle EXCEPT !["tail"] =
                  Settlement(FirstTerminal(tailAt), Len(parent))]
            /\ UNCHANGED tailAt
       ELSE tailAt' = Len(parent) /\ UNCHANGED settle
    /\ UNCHANGED << propVars, queue, childVars, daemon, orphan, exec,
                    monitored, tailJoined, joins, gaveUp, crashes, faults >>

\* Everything the daemon held in memory is gone; the child is reparented.
DaemonCrash ==
    /\ daemon # "down" /\ crashes < MaxCrash
    /\ daemon' = "down" /\ crashes' = crashes + 1
    /\ orphan' = TRUE
    /\ exec' = "lost" /\ monitored' = FALSE
    /\ tailAt' = 0 /\ tailJoined' = FALSE
    /\ settle' = [j \in Joiners |-> None] /\ gaveUp' = {}
    /\ UNCHANGED << propVars, queue, childVars, joins, faults >>

\* StartupRecoverySweep::run_once, before the first listener: recover_threads
\* settles a handle that has no join, and skips one whose child's terminals
\* conflict.
DaemonStart ==
    /\ daemon = "down"
    /\ IF Joined \/ Conflicting THEN daemon' = "up" /\ UNCHANGED settle
       ELSE /\ daemon' = "recovering"
            /\ settle' = [settle EXCEPT !["recovery"] = Settlement(Recovered, 0)]
    /\ UNCHANGED << propVars, queue, childVars, orphan, exec, monitored,
                    tailAt, tailJoined, joins, gaveUp, crashes, faults >>

(***************************************************************************)
(* The child process: run_remote_child.                                    *)
(***************************************************************************)
AtLoop(p) == phase = p /\ pc[First] = "idle"

\* Pull the unacknowledged rows after the cursor; a failing pull is retried.
ChildPull ==
    /\ AtLoop("pull") /\ ~orphan /\ daemon = "up"
    /\ page' = {i \in (cursor + 1)..Len(queue) : ~queue[i].acked}
    /\ phase' = IF page' = {} THEN "sync" ELSE "admit"
    /\ UNCHANGED << propVars, queue, cursor, waiting, submitted, parentVars >>

\* The child starts the loop over, with a fresh page.
StartOver == phase' = "pull" /\ page' = {}

\* Rows are handled in sequence order.
Row == Min(page)

Dispatch == queue[Row].dispatch

\* Mutant: the ingress lane does not know what it has submitted.
SubmitTurnBlind ==
    /\ waiting' = Append(waiting, Dispatch)
    /\ submitted' = submitted \cup {Dispatch}

SubmitTurn ==
    /\ waiting' = IF Dispatch \in submitted THEN waiting
                  ELSE Append(waiting, Dispatch)
    /\ submitted' = submitted \cup {Dispatch}

\* submit_durable_remote_envelope: admitted, or a transient error before or
\* after the turn was submitted.
ChildAdmit ==
    /\ AtLoop("admit")
    /\ \/ SubmitTurn /\ phase' = "ack" /\ UNCHANGED page
       \/ SubmitTurn /\ StartOver
       \/ UNCHANGED << waiting, submitted >> /\ StartOver
    /\ UNCHANGED << propVars, queue, cursor, parentVars >>

Acked == [queue EXCEPT ![Row].acked = TRUE]

\* Mutant: the cursor moves on although the acknowledgement failed.
ChildAckCareless(reply) ==
    /\ AtLoop("ack") /\ Reachable(reply)
    /\ queue' = IF reply = "dropped" THEN queue ELSE Acked
    /\ cursor' = Row /\ page' = page \ {Row}
    /\ phase' = IF page = {Row} THEN "sync" ELSE "admit"
    /\ UNCHANGED << propVars, waiting, submitted, parentVars >>

\* acknowledge_ingress, then the cursor is assigned and persisted.
ChildAck(reply) ==
    /\ AtLoop("ack") /\ Reachable(reply)
    /\ queue' = IF reply = "dropped" THEN queue ELSE Acked
    /\ \/ reply # "answered" /\ StartOver /\ UNCHANGED cursor
       \/ /\ reply = "answered"
          /\ cursor' = Row /\ page' = page \ {Row}
          /\ phase' = IF page = {Row} THEN "sync" ELSE "admit"
    /\ UNCHANGED << propVars, waiting, submitted, parentVars >>

\* A process that ends leaves what is on disk: the cursor and its streams.
Forgets == StartOver /\ waiting' = <<>> /\ UNCHANGED << cursor, submitted >>

\* propagate_once; the loop starts over when it returns, and the process ends
\* when it was fenced off or its stream diverged.
ChildSync ==
    /\ phase = "sync"
    /\ \/ StartBatch(First)
       \/ Converged(First)
       \/ Reconcile(First)
       \/ \E reply \in Replies : Reachable(reply) /\ PropagateStep(First, reply)
    /\ IF pc'[First] \notin Up THEN Forgets
       ELSE /\ phase' = IF pc'[First] = "idle" THEN "pull" ELSE "sync"
            /\ UNCHANGED << cursor, page, waiting, submitted >>
    /\ UNCHANGED << queue, parentVars >>

\* remote_parent_process_is_alive is asked at the top of the loop only.
ChildSeesOrphan ==
    /\ AtLoop("pull") /\ orphan
    /\ Die(First) /\ Forgets
    /\ UNCHANGED << queue, parentVars >>

\* The process is killed, its boot fails, or a row is refused for good.
ChildDies ==
    /\ Die(First) /\ Forgets
    /\ UNCHANGED << queue, parentVars >>

\* The child's last record is this fact of the turn at the head.
LastIs(k) ==
    /\ local[First] # <<>>
    /\ Last(local[First]).fact = Fact(Head(waiting), k)

Started == LastIs("submitted")

\* turn.completed is on the stream, and the turn's runtime got an error.
Ending == LastIs("completed")

TurnStart ==
    /\ waiting # <<>> /\ ~Started /\ ~Ending
    /\ AppendLocal(First, Fact(Head(waiting), "submitted"))
    /\ UNCHANGED << queue, childVars, parentVars >>

TurnEnd ==
    /\ waiting # <<>> /\ Started
    /\ \E k \in Terminals : AppendLocal(First, Fact(Head(waiting), k))
    /\ waiting' = Tail(waiting)
    /\ UNCHANGED << queue, cursor, page, phase, submitted, parentVars >>

\* A storage error the turn meets as it ends.
TurnFault ==
    /\ faults < MaxFault /\ faults' = faults + 1
    /\ UNCHANGED << queue, cursor, page, phase, submitted, daemon, orphan, exec,
                    monitored, tailAt, tailJoined, joins, settle, gaveUp, crashes >>

\* append_turn_completed_event fails behind its turn.completed.
TurnCompletionErrs ==
    /\ waiting # <<>> /\ Started
    /\ AppendLocal(First, Fact(Head(waiting), "completed"))
    /\ UNCHANGED waiting
    /\ TurnFault

\* FailedTurnTransition::fail looks for an earlier turn.failed only.
TurnFailsLate ==
    /\ waiting # <<>> /\ Ending
    /\ AppendLocal(First, Fact(Head(waiting), "failed"))
    /\ waiting' = Tail(waiting)
    /\ UNCHANGED << queue, cursor, page, phase, submitted, parentVars >>

\* FailedTurnTransition::fail logs an error of its append: the runtime goes
\* on to the next turn, whatever the stream says of this one.
TurnEndUnrecorded ==
    /\ waiting # <<>> /\ (Started \/ Ending) /\ ChildUp
    /\ waiting' = Tail(waiting)
    /\ TurnFault
    /\ UNCHANGED propVars

(***************************************************************************)
(* Replacement propagators (external): another holder of the stream.       *)
(***************************************************************************)
Replacement(q) ==
    /\ daemon = "up" /\ exec # "none"
    /\ \/ Supersede(q)
       \/ TakeOver(q, First)
    /\ UNCHANGED << queue, childVars, parentVars >>

ReplacementStep(q) ==
    /\ \/ /\ Cardinality({i \in 1..Len(local[q]) : local[q][i].by = q}) < MaxForeign
          /\ AppendLocal(q, Fact(Spawn, "progress"))
       \/ StartBatch(q)
       \/ Reconcile(q)
       \/ \E reply \in Replies : Reachable(reply) /\ PropagateStep(q, reply)
    /\ UNCHANGED << queue, childVars, parentVars >>

LeaseExpires == Expire /\ UNCHANGED << queue, childVars, parentVars >>

Others == Propagators \ {First}

RemoteNext ==
    \/ \E j \in Joiners : SettleRead(j)
    \/ \E j \in Joiners : SettleAppend(j)
    \/ \E j \in Joiners : SettleFails(j)
    \/ SpawnChild
    \/ SpawnFails
    \/ \E d \in Dispatches \ {Spawn} : Submit(d)
    \/ ChildExitObserved
    \/ TailPoll
    \/ DaemonCrash
    \/ DaemonStart
    \/ ChildPull
    \/ ChildAdmit
    \/ \E reply \in Replies : ChildAck(reply)
    \/ ChildSync
    \/ ChildSeesOrphan
    \/ ChildDies
    \/ TurnStart
    \/ TurnEnd
    \/ TurnCompletionErrs
    \/ TurnFailsLate
    \/ TurnEndUnrecorded
    \/ \E q \in Others : Replacement(q)
    \/ \E q \in Others : ReplacementStep(q)
    \/ LeaseExpires

RemoteSpec == RemoteInit /\ [][RemoteNext]_remoteVars

(***************************************************************************)
(* Properties.                                                             *)
(***************************************************************************)
RemoteTypeOK ==
    /\ PropagationTypeOK
    /\ queue \in Seq([dispatch : Dispatches, acked : BOOLEAN])
    /\ cursor \in 0..Len(queue)
    /\ page \subseteq 1..Len(queue)
    /\ phase \in {"pull", "admit", "ack", "sync"}
    /\ waiting \in Seq(Dispatches) /\ submitted \subseteq Dispatches
    /\ daemon \in {"up", "down", "recovering"} /\ orphan \in BOOLEAN
    /\ exec \in {"none", "serving", "failed", "retried", "lost"}
    /\ monitored \in BOOLEAN
    /\ tailAt \in 0..Len(parent) /\ tailJoined \in BOOLEAN
    /\ joins \in Seq([state : Terminals, by : Joiners])
    /\ settle \in [Joiners -> {None} \cup Settlements]
    /\ gaveUp \subseteq Joiners
    /\ crashes \in 0..MaxCrash /\ faults \in 0..MaxFault

\* The handle is settled once, although the parent's tail, the monitor of
\* the child process, a failing spawn and the recovery sweep all race to it.
JoinedOnce == Len(joins) <= 1

\* A join by the tail or by recovery says what the parent durably holds of
\* the spawn turn at that moment: completed exactly when its completion is
\* in the parent's store, and the tail never joins without a terminal.  Only
\* the process monitor and a failing spawn join without looking.
JoinFollowsDurableTruth ==
    [][\A i \in (Len(joins) + 1)..Len(joins') :
          LET j == joins'[i]
          IN  /\ j.by \in {"tail", "recovery"} =>
                     (j.state = "completed" <=> Durable("completed"))
              /\ j.by = "tail" => Durable(j.state)]_remoteVars

\* Who lets an open handle stand until the next daemon start.
LeftOpen ==
    \/ exec \in {"failed", "retried"} /\ "executor" \in gaveUp
    \/ exec = "serving" /\ ~ChildUp /\ "monitor" \in gaveUp
    \/ exec = "lost" /\ ("recovery" \in gaveUp \/ Conflicting)

\* A handle without a join has someone left to settle it: a daemon about to
\* recover, a spawn or a settlement under way, an exit not yet observed, a
\* terminal the tail has yet to read, or a child that is up with no terminal
\* of the spawn turn in the parent's store, whose exit is watched.  It stands
\* open until the next daemon start only when the last settler met a storage
\* error of its own: the failing spawn, the monitor of a dead child that left
\* no terminal, or the sweep of this start.  Past a start it stands open also
\* when the child's terminals conflict, which every sweep skips.
OpenHandleHasASettler ==
    \/ Joined
    \/ daemon # "up"
    \/ exec = "none"
    \/ \E j \in Joiners : settle[j] # None
    \/ /\ exec = "serving"
       /\ \/ ChildUp /\ ~Durable("completed") /\ ~Durable("failed")
          \/ ~ChildUp /\ ~monitored
          \/ TerminalsAfter(tailAt) # {}
    \/ LeftOpen

\* No turn sent to the child is dropped by a lost answer, an error or a
\* retry: a row is acknowledged only once the child has submitted its turn,
\* and the child's cursor never passes a row the parent may still offer.
NoTurnDropped ==
    \A i \in 1..Len(queue) :
        /\ queue[i].acked => queue[i].dispatch \in submitted
        /\ i <= cursor => queue[i].acked

\* Record i of the child's stream starts a turn.
StartsTurn(i) == local[First][i].fact.kind = "submitted"

\* Redelivered rows never inject a turn twice or out of order: the turns the
\* child has started are, in order, distinct dispatches of the queue.
InjectedOnceInOrder ==
    \A i, k \in 1..Len(local[First]) :
        i < k /\ StartsTurn(i) /\ StartsTurn(k) =>
            \E a, b \in 1..Len(queue) :
                /\ a < b
                /\ queue[a].dispatch = local[First][i].fact.turn
                /\ queue[b].dispatch = local[First][k].fact.turn

=============================================================================

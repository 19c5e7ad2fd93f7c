------------------------------ MODULE ToolBatch ------------------------------
(***************************************************************************)
(* One batch of tool calls of one turn, as the agent loop runs it:          *)
(* requests are witnessed, every call runs in a task of its own under the   *)
(* holds of its tool, a monitor per task races the task's settlement with   *)
(* the cancellation grace, results are committed in call order, and a turn  *)
(* that is replayed after a crash or a shutdown recovers each call by its   *)
(* effect class.  Controllers allow, rewrite, deny or suspend a call by     *)
(* facts on the control stream; a suspended call is resumed by a command.   *)
(*                                                                          *)
(* The request of call c in the k-th execution of the batch is identified   *)
(* by <<c, k>>: one append writes the requests of all calls.  A replay      *)
(* sends the assistant's recorded calls again, so names, arguments and      *)
(* fingerprints are those of the first execution, and the bound manifest    *)
(* snapshot is what a recorded outcome may fail to match.                   *)
(***************************************************************************)
EXTENDS Naturals, Sequences, FiniteSets

CONSTANTS
  N,              \* calls in the batch
  Tool,           \* [1..N -> [kind, arg]]: the bound tool of each call
  AtMostOnce,     \* the calls whose tool is at-most-once
  Controlled,     \* the calls whose tool has an active controller
  NoArg,          \* an argument from which no hold key can be derived
  MaxRuns,        \* bound: executions of the batch
  MaxSnapshots,   \* bound: manifest bindings
  MaxFacts,       \* bound: control facts
  MaxResumes,     \* bound: resume commands
  MaxTroubles     \* bound: process crashes, storage errors and rebindings

Calls == 1..N
Kinds == {"shell", "thread", "mcp", "read", "other"}

ASSUME ToolBatchAssumption ==
  /\ N \in Nat \ {0}
  /\ \A c \in Calls : Tool[c].kind \in Kinds
  /\ AtMostOnce \subseteq Calls
  /\ Controlled \subseteq Calls
  /\ MaxRuns \in Nat /\ MaxSnapshots \in Nat \ {0} /\ MaxFacts \in Nat
  /\ MaxResumes \in Nat /\ MaxTroubles \in Nat

VARIABLES
  requests,   \* durable: snapshot of each execution's tool.call.requested events
  results,    \* durable: result messages per call and request
  completed,  \* durable: <<call, snapshot>> with a tool.call.completed event
  facts,      \* durable: tool.call.decision and tool.call.suspended facts
  snapshot,   \* durable: the bound manifest snapshot
  turn,       \* durable: "open", "continue" (next round), "cancelled", "failed"
  pc,         \* the loop: "idle", "batch", "commit" or "resume"
  inv,        \* per call, its owned task: "none", "starting", "executing", "settled"
  mon,        \* per call, its monitor: "none", "watching", "recording", "settled", "taken"
  out,        \* per call, the prepared outcome
  recovery,   \* per call, the recovery action
  strays,     \* tasks that record their own outcome, outside the batch
  ending,     \* what ends the batch: "none", "cancelled", "failed" or "stopped"
  cursor,     \* the call whose outcome is being committed
  half,       \* its result is appended, its completion is not
  resuming,   \* the resumed call and the step it is at
  fresh,      \* this runtime has not been sent the turn
  ran,        \* history: the requests whose tool was started, and by what
  resumed,    \* history: the calls whose resumption was decided
  resumes, troubles   \* spent bounds

durable == <<requests, results, completed, facts, snapshot, turn>>
tasks   == <<inv, mon, out, recovery>>
loop    == <<pc, ending, cursor, half, resuming, fresh>>
history == <<ran, resumed>>
spent   == <<resumes, troubles>>
vars    == <<durable, tasks, strays, loop, history, spent>>

(* The model follows the turn until it goes on to the next round or has      *)
(* failed; then only the tasks that are left record their outcomes.          *)
Followed == turn \in {"open", "cancelled"}

Trouble == Followed /\ troubles < MaxTroubles /\ troubles' = troubles + 1

-----------------------------------------------------------------------------
(* Holds *)

Shared(key)    == [key |-> key, access |-> "shared"]
Exclusive(key) == [key |-> key, access |-> "exclusive"]
Global == <<"global">>

DeriveToolHolds(tool) ==
  CASE tool.kind = "shell" -> {Exclusive(<<"shell">>), Shared(Global)}
    [] tool.kind = "thread" /\ tool.arg # NoArg ->
         {Exclusive(<<"thread", tool.arg>>), Shared(Global)}
    [] tool.kind = "mcp" /\ tool.arg # NoArg ->
         {Shared(<<"mcp", tool.arg>>), Shared(Global)}
    [] tool.kind = "read" -> {Shared(Global)}
    [] OTHER -> {Exclusive(Global)}

HoldsConflict(c, d) ==
  \E a \in DeriveToolHolds(Tool[c]), b \in DeriveToolHolds(Tool[d]) :
    a.key = b.key /\ "exclusive" \in {a.access, b.access}

(* As if a call waited for every call it conflicts with, later ones too.    *)
WaitEdgesBothWays(c) == {d \in Calls : d # c /\ HoldsConflict(d, c)}

WaitEdges(c) == {d \in Calls : d < c /\ HoldsConflict(d, c)}

-----------------------------------------------------------------------------
(* Control facts *)

Terminals == {"Allow", "Rewrite", "Deny"}
FactKinds == Terminals \cup {"Suspended", "Malformed"}

(* A fact a controller discharged must name the request; a witnessed one    *)
(* (src = 0) stands for every request of its subject.                       *)
FreshForAny(f, k) == TRUE

FreshControlFact(f, k) == f.src \in {0, k}

DecideToolCall(c, k, snap) ==
  LET mine(kinds) == {f \in facts : /\ f.call = c /\ f.kind \in kinds
                                    /\ f.snap = snap /\ FreshControlFact(f, k)}
      malformed == \E f \in facts : f.call = c /\ f.kind = "Malformed" /\ f.src = k
      only(kinds) == CHOOSE f \in mine(kinds) : TRUE
  IN  CASE malformed -> "Deny"
        [] ~malformed /\ Cardinality(mine(Terminals)) = 1 -> only(Terminals).kind
        [] ~malformed /\ Cardinality(mine(Terminals)) > 1 -> "Deny"
        [] ~malformed /\ mine(Terminals) = {} ->
             CASE Cardinality(mine({"Suspended"})) = 0 -> "NoDecision"
               [] Cardinality(mine({"Suspended"})) = 1 -> "Wait"
               [] OTHER -> "Deny"

(* The suspensions that no completion and no terminal decision closes. *)
PendingSuspensions ==
  {f \in facts :
     /\ f.kind = "Suspended"
     /\ <<f.call, IF f.src = 0 THEN f.snap ELSE requests[f.src]>> \notin completed
     /\ ~ \E g \in facts : g.kind \in Terminals /\ g.call = f.call /\ g.snap = f.snap}

(* A controller or a witness answers a request that is still open. *)
ControlFact(c, kind, src) ==
  /\ Followed /\ Cardinality(facts) < MaxFacts
  /\ c \in Controlled /\ requests # <<>> /\ <<c, snapshot>> \notin completed
  /\ src \in {0, Len(requests)}
  /\ kind = "Malformed" => src # 0
  /\ facts' = facts \cup {[call |-> c, kind |-> kind, snap |-> snapshot, src |-> src]}
  /\ UNCHANGED <<requests, results, completed, snapshot, turn, tasks, strays, loop,
                 history, spent>>

(* A new manifest binding of the thread changes the snapshot.  Every caller *)
(* records one while the thread runs no turn.                               *)
Rebind ==
  /\ pc = "idle" /\ Trouble
  /\ snapshot < MaxSnapshots
  /\ snapshot' = snapshot + 1
  /\ UNCHANGED <<requests, results, completed, facts, turn, tasks, strays, loop,
                 history, resumes>>

-----------------------------------------------------------------------------
(* The recovery of a replayed call *)

EffectClass(c, prior) ==
  IF \/ c \in AtMostOnce
     \/ /\ Tool[c].kind = "shell"
        /\ DecideToolCall(c, prior, requests[prior]) = "Rewrite"
  THEN "at-most-once" ELSE "retryable"

OutcomeExists(c, prior, snap) == results[c][prior] > 0 /\ requests[prior] = snap

(* As if an interrupted call were always safe to run again. *)
ToolRecoveryActionEager(class, outcomeExists, fingerprintMatches) ==
  IF outcomeExists /\ fingerprintMatches THEN "Reuse" ELSE "Reexecute"

ToolRecoveryAction(class, outcomeExists, fingerprintMatches) ==
  CASE outcomeExists /\ fingerprintMatches -> "Reuse"
    [] ~(outcomeExists /\ fingerprintMatches) ->
         IF class = "at-most-once" THEN "ConservativeFailure" ELSE "Reexecute"

RecoveryOf(c) ==
  LET prior == Len(requests) IN
  IF prior = 0 THEN "Reexecute"
  ELSE ToolRecoveryAction(EffectClass(c, prior),
                          OutcomeExists(c, prior, snapshot),
                          requests[prior] = snapshot)

-----------------------------------------------------------------------------
(* The batch scheduler.  One pass: a cancelled turn answers every call that *)
(* was not launched; otherwise each call whose wait edges are done starts.  *)

(* The turn's cancellation token: every end of the batch cancels it. *)
cancelled == ending # "none"

req == Len(requests)     \* the request every task of the batch belongs to

Unlaunched(m) == {c \in Calls : m[c] = "none"}

Ready(m) == {c \in Unlaunched(m) : \A d \in WaitEdges(c) : m[d] = "taken"}

(* As if the pass never looked at the token: a call waiting for an abandoned *)
(* one is launched.                                                          *)
SchedulePassUncancelled(m, o, token) ==
  /\ mon' = [c \in Calls |-> IF c \in Ready(m) THEN "watching" ELSE m[c]]
  /\ out' = o

SchedulePass(m, o, token) ==
  IF token
  THEN /\ mon' = [c \in Calls |-> IF c \in Unlaunched(m) THEN "taken" ELSE m[c]]
       /\ out' = [c \in Calls |-> IF c \in Unlaunched(m) THEN "completed" ELSE o[c]]
  ELSE /\ mon' = [c \in Calls |-> IF c \in Ready(m) THEN "watching" ELSE m[c]]
       /\ out' = o

(* The calls a pass starts get their task. *)
Launched(i) ==
  [c \in Calls |-> IF mon'[c] = "watching" /\ mon[c] # "watching" THEN "starting" ELSE i[c]]

NoTasks == [c \in Calls |-> "none"]
NotResuming == [call |-> 1, st |-> "execute"]

(* The loop is idle: of the batch's own state only the tasks it left to      *)
(* record their outcome matter.                                              *)
AtRest(left) ==
  /\ pc' = "idle"
  /\ inv' = NoTasks /\ mon' = NoTasks /\ recovery' = NoTasks
  /\ out' = [c \in Calls |-> IF out[c] = "abandoned" /\ left THEN "abandoned" ELSE "none"]
  /\ ending' = "none" /\ cursor' = 1 /\ half' = FALSE
  /\ resuming' = NotResuming

(* prepare_tool_results: the requests are appended, then recovery is decided *)
(* from what the thread recorded before them.                                *)
StartBatch ==
  /\ Len(requests) < MaxRuns
  /\ requests' = Append(requests, snapshot)
  /\ recovery' = [c \in Calls |-> RecoveryOf(c)]
  /\ SchedulePass(NoTasks, NoTasks, FALSE)
  /\ inv' = [c \in Calls |-> IF mon'[c] = "watching" THEN "starting" ELSE "none"]
  /\ pc' = "batch" /\ ending' = "none"
  /\ cursor' = 1 /\ half' = FALSE
  /\ UNCHANGED <<results, completed, facts, snapshot, turn, strays, resuming,
                 history, spent>>

(* The runtime ends with the turn failed; turn.failed is best effort, and   *)
(* when the same outage loses it a reloaded runtime is sent the turn again. *)
FailTurn(evidence) ==
  /\ AtRest(TRUE)
  /\ turn' = IF evidence THEN "failed" ELSE turn
  /\ fresh' = ~evidence
  /\ UNCHANGED <<requests, results, completed, facts, snapshot, strays, history>>

(* FailedTurnTransition::fail logs an error of its own append and goes on. *)
TurnFails ==
  \/ FailTurn(TRUE) /\ UNCHANGED spent
  \/ Trouble /\ FailTurn(FALSE) /\ UNCHANGED resumes

(* The latest execution of the batch that some call has not answered. *)
BatchIncomplete ==
  \E c \in Calls : <<c, requests[req]>> \notin completed \/ results[c][req] = 0

MalformedFact == \E f \in facts : f.kind = "Malformed"

(* run_provider_turn up to its tool batch: the turn is new, or sent again   *)
(* after a crash, a shutdown or a failure that left no evidence.            *)
RunTurn ==
  /\ pc = "idle" /\ turn = "open" /\ fresh
  /\ \/ /\ requests = <<>>
        /\ fresh' = FALSE
        /\ StartBatch
     \/ /\ requests # <<>>
        /\ IF MalformedFact
           THEN TurnFails
           ELSE \/ /\ PendingSuspensions # {}
                   /\ fresh' = FALSE
                   /\ UNCHANGED <<durable, tasks, strays, pc, ending, cursor,
                                  half, resuming, history, spent>>
                \/ /\ PendingSuspensions = {}
                   /\ BatchIncomplete
                   /\ fresh' = FALSE
                   /\ StartBatch
                \/ /\ PendingSuspensions = {}
                   /\ ~BatchIncomplete
                   /\ turn' = "continue" /\ fresh' = FALSE
                   /\ UNCHANGED <<requests, results, completed, facts, snapshot, tasks,
                                  strays, pc, ending, cursor, half, resuming,
                                  history, spent>>

-----------------------------------------------------------------------------
(* The owned task of one call *)

(* What prepare_tool_call makes of the call: a prepared outcome, or "run". *)
Prepared(c, k) ==
  CASE recovery[c] # "Reexecute" -> "completed"
    [] recovery[c] = "Reexecute" /\ c \notin Controlled -> "run"
    [] recovery[c] = "Reexecute" /\ c \in Controlled ->
         CASE DecideToolCall(c, k, snapshot) \in {"Allow", "Rewrite"} -> "run"
           [] DecideToolCall(c, k, snapshot) \in {"Deny", "NoDecision"} -> "denied"
           [] DecideToolCall(c, k, snapshot) = "Wait" -> "suspended"

ToolStarts(c, k) ==
  /\ ran' = ran \cup {<<c, k, "batch">>}
  /\ UNCHANGED resumed

InvocationStarts(c) ==
  /\ inv[c] = "starting"
  /\ IF Prepared(c, req) = "run"
     THEN /\ inv' = [inv EXCEPT ![c] = "executing"]
          /\ ToolStarts(c, req)
          /\ UNCHANGED out
     ELSE /\ inv' = [inv EXCEPT ![c] = "settled"]
          /\ out' = [out EXCEPT ![c] = Prepared(c, req)]
          /\ UNCHANGED history
  /\ UNCHANGED <<durable, mon, recovery, strays, loop, spent>>

(* The task's compare-exchange from AWAITED to SETTLED. *)
InvocationSettles(c) ==
  /\ inv[c] = "executing"
  /\ inv' = [inv EXCEPT ![c] = "settled"]
  /\ out' = [out EXCEPT ![c] = "completed"]
  /\ UNCHANGED <<durable, mon, recovery, strays, loop, history, spent>>

(* A storage error inside prepare_tool_call settles the task with an error. *)
InvocationErrs(c) ==
  /\ inv[c] \in {"starting", "executing"}
  /\ Trouble
  /\ inv' = [inv EXCEPT ![c] = "settled"]
  /\ out' = [out EXCEPT ![c] = "error"]
  /\ UNCHANGED <<durable, mon, recovery, strays, loop, history, resumes>>

Stray(c, st) == [call |-> c, req |-> req, st |-> st, act |-> recovery[c]]

(* The monitor sees the task joined.  When the token is cancelled it        *)
(* records the outcome itself and leaves nothing to the batch.              *)
MonitorJoins(c) ==
  /\ mon[c] = "watching" /\ inv[c] = "settled"
  /\ inv' = [inv EXCEPT ![c] = "none"]
  /\ IF cancelled
     THEN /\ strays' = strays \cup {Stray(c, "returned")}
          /\ mon' = [mon EXCEPT ![c] = "recording"]
          /\ out' = [out EXCEPT ![c] = "abandoned"]
     ELSE /\ mon' = [mon EXCEPT ![c] = "settled"]
          /\ UNCHANGED <<strays, out>>
  /\ UNCHANGED <<durable, recovery, loop, history, spent>>

MonitorRecorded(c) ==
  /\ mon[c] = "recording"
  /\ ~ \E s \in strays : s.call = c /\ s.req = req
  /\ mon' = [mon EXCEPT ![c] = "settled"]
  /\ UNCHANGED <<durable, inv, out, recovery, strays, loop, history, spent>>

(* As if the grace timer abandoned the task without the compare-exchange:   *)
(* a task that settled meanwhile has already returned its outcome.          *)
MonitorAbandonsBlindly(c) ==
  /\ mon[c] = "watching" /\ cancelled
  /\ inv[c] # "none"
  /\ strays' = IF inv[c] = "settled" THEN strays ELSE strays \cup {Stray(c, inv[c])}
  /\ inv' = [inv EXCEPT ![c] = "none"]
  /\ mon' = [mon EXCEPT ![c] = "settled"]
  /\ out' = [out EXCEPT ![c] = "abandoned"]
  /\ UNCHANGED <<durable, recovery, loop, history, spent>>

(* As if a task that settled could still be left to record its outcome.     *)
MonitorAbandonsSettled(c) ==
  /\ mon[c] = "watching" /\ cancelled
  /\ inv[c] # "none"
  /\ strays' = strays \cup {Stray(c, inv[c])}
  /\ inv' = [inv EXCEPT ![c] = "none"]
  /\ mon' = [mon EXCEPT ![c] = "settled"]
  /\ out' = [out EXCEPT ![c] = "abandoned"]
  /\ UNCHANGED <<durable, recovery, loop, history, spent>>

(* As if the grace held only for a call whose tool has not started.         *)
MonitorAbandonsUnstarted(c) ==
  /\ mon[c] = "watching" /\ cancelled
  /\ inv[c] = "starting"
  /\ strays' = strays \cup {Stray(c, inv[c])}
  /\ inv' = [inv EXCEPT ![c] = "none"]
  /\ mon' = [mon EXCEPT ![c] = "settled"]
  /\ out' = [out EXCEPT ![c] = "abandoned"]
  /\ UNCHANGED <<durable, recovery, loop, history, spent>>

(* The grace elapsed first: AWAITED to ABANDONED, and the task will record  *)
(* its own outcome when it returns, if it ever does.                        *)
MonitorAbandons(c) ==
  /\ mon[c] = "watching" /\ cancelled
  /\ inv[c] \in {"starting", "executing"}
  /\ strays' = strays \cup {Stray(c, inv[c])}
  /\ inv' = [inv EXCEPT ![c] = "none"]
  /\ mon' = [mon EXCEPT ![c] = "settled"]
  /\ out' = [out EXCEPT ![c] = "abandoned"]
  /\ UNCHANGED <<durable, recovery, loop, history, spent>>

(* The batch takes a monitor's outcome and makes its next pass; after the   *)
(* last call it hands the outcomes over for commit.                         *)
BatchTakes(c) ==
  /\ pc = "batch" /\ mon[c] = "settled"
  /\ SchedulePass([mon EXCEPT ![c] = "taken"], out, cancelled)
  /\ inv' = Launched(inv)
  /\ pc' = IF \A d \in Calls : mon'[d] = "taken" THEN "commit" ELSE "batch"
  /\ UNCHANGED <<durable, recovery, strays, ending, cursor, half, resuming,
                 fresh, history, spent>>

-----------------------------------------------------------------------------
(* Tasks that outlived the batch's interest, and monitors that record *)

Moved(s, st) == strays' = (strays \ {s}) \cup {[s EXCEPT !.st = st]}

(* The task of an abandoned call goes on as it was. *)
StrayRuns(s) ==
  /\ \/ /\ s.st = "starting"
        /\ LET runs == /\ s.act = "Reexecute"
                       /\ \/ s.call \notin Controlled
                          \/ DecideToolCall(s.call, s.req, snapshot) \in {"Allow", "Rewrite"}
           IN  IF runs THEN Moved(s, "executing") /\ ToolStarts(s.call, s.req)
               ELSE Moved(s, "returned") /\ UNCHANGED history
     \/ /\ s.st = "executing"
        /\ Moved(s, "returned")
        /\ UNCHANGED history
  /\ UNCHANGED <<durable, tasks, loop, spent>>

AddResult(c, k) == results' = [results EXCEPT ![c][k] = results[c][k] + 1]

(* As if a retry did not look for the result it already appended. *)
ExistingToolResultMissed(c, k) == FALSE

ExistingToolResult(c, k) == results[c][k] > 0

(* append_detached_tool_call_outcome_until_recorded: a completion under the *)
(* same snapshot ends it; otherwise the result, unless this request has it, *)
(* and then the completion.  An error only makes it start over.             *)
StrayRecords(s) ==
  /\ \/ /\ s.st \in {"returned", "half"}
        /\ <<s.call, requests[s.req]>> \in completed
        /\ strays' = strays \ {s}
        /\ UNCHANGED <<results, completed, troubles>>
     \/ /\ s.st = "returned"
        /\ <<s.call, requests[s.req]>> \notin completed
        /\ Moved(s, "half")
        /\ IF ExistingToolResult(s.call, s.req) THEN UNCHANGED results
           ELSE AddResult(s.call, s.req)
        /\ UNCHANGED <<completed, troubles>>
     \/ /\ s.st = "half"
        /\ \/ /\ completed' = completed \cup {<<s.call, requests[s.req]>>}
              /\ strays' = strays \ {s}
              /\ UNCHANGED <<results, troubles>>
           \/ /\ Trouble
              /\ Moved(s, "returned")
              /\ UNCHANGED <<results, completed>>
  /\ UNCHANGED <<requests, facts, snapshot, turn, tasks, loop, history, resumes>>

-----------------------------------------------------------------------------
(* Commands that end the batch, and the commit of its outcomes *)

(* Cancel, CancelTurn, an interrupting submission or the runtime's own      *)
(* cancellation ("cancelled"), a shutdown ("stopped"), a steer that cannot  *)
(* be appended ("failed").  During the commit the command waits for it.     *)
EndBatch(why) ==
  /\ pc \in {"batch", "commit"} /\ ending = "none"
  /\ ending' = why
  /\ IF why = "failed" THEN Trouble ELSE UNCHANGED troubles
  /\ UNCHANGED <<durable, tasks, strays, pc, cursor, half, resuming, fresh, history,
                 resumes>>

Appends(c) == out[c] \in {"completed", "denied"}

(* append_tool_results, one call at a time in call order. *)
CommitResult ==
  /\ pc = "commit" /\ cursor \in Calls /\ Appends(cursor) /\ ~half
  /\ AddResult(cursor, req)
  /\ half' = TRUE
  /\ UNCHANGED <<requests, completed, facts, snapshot, turn, tasks, strays, pc,
                 ending, cursor, resuming, fresh, history, spent>>

(* As if the completion were written first. *)
CommitCompletionFirst ==
  /\ pc = "commit" /\ cursor \in Calls /\ Appends(cursor)
  /\ completed' = completed \cup {<<cursor, requests[req]>>}
  /\ cursor' = cursor + 1 /\ half' = FALSE
  /\ UNCHANGED <<requests, results, facts, snapshot, turn, tasks, strays, pc,
                 ending, resuming, fresh, history, spent>>

CommitCompletion ==
  /\ pc = "commit" /\ cursor \in Calls /\ Appends(cursor) /\ half
  /\ completed' = completed \cup {<<cursor, requests[req]>>}
  /\ cursor' = cursor + 1 /\ half' = FALSE
  /\ UNCHANGED <<requests, results, facts, snapshot, turn, tasks, strays, pc,
                 ending, resuming, fresh, history, spent>>

(* A suspended call appends turn.waiting, which nothing reads back; an      *)
(* abandoned one appends nothing; an error is kept for the end.             *)
CommitNothing ==
  /\ pc = "commit" /\ cursor \in Calls /\ ~Appends(cursor)
  /\ cursor' = cursor + 1
  /\ UNCHANGED <<durable, tasks, strays, pc, ending, half, resuming, fresh,
                 history, spent>>

AnErrorPrepared == \E c \in Calls : out[c] = "error"

CommitDone ==
  /\ pc = "commit" /\ cursor > N
  /\ IF AnErrorPrepared \/ ending = "failed"
     THEN TurnFails
     ELSE /\ AtRest(TRUE)
          /\ turn' = CASE ending = "cancelled" -> "cancelled"
                       [] ending = "none" /\ (\A c \in Calls : out[c] # "suspended") -> "continue"
                       [] OTHER -> "open"
          /\ fresh' = (ending = "stopped")
          /\ UNCHANGED <<requests, results, completed, facts, snapshot, strays, history,
                         spent>>

(* A storage error of the commit. *)
CommitFails ==
  /\ pc = "commit" /\ cursor \in Calls
  /\ Trouble
  /\ \E evidence \in BOOLEAN : FailTurn(evidence)
  /\ UNCHANGED resumes

-----------------------------------------------------------------------------
(* The resumption of a suspended call *)

(* The resumption is refused: the turn fails, with or without evidence. *)
ResumeRefused ==
  /\ pc' = "idle"
  /\ \/ turn' = "failed" /\ fresh' = FALSE /\ UNCHANGED troubles
     \/ Trouble /\ fresh' = TRUE /\ UNCHANGED turn
  /\ UNCHANGED <<resuming, resumed>>

Resume(c) ==
  /\ pc = "idle" /\ Followed
  /\ resumes < MaxResumes /\ resumes' = resumes + 1
  /\ IF Len(requests) # 1
     THEN ResumeRefused
     ELSE /\ <<c, requests[1]>> \notin completed
          /\ \/ /\ MalformedFact \/ ~ \E f \in facts : f.call = c /\ f.kind = "Suspended"
                /\ ResumeRefused
             \/ /\ ~MalformedFact
                /\ \E f \in facts : f.call = c /\ f.kind = "Suspended"
                /\ DecideToolCall(c, 1, requests[1]) \in Terminals
                /\ pc' = "resume"
                /\ resumed' = resumed \cup {c}
                /\ resuming' = [call |-> c,
                                st |-> IF DecideToolCall(c, 1, requests[1]) = "Deny"
                                       THEN "result" ELSE "execute"]
                /\ UNCHANGED <<turn, fresh, troubles>>
  /\ UNCHANGED <<requests, results, completed, facts, snapshot, tasks, strays,
                 ending, cursor, half, ran>>

ResumeExecutes ==
  /\ pc = "resume" /\ resuming.st = "execute"
  /\ resuming' = [resuming EXCEPT !.st = "result"]
  /\ ran' = ran \cup {<<resuming.call, 1, "resume">>}
  /\ UNCHANGED <<durable, tasks, strays, pc, ending, cursor, half, fresh,
                 resumed, spent>>

ResumeAppendsResult ==
  /\ pc = "resume" /\ resuming.st = "result"
  /\ AddResult(resuming.call, 1)
  /\ resuming' = [resuming EXCEPT !.st = "completion"]
  /\ UNCHANGED <<requests, completed, facts, snapshot, turn, tasks, strays, pc,
                 ending, cursor, half, fresh, history, spent>>

(* As if one answered call were enough to go on with the turn. *)
ToolCallBatchCompletedAny(done) == \E c \in Calls : <<c, requests[1]>> \in done

ToolCallBatchCompleted(done) == \A c \in Calls : <<c, requests[1]>> \in done

(* The last completion of the batch lets the turn go on. *)
ResumeCompletes ==
  /\ pc = "resume" /\ resuming.st = "completion"
  /\ completed' = completed \cup {<<resuming.call, requests[1]>>}
  /\ AtRest(TRUE)
  /\ turn' = IF ToolCallBatchCompleted(completed') THEN "continue" ELSE turn
  /\ UNCHANGED <<requests, results, facts, snapshot, strays, fresh, history, spent>>

ResumeFails ==
  /\ pc = "resume"
  /\ Trouble
  /\ \E evidence \in BOOLEAN : FailTurn(evidence)
  /\ UNCHANGED resumes

-----------------------------------------------------------------------------
(* Crash and restart: the thread's stream is what is left. *)
Crash ==
  /\ Trouble
  /\ AtRest(FALSE)
  /\ strays' = {}
  /\ fresh' = TRUE
  /\ UNCHANGED <<durable, history, resumes>>

Init ==
  /\ requests = <<>>
  /\ results = [c \in Calls |-> [k \in 1..MaxRuns |-> 0]]
  /\ completed = {} /\ facts = {}
  /\ snapshot = 1 /\ turn = "open"
  /\ inv = NoTasks /\ mon = NoTasks /\ out = NoTasks /\ recovery = NoTasks
  /\ strays = {}
  /\ pc = "idle" /\ ending = "none"
  /\ cursor = 1 /\ half = FALSE
  /\ resuming = NotResuming
  /\ fresh = TRUE
  /\ ran = {} /\ resumed = {}
  /\ resumes = 0 /\ troubles = 0

(* What the loop, the tasks and the monitors do of themselves, tools aside. *)
Scheduling ==
  \/ \E c \in Calls : \/ InvocationStarts(c) \/ MonitorJoins(c) \/ MonitorRecorded(c)
                      \/ MonitorAbandons(c) \/ BatchTakes(c)
  \/ \E s \in strays : StrayRecords(s)
  \/ CommitResult \/ CommitCompletion \/ CommitNothing \/ CommitDone

Next ==
  \/ RunTurn
  \/ Scheduling
  \/ \E c \in Calls : InvocationSettles(c) \/ InvocationErrs(c)
  \/ \E s \in strays : StrayRuns(s)
  \/ \E why \in {"cancelled", "failed", "stopped"} : EndBatch(why)
  \/ CommitFails
  \/ \E c \in Calls : Resume(c)
  \/ ResumeExecutes \/ ResumeAppendsResult \/ ResumeCompletes \/ ResumeFails
  \/ \E c \in Calls, kind \in FactKinds, src \in 0..MaxRuns : ControlFact(c, kind, src)
  \/ Rebind
  \/ Crash

Spec == Init /\ [][Next]_vars

-----------------------------------------------------------------------------
(* Properties *)

(* Types of the batch's state. *)
ToolTypeOK ==
  /\ requests \in Seq(1..MaxSnapshots) /\ Len(requests) <= MaxRuns
  /\ results \in [Calls -> [1..MaxRuns -> Nat]]
  /\ completed \subseteq Calls \X (1..MaxSnapshots)
  /\ facts \subseteq [call : Calls, kind : FactKinds, snap : 1..MaxSnapshots, src : 0..MaxRuns]
  /\ snapshot \in 1..MaxSnapshots
  /\ turn \in {"open", "continue", "cancelled", "failed"}
  /\ pc \in {"idle", "batch", "commit", "resume"}
  /\ inv \in [Calls -> {"none", "starting", "executing", "settled"}]
  /\ mon \in [Calls -> {"none", "watching", "recording", "settled", "taken"}]
  /\ out \in [Calls -> {"none", "completed", "denied", "suspended", "abandoned", "error"}]
  /\ recovery \in [Calls -> {"none", "Reuse", "Reexecute", "ConservativeFailure"}]
  /\ strays \subseteq [call : Calls, req : 1..MaxRuns,
                       st : {"starting", "executing", "returned", "half"},
                       act : {"Reuse", "Reexecute", "ConservativeFailure"}]
  /\ ending \in {"none", "cancelled", "failed", "stopped"}
  /\ cursor \in 1..(N + 1)
  /\ resuming \in [call : Calls, st : {"execute", "result", "completion"}]
  /\ half \in BOOLEAN /\ fresh \in BOOLEAN
  /\ ran \subseteq Calls \X (1..MaxRuns) \X {"batch", "resume"}
  /\ resumed \subseteq Calls
  /\ resumes \in 0..MaxResumes /\ troubles \in 0..MaxTroubles

(* tool_holds.rs: two calls of one execution of the batch whose holds       *)
(* conflict never run together, a task that outlived its cancelled batch    *)
(* included: an abandoned call counts as done, and only the token keeps the *)
(* calls that waited for it from starting.                                  *)
Running == {<<c, req>> : c \in {d \in Calls : inv[d] = "executing"}}
             \cup {<<s.call, s.req>> : s \in {t \in strays : t.st = "executing"}}

HoldsExclusive ==
  \A x, y \in Running : x # y /\ x[2] = y[2] => ~HoldsConflict(x[1], y[1])

(* agent_loop.rs: no execution of the batch starts the tool of an           *)
(* at-most-once call that was started before, by an earlier execution or by *)
(* a resumption, whatever crash, shutdown, rebinding or lost evidence lies  *)
(* between.  One case is open in the code: a task abandoned before it asked *)
(* the controller can still start the tool when its own request has been    *)
(* resumed meanwhile, because a resumption does not know of that task.      *)
AtMostOnceReplay ==
  [][\A x \in ran' \ ran :
       x[1] \in AtMostOnce /\ x[3] = "batch" =>
         \A y \in ran : y[1] = x[1] => y = <<x[1], x[2], "resume">>]_vars

(* control_decision.rs: a controlled call runs only on a decision that      *)
(* allows it, witnessed or discharged for this very request, under the      *)
(* request's snapshot or one bound since; what an earlier request or an     *)
(* earlier binding was allowed does not carry over to a replay.             *)
AuthorisedForThisRequest ==
  \A x \in ran : x[1] \in Controlled =>
    \E f \in facts : /\ f.call = x[1] /\ f.kind \in {"Allow", "Rewrite"}
                     /\ f.snap >= requests[x[2]] /\ f.src \in {0, x[2]}

(* The settlement exchange: each outcome of a batch is recorded by one      *)
(* party, the batch, the monitor or the task, so that a request gets one    *)
(* result message.  A resumption appends its own.                           *)
OneResultPerRequest ==
  \A c \in Calls \ resumed, k \in 1..MaxRuns : results[c][k] <= 1

(* An abandoned outcome is never lost: until a crash, the call is completed *)
(* or a task is left that will complete it.                                 *)
AbandonedIsRecorded ==
  \A c \in Calls :
    out[c] = "abandoned" =>
      \/ <<c, requests[req]>> \in completed
      \/ \E s \in strays : s.call = c /\ requests[s.req] = requests[req]

(* The round barrier: the turn goes on only when every call of the batch    *)
(* has its completion and its result, whether the batch, a replay or the    *)
(* last resumption released it.                                             *)
RoundBarrier ==
  turn = "continue" =>
    \A c \in Calls : <<c, requests[req]>> \in completed /\ results[c][req] > 0

(* A completion is never durable without a result of its call under its     *)
(* snapshot, wherever a crash falls: recovery reuses the result.            *)
CompletionHasResult ==
  \A x \in completed : \E k \in 1..req : requests[k] = x[2] /\ results[x[1]][k] > 0

(* A call of the batch that somebody is about to move: its task runs or has  *)
(* returned, its monitor writes the outcome down, or the batch can take it.  *)
Moves(c) ==
  \/ mon[c] = "watching" /\ inv[c] # "none"
  \/ mon[c] = "recording" /\ \A s \in strays :
       s.call = c /\ s.req = req => s.st \in {"returned", "half"}
  \/ mon[c] = "settled"

(* tool_holds.rs: waiting for holds never deadlocks.  Until the outcomes are *)
(* handed over, one call of the batch moves and waits for no other, and a    *)
(* call that was not launched waits for one that is not done: no pass over   *)
(* the wait edges, cancelled or not, leaves everyone waiting on everyone.    *)
HoldsNeverDeadlock ==
  pc = "batch" =>
    /\ \E c \in Calls : Moves(c)
    /\ \A c \in Unlaunched(mon) : \E d \in WaitEdges(c) : mon[d] # "taken"

(* A cancelled batch never waits for a tool: while one is being ended, the   *)
(* loop, a monitor's grace timer or a recording task has a step to take, so  *)
(* that a tool that never returns cannot hold the turn.                      *)
CancelNeverWaits == pc \in {"batch", "commit"} /\ cancelled => ENABLED Scheduling
=============================================================================

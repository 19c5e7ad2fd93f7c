-------------------------- MODULE ToolBatchProofs --------------------------
(***************************************************************************)
(* The safety properties of ToolBatch, for every number of calls, every     *)
(* binding of tools, effect classes and controllers, and every bound.       *)
(* The inductive invariant has a part for each thing the batch relies on.   *)
(***************************************************************************)
EXTENDS ToolBatch, FiniteSetTheorems, WellFoundedInduction, TLAPS

(* The type invariant, by the parts of the state. *)
TasksTyped ==
  /\ inv \in [Calls -> {"none", "starting", "executing", "settled"}]
  /\ mon \in [Calls -> {"none", "watching", "recording", "settled", "taken"}]
  /\ out \in [Calls -> {"none", "completed", "denied", "suspended", "abandoned", "error"}]
  /\ recovery \in [Calls -> {"none", "Reuse", "Reexecute", "ConservativeFailure"}]

StraysTyped ==
  strays \subseteq [call : Calls, req : 1..MaxRuns,
                    st : {"starting", "executing", "returned", "half"},
                    act : {"Reuse", "Reexecute", "ConservativeFailure"}]

RequestsTyped == requests \in Seq(1..MaxSnapshots) /\ Len(requests) <= MaxRuns

ResultsTyped ==
  /\ results \in [Calls -> [1..MaxRuns -> Nat]]
  /\ completed \subseteq Calls \X (1..MaxSnapshots)

ControlTyped ==
  /\ facts \subseteq [call : Calls, kind : FactKinds, snap : 1..MaxSnapshots, src : 0..MaxRuns]
  /\ IsFiniteSet(facts)
  /\ snapshot \in 1..MaxSnapshots
  /\ turn \in {"open", "continue", "cancelled", "failed"}

LoopTyped ==
  /\ pc \in {"idle", "batch", "commit", "resume"}
  /\ ending \in {"none", "cancelled", "failed", "stopped"}
  /\ cursor \in 1..(N + 1)
  /\ resuming \in [call : Calls, st : {"execute", "result", "completion"}]
  /\ half \in BOOLEAN /\ fresh \in BOOLEAN

HistoryTyped ==
  /\ ran \subseteq Calls \X (1..MaxRuns) \X {"batch", "resume"}
  /\ resumed \subseteq Calls
  /\ resumes \in 0..MaxResumes /\ troubles \in 0..MaxTroubles

Busy == pc \in {"batch", "commit"}

(* Where the loop is, and what the rest of the state may be there. *)
Phases ==
  /\ Busy => req >= 1 /\ turn = "open" /\ \A c \in Calls : recovery[c] # "none"
  /\ ~Busy => ending = "none" /\ \A c \in Calls : inv[c] = "none" /\ mon[c] = "none"
  /\ pc = "commit" => \A c \in Calls : mon[c] = "taken"
  /\ pc = "resume" => req = 1 /\ Followed
  /\ pc # "commit" => cursor = 1 /\ half = FALSE
  /\ half => cursor \in Calls /\ Appends(cursor)

(* A task is watched until it is joined or abandoned; an outcome is         *)
(* abandoned only in a batch that is being ended, and the tasks outside the *)
(* batch are those of calls whose outcome is abandoned.                     *)
Handover ==
  /\ \A c \in Calls :
       /\ inv[c] # "none" => mon[c] = "watching"
       /\ inv[c] = "settled" => out[c] \in {"completed", "denied", "suspended", "error"}
       /\ mon[c] = "recording" => out[c] = "abandoned"
       /\ mon[c] \in {"settled", "taken"} => out[c] # "none"
       /\ Busy /\ out[c] = "abandoned" =>
            ending # "none" /\ mon[c] \in {"recording", "settled", "taken"}
  /\ \A s \in strays :
       /\ s.req \in 1..req
       /\ Busy /\ s.req = req => out[s.call] = "abandoned"

(* Each call of each execution has at most one task outside the batch. *)
OneTask ==
  \A s, u \in strays : s.call = u.call /\ s.req = u.req => s = u

(* A result is written once: no request beyond the last one has any, and    *)
(* none is there for a call of the running batch that is not committed yet  *)
(* and not left to another task.                                            *)
Unwritten ==
  /\ \A c \in Calls, k \in 1..MaxRuns : k > req => results[c][k] = 0
  /\ Busy => \A c \in Calls :
       out[c] # "abandoned" /\ (c > cursor \/ (c = cursor /\ ~half)) => results[c][req] = 0

(* A result precedes its completion, for each of the three that append one. *)
Written ==
  /\ half => results[cursor][req] > 0
  /\ \A s \in strays : s.st = "half" => results[s.call][s.req] > 0
  /\ pc = "resume" /\ resuming.st = "completion" => results[resuming.call][1] > 0
  /\ pc = "resume" => resuming.call \in resumed
  /\ pc = "commit" => \A c \in Calls :
       c < cursor /\ Appends(c) => <<c, requests[req]>> \in completed /\ results[c][req] > 0

(* What has been started belongs to a recorded request, and only the first  *)
(* request starts an at-most-once tool, once.                               *)
Started ==
  /\ \A x \in ran : /\ x[2] \in 1..req
                    /\ x[1] \in AtMostOnce => x[2] = 1
  /\ \A c \in Calls :
       /\ Busy /\ c \in AtMostOnce /\ recovery[c] = "Reexecute" => req = 1
       /\ Busy /\ (mon[c] = "none" \/ inv[c] = "starting") => <<c, req, "batch">> \notin ran
  /\ \A s \in strays :
       /\ s.call \in AtMostOnce /\ s.act = "Reexecute" => s.req = 1
       /\ s.st = "starting" => <<s.call, s.req, "batch">> \notin ran

Authorises(f, c, k) ==
  /\ f.call = c /\ f.kind \in {"Allow", "Rewrite"}
  /\ f.snap >= requests[k] /\ f.src \in {0, k}

(* Bindings only move forward, and a decided resumption keeps its decision. *)
Decided ==
  /\ \A k \in 1..req : requests[k] <= snapshot
  /\ pc = "resume" /\ resuming.st = "execute" =>
       \E f \in facts : Authorises(f, resuming.call, 1)

(* A call of execution k may still hold what its tool needs. *)
Holding(c, k) ==
  \/ k = req /\ inv[c] \in {"starting", "executing"}
  \/ \E s \in strays : s.call = c /\ s.req = k /\ s.st \in {"starting", "executing"}

(* Until the batch is being ended a call is launched after all it waits for *)
(* is taken, and the calls that may hold something never conflict.          *)
LaunchOrder ==
  Busy /\ ending = "none" =>
    \A d \in Calls : mon[d] # "none" => \A c \in WaitEdges(d) : mon[c] = "taken"

HoldersAgree ==
  \A k \in 1..MaxRuns : \A c, d \in Calls :
    c # d /\ Holding(c, k) /\ Holding(d, k) => ~HoldsConflict(c, d)

ToolInv ==
  /\ TasksTyped /\ StraysTyped /\ RequestsTyped /\ ResultsTyped /\ ControlTyped
  /\ LoopTyped /\ HistoryTyped
  /\ Phases /\ Handover /\ OneTask /\ Unwritten /\ Written
  /\ Started /\ Decided /\ LaunchOrder /\ HoldersAgree
  /\ AuthorisedForThisRequest /\ OneResultPerRequest /\ AbandonedIsRecorded
  /\ RoundBarrier /\ CompletionHasResult

-----------------------------------------------------------------------------
(* The operators *)

USE ToolBatchAssumption

LEMMA RequestIndex ==
  ASSUME RequestsTyped
  PROVE  /\ req \in 0..MaxRuns
         /\ \A k \in 1..req : k \in 1..MaxRuns /\ requests[k] \in 1..MaxSnapshots
BY DEF RequestsTyped, req

LEMMA DecisionKinds ==
  ASSUME NEW c, NEW k, NEW snap, IsFiniteSet(facts)
  PROVE  /\ DecideToolCall(c, k, snap) \in Terminals \cup {"NoDecision", "Wait"}
         /\ DecideToolCall(c, k, snap) \in {"Allow", "Rewrite"} =>
              \E f \in facts : /\ f.call = c /\ f.kind \in {"Allow", "Rewrite"}
                               /\ f.snap = snap /\ f.src \in {0, k}
<1> DEFINE mine(kinds) == {f \in facts : /\ f.call = c /\ f.kind \in kinds
                                         /\ f.snap = snap /\ FreshControlFact(f, k)}
           T == mine(Terminals)
           S == mine({"Suspended"})
           bad == \E f \in facts : f.call = c /\ f.kind = "Malformed" /\ f.src = k
<1>1. /\ IsFiniteSet(T) /\ IsFiniteSet(S)
  BY FS_Subset
<1>2. /\ Cardinality(T) \in Nat /\ Cardinality(S) \in Nat
      /\ Cardinality(T) = 0 <=> T = {}
  BY <1>1, FS_CardinalityType, FS_EmptySet
<1>3. (CHOOSE f \in T : TRUE) \in T \/ T = {}
  OBVIOUS
<1>4. Cardinality(T) = 1 => T # {} /\ (CHOOSE f \in T : TRUE) \in T
  BY <1>2, <1>3
<1>5. DecideToolCall(c, k, snap) =
        CASE bad -> "Deny"
          [] ~bad /\ Cardinality(T) = 1 -> (CHOOSE f \in T : TRUE).kind
          [] ~bad /\ Cardinality(T) > 1 -> "Deny"
          [] ~bad /\ T = {} ->
               CASE Cardinality(S) = 0 -> "NoDecision"
                 [] Cardinality(S) = 1 -> "Wait"
                 [] OTHER -> "Deny"
  BY DEF DecideToolCall
<1>6. (CHOOSE f \in T : TRUE) \in T =>
        /\ (CHOOSE f \in T : TRUE) \in facts
        /\ (CHOOSE f \in T : TRUE).call = c /\ (CHOOSE f \in T : TRUE).kind \in Terminals
        /\ (CHOOSE f \in T : TRUE).snap = snap /\ (CHOOSE f \in T : TRUE).src \in {0, k}
  BY DEF FreshControlFact
<1> HIDE DEF mine, T, S, bad
<1>7. CASE bad
  BY <1>5, <1>7 DEF Terminals
<1>8. CASE ~bad /\ Cardinality(T) = 1
  BY <1>4, <1>5, <1>6, <1>8 DEF Terminals
<1>9. CASE ~bad /\ Cardinality(T) > 1
  <2>1. DecideToolCall(c, k, snap) = "Deny"
    BY <1>2, <1>5, <1>9
  <2>. QED  BY <2>1 DEF Terminals
<1>10. CASE ~bad /\ T = {}
  <2>1. Cardinality(T) = 0
    BY <1>2, <1>10
  <2>2. DecideToolCall(c, k, snap) \in {"NoDecision", "Wait", "Deny"}
    BY <1>2, <1>5, <1>10, <2>1
  <2>. QED  BY <2>2 DEF Terminals
<1>. QED  BY <1>2, <1>7, <1>8, <1>9, <1>10

LEMMA RecoveryKinds ==
  ASSUME NEW c \in Calls
  PROVE  /\ RecoveryOf(c) \in {"Reuse", "Reexecute", "ConservativeFailure"}
         /\ c \in AtMostOnce /\ RecoveryOf(c) = "Reexecute" => Len(requests) = 0
BY DEF RecoveryOf, ToolRecoveryAction, EffectClass

LEMMA PreparedKinds ==
  ASSUME IsFiniteSet(facts), NEW c \in Calls, NEW k
  PROVE  /\ Prepared(c, k) \in {"run", "completed", "denied", "suspended"}
         /\ Prepared(c, k) = "run" =>
              /\ recovery[c] = "Reexecute"
              /\ c \in Controlled =>
                   \E f \in facts : /\ f.call = c /\ f.kind \in {"Allow", "Rewrite"}
                                    /\ f.snap = snapshot /\ f.src \in {0, k}
BY DecisionKinds DEF Prepared, Terminals

LEMMA ConflictSymmetric ==
  ASSUME NEW c, NEW d, HoldsConflict(c, d)
  PROVE  HoldsConflict(d, c)
BY DEF HoldsConflict

LEMMA ReadyAgree ==
  ASSUME NEW m, NEW c \in Ready(m), NEW d \in Ready(m), c # d
  PROVE  ~HoldsConflict(c, d)
<1>1. c \in Calls /\ d \in Calls /\ m[c] = "none" /\ m[d] = "none"
  BY DEF Ready, Unlaunched
<1>2. CASE c < d
  BY <1>1, <1>2 DEF Ready, WaitEdges
<1>3. CASE d < c
  <2>1. HoldsConflict(c, d) => d \in WaitEdges(c)
    BY <1>1, <1>3, ConflictSymmetric DEF WaitEdges
  <2>. QED  BY <1>1, <2>1 DEF Ready
<1>. QED  BY <1>1, <1>2, <1>3 DEF Calls

LEMMA CountsAreNat ==
  ASSUME NEW r \in [Calls -> [1..MaxRuns -> Nat]], NEW d \in Calls, NEW j \in 1..MaxRuns
  PROVE  r[d][j] \in Nat
<1>1. r[d] \in [1..MaxRuns -> Nat]
  OBVIOUS
<1>. QED  BY <1>1

LEMMA OneMoreResult ==
  ASSUME results \in [Calls -> [1..MaxRuns -> Nat]],
         NEW c \in Calls, NEW k \in 1..MaxRuns, AddResult(c, k)
  PROVE  /\ results' \in [Calls -> [1..MaxRuns -> Nat]]
         /\ results'[c][k] = results[c][k] + 1
         /\ \A d \in Calls, j \in 1..MaxRuns :
              d # c \/ j # k => results'[d][j] = results[d][j]
         /\ \A d \in Calls, j \in 1..MaxRuns : results'[d][j] >= results[d][j]
<1>1. results' = [results EXCEPT ![c] = [results[c] EXCEPT ![k] = results[c][k] + 1]]
  BY DEF AddResult
<1>2. \A d \in Calls : results[d] \in [1..MaxRuns -> Nat]
  OBVIOUS
<1>3. [results[c] EXCEPT ![k] = results[c][k] + 1] \in [1..MaxRuns -> Nat]
  BY <1>2
<1>4. results' \in [Calls -> [1..MaxRuns -> Nat]]
  BY <1>1, <1>3
<1>5. \A d \in Calls : d # c => results'[d] = results[d]
  BY <1>1
<1>6. results'[c] = [results[c] EXCEPT ![k] = results[c][k] + 1]
  BY <1>1
<1>7. results'[c][k] = results[c][k] + 1
  BY <1>2, <1>6
<1>8. \A j \in 1..MaxRuns : j # k => results'[c][j] = results[c][j]
  BY <1>2, <1>6
<1>9. \A d \in Calls, j \in 1..MaxRuns : d # c \/ j # k => results'[d][j] = results[d][j]
  BY <1>5, <1>8
<1>10. \A d \in Calls, j \in 1..MaxRuns : results'[d][j] >= results[d][j]
  <2>1. ASSUME NEW d \in Calls, NEW j \in 1..MaxRuns
        PROVE  results'[d][j] >= results[d][j]
    <3>1. results[d][j] \in Nat
      BY <1>2
    <3>2. CASE d = c /\ j = k
      BY <1>7, <3>1, <3>2
    <3>3. CASE d # c \/ j # k
      BY <1>9, <3>1, <3>3
    <3>. QED  BY <3>2, <3>3
  <2>. QED  BY <2>1
<1>. QED  BY <1>4, <1>7, <1>9, <1>10

-----------------------------------------------------------------------------
(* The steps *)

(* A task settles with outcome o before its batch lost interest: it was refused or
   answered without its tool, the tool returned, or the store failed. *)
LEMMA TaskSettles ==
  ASSUME ToolInv, NEW c \in Calls,
         NEW o \in {"completed", "denied", "suspended", "error"},
         inv[c] \in {"starting", "executing"},
         inv' = [inv EXCEPT ![c] = "settled"], out' = [out EXCEPT ![c] = o],
         UNCHANGED <<durable, mon, recovery, strays, loop, history>>,
         resumes' = resumes /\ troubles' \in 0..MaxTroubles
  PROVE  ToolInv'
<1>1. TasksTyped'
  BY DEF ToolInv, TasksTyped, tasks
<1>2. StraysTyped'
  BY DEF ToolInv, StraysTyped
<1>3. RequestsTyped'
  BY DEF ToolInv, RequestsTyped, durable
<1>4. ResultsTyped'
  BY DEF ToolInv, ResultsTyped, durable
<1>5. ControlTyped'
  BY DEF ToolInv, ControlTyped, durable
<1>6. LoopTyped'
  BY DEF ToolInv, LoopTyped, loop
<1>7. HistoryTyped'
  BY DEF ToolInv, HistoryTyped, history, spent
<1>8. Phases'
  BY DEF ToolInv, TasksTyped, Phases, Handover, Busy, req, Followed, Appends,
     durable, tasks, loop
<1>9. Handover'
  BY DEF ToolInv, TasksTyped, Handover, Busy, req, durable, tasks, loop
<1>10. OneTask'
  BY DEF ToolInv, OneTask
<1>11. Unwritten'
  BY DEF ToolInv, TasksTyped, Handover, Unwritten, Busy, req, durable, tasks,
     loop
<1>12. Written'
  BY DEF ToolInv, TasksTyped, Phases, Handover, Written, Busy, req, Followed,
     Appends, durable, tasks, loop, history
<1>13. Started'
  BY DEF ToolInv, TasksTyped, Handover, Started, Busy, req, durable, tasks,
     loop, history
<1>14. Decided'
  BY DEF ToolInv, Decided, req, Authorises, durable, loop
<1>15. LaunchOrder'
  BY DEF ToolInv, LaunchOrder, Busy, tasks, loop
<1>16. HoldersAgree'
  BY DEF ToolInv, TasksTyped, HoldersAgree, Holding, req, durable, tasks
<1>17. AuthorisedForThisRequest'
  BY DEF ToolInv, AuthorisedForThisRequest, durable, history
<1>18. OneResultPerRequest'
  BY DEF ToolInv, OneResultPerRequest, durable, history
<1>19. AbandonedIsRecorded'
  BY DEF ToolInv, TasksTyped, AbandonedIsRecorded, req, durable, tasks
<1>20. RoundBarrier'
  BY DEF ToolInv, RoundBarrier, req, durable
<1>21. CompletionHasResult'
  BY DEF ToolInv, CompletionHasResult, req, durable
<1>. QED
  BY <1>1, <1>2, <1>3, <1>4, <1>5, <1>6, <1>7, <1>8, <1>9, <1>10,
     <1>11, <1>12, <1>13, <1>14, <1>15, <1>16, <1>17, <1>18, <1>19, <1>20, <1>21 DEF ToolInv

(* The task of call c starts its tool. *)
LEMMA TaskStarts ==
  ASSUME ToolInv, NEW c \in Calls, inv[c] = "starting", recovery[c] = "Reexecute",
         c \in Controlled => \E f \in facts : Authorises(f, c, req),
         inv' = [inv EXCEPT ![c] = "executing"], ToolStarts(c, req),
         UNCHANGED <<durable, mon, out, recovery, strays, loop, spent>>
  PROVE  ToolInv'
<1>a. /\ mon[c] = "watching" /\ Busy
  BY DEF ToolInv, TasksTyped, Handover, Phases
<1>b. /\ req \in 1..MaxRuns
      /\ c \in AtMostOnce => req = 1
  <2>1. req \in 0..MaxRuns
    BY RequestIndex DEF ToolInv
  <2>2. req >= 1
    BY <1>a DEF ToolInv, Phases
  <2>3. c \in AtMostOnce => req = 1
    BY <1>a DEF ToolInv, Started
  <2>. QED  BY <2>1, <2>2, <2>3
<1>c. /\ UNCHANGED <<requests, facts, pc, recovery, strays, resumed, resumes, troubles>>
      /\ ran' = ran \cup {<<c, req, "batch">>}
  BY DEF ToolStarts, durable, loop, spent
<1>1. TasksTyped'
  BY <1>c DEF ToolInv, TasksTyped, tasks
<1>2. StraysTyped'
  BY <1>c DEF ToolInv, StraysTyped
<1>3. RequestsTyped'
  BY <1>c DEF ToolInv, RequestsTyped, durable
<1>4. ResultsTyped'
  BY <1>c DEF ToolInv, ResultsTyped, durable
<1>5. ControlTyped'
  BY <1>c DEF ToolInv, ControlTyped, durable
<1>6. LoopTyped'
  BY <1>c DEF ToolInv, LoopTyped, loop
<1>7. HistoryTyped'
  BY <1>b, <1>c DEF ToolInv, HistoryTyped
<1>8. Phases'
  BY <1>c DEF ToolInv, TasksTyped, Phases, Handover, Busy, req, Followed,
     Appends, durable, tasks, loop
<1>9. Handover'
  BY <1>c DEF ToolInv, TasksTyped, Handover, Busy, req, durable, tasks, loop
<1>10. OneTask'
  BY <1>c DEF ToolInv, OneTask
<1>11. Unwritten'
  BY <1>c DEF ToolInv, Unwritten, Busy, req, durable, tasks, loop
<1>12. Written'
  BY <1>c DEF ToolInv, Written, req, Appends, durable, tasks, loop, history
<1>13. Started'
  <2>1. \A x \in ran' : x[2] \in 1..req' /\ (x[1] \in AtMostOnce => x[2] = 1)
    <3>1. req' = req
      BY <1>c DEF req
    <3>2. \A x \in ran : x[2] \in 1..req /\ (x[1] \in AtMostOnce => x[2] = 1)
      BY DEF ToolInv, Started
    <3>3. <<c, req, "batch">>[1] = c /\ <<c, req, "batch">>[2] = req
      OBVIOUS
    <3>. QED  BY <1>b, <1>c, <3>1, <3>2, <3>3
  <2>2. \A d \in Calls : mon[d] = "none" \/ inv'[d] = "starting" =>
                          d # c /\ (mon[d] = "none" \/ inv[d] = "starting")
    BY <1>a DEF ToolInv, TasksTyped
  <2>3. \A d \in Calls : mon[d] = "none" \/ inv'[d] = "starting" =>
                          <<d, req', "batch">> \notin ran'
    BY <1>a, <1>c, <2>2 DEF ToolInv, Started, req
  <2>4. \A s \in strays' : s.st = "starting" => <<s.call, s.req, "batch">> \notin ran'
    <3>1. \A s \in strays : s.req = req => s.call # c
      BY <1>a DEF ToolInv, Handover, req
    <3>. QED  BY <1>c, <3>1 DEF ToolInv, Started
  <2>. QED  BY <1>c, <2>1, <2>3, <2>4 DEF ToolInv, Started, Busy, req
<1>14. Decided'
  BY <1>c DEF ToolInv, Decided, req, Authorises, durable, loop
<1>15. LaunchOrder'
  BY <1>c DEF ToolInv, LaunchOrder, Busy, tasks, loop
<1>16. HoldersAgree'
  BY <1>c DEF ToolInv, TasksTyped, HoldersAgree, Holding, req, durable, tasks
<1>17. AuthorisedForThisRequest'
  BY <1>c DEF ToolInv, AuthorisedForThisRequest, Authorises
<1>18. OneResultPerRequest'
  BY <1>c DEF ToolInv, OneResultPerRequest, durable, history
<1>19. AbandonedIsRecorded'
  BY <1>c DEF ToolInv, AbandonedIsRecorded, req, durable, tasks
<1>20. RoundBarrier'
  BY <1>c DEF ToolInv, RoundBarrier, req, durable
<1>21. CompletionHasResult'
  BY <1>c DEF ToolInv, CompletionHasResult, req, durable
<1>. QED
  BY <1>1, <1>2, <1>3, <1>4, <1>5, <1>6, <1>7, <1>8, <1>9, <1>10,
     <1>11, <1>12, <1>13, <1>14, <1>15, <1>16, <1>17, <1>18, <1>19, <1>20, <1>21 DEF ToolInv

(* The batch is being ended and the monitor of call c lets its task go: the task, or
   the monitor itself, records the outcome. *)
LEMMA MonitorLetsGo ==
  ASSUME ToolInv, NEW c \in Calls, mon[c] = "watching", ending # "none",
         NEW st \in {"starting", "executing", "returned"},
         NEW m \in {"recording", "settled"},
         st = "starting" => inv[c] = "starting",
         st = "executing" => inv[c] = "executing",
         strays' = strays \cup {Stray(c, st)},
         inv' = [inv EXCEPT ![c] = "none"], mon' = [mon EXCEPT ![c] = m],
         out' = [out EXCEPT ![c] = "abandoned"],
         UNCHANGED <<durable, recovery, loop, history, spent>>
  PROVE  ToolInv'
<1> DEFINE t == Stray(c, st)
<1>a. Busy
  BY DEF ToolInv, Phases
<1>b. req \in 1..MaxRuns
  <2>1. req \in 0..MaxRuns /\ req >= 1
    BY <1>a, RequestIndex DEF ToolInv, Phases
  <2>. QED  BY <2>1
<1>c. /\ t.call = c /\ t.req = req /\ t.st = st /\ t.act = recovery[c]
      /\ t = [call |-> c, req |-> req, st |-> st, act |-> recovery[c]]
  BY DEF Stray
<1>d. recovery[c] \in {"Reuse", "Reexecute", "ConservativeFailure"}
  BY <1>a DEF ToolInv, Phases, TasksTyped
<1>e. strays' = strays \cup {t} /\ req' = req /\ Busy' = Busy
  BY DEF durable, loop, req, Busy
<1> HIDE DEF t
<1>1. TasksTyped'
  BY DEF ToolInv, TasksTyped, tasks
<1>2. StraysTyped'
  BY <1>b, <1>c, <1>d, <1>e DEF ToolInv, StraysTyped
<1>3. RequestsTyped'
  BY DEF ToolInv, RequestsTyped, durable
<1>4. ResultsTyped'
  BY DEF ToolInv, ResultsTyped, durable
<1>5. ControlTyped'
  BY DEF ToolInv, ControlTyped, durable
<1>6. LoopTyped'
  BY DEF ToolInv, LoopTyped, loop
<1>7. HistoryTyped'
  BY DEF ToolInv, HistoryTyped, history, spent
<1>8. Phases'
  <2>1. pc # "commit"
    BY DEF ToolInv, Phases
  <2>. QED  BY <1>a, <2>1 DEF ToolInv, TasksTyped, Phases, Busy, req, Followed, Appends, durable, loop
<1>9. Handover'
  <2>1. \A d \in Calls :
          /\ inv'[d] # "none" => mon'[d] = "watching"
          /\ inv'[d] = "settled" => out'[d] \in {"completed", "denied", "suspended", "error"}
          /\ mon'[d] = "recording" => out'[d] = "abandoned"
          /\ mon'[d] \in {"settled", "taken"} => out'[d] # "none"
          /\ Busy' /\ out'[d] = "abandoned" =>
               ending' # "none" /\ mon'[d] \in {"recording", "settled", "taken"}
    BY <1>e DEF ToolInv, TasksTyped, Handover, loop
  <2>2. \A s \in strays' : s.req \in 1..req' /\ (Busy' /\ s.req = req' => out'[s.call] = "abandoned")
    <3>1. t.req \in 1..req /\ out'[t.call] = "abandoned"
      BY <1>b, <1>c DEF ToolInv, TasksTyped
    <3>2. \A s \in strays : s.req \in 1..req /\ (Busy /\ s.req = req => out'[s.call] = "abandoned")
      BY DEF ToolInv, StraysTyped, TasksTyped, Handover
    <3>. QED  BY <1>e, <3>1, <3>2
  <2>. QED  BY <2>1, <2>2 DEF Handover
<1>10. OneTask'
  <2>1. \A s \in strays : s.call # c \/ s.req # req
    BY <1>a DEF ToolInv, TasksTyped, Handover
  <2>. QED  BY <1>c, <1>e, <2>1 DEF ToolInv, OneTask
<1>11. Unwritten'
  BY DEF ToolInv, TasksTyped, Handover, Unwritten, Busy, req, durable, tasks,
     loop
<1>12. Written'
  <2>1. pc # "commit" /\ half = FALSE
    BY DEF ToolInv, Phases
  <2>2. \A s \in strays' : s.st = "half" => results[s.call][s.req] > 0
    BY <1>c, <1>e DEF ToolInv, Written
  <2>. QED  BY <1>a, <1>e, <2>1, <2>2 DEF ToolInv, Written, Busy, durable, loop, history
<1>13. Started'
  <2>1. /\ UNCHANGED <<ran, recovery>>
        /\ \A d \in Calls : mon'[d] = "none" \/ inv'[d] = "starting" =>
                             mon[d] = "none" \/ inv[d] = "starting"
    BY DEF ToolInv, TasksTyped, history
  <2>2. /\ t.call \in AtMostOnce /\ t.act = "Reexecute" => t.req = 1
        /\ t.st = "starting" => <<t.call, t.req, "batch">> \notin ran
    BY <1>a, <1>c DEF ToolInv, Started
  <2>3. \A s \in strays' :
          /\ s.call \in AtMostOnce /\ s.act = "Reexecute" => s.req = 1
          /\ s.st = "starting" => <<s.call, s.req, "batch">> \notin ran
    BY <1>e, <2>2 DEF ToolInv, Started
  <2>. QED  BY <1>e, <2>1, <2>3 DEF ToolInv, Started
<1>14. Decided'
  BY DEF ToolInv, Decided, req, Authorises, durable, loop
<1>15. LaunchOrder'
  BY DEF LaunchOrder, loop
<1>16. HoldersAgree'
  <2>1. ASSUME NEW d \in Calls, NEW k, Holding(d, k)'
        PROVE  Holding(d, k)
    <3>1. CASE k = req' /\ inv'[d] \in {"starting", "executing"}
      BY <1>e, <3>1 DEF ToolInv, TasksTyped, Holding
    <3>2. CASE \E s \in strays' : s.call = d /\ s.req = k /\ s.st \in {"starting", "executing"}
      BY <1>c, <1>e, <3>2 DEF Holding
    <3>. QED  BY <2>1, <3>1, <3>2 DEF Holding
  <2>. QED  BY <2>1 DEF ToolInv, HoldersAgree
<1>17. AuthorisedForThisRequest'
  BY DEF ToolInv, AuthorisedForThisRequest, durable, history
<1>18. OneResultPerRequest'
  BY DEF ToolInv, OneResultPerRequest, durable, history
<1>19. AbandonedIsRecorded'
  <2>1. ASSUME NEW d \in Calls, out'[d] = "abandoned"
        PROVE  \/ <<d, requests[req]>> \in completed
               \/ \E s \in strays' : s.call = d /\ requests[s.req] = requests[req]
    <3>1. CASE d = c
      BY <1>c, <1>e, <3>1
    <3>2. CASE d # c
      <4>1. out[d] = "abandoned"
        BY <2>1, <3>2 DEF ToolInv, TasksTyped
      <4>. QED  BY <1>e, <4>1 DEF ToolInv, AbandonedIsRecorded
    <3>. QED  BY <3>1, <3>2
  <2>. QED  BY <1>e, <2>1 DEF AbandonedIsRecorded, durable
<1>20. RoundBarrier'
  BY DEF ToolInv, RoundBarrier, req, durable
<1>21. CompletionHasResult'
  BY DEF ToolInv, CompletionHasResult, req, durable
<1>. QED
  BY <1>1, <1>2, <1>3, <1>4, <1>5, <1>6, <1>7, <1>8, <1>9, <1>10,
     <1>11, <1>12, <1>13, <1>14, <1>15, <1>16, <1>17, <1>18, <1>19, <1>20, <1>21 DEF ToolInv

(* The monitor of call c hands a settled outcome to the batch. *)
LEMMA MonitorHandsOver ==
  ASSUME ToolInv, NEW c \in Calls,
         \/ mon[c] = "watching" /\ inv[c] = "settled"
         \/ mon[c] = "recording",
         inv' = [inv EXCEPT ![c] = "none"], mon' = [mon EXCEPT ![c] = "settled"],
         UNCHANGED <<durable, out, recovery, strays, loop, history, spent>>
  PROVE  ToolInv'
<1>1. TasksTyped'
  BY DEF ToolInv, TasksTyped, tasks
<1>2. StraysTyped'
  BY DEF ToolInv, StraysTyped
<1>3. RequestsTyped'
  BY DEF ToolInv, RequestsTyped, durable
<1>4. ResultsTyped'
  BY DEF ToolInv, ResultsTyped, durable
<1>5. ControlTyped'
  BY DEF ToolInv, ControlTyped, durable
<1>6. LoopTyped'
  BY DEF ToolInv, LoopTyped, loop
<1>7. HistoryTyped'
  BY DEF ToolInv, HistoryTyped, history, spent
<1>8. Phases'
  BY DEF ToolInv, TasksTyped, Phases, Busy, req, Followed, Appends, durable,
     tasks, loop
<1>9. Handover'
  BY DEF ToolInv, TasksTyped, Handover, Busy, req, durable, tasks, loop
<1>10. OneTask'
  BY DEF ToolInv, OneTask
<1>11. Unwritten'
  BY DEF ToolInv, Unwritten, Busy, req, durable, tasks, loop
<1>12. Written'
  BY DEF ToolInv, Written, req, Appends, durable, tasks, loop, history
<1>13. Started'
  BY DEF ToolInv, TasksTyped, Handover, Started, Busy, req, durable, tasks,
     loop, history
<1>14. Decided'
  BY DEF ToolInv, Decided, req, Authorises, durable, loop
<1>15. LaunchOrder'
  BY DEF ToolInv, TasksTyped, LaunchOrder, Busy, tasks, loop
<1>16. HoldersAgree'
  BY DEF ToolInv, TasksTyped, HoldersAgree, Holding, req, durable, tasks
<1>17. AuthorisedForThisRequest'
  BY DEF ToolInv, AuthorisedForThisRequest, durable, history
<1>18. OneResultPerRequest'
  BY DEF ToolInv, OneResultPerRequest, durable, history
<1>19. AbandonedIsRecorded'
  BY DEF ToolInv, AbandonedIsRecorded, req, durable, tasks
<1>20. RoundBarrier'
  BY DEF ToolInv, RoundBarrier, req, durable
<1>21. CompletionHasResult'
  BY DEF ToolInv, CompletionHasResult, req, durable
<1>. QED
  BY <1>1, <1>2, <1>3, <1>4, <1>5, <1>6, <1>7, <1>8, <1>9, <1>10,
     <1>11, <1>12, <1>13, <1>14, <1>15, <1>16, <1>17, <1>18, <1>19, <1>20, <1>21 DEF ToolInv

(* A command ends the batch. *)
LEMMA BatchEnds ==
  ASSUME ToolInv, NEW why \in {"cancelled", "failed", "stopped"}, Busy, ending' = why,
         UNCHANGED <<durable, tasks, strays, pc, cursor, half, resuming, fresh, history>>,
         resumes' = resumes /\ troubles' \in 0..MaxTroubles
  PROVE  ToolInv'
<1>1. TasksTyped'
  BY DEF ToolInv, TasksTyped, tasks
<1>2. StraysTyped'
  BY DEF ToolInv, StraysTyped
<1>3. RequestsTyped'
  BY DEF ToolInv, RequestsTyped, durable
<1>4. ResultsTyped'
  BY DEF ToolInv, ResultsTyped, durable
<1>5. ControlTyped'
  BY DEF ToolInv, ControlTyped, durable
<1>6. LoopTyped'
  BY DEF ToolInv, LoopTyped, loop
<1>7. HistoryTyped'
  BY DEF ToolInv, HistoryTyped, history, spent
<1>8. Phases'
  BY DEF ToolInv, Phases, Busy, req, Followed, Appends, durable, tasks, loop
<1>9. Handover'
  BY DEF ToolInv, Handover, Busy, req, durable, tasks, loop
<1>10. OneTask'
  BY DEF ToolInv, OneTask
<1>11. Unwritten'
  BY DEF ToolInv, Unwritten, Busy, req, durable, tasks, loop
<1>12. Written'
  BY DEF ToolInv, Written, req, Appends, durable, tasks, loop, history
<1>13. Started'
  BY DEF ToolInv, Started, Busy, req, durable, tasks, loop, history
<1>14. Decided'
  BY DEF ToolInv, Decided, req, Authorises, durable, loop
<1>15. LaunchOrder'
  BY DEF ToolInv, LaunchOrder, Busy, tasks, loop
<1>16. HoldersAgree'
  BY DEF ToolInv, HoldersAgree, Holding, req, durable, tasks
<1>17. AuthorisedForThisRequest'
  BY DEF ToolInv, AuthorisedForThisRequest, durable, history
<1>18. OneResultPerRequest'
  BY DEF ToolInv, OneResultPerRequest, durable, history
<1>19. AbandonedIsRecorded'
  BY DEF ToolInv, AbandonedIsRecorded, req, durable, tasks
<1>20. RoundBarrier'
  BY DEF ToolInv, RoundBarrier, req, durable
<1>21. CompletionHasResult'
  BY DEF ToolInv, CompletionHasResult, req, durable
<1>. QED
  BY <1>1, <1>2, <1>3, <1>4, <1>5, <1>6, <1>7, <1>8, <1>9, <1>10,
     <1>11, <1>12, <1>13, <1>14, <1>15, <1>16, <1>17, <1>18, <1>19, <1>20, <1>21 DEF ToolInv

(* append_tool_results: the result message of the call at the cursor. *)
LEMMA CommitResultKeeps ==
  ASSUME ToolInv, CommitResult
  PROVE  ToolInv'
<1>a. req \in 1..MaxRuns
  <2>1. req \in 0..MaxRuns /\ req >= 1
    BY RequestIndex DEF ToolInv, Phases, CommitResult, Busy
  <2>. QED  BY <2>1
<1>b. cursor \in Calls /\ AddResult(cursor, req) /\ pc = "commit" /\ ~half /\ Appends(cursor)
  BY DEF CommitResult
<1>c. /\ UNCHANGED <<requests, completed, facts, snapshot, turn, tasks, strays, pc, ending,
                     cursor, resuming, fresh, history, spent>>
      /\ half' = TRUE /\ req' = req
  BY DEF CommitResult, req
<1>d. /\ results' \in [Calls -> [1..MaxRuns -> Nat]]
      /\ results'[cursor][req] = results[cursor][req] + 1
      /\ \A d \in Calls, j \in 1..MaxRuns :
           d # cursor \/ j # req => results'[d][j] = results[d][j]
      /\ \A d \in Calls, j \in 1..MaxRuns : results'[d][j] >= results[d][j]
  BY <1>a, <1>b, OneMoreResult DEF ToolInv, ResultsTyped
<1>e. results[cursor][req] = 0 /\ results'[cursor][req] = 1
  <2>1. results[cursor][req] = 0
    BY <1>b DEF ToolInv, Unwritten, Busy, Appends
  <2>. QED  BY <1>d, <2>1
<1>1. TasksTyped'
  BY <1>c DEF ToolInv, TasksTyped, tasks, CommitResult
<1>2. StraysTyped'
  BY <1>c DEF ToolInv, StraysTyped, CommitResult
<1>3. RequestsTyped'
  BY <1>c DEF ToolInv, RequestsTyped, durable, CommitResult
<1>4. ResultsTyped'
  BY <1>c, <1>d DEF ToolInv, ResultsTyped
<1>5. ControlTyped'
  BY <1>c DEF ToolInv, ControlTyped, durable, CommitResult
<1>6. LoopTyped'
  BY <1>c DEF ToolInv, LoopTyped, loop, CommitResult
<1>7. HistoryTyped'
  BY <1>c DEF ToolInv, HistoryTyped, history, spent, CommitResult
<1>8. Phases'
  BY <1>b, <1>c DEF ToolInv, Phases, Busy, Followed, Appends, tasks
<1>9. Handover'
  BY <1>c DEF ToolInv, Handover, Busy, req, durable, tasks, loop, CommitResult
<1>10. OneTask'
  BY <1>c DEF ToolInv, OneTask, CommitResult
<1>11. Unwritten'
  <2>1. \A d \in Calls, k \in 1..MaxRuns : k > req => results'[d][k] = 0
    BY <1>a, <1>d DEF ToolInv, Unwritten
  <2>2. ASSUME NEW d \in Calls, out[d] # "abandoned", d > cursor
        PROVE  results'[d][req] = 0
    <3>1. d # cursor
      BY <1>b, <2>2 DEF Calls
    <3>2. results[d][req] = 0
      BY <1>b, <2>2 DEF ToolInv, Unwritten, Busy
    <3>. QED  BY <1>a, <1>d, <3>1, <3>2
  <2>. QED  BY <1>c, <2>1, <2>2 DEF Unwritten, Busy, tasks
<1>12. Written'
  <2>1. \A s \in strays : s.st = "half" => results'[s.call][s.req] > 0
    <3>1. ASSUME NEW s \in strays, s.st = "half" PROVE results'[s.call][s.req] > 0
      <4>1. s.call \in Calls /\ s.req \in 1..MaxRuns
        BY DEF ToolInv, StraysTyped
      <4>2. results[s.call][s.req] > 0 /\ results[s.call][s.req] \in Nat
        BY <3>1, <4>1 DEF ToolInv, Written, ResultsTyped
      <4>3. results'[s.call][s.req] >= results[s.call][s.req] /\ results'[s.call][s.req] \in Nat
        BY <1>d, <4>1
      <4>. QED  BY <4>2, <4>3
    <3>. QED  BY <3>1
  <2>2. \A d \in Calls : d < cursor /\ Appends(d) =>
          <<d, requests[req]>> \in completed /\ results'[d][req] > 0
    <3>1. \A d \in Calls : d < cursor => d # cursor
      BY <1>b DEF Calls
    <3>. QED  BY <1>a, <1>b, <1>d, <3>1 DEF ToolInv, Written
  <2>3. results'[cursor][req] > 0
    BY <1>e
  <2>. QED  BY <1>b, <1>c, <2>1, <2>2, <2>3 DEF ToolInv, Written, Appends, tasks, history
<1>13. Started'
  BY <1>c DEF ToolInv, Started, Busy, req, durable, tasks, loop, history,
     CommitResult
<1>14. Decided'
  BY <1>c DEF ToolInv, Decided, req, Authorises, durable, loop, CommitResult
<1>15. LaunchOrder'
  BY <1>c DEF ToolInv, LaunchOrder, Busy, tasks, loop, CommitResult
<1>16. HoldersAgree'
  BY <1>c DEF ToolInv, HoldersAgree, Holding, req, durable, tasks, CommitResult
<1>17. AuthorisedForThisRequest'
  BY <1>c DEF ToolInv, AuthorisedForThisRequest, durable, history, CommitResult
<1>18. OneResultPerRequest'
  BY <1>a, <1>b, <1>c, <1>d, <1>e, SMTT(30) DEF ToolInv, OneResultPerRequest, history
<1>19. AbandonedIsRecorded'
  BY <1>c DEF ToolInv, AbandonedIsRecorded, req, durable, tasks, CommitResult
<1>20. RoundBarrier'
  BY <1>b, <1>c DEF ToolInv, Phases, RoundBarrier, Busy
<1>21. CompletionHasResult'
  <2>1. ASSUME NEW x \in completed, NEW k \in 1..req, requests[k] = x[2], results[x[1]][k] > 0
        PROVE  results'[x[1]][k] > 0
    <3>1. x[1] \in Calls /\ k \in 1..MaxRuns
      BY <1>a DEF ToolInv, ResultsTyped
    <3>0. \A d \in Calls, j \in 1..MaxRuns : results[d][j] \in Nat /\ results'[d][j] \in Nat
      BY <1>d, CountsAreNat DEF ToolInv, ResultsTyped
    <3>2. results[x[1]][k] \in Nat /\ results'[x[1]][k] \in Nat
      BY <3>0, <3>1
    <3>. QED  BY <1>d, <2>1, <3>1, <3>2
  <2>. QED  BY <1>c, <2>1 DEF ToolInv, CompletionHasResult
<1>. QED
  BY <1>1, <1>2, <1>3, <1>4, <1>5, <1>6, <1>7, <1>8, <1>9, <1>10,
     <1>11, <1>12, <1>13, <1>14, <1>15, <1>16, <1>17, <1>18, <1>19, <1>20, <1>21 DEF ToolInv

(* append_tool_results: the completion of the call at the cursor. *)
LEMMA CommitCompletionKeeps ==
  ASSUME ToolInv, CommitCompletion
  PROVE  ToolInv'
<1>a. req \in 1..MaxRuns /\ requests[req] \in 1..MaxSnapshots
  <2>1. req \in 0..MaxRuns /\ req >= 1
    BY RequestIndex DEF ToolInv, Phases, CommitCompletion, Busy
  <2>. QED  BY <2>1, RequestIndex DEF ToolInv
<1>b. cursor \in Calls /\ pc = "commit" /\ half /\ Appends(cursor)
  BY DEF CommitCompletion
<1>c. /\ UNCHANGED <<requests, results, facts, snapshot, turn, tasks, strays, pc, ending,
                     resuming, fresh, history, spent>>
      /\ half' = FALSE /\ cursor' = cursor + 1 /\ req' = req
      /\ completed' = completed \cup {<<cursor, requests[req]>>}
  BY DEF CommitCompletion, req
<1>d. results[cursor][req] > 0
  BY <1>b DEF ToolInv, Written
<1>1. TasksTyped'
  BY <1>c DEF ToolInv, TasksTyped, tasks, CommitCompletion
<1>2. StraysTyped'
  BY <1>c DEF ToolInv, StraysTyped, CommitCompletion
<1>3. RequestsTyped'
  BY <1>c DEF ToolInv, RequestsTyped, durable, CommitCompletion
<1>4. ResultsTyped'
  BY <1>a, <1>b, <1>c DEF ToolInv, ResultsTyped
<1>5. ControlTyped'
  BY <1>c DEF ToolInv, ControlTyped, durable, CommitCompletion
<1>6. LoopTyped'
  <2>1. cursor + 1 \in 1..(N + 1)
    BY <1>b DEF Calls
  <2>. QED  BY <1>c, <2>1 DEF ToolInv, LoopTyped
<1>7. HistoryTyped'
  BY <1>c DEF ToolInv, HistoryTyped, history, spent, CommitCompletion
<1>8. Phases'
  BY <1>b, <1>c DEF ToolInv, Phases, Busy, Followed, Appends, tasks
<1>9. Handover'
  BY <1>c DEF ToolInv, Handover, Busy, req, durable, tasks, loop,
     CommitCompletion
<1>10. OneTask'
  BY <1>c DEF ToolInv, OneTask, CommitCompletion
<1>11. Unwritten'
  <2>1. \A d \in Calls : d > cursor + 1 \/ d = cursor + 1 => d > cursor
    BY <1>b DEF Calls
  <2>. QED  BY <1>b, <1>c, <2>1 DEF ToolInv, Unwritten, Busy, tasks
<1>12. Written'
  <2>1. \A d \in Calls : d < cursor + 1 => d < cursor \/ d = cursor
    BY <1>b DEF Calls
  <2>. QED  BY <1>b, <1>c, <1>d, <2>1 DEF ToolInv, Written, Appends, tasks, history
<1>13. Started'
  BY <1>c DEF ToolInv, Started, Busy, req, durable, tasks, loop, history,
     CommitCompletion
<1>14. Decided'
  BY <1>c DEF ToolInv, Decided, req, Authorises, durable, loop,
     CommitCompletion
<1>15. LaunchOrder'
  BY <1>c DEF ToolInv, LaunchOrder, Busy, tasks, loop, CommitCompletion
<1>16. HoldersAgree'
  BY <1>c DEF ToolInv, HoldersAgree, Holding, req, durable, tasks,
     CommitCompletion
<1>17. AuthorisedForThisRequest'
  BY <1>c DEF ToolInv, AuthorisedForThisRequest, durable, history,
     CommitCompletion
<1>18. OneResultPerRequest'
  BY <1>c DEF ToolInv, OneResultPerRequest, durable, history, CommitCompletion
<1>19. AbandonedIsRecorded'
  BY <1>c DEF ToolInv, AbandonedIsRecorded, tasks
<1>20. RoundBarrier'
  BY <1>b, <1>c DEF ToolInv, Phases, RoundBarrier, Busy
<1>21. CompletionHasResult'
  <2>1. <<cursor, requests[req]>>[1] = cursor /\ <<cursor, requests[req]>>[2] = requests[req]
    OBVIOUS
  <2>2. req \in 1..req
    BY <1>a
  <2>. QED  BY <1>c, <1>d, <2>1, <2>2 DEF ToolInv, CompletionHasResult
<1>. QED
  BY <1>1, <1>2, <1>3, <1>4, <1>5, <1>6, <1>7, <1>8, <1>9, <1>10,
     <1>11, <1>12, <1>13, <1>14, <1>15, <1>16, <1>17, <1>18, <1>19, <1>20, <1>21 DEF ToolInv

(* append_tool_results: the call at the cursor has nothing to append. *)
LEMMA CommitNothingKeeps ==
  ASSUME ToolInv, CommitNothing
  PROVE  ToolInv'
<1>b. cursor \in Calls /\ pc = "commit" /\ ~Appends(cursor) /\ half = FALSE
  BY DEF ToolInv, Phases, LoopTyped, CommitNothing
<1>c. /\ UNCHANGED <<durable, tasks, strays, pc, ending, half, resuming, fresh, history, spent>>
      /\ cursor' = cursor + 1 /\ req' = req
  BY DEF CommitNothing, req, durable
<1>1. TasksTyped'
  BY <1>c DEF ToolInv, TasksTyped, tasks, CommitNothing
<1>2. StraysTyped'
  BY <1>c DEF ToolInv, StraysTyped, CommitNothing
<1>3. RequestsTyped'
  BY <1>c DEF ToolInv, RequestsTyped, durable, CommitNothing
<1>4. ResultsTyped'
  BY <1>c DEF ToolInv, ResultsTyped, durable, CommitNothing
<1>5. ControlTyped'
  BY <1>c DEF ToolInv, ControlTyped, durable, CommitNothing
<1>6. LoopTyped'
  <2>1. cursor + 1 \in 1..(N + 1)
    BY <1>b DEF Calls
  <2>. QED  BY <1>c, <2>1 DEF ToolInv, LoopTyped
<1>7. HistoryTyped'
  BY <1>c DEF ToolInv, HistoryTyped, history, spent, CommitNothing
<1>8. Phases'
  BY <1>b, <1>c DEF ToolInv, Phases, Busy, Followed, Appends, tasks, durable
<1>9. Handover'
  BY <1>c DEF ToolInv, Handover, Busy, req, durable, tasks, loop, CommitNothing
<1>10. OneTask'
  BY <1>c DEF ToolInv, OneTask, CommitNothing
<1>11. Unwritten'
  <2>1. \A d \in Calls : d > cursor + 1 \/ d = cursor + 1 => d > cursor
    BY <1>b DEF Calls
  <2>. QED  BY <1>b, <1>c, <2>1 DEF ToolInv, Unwritten, Busy, tasks, durable
<1>12. Written'
  <2>1. \A d \in Calls : d < cursor + 1 => d < cursor \/ d = cursor
    BY <1>b DEF Calls
  <2>. QED  BY <1>b, <1>c, <2>1 DEF ToolInv, Written, Appends, tasks, history, durable
<1>13. Started'
  BY <1>c DEF ToolInv, Started, Busy, req, durable, tasks, loop, history,
     CommitNothing
<1>14. Decided'
  BY <1>c DEF ToolInv, Decided, req, Authorises, durable, loop, CommitNothing
<1>15. LaunchOrder'
  BY <1>c DEF ToolInv, LaunchOrder, Busy, tasks, loop, CommitNothing
<1>16. HoldersAgree'
  BY <1>c DEF ToolInv, HoldersAgree, Holding, req, durable, tasks,
     CommitNothing
<1>17. AuthorisedForThisRequest'
  BY <1>c DEF ToolInv, AuthorisedForThisRequest, durable, history,
     CommitNothing
<1>18. OneResultPerRequest'
  BY <1>c DEF ToolInv, OneResultPerRequest, durable, history, CommitNothing
<1>19. AbandonedIsRecorded'
  BY <1>c DEF ToolInv, AbandonedIsRecorded, req, durable, tasks, CommitNothing
<1>20. RoundBarrier'
  BY <1>c DEF ToolInv, RoundBarrier, req, durable, CommitNothing
<1>21. CompletionHasResult'
  BY <1>c DEF ToolInv, CompletionHasResult, req, durable, CommitNothing
<1>. QED
  BY <1>1, <1>2, <1>3, <1>4, <1>5, <1>6, <1>7, <1>8, <1>9, <1>10,
     <1>11, <1>12, <1>13, <1>14, <1>15, <1>16, <1>17, <1>18, <1>19, <1>20, <1>21 DEF ToolInv

(* The loop stays idle: the turn is found waiting, gone on or failed, or the
   manifest is bound anew. *)
LEMMA IdleStep ==
  ASSUME ToolInv, pc = "idle", turn' \in {"open", "continue", "cancelled", "failed"}, RoundBarrier',
         fresh' \in BOOLEAN, resumes' \in 0..MaxResumes, troubles' \in 0..MaxTroubles,
         snapshot' \in 1..MaxSnapshots, snapshot' >= snapshot,
         UNCHANGED <<requests, results, completed, facts, tasks, strays, pc, ending, cursor,
                     half, resuming, history>>
  PROVE  ToolInv'
<1>1. TasksTyped'
  BY DEF ToolInv, TasksTyped, tasks
<1>2. StraysTyped'
  BY DEF ToolInv, StraysTyped
<1>3. RequestsTyped'
  BY DEF ToolInv, RequestsTyped, durable
<1>4. ResultsTyped'
  BY DEF ToolInv, ResultsTyped, durable
<1>5. ControlTyped'
  BY DEF ToolInv, ControlTyped, durable
<1>6. LoopTyped'
  BY DEF ToolInv, LoopTyped, loop
<1>7. HistoryTyped'
  BY DEF ToolInv, HistoryTyped, history, spent
<1>8. Phases'
  BY DEF ToolInv, TasksTyped, Phases, Busy, req, Followed, Appends, durable,
     tasks, loop
<1>9. Handover'
  BY DEF ToolInv, Handover, Busy, req, durable, tasks, loop
<1>10. OneTask'
  BY DEF ToolInv, OneTask
<1>11. Unwritten'
  BY DEF ToolInv, Unwritten, Busy, req, durable, tasks, loop
<1>12. Written'
  BY DEF ToolInv, Written, req, Appends, durable, tasks, loop, history
<1>13. Started'
  BY DEF ToolInv, Started, Busy, req, durable, tasks, loop, history
<1>14. Decided'
  <2>1. \A k \in 1..req : requests[k] \in Nat /\ requests[k] <= snapshot'
    <3>1. \A k \in 1..req : requests[k] \in 1..MaxSnapshots /\ requests[k] <= snapshot
      BY RequestIndex DEF ToolInv, Decided
    <3>2. snapshot \in Nat
      BY DEF ToolInv, ControlTyped
    <3>. QED  BY <3>1, <3>2
  <2>. QED  BY <2>1 DEF Decided, req
<1>15. LaunchOrder'
  BY DEF ToolInv, LaunchOrder, Busy, tasks, loop
<1>16. HoldersAgree'
  BY DEF ToolInv, HoldersAgree, Holding, req, durable, tasks
<1>17. AuthorisedForThisRequest'
  BY DEF ToolInv, AuthorisedForThisRequest, durable, history
<1>18. OneResultPerRequest'
  BY DEF ToolInv, OneResultPerRequest, durable, history
<1>19. AbandonedIsRecorded'
  BY DEF ToolInv, AbandonedIsRecorded, req, durable, tasks
<1>20. RoundBarrier'
  OBVIOUS
<1>21. CompletionHasResult'
  BY DEF ToolInv, CompletionHasResult, req, durable
<1>. QED
  BY <1>1, <1>2, <1>3, <1>4, <1>5, <1>6, <1>7, <1>8, <1>9, <1>10,
     <1>11, <1>12, <1>13, <1>14, <1>15, <1>16, <1>17, <1>18, <1>19, <1>20, <1>21 DEF ToolInv

(* The loop comes to rest: the turn ends, a commit or a resumption fails, the last
   completion of a resumption is appended, or the process dies and loses its tasks. *)
LEMMA RestStep ==
  ASSUME ToolInv, NEW left \in BOOLEAN, AtRest(left),
         \/ strays' = strays
         \/ ~left /\ strays' = {},
         completed \subseteq completed', completed' \subseteq Calls \X (1..MaxSnapshots),
         CompletionHasResult', RoundBarrier',
         turn' \in {"open", "continue", "cancelled", "failed"}, fresh' \in BOOLEAN,
         UNCHANGED <<requests, results, facts, snapshot, history>>, resumes' = resumes /\ troubles' \in 0..MaxTroubles
  PROVE  ToolInv'
<1>a. /\ \A c \in Calls : inv'[c] = "none" /\ mon'[c] = "none" /\ recovery'[c] = "none"
      /\ pc' = "idle" /\ ending' = "none" /\ cursor' = 1 /\ half' = FALSE
      /\ resuming' = [call |-> 1, st |-> "execute"]
      /\ ~Busy' /\ req' = req
  BY DEF AtRest, NoTasks, NotResuming, Busy, req
<1>c. /\ \A c \in Calls : out'[c] \in {"none", "abandoned"}
      /\ strays' = strays \/ \A c \in Calls : out'[c] = "none"
      /\ \A c \in Calls : out'[c] = "abandoned" => out[c] = "abandoned"
      /\ strays' \subseteq strays
  <2>1. CASE left = TRUE
    BY <2>1 DEF AtRest
  <2>2. CASE left = FALSE
    BY <2>2 DEF AtRest
  <2>. QED  BY <2>1, <2>2
<1>b. 1 \in Calls
  BY DEF Calls
<1>1. TasksTyped'
  BY <1>c DEF AtRest, TasksTyped, NoTasks
<1>2. StraysTyped'
  BY <1>c DEF ToolInv, StraysTyped
<1>3. RequestsTyped'
  BY DEF ToolInv, RequestsTyped, durable
<1>4. ResultsTyped'
  BY DEF ToolInv, ResultsTyped
<1>5. ControlTyped'
  BY DEF ToolInv, ControlTyped
<1>6. LoopTyped'
  <2>1. cursor' \in 1..(N + 1)
    BY <1>a
  <2>2. resuming' \in [call : Calls, st : {"execute", "result", "completion"}]
    BY <1>a, <1>b
  <2>. QED  BY <1>a, <2>1, <2>2 DEF LoopTyped
<1>7. HistoryTyped'
  BY DEF ToolInv, HistoryTyped, history
<1>8. Phases'
  BY <1>a DEF Phases, Busy
<1>9. Handover'
  <2>1. \A s \in strays' : s.req \in 1..req'
    BY <1>a, <1>c DEF ToolInv, Handover
  <2>2. \A c \in Calls : mon'[c] = "none" /\ inv'[c] = "none"
    BY <1>a
  <2>3. ~Busy'
    BY <1>a
  <2>. QED  BY <2>1, <2>2, <2>3 DEF Handover
<1>10. OneTask'
  BY <1>c DEF ToolInv, OneTask
<1>11. Unwritten'
  BY <1>a, <1>c DEF ToolInv, Unwritten
<1>12. Written'
  BY <1>a, <1>c DEF ToolInv, Written
<1>13. Started'
  BY <1>a, <1>c DEF ToolInv, Started, history
<1>14. Decided'
  BY <1>a DEF ToolInv, Decided
<1>15. LaunchOrder'
  BY <1>a DEF LaunchOrder
<1>16. HoldersAgree'
  <2>1. ASSUME NEW d \in Calls, NEW k, Holding(d, k)'
        PROVE  Holding(d, k)
    <3>1. \E s \in strays : s.call = d /\ s.req = k /\ s.st \in {"starting", "executing"}
      <4>1. inv'[d] = "none" /\ strays' \subseteq strays
        BY <1>a, <1>c
      <4>. QED  BY <2>1, <4>1 DEF Holding
    <3>. QED  BY <3>1 DEF Holding
  <2>. QED  BY <2>1 DEF ToolInv, HoldersAgree
<1>17. AuthorisedForThisRequest'
  BY DEF ToolInv, AuthorisedForThisRequest, durable, history
<1>18. OneResultPerRequest'
  BY DEF ToolInv, OneResultPerRequest, durable, history
<1>19. AbandonedIsRecorded'
  BY <1>a, <1>c DEF ToolInv, AbandonedIsRecorded
<1>20. RoundBarrier'
  OBVIOUS
<1>21. CompletionHasResult'
  OBVIOUS
<1>. QED
  BY <1>1, <1>2, <1>3, <1>4, <1>5, <1>6, <1>7, <1>8, <1>9, <1>10,
     <1>11, <1>12, <1>13, <1>14, <1>15, <1>16, <1>17, <1>18, <1>19, <1>20, <1>21 DEF ToolInv

(* A controller or a witness appends a fact. *)
LEMMA ControlFactKeeps ==
  ASSUME ToolInv, NEW c \in Calls, NEW kind \in FactKinds, NEW src \in 0..MaxRuns,
         ControlFact(c, kind, src)
  PROVE  ToolInv'
<1> DEFINE f == [call |-> c, kind |-> kind, snap |-> snapshot, src |-> src]
<1>a. facts' = facts \cup {f}
  BY DEF ControlFact
<1>1. TasksTyped'
  BY <1>a DEF ToolInv, TasksTyped, tasks, ControlFact
<1>2. StraysTyped'
  BY <1>a DEF ToolInv, StraysTyped, ControlFact
<1>3. RequestsTyped'
  BY <1>a DEF ToolInv, RequestsTyped, durable, ControlFact
<1>4. ResultsTyped'
  BY <1>a DEF ToolInv, ResultsTyped, durable, ControlFact
<1>5. ControlTyped'
  <2>1. snapshot \in 1..MaxSnapshots
    BY DEF ToolInv, ControlTyped
  <2>2. f \in [call : Calls, kind : FactKinds, snap : 1..MaxSnapshots, src : 0..MaxRuns]
    BY <2>1
  <2>3. IsFiniteSet(facts')
    BY <1>a, FS_AddElement DEF ToolInv, ControlTyped
  <2>. QED  BY <1>a, <2>2, <2>3 DEF ToolInv, ControlTyped, ControlFact
<1>6. LoopTyped'
  BY <1>a DEF ToolInv, LoopTyped, loop, ControlFact
<1>7. HistoryTyped'
  BY <1>a DEF ToolInv, HistoryTyped, history, spent, ControlFact
<1>8. Phases'
  BY <1>a DEF ToolInv, Phases, Busy, req, Followed, Appends, durable, tasks,
     loop, ControlFact
<1>9. Handover'
  BY <1>a DEF ToolInv, Handover, Busy, req, durable, tasks, loop, ControlFact
<1>10. OneTask'
  BY <1>a DEF ToolInv, OneTask, ControlFact
<1>11. Unwritten'
  BY <1>a DEF ToolInv, Unwritten, Busy, req, durable, tasks, loop, ControlFact
<1>12. Written'
  BY <1>a DEF ToolInv, Written, req, Appends, durable, tasks, loop, history,
     ControlFact
<1>13. Started'
  BY <1>a DEF ToolInv, Started, Busy, req, durable, tasks, loop, history,
     ControlFact
<1>14. Decided'
  <2>1. UNCHANGED <<requests, snapshot, pc, resuming>> /\ facts \subseteq facts'
    BY <1>a DEF ControlFact, loop
  <2>. QED  BY <2>1 DEF ToolInv, Decided, Authorises, req
<1>15. LaunchOrder'
  BY <1>a DEF ToolInv, LaunchOrder, Busy, tasks, loop, ControlFact
<1>16. HoldersAgree'
  BY <1>a DEF ToolInv, HoldersAgree, Holding, req, durable, tasks, ControlFact
<1>17. AuthorisedForThisRequest'
  <2>1. UNCHANGED <<requests, ran>> /\ facts \subseteq facts'
    BY <1>a DEF ControlFact, history
  <2>. QED  BY <2>1 DEF ToolInv, AuthorisedForThisRequest
<1>18. OneResultPerRequest'
  BY <1>a DEF ToolInv, OneResultPerRequest, durable, history, ControlFact
<1>19. AbandonedIsRecorded'
  BY <1>a DEF ToolInv, AbandonedIsRecorded, req, durable, tasks, ControlFact
<1>20. RoundBarrier'
  BY <1>a DEF ToolInv, RoundBarrier, req, durable, ControlFact
<1>21. CompletionHasResult'
  BY <1>a DEF ToolInv, CompletionHasResult, req, durable, ControlFact
<1>. QED
  BY <1>1, <1>2, <1>3, <1>4, <1>5, <1>6, <1>7, <1>8, <1>9, <1>10,
     <1>11, <1>12, <1>13, <1>14, <1>15, <1>16, <1>17, <1>18, <1>19, <1>20, <1>21 DEF ToolInv

(* resume_pending_tool_call: the resumption of call c is decided. *)
LEMMA ResumeBegins ==
  ASSUME ToolInv, NEW c \in Calls, NEW st \in {"execute", "result"}, pc = "idle", Followed, req = 1,
         st = "execute" => \E f \in facts : Authorises(f, c, 1),
         pc' = "resume", resumed' = resumed \cup {c},
         resuming' = [call |-> c, st |-> st], resumes' \in 0..MaxResumes,
         UNCHANGED <<durable, tasks, strays, ending, cursor, half, fresh, ran, troubles>>
  PROVE  ToolInv'
<1>a. /\ resuming'.call = c /\ resuming'.st = st /\ ~Busy /\ ~Busy' /\ req' = req
      /\ UNCHANGED <<requests, results, completed, facts, snapshot, turn>>
  BY DEF Busy, durable, req
<1>1. TasksTyped'
  BY <1>a DEF ToolInv, TasksTyped, tasks
<1>2. StraysTyped'
  BY <1>a DEF ToolInv, StraysTyped
<1>3. RequestsTyped'
  BY <1>a DEF ToolInv, RequestsTyped, durable
<1>4. ResultsTyped'
  BY <1>a DEF ToolInv, ResultsTyped, durable
<1>5. ControlTyped'
  BY <1>a DEF ToolInv, ControlTyped, durable
<1>6. LoopTyped'
  BY DEF ToolInv, LoopTyped
<1>7. HistoryTyped'
  BY DEF ToolInv, HistoryTyped
<1>8. Phases'
  BY <1>a DEF ToolInv, Phases, Followed, Appends, tasks
<1>9. Handover'
  BY <1>a DEF ToolInv, Handover, tasks
<1>10. OneTask'
  BY <1>a DEF ToolInv, OneTask
<1>11. Unwritten'
  BY <1>a DEF ToolInv, Unwritten
<1>12. Written'
  BY <1>a DEF ToolInv, Written
<1>13. Started'
  BY <1>a DEF ToolInv, Started, tasks
<1>14. Decided'
  BY <1>a DEF ToolInv, Decided, Authorises
<1>15. LaunchOrder'
  BY <1>a DEF LaunchOrder
<1>16. HoldersAgree'
  BY <1>a DEF ToolInv, HoldersAgree, Holding, req, durable, tasks
<1>17. AuthorisedForThisRequest'
  BY <1>a DEF ToolInv, AuthorisedForThisRequest, durable, history
<1>18. OneResultPerRequest'
  BY <1>a DEF ToolInv, OneResultPerRequest
<1>19. AbandonedIsRecorded'
  BY <1>a DEF ToolInv, AbandonedIsRecorded, tasks
<1>20. RoundBarrier'
  BY <1>a DEF ToolInv, RoundBarrier, req, durable
<1>21. CompletionHasResult'
  BY <1>a DEF ToolInv, CompletionHasResult, req, durable
<1>. QED
  BY <1>1, <1>2, <1>3, <1>4, <1>5, <1>6, <1>7, <1>8, <1>9, <1>10,
     <1>11, <1>12, <1>13, <1>14, <1>15, <1>16, <1>17, <1>18, <1>19, <1>20, <1>21 DEF ToolInv

(* The resumption starts the tool. *)
LEMMA ResumeExecutesKeeps ==
  ASSUME ToolInv, ResumeExecutes
  PROVE  ToolInv'
<1>a. /\ pc = "resume" /\ resuming.st = "execute" /\ req = 1 /\ ~Busy
      /\ resuming.call \in Calls
  BY DEF ToolInv, Phases, LoopTyped, ResumeExecutes, Busy
<1>b. /\ resuming' \in [call : Calls, st : {"execute", "result", "completion"}]
      /\ resuming'.call = resuming.call /\ resuming'.st = "result"
  BY DEF ToolInv, LoopTyped, ResumeExecutes
<1>c. /\ UNCHANGED <<requests, facts, pc, strays, inv, mon, recovery, resumed, resumes, troubles>>
      /\ ran' = ran \cup {<<resuming.call, 1, "resume">>} /\ req' = req
  BY DEF ResumeExecutes, durable, tasks, spent, req
<1>d. 1 \in 1..MaxRuns
  <2>1. req \in 0..MaxRuns
    BY RequestIndex DEF ToolInv
  <2>. QED  BY <1>a, <2>1
<1>1. TasksTyped'
  BY <1>c DEF ToolInv, TasksTyped, tasks, ResumeExecutes
<1>2. StraysTyped'
  BY <1>c DEF ToolInv, StraysTyped, ResumeExecutes
<1>3. RequestsTyped'
  BY <1>c DEF ToolInv, RequestsTyped, durable, ResumeExecutes
<1>4. ResultsTyped'
  BY <1>c DEF ToolInv, ResultsTyped, durable, ResumeExecutes
<1>5. ControlTyped'
  BY <1>c DEF ToolInv, ControlTyped, durable, ResumeExecutes
<1>6. LoopTyped'
  BY <1>b DEF ToolInv, LoopTyped, ResumeExecutes
<1>7. HistoryTyped'
  BY <1>a, <1>c, <1>d DEF ToolInv, HistoryTyped
<1>8. Phases'
  BY <1>c DEF ToolInv, Phases, Busy, req, Followed, Appends, durable, tasks,
     loop, ResumeExecutes
<1>9. Handover'
  BY <1>c DEF ToolInv, Handover, Busy, req, durable, tasks, loop,
     ResumeExecutes
<1>10. OneTask'
  BY <1>c DEF ToolInv, OneTask, ResumeExecutes
<1>11. Unwritten'
  BY <1>c DEF ToolInv, Unwritten, Busy, req, durable, tasks, loop,
     ResumeExecutes
<1>12. Written'
  BY <1>b, <1>c DEF ToolInv, Written, ResumeExecutes, durable, tasks, Appends
<1>13. Started'
  <2>1. \A x \in ran' : x[2] \in 1..req' /\ (x[1] \in AtMostOnce => x[2] = 1)
    <3>1. \A x \in ran : x[2] \in 1..req /\ (x[1] \in AtMostOnce => x[2] = 1)
      BY DEF ToolInv, Started
    <3>2. <<resuming.call, 1, "resume">>[2] = 1 /\ 1 \in 1..req
      BY <1>a
    <3>. QED  BY <1>c, <3>1, <3>2
  <2>2. \A s \in strays : s.st = "starting" => <<s.call, s.req, "batch">> \notin ran'
    BY <1>c DEF ToolInv, Started
  <2>. QED  BY <1>a, <1>c, <2>1, <2>2 DEF ToolInv, Started, Busy
<1>14. Decided'
  BY <1>b, <1>c DEF ToolInv, Decided, ResumeExecutes, durable
<1>15. LaunchOrder'
  BY <1>c DEF ToolInv, LaunchOrder, Busy, tasks, loop, ResumeExecutes
<1>16. HoldersAgree'
  BY <1>c DEF ToolInv, HoldersAgree, Holding, req, durable, tasks,
     ResumeExecutes
<1>17. AuthorisedForThisRequest'
  <2>1. PICK f \in facts : Authorises(f, resuming.call, 1)
    BY <1>a DEF ToolInv, Decided
  <2>2. \A x \in ran : x[1] \in Controlled => \E g \in facts :
          /\ g.call = x[1] /\ g.kind \in {"Allow", "Rewrite"}
          /\ g.snap >= requests[x[2]] /\ g.src \in {0, x[2]}
    BY DEF ToolInv, AuthorisedForThisRequest
  <2>3. LET x == <<resuming.call, 1, "resume">> IN
          /\ f.call = x[1] /\ f.kind \in {"Allow", "Rewrite"}
          /\ f.snap >= requests[x[2]] /\ f.src \in {0, x[2]}
    BY <2>1 DEF Authorises
  <2>. QED  BY <1>c, <2>2, <2>3 DEF AuthorisedForThisRequest
<1>18. OneResultPerRequest'
  BY <1>c DEF ToolInv, OneResultPerRequest, durable, history, ResumeExecutes
<1>19. AbandonedIsRecorded'
  BY <1>c DEF ToolInv, AbandonedIsRecorded, req, durable, tasks, ResumeExecutes
<1>20. RoundBarrier'
  BY <1>c DEF ToolInv, RoundBarrier, req, durable, ResumeExecutes
<1>21. CompletionHasResult'
  BY <1>c DEF ToolInv, CompletionHasResult, req, durable, ResumeExecutes
<1>. QED
  BY <1>1, <1>2, <1>3, <1>4, <1>5, <1>6, <1>7, <1>8, <1>9, <1>10,
     <1>11, <1>12, <1>13, <1>14, <1>15, <1>16, <1>17, <1>18, <1>19, <1>20, <1>21 DEF ToolInv

(* The resumption appends its result message. *)
LEMMA ResumeAppendsResultKeeps ==
  ASSUME ToolInv, ResumeAppendsResult
  PROVE  ToolInv'
<1>a. /\ pc = "resume" /\ req = 1 /\ ~Busy /\ resuming.call \in Calls
      /\ resuming.call \in resumed /\ half = FALSE
  BY DEF ToolInv, Phases, LoopTyped, Written, ResumeAppendsResult, Busy
<1>b. /\ resuming' \in [call : Calls, st : {"execute", "result", "completion"}]
      /\ resuming'.call = resuming.call /\ resuming'.st = "completion"
  BY DEF ToolInv, LoopTyped, ResumeAppendsResult
<1>c. /\ UNCHANGED <<requests, completed, facts, snapshot, turn, tasks, strays, pc, ending,
                     cursor, half, fresh, history, spent>>
      /\ req' = req /\ ~Busy'
  BY <1>a DEF ResumeAppendsResult, req, Busy
<1>d. 1 \in 1..MaxRuns
  <2>1. req \in 0..MaxRuns
    BY RequestIndex DEF ToolInv
  <2>. QED  BY <1>a, <2>1
<1>e. /\ results' \in [Calls -> [1..MaxRuns -> Nat]]
      /\ results'[resuming.call][1] = results[resuming.call][1] + 1
      /\ \A d \in Calls, j \in 1..MaxRuns :
           d # resuming.call \/ j # 1 => results'[d][j] = results[d][j]
      /\ \A d \in Calls, j \in 1..MaxRuns : results'[d][j] >= results[d][j]
  BY <1>a, <1>d, OneMoreResult DEF ToolInv, ResultsTyped, ResumeAppendsResult
<1>f. \A d \in Calls, j \in 1..MaxRuns : results[d][j] \in Nat /\ results'[d][j] \in Nat
  BY <1>e, CountsAreNat DEF ToolInv, ResultsTyped
<1>g. \A d \in Calls, j \in 1..MaxRuns : results[d][j] > 0 => results'[d][j] > 0
  BY <1>e, <1>f
<1>1. TasksTyped'
  BY <1>c DEF ToolInv, TasksTyped, tasks, ResumeAppendsResult
<1>2. StraysTyped'
  BY <1>c DEF ToolInv, StraysTyped, ResumeAppendsResult
<1>3. RequestsTyped'
  BY <1>c DEF ToolInv, RequestsTyped, durable, ResumeAppendsResult
<1>4. ResultsTyped'
  BY <1>c, <1>e DEF ToolInv, ResultsTyped
<1>5. ControlTyped'
  BY <1>c DEF ToolInv, ControlTyped, durable, ResumeAppendsResult
<1>6. LoopTyped'
  BY <1>b, <1>c DEF ToolInv, LoopTyped
<1>7. HistoryTyped'
  BY <1>c DEF ToolInv, HistoryTyped, history, spent, ResumeAppendsResult
<1>8. Phases'
  BY <1>c DEF ToolInv, Phases, Busy, req, Followed, Appends, durable, tasks,
     loop, ResumeAppendsResult
<1>9. Handover'
  BY <1>c DEF ToolInv, Handover, Busy, req, durable, tasks, loop,
     ResumeAppendsResult
<1>10. OneTask'
  BY <1>c DEF ToolInv, OneTask, ResumeAppendsResult
<1>11. Unwritten'
  <2>1. \A d \in Calls, k \in 1..MaxRuns : k > req => results'[d][k] = 0
    BY <1>a, <1>e, SMTT(30) DEF ToolInv, Unwritten
  <2>. QED  BY <1>c, <2>1 DEF Unwritten
<1>12. Written'
  <2>1. \A s \in strays : s.st = "half" => results'[s.call][s.req] > 0
    BY <1>g DEF ToolInv, Written, StraysTyped
  <2>2. results'[resuming.call][1] > 0
    BY <1>a, <1>d, <1>e, <1>f
  <2>. QED  BY <1>a, <1>b, <1>c, <2>1, <2>2 DEF Written, history
<1>13. Started'
  BY <1>c DEF ToolInv, Started, Busy, req, durable, tasks, loop, history,
     ResumeAppendsResult
<1>14. Decided'
  BY <1>b, <1>c DEF ToolInv, Decided, req
<1>15. LaunchOrder'
  BY <1>c DEF ToolInv, LaunchOrder, Busy, tasks, loop, ResumeAppendsResult
<1>16. HoldersAgree'
  BY <1>c DEF ToolInv, HoldersAgree, Holding, req, durable, tasks,
     ResumeAppendsResult
<1>17. AuthorisedForThisRequest'
  BY <1>c DEF ToolInv, AuthorisedForThisRequest, durable, history,
     ResumeAppendsResult
<1>18. OneResultPerRequest'
  <2>1. ASSUME NEW d \in Calls \ resumed, NEW k \in 1..MaxRuns PROVE results'[d][k] <= 1
    <3>1. d # resuming.call
      BY <1>a
    <3>2. results'[d][k] = results[d][k]
      BY <1>e, <3>1
    <3>. QED  BY <3>2 DEF ToolInv, OneResultPerRequest
  <2>. QED  BY <1>c, <2>1 DEF OneResultPerRequest, history
<1>19. AbandonedIsRecorded'
  BY <1>c DEF ToolInv, AbandonedIsRecorded, req, durable, tasks,
     ResumeAppendsResult
<1>20. RoundBarrier'
  BY <1>a, <1>c DEF ToolInv, Phases, Followed, RoundBarrier
<1>21. CompletionHasResult'
  <2>1. \A x \in completed : x[1] \in Calls
    BY DEF ToolInv, ResultsTyped
  <2>2. \A k \in 1..req : k \in 1..MaxRuns
    BY RequestIndex DEF ToolInv
  <2>. QED  BY <1>c, <1>g, <2>1, <2>2 DEF ToolInv, CompletionHasResult
<1>. QED
  BY <1>1, <1>2, <1>3, <1>4, <1>5, <1>6, <1>7, <1>8, <1>9, <1>10,
     <1>11, <1>12, <1>13, <1>14, <1>15, <1>16, <1>17, <1>18, <1>19, <1>20, <1>21 DEF ToolInv

(* A task outside the batch has its outcome, or failed to record it. *)
LEMMA StrayReturns ==
  ASSUME ToolInv, NEW s \in strays,
         NEW t \in [call : Calls, req : 1..MaxRuns,
                    st : {"starting", "executing", "returned", "half"},
                    act : {"Reuse", "Reexecute", "ConservativeFailure"}],
         t.call = s.call, t.req = s.req, t.act = s.act,
         strays' = (strays \ {s}) \cup {t},
         t.st = "returned", UNCHANGED <<durable, tasks, loop, history>>, resumes' = resumes /\ troubles' \in 0..MaxTroubles
  PROVE  ToolInv'
<1>a. /\ UNCHANGED <<requests, results, completed, tasks>> /\ req' = req /\ Busy' = Busy
      /\ ending' = ending
  BY DEF durable, loop, req, Busy
<1>1. TasksTyped'
  BY DEF ToolInv, TasksTyped, tasks
<1>2. StraysTyped'
  BY DEF ToolInv, StraysTyped
<1>3. RequestsTyped'
  BY DEF ToolInv, RequestsTyped, durable
<1>4. ResultsTyped'
  BY DEF ToolInv, ResultsTyped, durable
<1>5. ControlTyped'
  BY DEF ToolInv, ControlTyped, durable
<1>6. LoopTyped'
  BY DEF ToolInv, LoopTyped, loop
<1>7. HistoryTyped'
  BY DEF ToolInv, HistoryTyped, history, spent
<1>8. Phases'
  BY DEF ToolInv, Phases, Busy, req, Followed, Appends, durable, tasks, loop
<1>9. Handover'
  <2>1. t.req \in 1..req /\ (Busy /\ t.req = req => out[t.call] = "abandoned")
    BY DEF ToolInv, Handover
  <2>. QED  BY <1>a, <2>1 DEF ToolInv, Handover, tasks
<1>10. OneTask'
  BY DEF ToolInv, OneTask
<1>11. Unwritten'
  BY DEF ToolInv, Unwritten, Busy, req, durable, tasks, loop
<1>12. Written'
  BY DEF ToolInv, Written, durable, loop, history, tasks, req, Appends
<1>13. Started'
  <2>1. \A u \in strays' : /\ u.call \in AtMostOnce /\ u.act = "Reexecute" => u.req = 1
                           /\ u.st = "starting" => <<u.call, u.req, "batch">> \notin ran
    BY DEF ToolInv, Started
  <2>. QED  BY <1>a, <2>1 DEF ToolInv, Started, tasks, history
<1>14. Decided'
  BY DEF ToolInv, Decided, req, Authorises, durable, loop
<1>15. LaunchOrder'
  BY DEF ToolInv, LaunchOrder, Busy, tasks, loop
<1>16. HoldersAgree'
  <2>1. ASSUME NEW d \in Calls, NEW k, Holding(d, k)'
        PROVE  Holding(d, k)
    <3>1. CASE k = req' /\ inv'[d] \in {"starting", "executing"}
      BY <1>a, <3>1 DEF Holding, tasks
    <3>2. CASE \E u \in strays' : u.call = d /\ u.req = k /\ u.st \in {"starting", "executing"}
      <4>1. PICK u \in strays' : u.call = d /\ u.req = k /\ u.st \in {"starting", "executing"}
        BY <3>2
      <4>2. CASE u = t
        BY <4>1, <4>2 DEF Holding
      <4>3. CASE u \in strays
        BY <4>1, <4>3 DEF Holding
      <4>. QED  BY <4>2, <4>3
    <3>. QED  BY <2>1, <3>1, <3>2 DEF Holding
  <2>. QED  BY <2>1 DEF ToolInv, HoldersAgree
<1>17. AuthorisedForThisRequest'
  BY DEF ToolInv, AuthorisedForThisRequest, durable, history
<1>18. OneResultPerRequest'
  BY DEF ToolInv, OneResultPerRequest, durable, history
<1>19. AbandonedIsRecorded'
  <2>1. \A u \in strays : \E v \in strays' : v.call = u.call /\ v.req = u.req
    <3>1. ASSUME NEW u \in strays PROVE \E v \in strays' : v.call = u.call /\ v.req = u.req
      <4>1. CASE u = s
        BY <4>1
      <4>2. CASE u # s
        BY <4>2
      <4>. QED  BY <4>1, <4>2
    <3>. QED  BY <3>1
  <2>2. UNCHANGED <<requests, completed, out>>
    BY <1>a DEF tasks
  <2>3. ASSUME NEW c \in Calls, out[c] = "abandoned", <<c, requests[req]>> \notin completed
        PROVE  \E v \in strays' : v.call = c /\ requests[v.req] = requests[req]
    <3>1. PICK u \in strays : u.call = c /\ requests[u.req] = requests[req]
      BY <2>3 DEF ToolInv, AbandonedIsRecorded
    <3>2. PICK v \in strays' : v.call = u.call /\ v.req = u.req
      BY <2>1
    <3>. QED  BY <3>1, <3>2
  <2>. QED  BY <1>a, <2>2, <2>3 DEF AbandonedIsRecorded
<1>20. RoundBarrier'
  BY DEF ToolInv, RoundBarrier, req, durable
<1>21. CompletionHasResult'
  BY DEF ToolInv, CompletionHasResult, req, durable
<1>. QED
  BY <1>1, <1>2, <1>3, <1>4, <1>5, <1>6, <1>7, <1>8, <1>9, <1>10,
     <1>11, <1>12, <1>13, <1>14, <1>15, <1>16, <1>17, <1>18, <1>19, <1>20, <1>21 DEF ToolInv

(* An abandoned task starts its tool. *)
LEMMA StrayStarts ==
  ASSUME ToolInv, NEW s \in strays,
         NEW t \in [call : Calls, req : 1..MaxRuns,
                    st : {"starting", "executing", "returned", "half"},
                    act : {"Reuse", "Reexecute", "ConservativeFailure"}],
         t.call = s.call, t.req = s.req, t.act = s.act,
         strays' = (strays \ {s}) \cup {t},
         s.st = "starting", t.st = "executing", s.act = "Reexecute",
         s.call \in Controlled => \E f \in facts : Authorises(f, s.call, s.req),
         ToolStarts(s.call, s.req), UNCHANGED <<durable, tasks, loop, spent>>
  PROVE  ToolInv'
<1>a. /\ UNCHANGED <<requests, results, completed, facts, tasks, resumed>> /\ req' = req
      /\ Busy' = Busy /\ ending' = ending
      /\ ran' = ran \cup {<<s.call, s.req, "batch">>}
  BY DEF durable, loop, req, Busy, ToolStarts
<1>b. /\ s.call \in Calls /\ s.req \in 1..MaxRuns /\ s.req \in 1..req
      /\ s.call \in AtMostOnce => s.req = 1
  BY DEF ToolInv, StraysTyped, Handover, Started
<1>1. TasksTyped'
  BY <1>a DEF ToolInv, TasksTyped, tasks
<1>2. StraysTyped'
  BY DEF ToolInv, StraysTyped
<1>3. RequestsTyped'
  BY <1>a DEF ToolInv, RequestsTyped, durable
<1>4. ResultsTyped'
  BY <1>a DEF ToolInv, ResultsTyped, durable
<1>5. ControlTyped'
  BY <1>a DEF ToolInv, ControlTyped, durable
<1>6. LoopTyped'
  BY <1>a DEF ToolInv, LoopTyped, loop
<1>7. HistoryTyped'
  BY <1>a, <1>b DEF ToolInv, HistoryTyped, spent
<1>8. Phases'
  BY <1>a DEF ToolInv, Phases, Busy, req, Followed, Appends, durable, tasks,
     loop
<1>9. Handover'
  <2>1. t.req \in 1..req /\ (Busy /\ t.req = req => out[t.call] = "abandoned")
    BY DEF ToolInv, Handover
  <2>. QED  BY <1>a, <2>1 DEF ToolInv, Handover, tasks
<1>10. OneTask'
  BY DEF ToolInv, OneTask
<1>11. Unwritten'
  BY <1>a DEF ToolInv, Unwritten, Busy, req, durable, tasks, loop
<1>12. Written'
  BY <1>a DEF ToolInv, Written, durable, loop, tasks, req, Appends
<1>13. Started'
  <2>1. \A x \in ran' : x[2] \in 1..req' /\ (x[1] \in AtMostOnce => x[2] = 1)
    <3>1. \A x \in ran : x[2] \in 1..req /\ (x[1] \in AtMostOnce => x[2] = 1)
      BY DEF ToolInv, Started
    <3>2. <<s.call, s.req, "batch">>[1] = s.call /\ <<s.call, s.req, "batch">>[2] = s.req
      OBVIOUS
    <3>. QED  BY <1>a, <1>b, <3>1, <3>2
  <2>2. ASSUME NEW c \in Calls, Busy, mon[c] = "none" \/ inv[c] = "starting"
        PROVE  <<c, req, "batch">> \notin ran'
    <3>1. c # s.call \/ req # s.req
      BY <2>2 DEF ToolInv, Handover, StraysTyped
    <3>. QED  BY <1>a, <2>2, <3>1 DEF ToolInv, Started
  <2>3. ASSUME NEW u \in strays', u.st = "starting" PROVE <<u.call, u.req, "batch">> \notin ran'
    <3>1. u \in strays /\ u # s
      BY <2>3
    <3>2. <<u.call, u.req, "batch">> \notin ran
      BY <2>3, <3>1 DEF ToolInv, Started
    <3>3. u.call # s.call \/ u.req # s.req
      BY <2>3, <3>1 DEF ToolInv, OneTask
    <3>. QED  BY <1>a, <3>2, <3>3
  <2>. QED  BY <1>a, <2>1, <2>2, <2>3 DEF ToolInv, Started, tasks
<1>14. Decided'
  BY <1>a DEF ToolInv, Decided, req, Authorises, durable, loop
<1>15. LaunchOrder'
  BY <1>a DEF ToolInv, LaunchOrder, Busy, tasks, loop
<1>16. HoldersAgree'
  <2>1. ASSUME NEW d \in Calls, NEW k, Holding(d, k)'
        PROVE  Holding(d, k)
    <3>1. CASE k = req' /\ inv'[d] \in {"starting", "executing"}
      BY <1>a, <3>1 DEF Holding, tasks
    <3>2. CASE \E u \in strays' : u.call = d /\ u.req = k /\ u.st \in {"starting", "executing"}
      <4>1. PICK u \in strays' : u.call = d /\ u.req = k /\ u.st \in {"starting", "executing"}
        BY <3>2
      <4>2. CASE u = t
        BY <4>1, <4>2 DEF Holding
      <4>3. CASE u \in strays
        BY <4>1, <4>3 DEF Holding
      <4>. QED  BY <4>2, <4>3
    <3>. QED  BY <2>1, <3>1, <3>2 DEF Holding
  <2>. QED  BY <2>1 DEF ToolInv, HoldersAgree
<1>17. AuthorisedForThisRequest'
  <2>1. \A x \in ran : x[1] \in Controlled => \E g \in facts :
          /\ g.call = x[1] /\ g.kind \in {"Allow", "Rewrite"}
          /\ g.snap >= requests[x[2]] /\ g.src \in {0, x[2]}
    BY DEF ToolInv, AuthorisedForThisRequest
  <2>2. LET x == <<s.call, s.req, "batch">> IN
          x[1] \in Controlled => \E g \in facts :
            /\ g.call = x[1] /\ g.kind \in {"Allow", "Rewrite"}
            /\ g.snap >= requests[x[2]] /\ g.src \in {0, x[2]}
    BY DEF Authorises
  <2>. QED  BY <1>a, <2>1, <2>2 DEF AuthorisedForThisRequest
<1>18. OneResultPerRequest'
  BY <1>a DEF ToolInv, OneResultPerRequest, durable, history
<1>19. AbandonedIsRecorded'
  <2>1. \A u \in strays : \E v \in strays' : v.call = u.call /\ v.req = u.req
    <3>1. ASSUME NEW u \in strays PROVE \E v \in strays' : v.call = u.call /\ v.req = u.req
      <4>1. CASE u = s
        BY <4>1
      <4>2. CASE u # s
        BY <4>2
      <4>. QED  BY <4>1, <4>2
    <3>. QED  BY <3>1
  <2>2. UNCHANGED <<requests, completed, out>>
    BY <1>a DEF tasks
  <2>3. ASSUME NEW c \in Calls, out[c] = "abandoned", <<c, requests[req]>> \notin completed
        PROVE  \E v \in strays' : v.call = c /\ requests[v.req] = requests[req]
    <3>1. PICK u \in strays : u.call = c /\ requests[u.req] = requests[req]
      BY <2>3 DEF ToolInv, AbandonedIsRecorded
    <3>2. PICK v \in strays' : v.call = u.call /\ v.req = u.req
      BY <2>1
    <3>. QED  BY <3>1, <3>2
  <2>. QED  BY <1>a, <2>2, <2>3 DEF AbandonedIsRecorded
<1>20. RoundBarrier'
  BY <1>a DEF ToolInv, RoundBarrier, req, durable
<1>21. CompletionHasResult'
  BY <1>a DEF ToolInv, CompletionHasResult, req, durable
<1>. QED
  BY <1>1, <1>2, <1>3, <1>4, <1>5, <1>6, <1>7, <1>8, <1>9, <1>10,
     <1>11, <1>12, <1>13, <1>14, <1>15, <1>16, <1>17, <1>18, <1>19, <1>20, <1>21 DEF ToolInv

(* append_detached_tool_call_outcome_until_recorded: the result is there, found or
   appended. *)
LEMMA StrayWrites ==
  ASSUME ToolInv, NEW s \in strays,
         NEW t \in [call : Calls, req : 1..MaxRuns,
                    st : {"starting", "executing", "returned", "half"},
                    act : {"Reuse", "Reexecute", "ConservativeFailure"}],
         t.call = s.call, t.req = s.req, t.act = s.act,
         strays' = (strays \ {s}) \cup {t},
         t.st = "half",
         \/ results[s.call][s.req] > 0 /\ UNCHANGED results
         \/ results[s.call][s.req] = 0 /\ AddResult(s.call, s.req),
         UNCHANGED <<requests, completed, facts, snapshot, turn, tasks, loop, history, spent>>
  PROVE  ToolInv'
<1>a. /\ UNCHANGED <<requests, completed, facts, snapshot, turn, tasks>> /\ req' = req
      /\ Busy' = Busy /\ ending' = ending
  BY DEF loop, req, Busy
<1>b. s.call \in Calls /\ s.req \in 1..MaxRuns /\ s.req \in 1..req /\ req \in 0..MaxRuns
  BY RequestIndex DEF ToolInv, StraysTyped, Handover
<1>c. /\ results' \in [Calls -> [1..MaxRuns -> Nat]]
      /\ results'[s.call][s.req] > 0
      /\ results[s.call][s.req] = 0 => results'[s.call][s.req] = 1
      /\ \A d \in Calls, j \in 1..MaxRuns :
           (d # s.call \/ j # s.req) \/ results[d][j] > 0 => results'[d][j] = results[d][j]
  <2>1. CASE results[s.call][s.req] > 0 /\ UNCHANGED results
    BY <1>b, <2>1 DEF ToolInv, ResultsTyped
  <2>2. CASE results[s.call][s.req] = 0 /\ AddResult(s.call, s.req)
    <3>1. /\ results' \in [Calls -> [1..MaxRuns -> Nat]]
          /\ results'[s.call][s.req] = results[s.call][s.req] + 1
          /\ \A d \in Calls, j \in 1..MaxRuns :
               d # s.call \/ j # s.req => results'[d][j] = results[d][j]
      BY <1>b, <2>2, OneMoreResult, ZenonT(60) DEF ToolInv, ResultsTyped
    <3>2. results'[s.call][s.req] = 1
      BY <2>2, <3>1
    <3>3. \A d \in Calls, j \in 1..MaxRuns : results[d][j] > 0 => d # s.call \/ j # s.req
      BY <2>2
    <3>. QED  BY <3>1, <3>2, <3>3
  <2>. QED  BY <2>1, <2>2
<1>d. \A d \in Calls, j \in 1..MaxRuns : results[d][j] > 0 => results'[d][j] > 0
  BY <1>c
<1>1. TasksTyped'
  BY <1>a DEF ToolInv, TasksTyped, tasks
<1>2. StraysTyped'
  BY DEF ToolInv, StraysTyped
<1>3. RequestsTyped'
  BY <1>a DEF ToolInv, RequestsTyped, durable
<1>4. ResultsTyped'
  BY <1>a, <1>c DEF ToolInv, ResultsTyped
<1>5. ControlTyped'
  BY <1>a DEF ToolInv, ControlTyped, durable
<1>6. LoopTyped'
  BY <1>a DEF ToolInv, LoopTyped, loop
<1>7. HistoryTyped'
  BY <1>a DEF ToolInv, HistoryTyped, history, spent
<1>8. Phases'
  BY <1>a DEF ToolInv, Phases, Busy, req, Followed, Appends, durable, tasks,
     loop
<1>9. Handover'
  <2>1. t.req \in 1..req /\ (Busy /\ t.req = req => out[t.call] = "abandoned")
    BY DEF ToolInv, Handover
  <2>. QED  BY <1>a, <2>1 DEF ToolInv, Handover, tasks
<1>10. OneTask'
  BY DEF ToolInv, OneTask
<1>11. Unwritten'
  <2>1. \A d \in Calls, k \in 1..MaxRuns : k > req => k # s.req /\ results'[d][k] = 0
    <3>1. \A k \in 1..MaxRuns : k > req => k # s.req
      BY <1>b
    <3>2. \A d \in Calls, k \in 1..MaxRuns : k > req => results[d][k] = 0
      BY DEF ToolInv, Unwritten
    <3>3. \A d \in Calls, j \in 1..MaxRuns : j # s.req => results'[d][j] = results[d][j]
      BY <1>c
    <3>4. ASSUME NEW d \in Calls, NEW k \in 1..MaxRuns, k > req
          PROVE  k # s.req /\ results'[d][k] = 0
      <4>1. k # s.req
        BY <3>1, <3>4
      <4>2. results[d][k] = 0
        BY <3>2, <3>4
      <4>. QED  BY <3>3, <4>1, <4>2
    <3>. QED  BY <3>4
  <2>2. ASSUME NEW d \in Calls, Busy, out[d] # "abandoned",
               d > cursor \/ (d = cursor /\ ~half)
        PROVE  results'[d][req] = 0
    <3>1. results[d][req] = 0
      BY <2>2 DEF ToolInv, Unwritten
    <3>2. d # s.call \/ req # s.req
      BY <2>2 DEF ToolInv, Handover
    <3>3. req \in 1..MaxRuns
      <4>1. req >= 1 /\ req \in 0..MaxRuns
        BY <2>2, RequestIndex DEF ToolInv, Phases
      <4>. QED  BY <4>1
    <3>. QED  BY <1>c, <3>1, <3>2, <3>3
  <2>. QED  BY <1>a, <2>1, <2>2 DEF Unwritten, loop, tasks
<1>12. Written'
  <2>1. ASSUME NEW u \in strays', u.st = "half" PROVE results'[u.call][u.req] > 0
    <3>1. CASE u = t
      BY <1>c, <3>1
    <3>2. CASE u \in strays
      <4>1. u.call \in Calls /\ u.req \in 1..MaxRuns /\ results[u.call][u.req] > 0
        BY <2>1, <3>2 DEF ToolInv, StraysTyped, Written
      <4>. QED  BY <1>d, <4>1
    <3>. QED  BY <3>1, <3>2
  <2>2. req \in 1..MaxRuns \/ ~Busy
    <3>1. req \in 0..MaxRuns /\ (Busy => req >= 1)
      BY RequestIndex DEF ToolInv, Phases
    <3>. QED  BY <3>1
  <2>3. half => Busy /\ cursor \in Calls /\ results[cursor][req] > 0
    BY DEF ToolInv, Phases, Written, Busy
  <2>4. pc = "commit" => \A c \in Calls : c < cursor /\ Appends(c) =>
          <<c, requests[req]>> \in completed /\ results'[c][req] > 0
    BY <1>d, <2>2 DEF ToolInv, Written, Busy
  <2>5. pc = "resume" /\ resuming.st = "completion" => results'[resuming.call][1] > 0
    <3>1. pc = "resume" => req = 1 /\ 1 \in 1..MaxRuns /\ resuming.call \in Calls
      <4>1. pc = "resume" => req = 1 /\ req \in 0..MaxRuns
        BY RequestIndex DEF ToolInv, Phases
      <4>. QED  BY <4>1 DEF ToolInv, LoopTyped
    <3>. QED  BY <1>d, <3>1 DEF ToolInv, Written
  <2>6. half => results'[cursor][req] > 0
    BY <1>d, <2>2, <2>3
  <2>7. pc = "resume" => resuming.call \in resumed
    BY DEF ToolInv, Written
  <2>. QED  BY <1>a, <2>1, <2>4, <2>5, <2>6, <2>7 DEF Written, loop, history, Appends, tasks
<1>13. Started'
  <2>1. \A u \in strays' : /\ u.call \in AtMostOnce /\ u.act = "Reexecute" => u.req = 1
                           /\ u.st = "starting" => <<u.call, u.req, "batch">> \notin ran
    BY DEF ToolInv, Started
  <2>. QED  BY <1>a, <2>1 DEF ToolInv, Started, tasks, history
<1>14. Decided'
  BY <1>a DEF ToolInv, Decided, req, Authorises, durable, loop
<1>15. LaunchOrder'
  BY <1>a DEF ToolInv, LaunchOrder, Busy, tasks, loop
<1>16. HoldersAgree'
  <2>1. ASSUME NEW d \in Calls, NEW k, Holding(d, k)'
        PROVE  Holding(d, k)
    <3>1. CASE k = req' /\ inv'[d] \in {"starting", "executing"}
      BY <1>a, <3>1 DEF Holding, tasks
    <3>2. CASE \E u \in strays' : u.call = d /\ u.req = k /\ u.st \in {"starting", "executing"}
      <4>1. PICK u \in strays' : u.call = d /\ u.req = k /\ u.st \in {"starting", "executing"}
        BY <3>2
      <4>2. CASE u = t
        BY <4>1, <4>2 DEF Holding
      <4>3. CASE u \in strays
        BY <4>1, <4>3 DEF Holding
      <4>. QED  BY <4>2, <4>3
    <3>. QED  BY <2>1, <3>1, <3>2 DEF Holding
  <2>. QED  BY <2>1 DEF ToolInv, HoldersAgree
<1>17. AuthorisedForThisRequest'
  BY <1>a DEF ToolInv, AuthorisedForThisRequest, durable, history
<1>18. OneResultPerRequest'
  <2>1. ASSUME NEW d \in Calls \ resumed, NEW k \in 1..MaxRuns PROVE results'[d][k] <= 1
    <3>1. results[d][k] <= 1 /\ results[d][k] \in Nat
      BY CountsAreNat DEF ToolInv, OneResultPerRequest, ResultsTyped
    <3>2. CASE d = s.call /\ k = s.req /\ results[d][k] = 0
      BY <1>c, <3>2
    <3>3. CASE d # s.call \/ k # s.req \/ results[d][k] > 0
      BY <1>c, <3>1, <3>3
    <3>. QED  BY <3>1, <3>2, <3>3
  <2>. QED  BY <2>1 DEF OneResultPerRequest, history
<1>19. AbandonedIsRecorded'
  <2>1. \A u \in strays : \E v \in strays' : v.call = u.call /\ v.req = u.req
    <3>1. ASSUME NEW u \in strays PROVE \E v \in strays' : v.call = u.call /\ v.req = u.req
      <4>1. CASE u = s
        BY <4>1
      <4>2. CASE u # s
        BY <4>2
      <4>. QED  BY <4>1, <4>2
    <3>. QED  BY <3>1
  <2>2. UNCHANGED <<requests, completed, out>>
    BY <1>a DEF tasks
  <2>3. ASSUME NEW c \in Calls, out[c] = "abandoned", <<c, requests[req]>> \notin completed
        PROVE  \E v \in strays' : v.call = c /\ requests[v.req] = requests[req]
    <3>1. PICK u \in strays : u.call = c /\ requests[u.req] = requests[req]
      BY <2>3 DEF ToolInv, AbandonedIsRecorded
    <3>2. PICK v \in strays' : v.call = u.call /\ v.req = u.req
      BY <2>1
    <3>. QED  BY <3>1, <3>2
  <2>. QED  BY <1>a, <2>2, <2>3 DEF AbandonedIsRecorded
<1>20. RoundBarrier'
  <2>1. req \in 1..MaxRuns
    <3>1. req \in 0..MaxRuns
      BY RequestIndex DEF ToolInv
    <3>. QED  BY <1>b, <3>1
  <2>. QED  BY <1>a, <1>d, <2>1 DEF ToolInv, RoundBarrier
<1>21. CompletionHasResult'
  <2>1. \A x \in completed : x[1] \in Calls
    BY DEF ToolInv, ResultsTyped
  <2>2. \A k \in 1..req : k \in 1..MaxRuns
    BY RequestIndex DEF ToolInv
  <2>. QED  BY <1>a, <1>d, <2>1, <2>2 DEF ToolInv, CompletionHasResult
<1>. QED
  BY <1>1, <1>2, <1>3, <1>4, <1>5, <1>6, <1>7, <1>8, <1>9, <1>10,
     <1>11, <1>12, <1>13, <1>14, <1>15, <1>16, <1>17, <1>18, <1>19, <1>20, <1>21 DEF ToolInv

(* The outcome of a task outside the batch is recorded. *)
LEMMA StrayEnds ==
  ASSUME ToolInv, NEW s \in strays, strays' = strays \ {s}, completed \subseteq completed',
         <<s.call, requests[s.req]>> \in completed', completed' \subseteq Calls \X (1..MaxSnapshots),
         CompletionHasResult',
         UNCHANGED <<requests, results, facts, snapshot, turn, tasks, loop, history, spent>>
  PROVE  ToolInv'
<1>a. /\ UNCHANGED <<requests, results, facts, snapshot, turn, tasks>> /\ req' = req
      /\ Busy' = Busy /\ ending' = ending /\ strays' \subseteq strays
  BY DEF loop, req, Busy
<1>1. TasksTyped'
  BY <1>a DEF ToolInv, TasksTyped, tasks
<1>2. StraysTyped'
  BY DEF ToolInv, StraysTyped
<1>3. RequestsTyped'
  BY <1>a DEF ToolInv, RequestsTyped, durable
<1>4. ResultsTyped'
  BY <1>a DEF ToolInv, ResultsTyped
<1>5. ControlTyped'
  BY <1>a DEF ToolInv, ControlTyped, durable
<1>6. LoopTyped'
  BY <1>a DEF ToolInv, LoopTyped, loop
<1>7. HistoryTyped'
  BY <1>a DEF ToolInv, HistoryTyped, history, spent
<1>8. Phases'
  BY <1>a DEF ToolInv, Phases, Busy, req, Followed, Appends, durable, tasks,
     loop
<1>9. Handover'
  BY <1>a DEF ToolInv, Handover, tasks
<1>10. OneTask'
  BY DEF ToolInv, OneTask
<1>11. Unwritten'
  BY <1>a DEF ToolInv, Unwritten, Busy, req, durable, tasks, loop
<1>12. Written'
  BY <1>a DEF ToolInv, Written, loop, history, Appends, tasks
<1>13. Started'
  BY <1>a DEF ToolInv, Started, tasks, history
<1>14. Decided'
  BY <1>a DEF ToolInv, Decided, req, Authorises, durable, loop
<1>15. LaunchOrder'
  BY <1>a DEF ToolInv, LaunchOrder, Busy, tasks, loop
<1>16. HoldersAgree'
  <2>1. ASSUME NEW d \in Calls, NEW k, Holding(d, k)'
        PROVE  Holding(d, k)
    BY <1>a, <2>1 DEF Holding, tasks
  <2>. QED  BY <2>1 DEF ToolInv, HoldersAgree
<1>17. AuthorisedForThisRequest'
  BY <1>a DEF ToolInv, AuthorisedForThisRequest, durable, history
<1>18. OneResultPerRequest'
  BY <1>a DEF ToolInv, OneResultPerRequest, durable, history
<1>19. AbandonedIsRecorded'
  <2>1. ASSUME NEW c \in Calls, out[c] = "abandoned", <<c, requests[req]>> \notin completed'
        PROVE  \E u \in strays' : u.call = c /\ requests[u.req] = requests[req]
    <3>1. PICK u \in strays : u.call = c /\ requests[u.req] = requests[req]
      BY <2>1 DEF ToolInv, AbandonedIsRecorded
    <3>2. u # s
      BY <2>1, <3>1
    <3>. QED  BY <3>1, <3>2
  <2>. QED  BY <1>a, <2>1 DEF AbandonedIsRecorded, tasks
<1>20. RoundBarrier'
  BY <1>a DEF ToolInv, RoundBarrier
<1>21. CompletionHasResult'
  OBVIOUS
<1>. QED
  BY <1>1, <1>2, <1>3, <1>4, <1>5, <1>6, <1>7, <1>8, <1>9, <1>10,
     <1>11, <1>12, <1>13, <1>14, <1>15, <1>16, <1>17, <1>18, <1>19, <1>20, <1>21 DEF ToolInv

(* execute_tool_call_batch under a cancelled token: the outcome of call c is taken and
   every call that was not launched is answered. *)
LEMMA BatchGivesUp ==
  ASSUME ToolInv, NEW c \in Calls, pc = "batch", mon[c] = "settled", ending # "none",
         mon' \in [Calls -> {"none", "watching", "recording", "settled", "taken"}],
         out' \in [Calls -> {"none", "completed", "denied", "suspended", "abandoned", "error"}],
         \A d \in Calls : mon'[d] = IF d = c \/ mon[d] = "none" THEN "taken" ELSE mon[d],
         \A d \in Calls : out'[d] = IF mon[d] = "none" THEN "completed" ELSE out[d],
         pc' \in {"batch", "commit"},
         pc' = "commit" => \A d \in Calls : mon'[d] = "taken",
         UNCHANGED <<durable, inv, recovery, strays, ending, cursor, half, resuming, fresh,
                     history, spent>>
  PROVE  ToolInv'
<1>a. /\ UNCHANGED <<requests, results, completed, facts, snapshot, turn>> /\ req' = req
      /\ Busy /\ Busy' /\ cursor = 1 /\ half = FALSE
  BY DEF ToolInv, Phases, durable, req, Busy
<1>1. TasksTyped'
  BY <1>a DEF ToolInv, TasksTyped, tasks
<1>2. StraysTyped'
  BY <1>a DEF ToolInv, StraysTyped
<1>3. RequestsTyped'
  BY <1>a DEF ToolInv, RequestsTyped, durable
<1>4. ResultsTyped'
  BY <1>a DEF ToolInv, ResultsTyped, durable
<1>5. ControlTyped'
  BY <1>a DEF ToolInv, ControlTyped, durable
<1>6. LoopTyped'
  BY <1>a DEF ToolInv, LoopTyped, loop
<1>7. HistoryTyped'
  BY <1>a DEF ToolInv, HistoryTyped, history, spent
<1>8. Phases'
  BY <1>a DEF ToolInv, Phases
<1>9. Handover'
  <2>1. \A d \in Calls : mon[d] = "none" => inv[d] = "none" /\ out[d] # "abandoned"
    BY <1>a DEF ToolInv, Handover
  <2>2. inv[c] = "none"
    BY DEF ToolInv, TasksTyped, Handover
  <2>3. \A d \in Calls :
          /\ inv'[d] # "none" => mon'[d] = "watching"
          /\ inv'[d] = "settled" => out'[d] \in {"completed", "denied", "suspended", "error"}
          /\ mon'[d] = "recording" => out'[d] = "abandoned"
          /\ mon'[d] \in {"settled", "taken"} => out'[d] # "none"
          /\ Busy' /\ out'[d] = "abandoned" =>
               ending' # "none" /\ mon'[d] \in {"recording", "settled", "taken"}
    BY <1>a, <2>1, <2>2 DEF ToolInv, Handover
  <2>4. \A s \in strays' : s.req \in 1..req' /\ (Busy' /\ s.req = req' => out'[s.call] = "abandoned")
    BY <1>a, <2>1 DEF ToolInv, Handover, StraysTyped
  <2>. QED  BY <2>3, <2>4 DEF Handover
<1>10. OneTask'
  BY <1>a DEF ToolInv, OneTask
<1>11. Unwritten'
  <2>1. \A d \in Calls : out'[d] # "abandoned" => out[d] # "abandoned"
    BY <1>a DEF ToolInv, Handover
  <2>. QED  BY <1>a, <2>1 DEF ToolInv, Unwritten
<1>12. Written'
  <2>1. \A d \in Calls : ~(d < cursor)
    BY <1>a DEF Calls
  <2>. QED  BY <1>a, <2>1 DEF ToolInv, Written, history
<1>13. Started'
  BY <1>a DEF ToolInv, Started, history
<1>14. Decided'
  BY <1>a DEF ToolInv, Decided, req, Authorises, durable, loop
<1>15. LaunchOrder'
  BY <1>a DEF LaunchOrder
<1>16. HoldersAgree'
  BY <1>a DEF ToolInv, HoldersAgree, Holding, req, durable, tasks
<1>17. AuthorisedForThisRequest'
  BY <1>a DEF ToolInv, AuthorisedForThisRequest, durable, history
<1>18. OneResultPerRequest'
  BY <1>a DEF ToolInv, OneResultPerRequest, durable, history
<1>19. AbandonedIsRecorded'
  <2>1. \A d \in Calls : out'[d] = "abandoned" => out[d] = "abandoned"
    OBVIOUS
  <2>. QED  BY <1>a, <2>1 DEF ToolInv, AbandonedIsRecorded
<1>20. RoundBarrier'
  BY <1>a DEF ToolInv, RoundBarrier, req, durable
<1>21. CompletionHasResult'
  BY <1>a DEF ToolInv, CompletionHasResult, req, durable
<1>. QED
  BY <1>1, <1>2, <1>3, <1>4, <1>5, <1>6, <1>7, <1>8, <1>9, <1>10,
     <1>11, <1>12, <1>13, <1>14, <1>15, <1>16, <1>17, <1>18, <1>19, <1>20, <1>21 DEF ToolInv

(* execute_tool_call_batch: the outcome of call c is taken and every call whose wait
   edges are done is launched. *)
LEMMA BatchLaunches ==
  ASSUME ToolInv, NEW c \in Calls, NEW m,
         \A d \in Calls : m[d] = IF d = c THEN "taken" ELSE mon[d],
         pc = "batch", mon[c] = "settled", ending = "none",
         mon' \in [Calls -> {"none", "watching", "recording", "settled", "taken"}],
         \A d \in Calls : mon'[d] = IF d \in Ready(m) THEN "watching" ELSE m[d],
         inv' \in [Calls -> {"none", "starting", "executing", "settled"}],
         \A d \in Calls : inv'[d] = IF d \in Ready(m) THEN "starting" ELSE inv[d],
         pc' \in {"batch", "commit"},
         pc' = "commit" => \A d \in Calls : mon'[d] = "taken",
         UNCHANGED <<durable, out, recovery, strays, ending, cursor, half, resuming, fresh,
                     history, spent>>
  PROVE  ToolInv'
<1>a. /\ UNCHANGED <<requests, results, completed, facts, snapshot, turn>> /\ req' = req
      /\ Busy /\ Busy' /\ cursor = 1 /\ half = FALSE
  BY DEF ToolInv, Phases, durable, req, Busy
<1>b. /\ \A d \in Calls : m[d] = IF d = c THEN "taken" ELSE mon[d]
      /\ \A d \in Calls : d \in Ready(m) => m[d] = "none" /\ mon[d] = "none" /\ d # c
      /\ \A d \in Calls : mon'[d] = IF d \in Ready(m) THEN "watching" ELSE m[d]
  BY DEF ToolInv, TasksTyped, Ready, Unlaunched
<1>e. \A d \in Calls : d \notin Ready(m) => inv'[d] = inv[d] /\ (d # c => mon'[d] = mon[d])
  <2>1. ASSUME NEW d \in Calls, d \notin Ready(m) PROVE inv'[d] = inv[d]
    BY <2>1
  <2>2. ASSUME NEW d \in Calls, d \notin Ready(m), d # c PROVE mon'[d] = mon[d]
    <3>1. mon'[d] = m[d]
      BY <2>2
    <3>2. m[d] = mon[d]
      BY <2>2 DEF ToolInv, TasksTyped
    <3>. QED  BY <3>1, <3>2
  <2>. QED  BY <2>1, <2>2
<1>c. \A d \in Calls : mon[d] = "none" => inv[d] = "none" /\ out[d] # "abandoned"
  BY <1>a DEF ToolInv, Handover
<1>d. inv[c] = "none" /\ inv'[c] = "none"
  BY <1>b DEF ToolInv, TasksTyped, Handover
<1>1. TasksTyped'
  BY DEF ToolInv, TasksTyped
<1>2. StraysTyped'
  BY <1>a DEF ToolInv, StraysTyped
<1>3. RequestsTyped'
  BY <1>a DEF ToolInv, RequestsTyped, durable
<1>4. ResultsTyped'
  BY <1>a DEF ToolInv, ResultsTyped, durable
<1>5. ControlTyped'
  BY <1>a DEF ToolInv, ControlTyped, durable
<1>6. LoopTyped'
  BY <1>a DEF ToolInv, LoopTyped, loop
<1>7. HistoryTyped'
  BY <1>a DEF ToolInv, HistoryTyped, history, spent
<1>8. Phases'
  BY <1>a DEF ToolInv, Phases
<1>9. Handover'
  <2>1. ASSUME NEW d \in Calls
        PROVE  /\ inv'[d] # "none" => mon'[d] = "watching"
               /\ inv'[d] = "settled" => out'[d] \in {"completed", "denied", "suspended", "error"}
               /\ mon'[d] = "recording" => out'[d] = "abandoned"
               /\ mon'[d] \in {"settled", "taken"} => out'[d] # "none"
               /\ Busy' /\ out'[d] = "abandoned" =>
                    ending' # "none" /\ mon'[d] \in {"recording", "settled", "taken"}
    <3>1. CASE d \in Ready(m)
      BY <1>a, <1>b, <1>c, <3>1
    <3>2. CASE d = c
      BY <1>a, <1>b, <1>d, <3>2 DEF ToolInv, Handover
    <3>3. CASE d # c /\ d \notin Ready(m)
      <4>1. mon'[d] = mon[d] /\ inv'[d] = inv[d]
        BY <1>e, <3>3
      <4>. QED  BY <1>a, <4>1 DEF ToolInv, Handover
    <3>. QED  BY <3>1, <3>2, <3>3
  <2>. QED  BY <1>a, <2>1 DEF ToolInv, Handover
<1>10. OneTask'
  BY <1>a DEF ToolInv, OneTask
<1>11. Unwritten'
  BY <1>a DEF ToolInv, Unwritten
<1>12. Written'
  <2>1. \A d \in Calls : ~(d < cursor)
    BY <1>a DEF Calls
  <2>. QED  BY <1>a, <2>1 DEF ToolInv, Written, history
<1>13. Started'
  <2>1. \A d \in Calls : mon'[d] = "none" \/ inv'[d] = "starting" =>
          mon[d] = "none" \/ inv[d] = "starting"
    <3>1. ASSUME NEW d \in Calls, mon'[d] = "none" \/ inv'[d] = "starting"
          PROVE  mon[d] = "none" \/ inv[d] = "starting"
      <4>1. CASE d \in Ready(m)
        BY <1>b, <4>1
      <4>2. CASE d \notin Ready(m)
        <5>1. mon'[c] # "none"
          BY <1>b
        <5>2. d # c
          BY <1>d, <3>1, <5>1
        <5>. QED  BY <1>e, <3>1, <4>2, <5>2
      <4>. QED  BY <4>1, <4>2
    <3>. QED  BY <3>1
  <2>. QED  BY <1>a, <2>1 DEF ToolInv, Started, history
<1>14. Decided'
  BY <1>a DEF ToolInv, Decided, req, Authorises, durable, loop
<1>15. LaunchOrder'
  <2>1. ASSUME NEW d \in Calls, mon'[d] # "none", NEW e \in WaitEdges(d)
        PROVE  mon'[e] = "taken"
    <3>1. e \in Calls
      BY DEF WaitEdges
    <3>2. CASE d \in Ready(m)
      <4>1. m[e] = "taken"
        BY <3>2 DEF Ready
      <4>. QED  BY <1>b, <3>1, <4>1
    <3>3. CASE d \notin Ready(m)
      <4>1. mon[d] # "none"
        BY <1>b, <2>1, <3>3
      <4>2. mon[e] = "taken"
        BY <1>a, <4>1 DEF ToolInv, LaunchOrder
      <4>. QED  BY <1>b, <3>1, <4>2
    <3>. QED  BY <3>2, <3>3
  <2>. QED  BY <2>1 DEF LaunchOrder
<1>16. HoldersAgree'
  <2>1. \A s \in strays : s.req # req
    BY <1>a DEF ToolInv, Handover, StraysTyped
  <2>2. ASSUME NEW d \in Calls, NEW k, Holding(d, k)'
        PROVE  \/ Holding(d, k) /\ (k = req => mon[d] = "watching")
               \/ k = req /\ d \in Ready(m)
    <3>1. CASE k = req' /\ inv'[d] \in {"starting", "executing"}
      <4>1. CASE d \in Ready(m)
        BY <1>a, <3>1, <4>1
      <4>2. CASE d \notin Ready(m)
        BY <1>a, <3>1, <4>2 DEF ToolInv, Handover, Holding
      <4>. QED  BY <4>1, <4>2
    <3>2. CASE \E s \in strays' : s.call = d /\ s.req = k /\ s.st \in {"starting", "executing"}
      BY <1>a, <2>1, <3>2 DEF Holding
    <3>. QED  BY <2>2, <3>1, <3>2 DEF Holding
  <2>3. ASSUME NEW d \in Calls, NEW e \in Ready(m), mon[d] = "watching", HoldsConflict(d, e)
        PROVE  FALSE
    <3>1. e \in Calls /\ mon[e] = "none" /\ m[d] = "watching" /\ d # e
      BY <1>b, <2>3 DEF Ready, Unlaunched
    <3>2. CASE d < e
      BY <2>3, <3>1, <3>2 DEF Ready, WaitEdges
    <3>3. CASE e < d
      <4>1. e \in WaitEdges(d)
        BY <2>3, <3>1, <3>3, ConflictSymmetric DEF WaitEdges
      <4>. QED  BY <1>a, <2>3, <3>1, <4>1 DEF ToolInv, LaunchOrder
    <3>. QED  BY <3>1, <3>2, <3>3 DEF Calls
  <2>4. ASSUME NEW k \in 1..MaxRuns, NEW d \in Calls, NEW e \in Calls, d # e,
               Holding(d, k)', Holding(e, k)', HoldsConflict(d, e)
        PROVE  FALSE
    <3>1. CASE Holding(d, k) /\ Holding(e, k)
      BY <2>4, <3>1 DEF ToolInv, HoldersAgree
    <3>2. CASE k = req /\ d \in Ready(m) /\ e \in Ready(m)
      BY <2>4, <3>2, ReadyAgree
    <3>3. CASE k = req /\ mon[d] = "watching" /\ e \in Ready(m)
      BY <2>3, <2>4, <3>3
    <3>4. CASE k = req /\ d \in Ready(m) /\ mon[e] = "watching"
      BY <2>3, <2>4, <3>4, ConflictSymmetric
    <3>. QED  BY <2>2, <2>4, <3>1, <3>2, <3>3, <3>4
  <2>. QED  BY <2>4 DEF HoldersAgree
<1>17. AuthorisedForThisRequest'
  BY <1>a DEF ToolInv, AuthorisedForThisRequest, durable, history
<1>18. OneResultPerRequest'
  BY <1>a DEF ToolInv, OneResultPerRequest, durable, history
<1>19. AbandonedIsRecorded'
  BY <1>a DEF ToolInv, AbandonedIsRecorded, req, durable, tasks
<1>20. RoundBarrier'
  BY <1>a DEF ToolInv, RoundBarrier, req, durable
<1>21. CompletionHasResult'
  BY <1>a DEF ToolInv, CompletionHasResult, req, durable
<1>. QED
  BY <1>1, <1>2, <1>3, <1>4, <1>5, <1>6, <1>7, <1>8, <1>9, <1>10,
     <1>11, <1>12, <1>13, <1>14, <1>15, <1>16, <1>17, <1>18, <1>19, <1>20, <1>21 DEF ToolInv

(* prepare_tool_results: a new execution of the batch. *)
LEMMA StartBatchKeeps ==
  ASSUME ToolInv, pc = "idle", turn = "open", fresh' \in BOOLEAN, StartBatch
  PROVE  ToolInv'
<1>a. /\ UNCHANGED <<results, completed, facts, snapshot, turn, strays, resuming, ran, resumed,
                     resumes, troubles>>
      /\ pc' = "batch" /\ ending' = "none" /\ cursor' = 1 /\ half' = FALSE /\ Busy' /\ ~Busy
  BY DEF StartBatch, history, spent, Busy
<1>b. snapshot \in 1..MaxSnapshots /\ requests \in Seq(1..MaxSnapshots) /\ req \in 0..MaxRuns
      /\ Len(requests) < MaxRuns /\ requests' = Append(requests, snapshot)
  BY RequestIndex DEF ToolInv, ControlTyped, RequestsTyped, StartBatch
<1>c. /\ req' = req + 1 /\ req' \in 1..MaxRuns /\ requests'[req'] = snapshot
      /\ requests' \in Seq(1..MaxSnapshots)
      /\ \A k \in 1..req : requests'[k] = requests[k] /\ k \in 1..req' /\ k # req'
  BY <1>b DEF req
<1>d. /\ \A c \in Calls : mon'[c] = IF c \in Ready(NoTasks) THEN "watching" ELSE "none"
      /\ \A c \in Calls : out'[c] = "none"
      /\ \A c \in Calls : inv'[c] = IF c \in Ready(NoTasks) THEN "starting" ELSE "none"
      /\ mon' \in [Calls -> {"none", "watching"}] /\ inv' \in [Calls -> {"none", "starting"}]
      /\ out' \in [Calls -> {"none"}]
  BY DEF StartBatch, SchedulePass, NoTasks
<1>e. /\ recovery' \in [Calls -> {"Reuse", "Reexecute", "ConservativeFailure"}]
      /\ \A c \in Calls : c \in AtMostOnce /\ recovery'[c] = "Reexecute" => req = 0
  BY RecoveryKinds DEF StartBatch, req
<1>1. TasksTyped'
  BY <1>d, <1>e DEF TasksTyped
<1>2. StraysTyped'
  BY <1>a DEF ToolInv, StraysTyped
<1>3. RequestsTyped'
  BY <1>c DEF RequestsTyped, req
<1>4. ResultsTyped'
  BY <1>a DEF ToolInv, ResultsTyped, durable
<1>5. ControlTyped'
  BY <1>a DEF ToolInv, ControlTyped, durable
<1>6. LoopTyped'
  <2>1. 1 \in 1..(N + 1)
    OBVIOUS
  <2>. QED  BY <1>a, <2>1 DEF ToolInv, LoopTyped
<1>7. HistoryTyped'
  BY <1>a DEF ToolInv, HistoryTyped, history, spent
<1>8. Phases'
  BY <1>a, <1>c, <1>e DEF Phases, Busy
<1>9. Handover'
  <2>1. \A s \in strays : s.req \in 1..req' /\ s.req # req'
    BY <1>c DEF ToolInv, Handover
  <2>. QED  BY <1>a, <1>d, <2>1 DEF Handover
<1>10. OneTask'
  BY <1>a DEF ToolInv, OneTask
<1>11. Unwritten'
  <2>1. \A c \in Calls, k \in 1..MaxRuns : k > req => results[c][k] = 0
    BY DEF ToolInv, Unwritten
  <2>2. \A k \in 1..MaxRuns : k > req' \/ k = req' => k > req
    BY <1>b, <1>c
  <2>3. \A c \in Calls : results[c][req'] = 0
    BY <1>c, <2>1, <2>2
  <2>. QED  BY <1>a, <2>1, <2>2, <2>3 DEF Unwritten
<1>12. Written'
  <2>1. \A s \in strays : s.st = "half" => results[s.call][s.req] > 0
    BY DEF ToolInv, Written
  <2>. QED  BY <1>a, <2>1 DEF Written
<1>13. Started'
  <2>1. \A x \in ran : x[2] \in 1..req' /\ x[2] # req' /\ (x[1] \in AtMostOnce => x[2] = 1)
    BY <1>c DEF ToolInv, Started
  <2>2. \A c \in Calls : <<c, req', "batch">> \notin ran
    <3>1. \A c \in Calls : <<c, req', "batch">>[2] = req'
      OBVIOUS
    <3>. QED  BY <2>1, <3>1
  <2>3. req = 0 => req' = 1
    BY <1>c
  <2>. QED  BY <1>a, <1>e, <2>1, <2>2, <2>3 DEF ToolInv, Started
<1>14. Decided'
  <2>1. \A k \in 1..req' : k \in 1..req \/ k = req'
    BY <1>b, <1>c
  <2>2. ASSUME NEW k \in 1..req' PROVE requests'[k] <= snapshot
    <3>1. CASE k = req'
      <4>1. requests'[k] = snapshot
        BY <1>c, <3>1
      <4>2. snapshot \in 1..MaxSnapshots
        BY <1>b
      <4>. QED  BY <4>1, <4>2
    <3>2. CASE k \in 1..req
      <4>1. requests[k] <= snapshot
        BY <3>2 DEF ToolInv, Decided
      <4>. QED  BY <1>c, <3>2, <4>1
    <3>. QED  BY <2>1, <3>1, <3>2
  <2>. QED  BY <1>a, <2>2 DEF Decided
<1>15. LaunchOrder'
  <2>1. ASSUME NEW d \in Calls, mon'[d] # "none", NEW c \in WaitEdges(d) PROVE FALSE
    <3>1. d \in Ready(NoTasks) /\ c \in Calls
      BY <1>d, <2>1 DEF WaitEdges
    <3>. QED  BY <2>1, <3>1 DEF Ready, NoTasks
  <2>. QED  BY <2>1 DEF LaunchOrder
<1>16. HoldersAgree'
  <2>1. \A s \in strays : s.req \in 1..req /\ s.req # req'
    BY <1>c DEF ToolInv, Handover
  <2>2. ASSUME NEW d \in Calls, NEW k, Holding(d, k)'
        PROVE  \/ k = req' /\ d \in Ready(NoTasks)
               \/ k # req' /\ Holding(d, k)
    <3>1. CASE k = req' /\ inv'[d] \in {"starting", "executing"}
      BY <1>d, <3>1
    <3>2. CASE \E s \in strays' : s.call = d /\ s.req = k /\ s.st \in {"starting", "executing"}
      BY <1>a, <2>1, <3>2 DEF Holding
    <3>. QED  BY <2>2, <3>1, <3>2 DEF Holding
  <2>3. ASSUME NEW k \in 1..MaxRuns, NEW c \in Calls, NEW d \in Calls, c # d,
               Holding(c, k)', Holding(d, k)'
        PROVE  ~HoldsConflict(c, d)
    <3>1. CASE k = req'
      BY <2>2, <2>3, <3>1, ReadyAgree
    <3>2. CASE k # req'
      BY <2>2, <2>3, <3>2 DEF ToolInv, HoldersAgree
    <3>. QED  BY <3>1, <3>2
  <2>. QED  BY <2>3 DEF HoldersAgree
<1>17. AuthorisedForThisRequest'
  <2>1. \A x \in ran : x[2] \in 1..req
    BY DEF ToolInv, Started
  <2>. QED  BY <1>a, <1>c, <2>1 DEF ToolInv, AuthorisedForThisRequest
<1>18. OneResultPerRequest'
  BY <1>a DEF ToolInv, OneResultPerRequest, durable, history
<1>19. AbandonedIsRecorded'
  BY <1>d DEF AbandonedIsRecorded
<1>20. RoundBarrier'
  BY <1>a DEF RoundBarrier
<1>21. CompletionHasResult'
  BY <1>a, <1>c DEF ToolInv, CompletionHasResult
<1>. QED
  BY <1>1, <1>2, <1>3, <1>4, <1>5, <1>6, <1>7, <1>8, <1>9, <1>10,
     <1>11, <1>12, <1>13, <1>14, <1>15, <1>16, <1>17, <1>18, <1>19, <1>20, <1>21 DEF ToolInv

-----------------------------------------------------------------------------
(* Every step of the specification has one of these shapes. *)

LEMMA TroubleCounts ==
  ASSUME ToolInv, Trouble
  PROVE  troubles' \in 0..MaxTroubles
BY DEF ToolInv, HistoryTyped, Trouble

LEMMA FailTurnKeeps ==
  ASSUME ToolInv, NEW evidence \in BOOLEAN, FailTurn(evidence),
         resumes' = resumes /\ troubles' \in 0..MaxTroubles
  PROVE  ToolInv'
<1>1. /\ AtRest(TRUE) /\ turn' \in {"failed", turn} /\ fresh' \in BOOLEAN
      /\ UNCHANGED <<requests, results, completed, facts, snapshot, strays, history>>
  <2>1. CASE evidence = TRUE
    BY <2>1 DEF FailTurn
  <2>2. CASE evidence = FALSE
    BY <2>2 DEF FailTurn
  <2>. QED  BY <2>1, <2>2
<1>2. CompletionHasResult' /\ RoundBarrier'
  BY <1>1 DEF ToolInv, CompletionHasResult, RoundBarrier, req
<1>3. completed \subseteq completed' /\ completed' \subseteq Calls \X (1..MaxSnapshots)
  BY <1>1 DEF ToolInv, ResultsTyped
<1>4. TRUE \in BOOLEAN /\ turn' \in {"open", "continue", "cancelled", "failed"}
  BY <1>1 DEF ToolInv, LoopTyped, HistoryTyped, ControlTyped
<1>. QED  BY <1>1, <1>2, <1>3, <1>4, RestStep

LEMMA TurnFailsKeeps == ToolInv /\ TurnFails => ToolInv'
<1> SUFFICES ASSUME ToolInv, TurnFails PROVE ToolInv'
  OBVIOUS
<1>1. CASE FailTurn(TRUE) /\ UNCHANGED spent
  <2>1. resumes' = resumes /\ troubles' \in 0..MaxTroubles
    BY <1>1 DEF spent, ToolInv, HistoryTyped
  <2>. QED  BY <1>1, <2>1, FailTurnKeeps
<1>2. CASE Trouble /\ FailTurn(FALSE) /\ UNCHANGED resumes
  BY <1>2, TroubleCounts, FailTurnKeeps
<1>. QED  BY <1>1, <1>2 DEF TurnFails

LEMMA RunTurnKeeps ==
  ASSUME ToolInv, RunTurn
  PROVE  ToolInv'
<1>1. pc = "idle" /\ turn = "open"
  BY DEF RunTurn
<1>2. CASE fresh' = FALSE /\ StartBatch
  BY <1>1, <1>2, StartBatchKeeps
<1>3. CASE TurnFails
  BY <1>3, TurnFailsKeeps
<1>4. CASE /\ fresh' = FALSE
           /\ UNCHANGED <<durable, tasks, strays, pc, ending, cursor, half, resuming,
                          history, spent>>
  <2>1. /\ turn' \in {"open", "continue", "cancelled", "failed"} /\ fresh' \in BOOLEAN
        /\ resumes' \in 0..MaxResumes /\ troubles' \in 0..MaxTroubles
        /\ snapshot' \in 1..MaxSnapshots /\ snapshot' >= snapshot
        /\ UNCHANGED <<requests, results, completed, facts, tasks, strays, pc, ending, cursor,
                       half, resuming, history>>
    <3>1. /\ UNCHANGED <<resumes, troubles, snapshot, requests, results, completed, facts, tasks,
                         strays, pc, ending, cursor, half, resuming, history>>
          /\ turn' \in {"open", "continue"} /\ fresh' = FALSE
      BY <1>1, <1>4 DEF durable, spent
    <3>2. /\ resumes \in 0..MaxResumes /\ troubles \in 0..MaxTroubles
          /\ snapshot \in 1..MaxSnapshots /\ snapshot >= snapshot
      BY DEF ToolInv, HistoryTyped, ControlTyped
    <3>. QED  BY <3>1, <3>2
  <2>2. RoundBarrier'
    BY <1>1, <1>4 DEF RoundBarrier, durable
  <2>. QED  BY <1>1, <2>1, <2>2, IdleStep
<1>5. CASE /\ requests # <<>> /\ ~BatchIncomplete /\ turn' = "continue" /\ fresh' = FALSE
           /\ UNCHANGED <<requests, results, completed, facts, snapshot, tasks, strays, pc,
                          ending, cursor, half, resuming, history, spent>>
  <2>1. /\ turn' \in {"open", "continue", "cancelled", "failed"} /\ fresh' \in BOOLEAN
        /\ resumes' \in 0..MaxResumes /\ troubles' \in 0..MaxTroubles
        /\ snapshot' \in 1..MaxSnapshots /\ snapshot' >= snapshot
        /\ UNCHANGED <<requests, results, completed, facts, tasks, strays, pc, ending, cursor,
                       half, resuming, history>>
    <3>1. /\ UNCHANGED <<resumes, troubles, snapshot, requests, results, completed, facts, tasks,
                         strays, pc, ending, cursor, half, resuming, history>>
          /\ turn' \in {"open", "continue"} /\ fresh' = FALSE
      BY <1>1, <1>5 DEF spent
    <3>2. /\ resumes \in 0..MaxResumes /\ troubles \in 0..MaxTroubles
          /\ snapshot \in 1..MaxSnapshots /\ snapshot >= snapshot
      BY DEF ToolInv, HistoryTyped, ControlTyped
    <3>. QED  BY <3>1, <3>2
  <2>2. req \in 1..MaxRuns
    <3>1. req \in 0..MaxRuns /\ req # 0
      BY <1>5, RequestIndex DEF ToolInv, RequestsTyped, req
    <3>. QED  BY <3>1
  <2>3. \A c \in Calls : results[c][req] \in Nat
    BY <2>2, CountsAreNat DEF ToolInv, ResultsTyped
  <2>4. \A c \in Calls : <<c, requests[req]>> \in completed /\ results[c][req] > 0
    BY <1>5, <2>3 DEF BatchIncomplete
  <2>5. RoundBarrier'
    BY <1>5, <2>4 DEF RoundBarrier, req
  <2>. QED  BY <1>1, <2>1, <2>5, IdleStep
<1>. QED  BY <1>2, <1>3, <1>4, <1>5 DEF RunTurn

LEMMA InvocationKeeps ==
  ASSUME ToolInv, NEW c \in Calls,
         InvocationStarts(c) \/ InvocationSettles(c) \/ InvocationErrs(c)
  PROVE  ToolInv'
<1>0. resumes' = resumes /\ troubles' \in 0..MaxTroubles
  <2>1. CASE UNCHANGED spent
    BY <2>1 DEF spent, ToolInv, HistoryTyped
  <2>2. CASE Trouble /\ UNCHANGED resumes
    BY <2>2, TroubleCounts
  <2>. QED  BY <2>1, <2>2 DEF InvocationStarts, InvocationSettles, InvocationErrs
<1>1. CASE InvocationStarts(c)
  <2>1. /\ Prepared(c, req) \in {"run", "completed", "denied", "suspended"}
        /\ Prepared(c, req) = "run" =>
             /\ recovery[c] = "Reexecute"
             /\ c \in Controlled =>
                  \E f \in facts : /\ f.call = c /\ f.kind \in {"Allow", "Rewrite"}
                                   /\ f.snap = snapshot /\ f.src \in {0, req}
    BY PreparedKinds DEF ToolInv, ControlTyped
  <2>2. CASE Prepared(c, req) = "run"
    <3>1. Busy
      BY <1>1 DEF ToolInv, Phases, InvocationStarts
    <3>2. requests[req] <= snapshot /\ snapshot \in Nat /\ requests[req] \in Nat
      <4>1. req \in 1..req
        <5>1. req >= 1 /\ req \in 0..MaxRuns
          BY <3>1, RequestIndex DEF ToolInv, Phases
        <5>. QED  BY <5>1
      <4>. QED  BY <4>1, RequestIndex DEF ToolInv, Decided, ControlTyped
    <3>3. c \in Controlled => \E f \in facts : Authorises(f, c, req)
      BY <2>1, <2>2, <3>2 DEF Authorises
    <3>4. /\ inv[c] = "starting" /\ inv' = [inv EXCEPT ![c] = "executing"]
          /\ ToolStarts(c, req)
          /\ UNCHANGED <<durable, mon, out, recovery, strays, loop, spent>>
      BY <1>1, <2>2 DEF InvocationStarts
    <3>. QED  BY <2>1, <2>2, <3>3, <3>4, TaskStarts
  <2>3. CASE Prepared(c, req) # "run"
    <3>1. Prepared(c, req) \in {"completed", "denied", "suspended", "error"}
      BY <2>1, <2>3
    <3>2. /\ inv[c] \in {"starting", "executing"} /\ inv' = [inv EXCEPT ![c] = "settled"]
          /\ out' = [out EXCEPT ![c] = Prepared(c, req)]
          /\ UNCHANGED <<durable, mon, recovery, strays, loop, history>>
      BY <1>1, <2>3 DEF InvocationStarts
    <3>3. PICK o \in {"completed", "denied", "suspended", "error"} : o = Prepared(c, req)
      BY <3>1
    <3>. QED  BY <1>0, <3>2, <3>3, TaskSettles
  <2>. QED  BY <2>2, <2>3
<1>2. CASE InvocationSettles(c)
  <2>1. /\ inv[c] \in {"starting", "executing"} /\ inv' = [inv EXCEPT ![c] = "settled"]
        /\ out' = [out EXCEPT ![c] = "completed"]
        /\ UNCHANGED <<durable, mon, recovery, strays, loop, history>>
    BY <1>2 DEF InvocationSettles
  <2>. QED  BY <1>0, <2>1, TaskSettles
<1>3. CASE InvocationErrs(c)
  <2>1. /\ inv[c] \in {"starting", "executing"} /\ inv' = [inv EXCEPT ![c] = "settled"]
        /\ out' = [out EXCEPT ![c] = "error"]
        /\ UNCHANGED <<durable, mon, recovery, strays, loop, history>>
    BY <1>3 DEF InvocationErrs
  <2>. QED  BY <1>0, <2>1, TaskSettles
<1>. QED  BY <1>1, <1>2, <1>3

LEMMA MonitorKeeps ==
  ASSUME ToolInv, NEW c \in Calls,
         MonitorJoins(c) \/ MonitorRecorded(c) \/ MonitorAbandons(c)
  PROVE  ToolInv'
<1>1. CASE MonitorJoins(c) /\ cancelled
  <2>1. /\ mon[c] = "watching" /\ ending # "none"
        /\ strays' = strays \cup {Stray(c, "returned")}
        /\ inv' = [inv EXCEPT ![c] = "none"] /\ mon' = [mon EXCEPT ![c] = "recording"]
        /\ out' = [out EXCEPT ![c] = "abandoned"]
        /\ UNCHANGED <<durable, recovery, loop, history, spent>>
    BY <1>1 DEF MonitorJoins, cancelled
  <2>2. "returned" # "starting" /\ "returned" # "executing"
    OBVIOUS
  <2>. QED  BY <2>1, <2>2, MonitorLetsGo
<1>2. CASE MonitorJoins(c) /\ ~cancelled
  <2>1. /\ mon[c] = "watching" /\ inv[c] = "settled"
        /\ inv' = [inv EXCEPT ![c] = "none"] /\ mon' = [mon EXCEPT ![c] = "settled"]
        /\ UNCHANGED <<durable, out, recovery, strays, loop, history, spent>>
    BY <1>2 DEF MonitorJoins
  <2>. QED  BY <2>1, MonitorHandsOver
<1>3. CASE MonitorRecorded(c)
  <2>1. inv = [inv EXCEPT ![c] = "none"]
    BY <1>3 DEF ToolInv, TasksTyped, Handover, MonitorRecorded
  <2>2. /\ mon[c] = "recording" /\ mon' = [mon EXCEPT ![c] = "settled"]
        /\ inv' = [inv EXCEPT ![c] = "none"]
        /\ UNCHANGED <<durable, out, recovery, strays, loop, history, spent>>
    BY <1>3, <2>1 DEF MonitorRecorded
  <2>. QED  BY <2>2, MonitorHandsOver
<1>4. CASE MonitorAbandons(c)
  <2>1. /\ mon[c] = "watching" /\ ending # "none" /\ inv[c] \in {"starting", "executing"}
        /\ strays' = strays \cup {Stray(c, inv[c])}
        /\ inv' = [inv EXCEPT ![c] = "none"] /\ mon' = [mon EXCEPT ![c] = "settled"]
        /\ out' = [out EXCEPT ![c] = "abandoned"]
        /\ UNCHANGED <<durable, recovery, loop, history, spent>>
    BY <1>4 DEF MonitorAbandons, cancelled
  <2>2. CASE inv[c] = "starting"
    <3>1. strays' = strays \cup {Stray(c, "starting")} /\ "starting" # "executing"
      BY <2>1, <2>2
    <3>. QED  BY <2>1, <2>2, <3>1, MonitorLetsGo
  <2>3. CASE inv[c] = "executing"
    <3>1. strays' = strays \cup {Stray(c, "executing")} /\ "starting" # "executing"
      BY <2>1, <2>3
    <3>. QED  BY <2>1, <2>3, <3>1, MonitorLetsGo
  <2>. QED  BY <2>1, <2>2, <2>3
<1>. QED  BY <1>1, <1>2, <1>3, <1>4

LEMMA BatchTakesKeeps ==
  ASSUME ToolInv, NEW c \in Calls, BatchTakes(c)
  PROVE  ToolInv'
<1>0. PICK m : m = [mon EXCEPT ![c] = "taken"]
  OBVIOUS
<1>1. /\ pc = "batch" /\ mon[c] = "settled" /\ pc' \in {"batch", "commit"}
      /\ pc' = "commit" => \A d \in Calls : mon'[d] = "taken"
      /\ UNCHANGED <<durable, recovery, strays, ending, cursor, half, resuming, fresh,
                     history, spent>>
      /\ inv' = Launched(inv) /\ SchedulePass(m, out, cancelled)
  BY <1>0 DEF BatchTakes
<1>2. \A d \in Calls : m[d] = IF d = c THEN "taken" ELSE mon[d]
  BY <1>0 DEF ToolInv, TasksTyped
<1>3. CASE cancelled
  <2>1. /\ mon' = [d \in Calls |-> IF d \in Unlaunched(m) THEN "taken" ELSE m[d]]
        /\ out' = [d \in Calls |-> IF d \in Unlaunched(m) THEN "completed" ELSE out[d]]
    BY <1>1, <1>3 DEF SchedulePass
  <2>2. \A d \in Calls : d \in Unlaunched(m) <=> mon[d] = "none"
    BY <1>1, <1>2 DEF Unlaunched
  <2>3. \A d \in Calls : mon'[d] = IF d = c \/ mon[d] = "none" THEN "taken" ELSE mon[d]
    BY <1>2, <2>1, <2>2
  <2>4. \A d \in Calls : out'[d] = IF mon[d] = "none" THEN "completed" ELSE out[d]
    BY <2>1, <2>2
  <2>5. mon' \in [Calls -> {"none", "watching", "recording", "settled", "taken"}]
    BY <1>0, <2>1 DEF ToolInv, TasksTyped
  <2>6. out' \in [Calls -> {"none", "completed", "denied", "suspended", "abandoned", "error"}]
    BY <2>1 DEF ToolInv, TasksTyped
  <2>7. inv' = inv
    <3>1. \A d \in Calls : ~(mon'[d] = "watching" /\ mon[d] # "watching")
      BY <2>3
    <3>2. inv' = [d \in Calls |-> inv[d]]
      BY <1>1, <3>1 DEF Launched
    <3>. QED  BY <3>2 DEF ToolInv, TasksTyped
  <2>8. ending # "none"
    BY <1>3 DEF cancelled
  <2>. QED  BY <1>1, <2>3, <2>4, <2>5, <2>6, <2>7, <2>8, BatchGivesUp
<1>4. CASE ~cancelled
  <2>1. /\ mon' = [d \in Calls |-> IF d \in Ready(m) THEN "watching" ELSE m[d]]
        /\ UNCHANGED out
    BY <1>1, <1>4 DEF SchedulePass
  <2>2. \A d \in Calls : d \in Ready(m) => mon[d] = "none"
    BY <1>2 DEF Ready, Unlaunched
  <2>3. \A d \in Calls : mon'[d] = "watching" /\ mon[d] # "watching" <=> d \in Ready(m)
    <3>1. ASSUME NEW d \in Calls
          PROVE  mon'[d] = "watching" /\ mon[d] # "watching" <=> d \in Ready(m)
      <4>1. CASE d \in Ready(m)
        BY <2>1, <2>2, <4>1
      <4>2. CASE d \notin Ready(m)
        BY <1>2, <2>1, <4>2
      <4>. QED  BY <4>1, <4>2
    <3>. QED  BY <3>1
  <2>4. /\ \A d \in Calls : inv'[d] = IF d \in Ready(m) THEN "starting" ELSE inv[d]
        /\ inv' \in [Calls -> {"none", "starting", "executing", "settled"}]
    <3>1. inv' = [d \in Calls |-> IF mon'[d] = "watching" /\ mon[d] # "watching"
                                  THEN "starting" ELSE inv[d]]
      BY <1>1 DEF Launched
    <3>. QED  BY <2>3, <3>1 DEF ToolInv, TasksTyped
  <2>5. ending = "none"
    BY <1>4 DEF cancelled
  <2>7. UNCHANGED <<durable, out, recovery, strays, ending, cursor, half, resuming, fresh,
                    history, spent>>
    BY <1>1, <2>1
  <2>8. \A d \in Calls : mon'[d] = IF d \in Ready(m) THEN "watching" ELSE m[d]
    BY <2>1
  <2>9. mon' \in [Calls -> {"none", "watching", "recording", "settled", "taken"}]
    BY <1>0, <2>1 DEF ToolInv, TasksTyped
  <2>. QED  BY <1>1, <1>2, <2>4, <2>5, <2>7, <2>8, <2>9, BatchLaunches
<1>. QED  BY <1>3, <1>4

LEMMA MovedRecord ==
  ASSUME ToolInv, NEW s \in strays, NEW st \in {"starting", "executing", "returned", "half"}
  PROVE  LET t == [s EXCEPT !.st = st] IN
         /\ t \in [call : Calls, req : 1..MaxRuns,
                   st : {"starting", "executing", "returned", "half"},
                   act : {"Reuse", "Reexecute", "ConservativeFailure"}]
         /\ t.call = s.call /\ t.req = s.req /\ t.act = s.act /\ t.st = st
BY DEF ToolInv, StraysTyped

LEMMA StrayRunsKeeps ==
  ASSUME ToolInv, NEW s \in strays, StrayRuns(s)
  PROVE  ToolInv'
<1>0. /\ UNCHANGED <<durable, tasks, loop, spent>>
      /\ resumes' = resumes /\ troubles' \in 0..MaxTroubles
  BY DEF StrayRuns, spent, ToolInv, HistoryTyped
<1>1. CASE Moved(s, "returned") /\ UNCHANGED history
  <2>1. PICK t : t = [s EXCEPT !.st = "returned"]
    OBVIOUS
  <2>2. /\ t \in [call : Calls, req : 1..MaxRuns,
                  st : {"starting", "executing", "returned", "half"},
                  act : {"Reuse", "Reexecute", "ConservativeFailure"}]
        /\ t.call = s.call /\ t.req = s.req /\ t.act = s.act /\ t.st = "returned"
    BY <2>1, MovedRecord
  <2>3. strays' = (strays \ {s}) \cup {t}
    BY <1>1, <2>1 DEF Moved
  <2>. QED  BY <1>0, <1>1, <2>2, <2>3, StrayReturns
<1>2. CASE /\ s.st = "starting" /\ s.act = "Reexecute"
           /\ s.call \notin Controlled \/ DecideToolCall(s.call, s.req, snapshot) \in {"Allow", "Rewrite"}
           /\ Moved(s, "executing") /\ ToolStarts(s.call, s.req)
  <2>1. PICK t : t = [s EXCEPT !.st = "executing"]
    OBVIOUS
  <2>2. /\ t \in [call : Calls, req : 1..MaxRuns,
                  st : {"starting", "executing", "returned", "half"},
                  act : {"Reuse", "Reexecute", "ConservativeFailure"}]
        /\ t.call = s.call /\ t.req = s.req /\ t.act = s.act /\ t.st = "executing"
    BY <2>1, MovedRecord
  <2>3. strays' = (strays \ {s}) \cup {t}
    BY <1>2, <2>1 DEF Moved
  <2>4. s.call \in Controlled => \E f \in facts : Authorises(f, s.call, s.req)
    <3>1. s.call \in Controlled => \E f \in facts :
            /\ f.call = s.call /\ f.kind \in {"Allow", "Rewrite"}
            /\ f.snap = snapshot /\ f.src \in {0, s.req}
      BY <1>2, DecisionKinds DEF ToolInv, ControlTyped
    <3>2. requests[s.req] <= snapshot
      BY DEF ToolInv, Handover, Decided
    <3>3. snapshot \in Nat /\ requests[s.req] \in Nat
      BY RequestIndex DEF ToolInv, Handover, ControlTyped
    <3>. QED  BY <3>1, <3>2, <3>3 DEF Authorises
  <2>. QED  BY <1>0, <1>2, <2>2, <2>3, <2>4, StrayStarts
<1>. QED  BY <1>1, <1>2 DEF StrayRuns

LEMMA StrayRecordsKeeps ==
  ASSUME ToolInv, NEW s \in strays, StrayRecords(s)
  PROVE  ToolInv'
<1>0. UNCHANGED <<requests, facts, snapshot, turn, tasks, loop, history, resumes>>
  BY DEF StrayRecords
<1>a. s.call \in Calls /\ s.req \in 1..req /\ s.req \in 1..MaxRuns /\ requests[s.req] \in 1..MaxSnapshots
  BY RequestIndex DEF ToolInv, StraysTyped, Handover
<1>1. CASE /\ <<s.call, requests[s.req]>> \in completed /\ strays' = strays \ {s}
           /\ UNCHANGED <<results, completed, troubles>>
  <2>1. /\ completed \subseteq completed' /\ <<s.call, requests[s.req]>> \in completed'
        /\ completed' \subseteq Calls \X (1..MaxSnapshots)
        /\ UNCHANGED <<requests, results, facts, snapshot, turn, tasks, loop, history, spent>>
    BY <1>0, <1>1 DEF ToolInv, ResultsTyped, spent
  <2>2. CompletionHasResult'
    BY <1>0, <1>1 DEF ToolInv, CompletionHasResult, req
  <2>. QED  BY <1>1, <2>1, <2>2, StrayEnds
<1>2. CASE /\ Moved(s, "half") /\ UNCHANGED <<completed, troubles>>
           /\ IF ExistingToolResult(s.call, s.req) THEN UNCHANGED results
              ELSE AddResult(s.call, s.req)
  <2>1. PICK t : t = [s EXCEPT !.st = "half"]
    OBVIOUS
  <2>2. /\ t \in [call : Calls, req : 1..MaxRuns,
                  st : {"starting", "executing", "returned", "half"},
                  act : {"Reuse", "Reexecute", "ConservativeFailure"}]
        /\ t.call = s.call /\ t.req = s.req /\ t.act = s.act /\ t.st = "half"
    BY <2>1, MovedRecord
  <2>3. strays' = (strays \ {s}) \cup {t}
    BY <1>2, <2>1 DEF Moved
  <2>4. results[s.call][s.req] \in Nat
    BY <1>a, CountsAreNat DEF ToolInv, ResultsTyped
  <2>5. \/ results[s.call][s.req] > 0 /\ UNCHANGED results
        \/ results[s.call][s.req] = 0 /\ AddResult(s.call, s.req)
    BY <1>2, <2>4 DEF ExistingToolResult
  <2>6. UNCHANGED <<requests, completed, facts, snapshot, turn, tasks, loop, history, spent>>
    BY <1>0, <1>2 DEF spent
  <2>. QED  BY <2>2, <2>3, <2>5, <2>6, StrayWrites
<1>3. CASE /\ s.st = "half" /\ completed' = completed \cup {<<s.call, requests[s.req]>>}
           /\ strays' = strays \ {s} /\ UNCHANGED <<results, troubles>>
  <2>1. /\ completed \subseteq completed' /\ <<s.call, requests[s.req]>> \in completed'
        /\ completed' \subseteq Calls \X (1..MaxSnapshots)
        /\ UNCHANGED <<requests, results, facts, snapshot, turn, tasks, loop, history, spent>>
    BY <1>0, <1>a, <1>3 DEF ToolInv, ResultsTyped, spent
  <2>2. CompletionHasResult'
    <3>1. results[s.call][s.req] > 0
      BY <1>3 DEF ToolInv, Written
    <3>2. LET x == <<s.call, requests[s.req]>> IN
            \E k \in 1..req : requests[k] = x[2] /\ results[x[1]][k] > 0
      BY <1>a, <3>1
    <3>3. req' = req /\ UNCHANGED <<requests, results>>
      BY <2>1 DEF req
    <3>. QED  BY <1>3, <3>2, <3>3 DEF ToolInv, CompletionHasResult
  <2>. QED  BY <1>3, <2>1, <2>2, StrayEnds
<1>4. CASE Trouble /\ Moved(s, "returned") /\ UNCHANGED <<results, completed>>
  <2>1. PICK t : t = [s EXCEPT !.st = "returned"]
    OBVIOUS
  <2>2. /\ t \in [call : Calls, req : 1..MaxRuns,
                  st : {"starting", "executing", "returned", "half"},
                  act : {"Reuse", "Reexecute", "ConservativeFailure"}]
        /\ t.call = s.call /\ t.req = s.req /\ t.act = s.act /\ t.st = "returned"
    BY <2>1, MovedRecord
  <2>3. strays' = (strays \ {s}) \cup {t}
    BY <1>4, <2>1 DEF Moved
  <2>4. UNCHANGED <<durable, tasks, loop, history>> /\ resumes' = resumes
    BY <1>0, <1>4 DEF durable
  <2>5. troubles' \in 0..MaxTroubles
    BY <1>4, TroubleCounts
  <2>. QED  BY <2>2, <2>3, <2>4, <2>5, StrayReturns
<1>. QED  BY <1>1, <1>2, <1>3, <1>4 DEF StrayRecords

LEMMA CommitDoneKeeps ==
  ASSUME ToolInv, CommitDone
  PROVE  ToolInv'
<1>0. /\ pc = "commit" /\ Busy /\ cursor > N
      /\ \A c \in Calls : mon[c] = "taken" /\ out[c] # "none"
  BY DEF ToolInv, Phases, Handover, CommitDone, Busy
<1>1. CASE TurnFails
  BY <1>1, TurnFailsKeeps
<1>2. CASE ~(AnErrorPrepared \/ ending = "failed")
  <2>1. /\ AtRest(TRUE) /\ fresh' \in BOOLEAN
        /\ turn' \in {"cancelled", "continue", "open"}
        /\ UNCHANGED <<requests, results, completed, facts, snapshot, strays, history>>
        /\ resumes' = resumes /\ troubles' = troubles
    BY <1>2 DEF CommitDone, spent
  <2>2. turn' = "continue" => ending = "none" /\ \A c \in Calls : out[c] # "suspended"
    BY <1>2 DEF CommitDone
  <2>3. turn' = "continue" => \A c \in Calls : Appends(c)
    <3>1. ASSUME turn' = "continue", NEW c \in Calls PROVE Appends(c)
      <4>1. out[c] # "abandoned"
        BY <1>0, <2>2, <3>1 DEF ToolInv, Handover
      <4>2. out[c] # "error" /\ out[c] # "suspended" /\ out[c] # "none"
        BY <1>0, <1>2, <2>2, <3>1 DEF AnErrorPrepared
      <4>. QED  BY <4>1, <4>2 DEF ToolInv, TasksTyped, Appends
    <3>. QED  BY <3>1
  <2>4. \A c \in Calls : c < cursor
    BY <1>0 DEF ToolInv, LoopTyped, Calls
  <2>5. RoundBarrier'
    <3>1. turn' = "continue" => \A c \in Calls : <<c, requests[req]>> \in completed /\ results[c][req] > 0
      BY <1>0, <2>3, <2>4 DEF ToolInv, Written
    <3>. QED  BY <2>1, <3>1 DEF RoundBarrier, req
  <2>6. CompletionHasResult'
    BY <2>1 DEF ToolInv, CompletionHasResult, req
  <2>7. completed \subseteq completed' /\ completed' \subseteq Calls \X (1..MaxSnapshots)
    BY <2>1 DEF ToolInv, ResultsTyped
  <2>8. resumes' = resumes /\ troubles' \in 0..MaxTroubles
    BY <2>1 DEF ToolInv, HistoryTyped
  <2>. QED  BY <2>1, <2>5, <2>6, <2>7, <2>8, RestStep
<1>. QED  BY <1>1, <1>2 DEF CommitDone

LEMMA ResumeKeeps ==
  ASSUME ToolInv, NEW c \in Calls, Resume(c)
  PROVE  ToolInv'
<1>0. /\ pc = "idle" /\ Followed /\ resumes' \in 0..MaxResumes
      /\ UNCHANGED <<requests, results, completed, facts, snapshot, tasks, strays, ending,
                     cursor, half, ran>>
  BY DEF Resume, ToolInv, HistoryTyped
<1>1. CASE ResumeRefused
  <2>1. /\ pc' = "idle" /\ turn' \in {"failed", "open", "cancelled"} /\ fresh' \in BOOLEAN
        /\ UNCHANGED <<resuming, resumed>>
    BY <1>0, <1>1 DEF ResumeRefused, Followed
  <2>2. RoundBarrier' /\ turn' \in {"open", "continue", "cancelled", "failed"}
    BY <2>1 DEF RoundBarrier
  <2>5. troubles' \in 0..MaxTroubles
    BY <1>1, TroubleCounts DEF ResumeRefused, ToolInv, HistoryTyped
  <2>3. snapshot' \in 1..MaxSnapshots /\ snapshot' >= snapshot
    BY <1>0 DEF ToolInv, ControlTyped
  <2>4. UNCHANGED <<requests, results, completed, facts, tasks, strays, pc, ending, cursor, half,
                    resuming, history>>
    BY <1>0, <2>1 DEF history
  <2>. QED  BY <1>0, <2>1, <2>2, <2>3, <2>4, <2>5, IdleStep
<1>2. CASE /\ Len(requests) = 1 /\ DecideToolCall(c, 1, requests[1]) \in Terminals
           /\ pc' = "resume" /\ resumed' = resumed \cup {c}
           /\ resuming' = [call |-> c,
                           st |-> IF DecideToolCall(c, 1, requests[1]) = "Deny"
                                  THEN "result" ELSE "execute"]
           /\ UNCHANGED <<turn, fresh, troubles>>
  <2>1. PICK st \in {"execute", "result"} :
          st = IF DecideToolCall(c, 1, requests[1]) = "Deny" THEN "result" ELSE "execute"
    OBVIOUS
  <2>2. resuming' = [call |-> c, st |-> st]
    BY <1>2, <2>1
  <2>3. req = 1
    BY <1>2 DEF req
  <2>4. st = "execute" => \E f \in facts : Authorises(f, c, 1)
    <3>1. requests[1] \in Nat
      BY <2>3, RequestIndex DEF ToolInv
    <3>2. st = "execute" => DecideToolCall(c, 1, requests[1]) \in {"Allow", "Rewrite"}
      BY <1>2, <2>1 DEF Terminals
    <3>3. IsFiniteSet(facts)
      BY DEF ToolInv, ControlTyped
    <3>4. st = "execute" => \E f \in facts : /\ f.call = c /\ f.kind \in {"Allow", "Rewrite"}
                                            /\ f.snap = requests[1] /\ f.src \in {0, 1}
      BY <3>2, <3>3, DecisionKinds
    <3>. QED  BY <3>1, <3>4 DEF Authorises
  <2>5. UNCHANGED <<durable, tasks, strays, ending, cursor, half, fresh, ran, troubles>>
    BY <1>0, <1>2 DEF durable
  <2>. QED  BY <1>0, <1>2, <2>2, <2>3, <2>4, <2>5, ResumeBegins
<1>. QED  BY <1>1, <1>2 DEF Resume

LEMMA ResumeCompletesKeeps ==
  ASSUME ToolInv, ResumeCompletes
  PROVE  ToolInv'
<1>0. /\ pc = "resume" /\ req = 1 /\ Len(requests) = 1 /\ resuming.call \in Calls
      /\ resuming.st = "completion" /\ results[resuming.call][1] > 0
      /\ turn \in {"open", "cancelled"}
  BY DEF ToolInv, Phases, LoopTyped, Written, Followed, ResumeCompletes, req
<1>1. /\ AtRest(TRUE) /\ completed' = completed \cup {<<resuming.call, requests[1]>>}
      /\ turn' = IF ToolCallBatchCompleted(completed') THEN "continue" ELSE turn
      /\ UNCHANGED <<requests, results, facts, snapshot, strays, fresh, history>>
      /\ resumes' = resumes /\ troubles' = troubles
  BY DEF ResumeCompletes, spent
<1>2. requests[1] \in 1..MaxSnapshots /\ 1 \in 1..req /\ 1 \in 1..MaxRuns
  BY <1>0, RequestIndex DEF ToolInv
<1>3. completed \subseteq completed' /\ completed' \subseteq Calls \X (1..MaxSnapshots)
  BY <1>0, <1>1, <1>2 DEF ToolInv, ResultsTyped
<1>4. \A x \in completed' : \E k \in 1..req : requests[k] = x[2] /\ results[x[1]][k] > 0
  <2>1. LET x == <<resuming.call, requests[1]>> IN
          \E k \in 1..req : requests[k] = x[2] /\ results[x[1]][k] > 0
    BY <1>0, <1>2
  <2>. QED  BY <1>1, <2>1 DEF ToolInv, CompletionHasResult
<1>5. CompletionHasResult'
  BY <1>1, <1>4 DEF CompletionHasResult, req
<1>6. RoundBarrier'
  <2>1. ASSUME turn' = "continue", NEW c \in Calls
        PROVE  <<c, requests[1]>> \in completed' /\ results[c][1] > 0
    <3>1. <<c, requests[1]>> \in completed'
      BY <1>0, <1>1, <2>1 DEF ToolCallBatchCompleted
    <3>2. PICK k \in 1..req : requests[k] = <<c, requests[1]>>[2] /\ results[<<c, requests[1]>>[1]][k] > 0
      BY <1>4, <3>1
    <3>3. k = 1 /\ <<c, requests[1]>>[1] = c
      BY <1>0
    <3>. QED  BY <3>1, <3>2, <3>3
  <2>2. req' = 1 /\ UNCHANGED <<requests, results>>
    BY <1>0, <1>1 DEF req
  <2>. QED  BY <2>1, <2>2 DEF RoundBarrier
<1>7. /\ turn' \in {"open", "continue", "cancelled", "failed"} /\ fresh' \in BOOLEAN
  BY <1>0, <1>1 DEF ToolInv, LoopTyped
<1>8. resumes' = resumes /\ troubles' \in 0..MaxTroubles
  BY <1>1 DEF ToolInv, HistoryTyped
<1>9. UNCHANGED <<requests, results, facts, snapshot, history>> /\ strays' = strays
  BY <1>1
<1>10. TRUE \in BOOLEAN /\ AtRest(TRUE)
  BY <1>1
<1>. QED  BY <1>3, <1>5, <1>6, <1>7, <1>8, <1>9, <1>10, RestStep

LEMMA FailingStepKeeps ==
  ASSUME ToolInv, CommitFails \/ ResumeFails
  PROVE  ToolInv'
<1>1. PICK evidence \in BOOLEAN : FailTurn(evidence)
  BY DEF CommitFails, ResumeFails
<1>2. Trouble /\ resumes' = resumes
  BY DEF CommitFails, ResumeFails
<1>3. troubles' \in 0..MaxTroubles
  BY <1>2, TroubleCounts
<1>. QED  BY <1>1, <1>2, <1>3, FailTurnKeeps

LEMMA EndBatchKeeps ==
  ASSUME ToolInv, NEW why \in {"cancelled", "failed", "stopped"}, EndBatch(why)
  PROVE  ToolInv'
<1>1. /\ Busy /\ ending' = why /\ resumes' = resumes
      /\ UNCHANGED <<durable, tasks, strays, pc, cursor, half, resuming, fresh, history>>
  BY DEF EndBatch, Busy
<1>2. troubles' \in 0..MaxTroubles
  <2>1. CASE Trouble
    BY <2>1, TroubleCounts
  <2>2. CASE UNCHANGED troubles
    BY <2>2 DEF ToolInv, HistoryTyped
  <2>. QED  BY <2>1, <2>2 DEF EndBatch
<1>. QED  BY <1>1, <1>2, BatchEnds

LEMMA RebindKeeps ==
  ASSUME ToolInv, Rebind
  PROVE  ToolInv'
<1>1. /\ pc = "idle" /\ UNCHANGED <<requests, results, completed, facts, turn, tasks, strays, pc,
                                    ending, cursor, half, resuming, fresh, history, resumes>>
      /\ snapshot < MaxSnapshots /\ snapshot' = snapshot + 1 /\ Trouble
  BY DEF Rebind, loop
<1>2. snapshot' \in 1..MaxSnapshots /\ snapshot' >= snapshot
  BY <1>1 DEF ToolInv, ControlTyped
<1>3. troubles' \in 0..MaxTroubles
  BY <1>1, TroubleCounts
<1>4. RoundBarrier'
  BY <1>1 DEF ToolInv, RoundBarrier, req
<1>5. /\ turn' \in {"open", "continue", "cancelled", "failed"} /\ fresh' \in BOOLEAN
      /\ resumes' \in 0..MaxResumes
  BY <1>1 DEF ToolInv, ControlTyped, LoopTyped, HistoryTyped
<1>. QED  BY <1>1, <1>2, <1>3, <1>4, <1>5, IdleStep

LEMMA CrashKeeps ==
  ASSUME ToolInv, Crash
  PROVE  ToolInv'
<1>1. /\ AtRest(FALSE) /\ strays' = {} /\ fresh' \in BOOLEAN /\ Trouble /\ resumes' = resumes
      /\ UNCHANGED <<requests, results, completed, facts, snapshot, turn, history>>
  BY DEF Crash, durable
<1>2. CompletionHasResult' /\ RoundBarrier'
  BY <1>1 DEF ToolInv, CompletionHasResult, RoundBarrier, req
<1>3. /\ completed \subseteq completed' /\ completed' \subseteq Calls \X (1..MaxSnapshots)
      /\ turn' \in {"open", "continue", "cancelled", "failed"}
  BY <1>1 DEF ToolInv, ResultsTyped, ControlTyped
<1>4. troubles' \in 0..MaxTroubles
  BY <1>1, TroubleCounts
<1>5. UNCHANGED <<requests, results, facts, snapshot, history>>
  BY <1>1
<1>6. FALSE \in BOOLEAN
  OBVIOUS
<1>7. strays' = strays \/ (~FALSE /\ strays' = {})
  BY <1>1
<1>. QED  BY <1>1, <1>2, <1>3, <1>4, <1>5, <1>6, <1>7, RestStep

LEMMA ToolInvStep ==
  ASSUME ToolInv, Next
  PROVE  ToolInv'
<1>1. CASE Scheduling
  <2>1. ASSUME NEW c \in Calls, InvocationStarts(c) PROVE ToolInv'
    BY <2>1, InvocationKeeps
  <2>2. ASSUME NEW c \in Calls, MonitorJoins(c) \/ MonitorRecorded(c) \/ MonitorAbandons(c)
        PROVE  ToolInv'
    BY <2>2, MonitorKeeps
  <2>3. ASSUME NEW c \in Calls, BatchTakes(c) PROVE ToolInv'
    BY <2>3, BatchTakesKeeps
  <2>4. ASSUME NEW s \in strays, StrayRecords(s) PROVE ToolInv'
    BY <2>4, StrayRecordsKeeps
  <2>5. ASSUME CommitResult \/ CommitCompletion \/ CommitNothing \/ CommitDone PROVE ToolInv'
    BY <2>5, CommitResultKeeps, CommitCompletionKeeps, CommitNothingKeeps, CommitDoneKeeps
  <2>. QED  BY <1>1, <2>1, <2>2, <2>3, <2>4, <2>5 DEF Scheduling
<1>2. ASSUME NEW c \in Calls, InvocationSettles(c) \/ InvocationErrs(c) PROVE ToolInv'
  BY <1>2, InvocationKeeps
<1>3. ASSUME NEW s \in strays, StrayRuns(s) PROVE ToolInv'
  BY <1>3, StrayRunsKeeps
<1>4. ASSUME NEW why \in {"cancelled", "failed", "stopped"}, EndBatch(why) PROVE ToolInv'
  BY <1>4, EndBatchKeeps
<1>5. ASSUME NEW c \in Calls, Resume(c) PROVE ToolInv'
  BY <1>5, ResumeKeeps
<1>6. ASSUME NEW c \in Calls, NEW kind \in FactKinds, NEW src \in 0..MaxRuns,
             ControlFact(c, kind, src)
      PROVE  ToolInv'
  BY <1>6, ControlFactKeeps
<1>7. ASSUME RunTurn \/ CommitFails \/ ResumeFails \/ ResumeExecutes \/ ResumeAppendsResult
               \/ ResumeCompletes \/ Rebind \/ Crash
      PROVE  ToolInv'
  BY <1>7, RunTurnKeeps, FailingStepKeeps, ResumeExecutesKeeps, ResumeAppendsResultKeeps,
     ResumeCompletesKeeps, RebindKeeps, CrashKeeps
<1>. QED  BY <1>1, <1>2, <1>3, <1>4, <1>5, <1>6, <1>7 DEF Next

-----------------------------------------------------------------------------
(* The theorems *)

LEMMA TypesOfToolInv == ToolInv => ToolTypeOK
BY DEF ToolInv, ToolTypeOK, TasksTyped, StraysTyped, RequestsTyped, ResultsTyped,
       ControlTyped, LoopTyped, HistoryTyped

LEMMA ToolInvInitially == Init => ToolInv
<1> SUFFICES ASSUME Init PROVE ToolInv
  OBVIOUS
<1>0. /\ ~Busy /\ req = 0 /\ requests = <<>> /\ pc = "idle" /\ turn = "open"
      /\ strays = {} /\ ran = {} /\ completed = {} /\ facts = {} /\ resumed = {}
      /\ ending = "none" /\ half = FALSE /\ cursor = 1
      /\ results = [c \in Calls |-> [k \in 1..MaxRuns |-> 0]]
      /\ \A c \in Calls : inv[c] = "none" /\ mon[c] = "none" /\ out[c] = "none"
      /\ \A c \in Calls, k \in 1..MaxRuns : results[c][k] = 0
  BY DEF Init, Busy, req, NoTasks
<1>1. TasksTyped
  BY DEF Init, NoTasks, TasksTyped
<1>2. StraysTyped /\ ResultsTyped
  BY <1>0 DEF StraysTyped, ResultsTyped
<1>3. RequestsTyped
  BY <1>0 DEF RequestsTyped
<1>4. ControlTyped
  BY <1>0, FS_EmptySet DEF Init, ControlTyped
<1>5. LoopTyped
  <2>1. 1 \in Calls /\ 1 \in 1..(N + 1)
    BY DEF Calls
  <2>. QED  BY <2>1 DEF Init, LoopTyped, NotResuming
<1>6. HistoryTyped
  BY <1>0 DEF Init, HistoryTyped
<1>7. Phases /\ Handover /\ OneTask /\ Unwritten /\ Written
  BY <1>0 DEF Phases, Handover, OneTask, Unwritten, Written
<1>8. Started /\ Decided /\ LaunchOrder
  BY <1>0 DEF Started, Decided, LaunchOrder
<1>9. HoldersAgree /\ AuthorisedForThisRequest /\ OneResultPerRequest
  BY <1>0 DEF HoldersAgree, Holding, AuthorisedForThisRequest, OneResultPerRequest
<1>10. AbandonedIsRecorded /\ RoundBarrier /\ CompletionHasResult
  BY <1>0 DEF AbandonedIsRecorded, RoundBarrier, CompletionHasResult
<1>. QED
  BY <1>1, <1>2, <1>3, <1>4, <1>5, <1>6, <1>7, <1>8, <1>9, <1>10 DEF ToolInv

(* What the holders agree on keeps conflicting tools apart. *)
LEMMA HoldersKeepApart == ToolInv => HoldsExclusive
<1> SUFFICES ASSUME ToolInv PROVE HoldsExclusive
  OBVIOUS
<1>1. ASSUME NEW x \in Running
      PROVE  \E c \in Calls, k \in 1..MaxRuns : x = <<c, k>> /\ Holding(c, k)
  <2>1. ASSUME NEW c \in Calls, inv[c] = "executing", x = <<c, req>>
        PROVE  req \in 1..MaxRuns /\ Holding(c, req)
    <3>1. Busy
      BY <2>1 DEF ToolInv, Phases
    <3>2. req >= 1 /\ req \in 0..MaxRuns
      BY <3>1, RequestIndex DEF ToolInv, Phases
    <3>. QED  BY <2>1, <3>2 DEF Holding
  <2>2. ASSUME NEW s \in strays, s.st = "executing", x = <<s.call, s.req>>
        PROVE  s.call \in Calls /\ s.req \in 1..MaxRuns /\ Holding(s.call, s.req)
    BY <2>2 DEF ToolInv, StraysTyped, Holding
  <2>. QED  BY <2>1, <2>2 DEF Running
<1>2. ASSUME NEW x \in Running, NEW y \in Running, x # y, x[2] = y[2]
      PROVE  ~HoldsConflict(x[1], y[1])
  <2>1. PICK c \in Calls, k \in 1..MaxRuns : x = <<c, k>> /\ Holding(c, k)
    BY <1>1
  <2>2. PICK d \in Calls, j \in 1..MaxRuns : y = <<d, j>> /\ Holding(d, j)
    BY <1>1
  <2>3. j = k /\ c # d /\ x[1] = c /\ y[1] = d
    BY <1>2, <2>1, <2>2
  <2>. QED  BY <2>1, <2>2, <2>3 DEF ToolInv, HoldersAgree
<1>. QED  BY <1>2 DEF HoldsExclusive

LEMMA ToolInvStutters ==
  ASSUME ToolInv, UNCHANGED vars
  PROVE  ToolInv'
<1>1. UNCHANGED <<requests, results, completed, facts, snapshot, turn, inv, mon, out, recovery,
                  strays, pc, ending, cursor, half, resuming, fresh, ran, resumed, resumes,
                  troubles>>
  BY DEF vars, durable, tasks, loop, history, spent
<1>2. TasksTyped' /\ StraysTyped' /\ RequestsTyped' /\ ResultsTyped' /\ ControlTyped'
  BY <1>1 DEF ToolInv, TasksTyped, StraysTyped, RequestsTyped, ResultsTyped, ControlTyped
<1>3. LoopTyped' /\ HistoryTyped'
  BY <1>1 DEF ToolInv, LoopTyped, HistoryTyped
<1>4. Phases' /\ Handover' /\ OneTask'
  BY <1>1 DEF ToolInv, Phases, Handover, OneTask, Busy, req, Followed, Appends
<1>5. Unwritten' /\ Written'
  BY <1>1 DEF ToolInv, Unwritten, Written, Busy, req, Appends
<1>6. Started' /\ Decided'
  BY <1>1 DEF ToolInv, Started, Decided, Busy, req, Authorises
<1>7. LaunchOrder' /\ HoldersAgree'
  BY <1>1 DEF ToolInv, LaunchOrder, HoldersAgree, Busy, Holding, req
<1>8. AuthorisedForThisRequest' /\ OneResultPerRequest' /\ AbandonedIsRecorded'
  BY <1>1 DEF ToolInv, AuthorisedForThisRequest, OneResultPerRequest, AbandonedIsRecorded, req
<1>9. RoundBarrier' /\ CompletionHasResult'
  BY <1>1 DEF ToolInv, RoundBarrier, CompletionHasResult, req
<1>. QED  BY <1>2, <1>3, <1>4, <1>5, <1>6, <1>7, <1>8, <1>9 DEF ToolInv

(* The inductive invariant holds in every reachable state of the batch. *)
THEOREM ToolInvariant == Spec => []ToolInv
<1>1. ToolInv /\ [Next]_vars => ToolInv'
  BY ToolInvStep, ToolInvStutters
<1>. QED  BY ToolInvInitially, <1>1, PTL DEF Spec

(* Types of the batch's state. *)
THEOREM ToolTypes == Spec => []ToolTypeOK
BY ToolInvariant, TypesOfToolInv, PTL

(* tool_holds.rs: two calls of one execution whose holds conflict never run *)
(* together, abandoned tasks included.                                      *)
THEOREM ConflictingToolsApart == Spec => []HoldsExclusive
BY ToolInvariant, HoldersKeepApart, PTL

(* control_decision.rs: a controlled call runs only on a decision that      *)
(* allows this request, under its snapshot or one bound since.              *)
THEOREM ControlledToolsAuthorised == Spec => []AuthorisedForThisRequest
<1>1. ToolInv => AuthorisedForThisRequest
  BY DEF ToolInv
<1>. QED  BY <1>1, ToolInvariant, PTL

(* The settlement exchange: a request gets one result message, from the     *)
(* batch, the monitor or the task; a resumption appends its own.            *)
THEOREM ResultsWrittenOnce == Spec => []OneResultPerRequest
<1>1. ToolInv => OneResultPerRequest
  BY DEF ToolInv
<1>. QED  BY <1>1, ToolInvariant, PTL

(* An abandoned outcome is completed, or a task is left that will complete  *)
(* it, until the process dies.                                              *)
THEOREM AbandonedNeverLost == Spec => []AbandonedIsRecorded
<1>1. ToolInv => AbandonedIsRecorded
  BY DEF ToolInv
<1>. QED  BY <1>1, ToolInvariant, PTL

(* The turn goes on to its next round only when every call of the batch has *)
(* its completion and its result.                                           *)
THEOREM RoundsAreComplete == Spec => []RoundBarrier
<1>1. ToolInv => RoundBarrier
  BY DEF ToolInv
<1>. QED  BY <1>1, ToolInvariant, PTL

(* A completion is never durable without a result under its snapshot,       *)
(* wherever a crash falls.                                                  *)
THEOREM CompletionsHaveResults == Spec => []CompletionHasResult
<1>1. ToolInv => CompletionHasResult
  BY DEF ToolInv
<1>. QED  BY <1>1, ToolInvariant, PTL

-----------------------------------------------------------------------------
(* The effect class of at-most-once tools *)

(* Only the tasks of the batch, the tasks outside it and a resumption start *)
(* a tool.                                                                  *)
LEMMA WhatStartsTools ==
  ASSUME Next
  PROVE  \/ UNCHANGED ran
         \/ \E c \in Calls : InvocationStarts(c)
         \/ \E s \in strays : StrayRuns(s)
         \/ ResumeExecutes
<1>1. CASE RunTurn
  BY <1>1 DEF RunTurn, StartBatch, TurnFails, FailTurn, history
<1>2. CASE Scheduling
  <2>1. ASSUME NEW c \in Calls, MonitorJoins(c) \/ MonitorRecorded(c) \/ MonitorAbandons(c) \/ BatchTakes(c)
        PROVE  UNCHANGED ran
    BY <2>1 DEF MonitorJoins, MonitorRecorded, MonitorAbandons, BatchTakes, history
  <2>2. ASSUME NEW s \in strays, StrayRecords(s) PROVE UNCHANGED ran
    BY <2>2 DEF StrayRecords, history
  <2>3. ASSUME CommitResult \/ CommitCompletion \/ CommitNothing \/ CommitDone
        PROVE  UNCHANGED ran
    BY <2>3 DEF CommitResult, CommitCompletion, CommitNothing, CommitDone, TurnFails,
           FailTurn, history
  <2>. QED  BY <1>2, <2>1, <2>2, <2>3 DEF Scheduling
<1>3. ASSUME NEW c \in Calls, InvocationSettles(c) \/ InvocationErrs(c) PROVE UNCHANGED ran
  BY <1>3 DEF InvocationSettles, InvocationErrs, history
<1>4. ASSUME NEW why, EndBatch(why) PROVE UNCHANGED ran
  BY <1>4 DEF EndBatch, history
<1>5. ASSUME NEW c \in Calls, Resume(c) PROVE UNCHANGED ran
  BY <1>5 DEF Resume
<1>6. ASSUME NEW c, NEW kind, NEW src, ControlFact(c, kind, src) PROVE UNCHANGED ran
  BY <1>6 DEF ControlFact, history
<1>7. ASSUME CommitFails \/ ResumeFails \/ ResumeAppendsResult \/ ResumeCompletes \/ Rebind \/ Crash
      PROVE  UNCHANGED ran
  BY <1>7 DEF CommitFails, ResumeFails, FailTurn, ResumeAppendsResult, ResumeCompletes, Rebind,
     Crash, history
<1>. QED  BY <1>1, <1>2, <1>3, <1>4, <1>5, <1>6, <1>7 DEF Next

(* A tool of an at-most-once call that is about to start was started before *)
(* at most by a resumption of the same request.                             *)
LEMMA StartedBefore ==
  ASSUME ToolInv, NEW c \in AtMostOnce, <<c, 1, "batch">> \notin ran,
         NEW y \in ran, y[1] = c
  PROVE  y = <<c, 1, "resume">>
<1>1. y \in Calls \X (1..MaxRuns) \X {"batch", "resume"}
  BY DEF ToolInv, HistoryTyped
<1>2. y[2] = 1
  BY DEF ToolInv, Started
<1>3. y = <<y[1], y[2], y[3]>> /\ y[3] \in {"batch", "resume"}
  BY <1>1
<1>4. y[3] # "batch"
  BY <1>2, <1>3
<1>. QED  BY <1>2, <1>3, <1>4

LEMMA AtMostOnceStep ==
  ASSUME ToolInv, Next, NEW x \in ran' \ ran, x[1] \in AtMostOnce, x[3] = "batch",
         NEW y \in ran, y[1] = x[1]
  PROVE  y = <<x[1], x[2], "resume">>
<1>1. ASSUME NEW c \in Calls, InvocationStarts(c) PROVE y = <<x[1], x[2], "resume">>
  <2>1. /\ ran' = ran \cup {<<c, req, "batch">>} /\ inv[c] = "starting"
        /\ Prepared(c, req) = "run"
    BY <1>1 DEF InvocationStarts, ToolStarts, history
  <2>2. x = <<c, req, "batch">> /\ x[1] = c /\ x[2] = req
    BY <2>1
  <2>3. recovery[c] = "Reexecute"
    BY <2>1, PreparedKinds DEF ToolInv, ControlTyped
  <2>4. Busy
    BY <2>1 DEF ToolInv, Phases
  <2>5. req = 1 /\ <<c, 1, "batch">> \notin ran
    BY <2>1, <2>2, <2>3, <2>4 DEF ToolInv, Started
  <2>. QED  BY <2>2, <2>5, StartedBefore
<1>2. ASSUME NEW s \in strays, StrayRuns(s) PROVE y = <<x[1], x[2], "resume">>
  <2>1. /\ ran' = ran \cup {<<s.call, s.req, "batch">>} /\ s.st = "starting"
        /\ s.act = "Reexecute"
    BY <1>2 DEF StrayRuns, ToolStarts, history
  <2>2. x = <<s.call, s.req, "batch">> /\ x[1] = s.call /\ x[2] = s.req
    BY <2>1
  <2>3. s.req = 1 /\ <<s.call, 1, "batch">> \notin ran
    BY <2>1, <2>2 DEF ToolInv, Started
  <2>. QED  BY <2>2, <2>3, StartedBefore
<1>3. CASE ResumeExecutes
  <2>1. x = <<resuming.call, 1, "resume">>
    BY <1>3 DEF ResumeExecutes
  <2>2. x[3] = "resume"
    BY <2>1
  <2>. QED  BY <2>2
<1>. QED  BY <1>1, <1>2, <1>3, WhatStartsTools

(* agent_loop.rs: no execution of the batch starts the tool of an           *)
(* at-most-once call that was started before, except an abandoned task      *)
(* whose own request has been resumed meanwhile.                            *)
THEOREM AtMostOnceHolds == Spec => AtMostOnceReplay
<1> DEFINE A == \A x \in ran' \ ran :
                  x[1] \in AtMostOnce /\ x[3] = "batch" =>
                    \A y \in ran : y[1] = x[1] => y = <<x[1], x[2], "resume">>
<1>1. ToolInv /\ [Next]_vars => [A]_vars
  BY AtMostOnceStep
<1>. QED  BY <1>1, ToolInvariant, PTL DEF Spec, AtMostOnceReplay

-----------------------------------------------------------------------------
(* Waiting for holds *)

(* A call that is watched has a task. *)
Watched == \A c \in Calls : mon[c] = "watching" => inv[c] # "none"

(* A batch has a call that is not done, and who was not launched waits for  *)
(* one.                                                                     *)
WaitsForSome(m) == \A c \in Unlaunched(m) : \E d \in WaitEdges(c) : m[d] # "taken"

Waits ==
  pc = "batch" => (\E c \in Calls : mon[c] # "taken") /\ WaitsForSome(mon)

(* A monitor that records does not wait for a tool. *)
Records ==
  \A s \in strays : s.req = req /\ mon[s.call] = "recording" => s.st \in {"returned", "half"}

WaitInv == Watched /\ Waits /\ Records

(* Some calls of the batch come first among those of a kind. *)
LEMMA FirstCall ==
  ASSUME NEW S \in SUBSET Calls, S # {}
  PROVE  \E c \in S : \A d \in S : c <= d
<1> DEFINE R == OpToRel(<, Nat)
<1>1. S \subseteq Nat
  BY DEF Calls
<1>2. IsWellFoundedOn(R, Nat)
  BY NatLessThanWellFounded, Zenon
<1>3. \A c, d \in Nat : <<d, c>> \in R <=> d < c
  BY DEF OpToRel
<1> HIDE DEF R
<1>4. PICK c \in S : \A d \in S : ~(<<d, c>> \in R)
  BY <1>1, <1>2, WFMin, Zenon
<1>5. \A d \in S : ~(d < c)
  BY <1>1, <1>3, <1>4, Zenon
<1>. QED  BY <1>1, <1>5

(* The first call that is not done waits for nobody. *)
LEMMA FirstMoves ==
  ASSUME ToolInv, WaitInv
  PROVE  HoldsNeverDeadlock
<1> SUFFICES ASSUME pc = "batch"
             PROVE  /\ \E c \in Calls : Moves(c)
                    /\ \A c \in Unlaunched(mon) : \E d \in WaitEdges(c) : mon[d] # "taken"
  BY DEF HoldsNeverDeadlock
<1>1. WaitsForSome(mon) /\ {c \in Calls : mon[c] # "taken"} # {}
  BY DEF WaitInv, Waits
<1>2. PICK c \in Calls : mon[c] # "taken" /\ \A d \in Calls : mon[d] # "taken" => c <= d
  BY <1>1, FirstCall
<1>3. mon[c] # "none"
  <2>1. SUFFICES ASSUME mon[c] = "none" PROVE FALSE
    OBVIOUS
  <2>2. PICK d \in WaitEdges(c) : mon[d] # "taken"
    BY <1>1, <2>1 DEF WaitsForSome, Unlaunched
  <2>3. d \in Calls /\ d < c /\ d \in Nat /\ c \in Nat
    BY <2>2 DEF WaitEdges, Calls
  <2>. QED  BY <1>2, <2>2, <2>3
<1>4. mon[c] \in {"watching", "recording", "settled"}
  BY <1>2, <1>3 DEF ToolInv, TasksTyped
<1>5. Moves(c)
  BY <1>4 DEF Moves, WaitInv, Watched, Records
<1>. QED  BY <1>1, <1>5 DEF WaitsForSome

(* A pass launches every call that waits for nobody. *)
LEMMA PassLaunches ==
  ASSUME NEW m, mon' = [c \in Calls |-> IF c \in Ready(m) THEN "watching" ELSE m[c]]
  PROVE  WaitsForSome(mon)'
<1> SUFFICES ASSUME NEW c \in Calls, mon'[c] = "none"
             PROVE  \E d \in WaitEdges(c) : mon'[d] # "taken"
  BY DEF WaitsForSome, Unlaunched, WaitEdges
<1>1. c \notin Ready(m) /\ m[c] = "none"
  BY DEF Ready
<1>2. PICK d \in WaitEdges(c) : m[d] # "taken"
  BY <1>1 DEF Ready, Unlaunched
<1>3. d \in Calls
  BY <1>2 DEF WaitEdges
<1>. QED  BY <1>2, <1>3

(* Steps that change no monitor and no task. *)
LEMMA TasksRest ==
  ASSUME WaitInv, UNCHANGED <<inv, mon, strays, requests>>, pc' = "batch" => pc = "batch"
  PROVE  WaitInv'
BY DEF WaitInv, Watched, Waits, WaitsForSome, Unlaunched, WaitEdges, Records, req

(* Steps after which the loop is idle. *)
LEMMA LoopRests ==
  ASSUME ToolInv', ~Busy'
  PROVE  WaitInv'
<1>1. \A c \in Calls : mon'[c] = "none"
  BY DEF ToolInv, Phases
<1>2. pc' # "batch"
  BY DEF Busy
<1>3. \A s \in strays' : s.call \in Calls
  BY DEF ToolInv, StraysTyped
<1>. QED  BY <1>1, <1>2, <1>3 DEF WaitInv, Watched, Waits, Records

(* Steps of one task. *)
LEMMA TaskMoves ==
  ASSUME ToolInv, WaitInv, NEW c \in Calls,
         InvocationStarts(c) \/ InvocationSettles(c) \/ InvocationErrs(c)
  PROVE  WaitInv'
<1>1. /\ UNCHANGED <<mon, strays, requests, pc>>
      /\ \E l \in {"executing", "settled"} : inv' = [inv EXCEPT ![c] = l]
  BY DEF InvocationStarts, InvocationSettles, InvocationErrs, durable, loop
<1>2. Watched'
  BY <1>1 DEF ToolInv, TasksTyped, WaitInv, Watched
<1>3. Waits' /\ Records'
  BY <1>1 DEF WaitInv, Waits, WaitsForSome, Unlaunched, WaitEdges, Records, req
<1>. QED  BY <1>2, <1>3 DEF WaitInv

(* Steps of one monitor. *)
LEMMA MonitorMoves ==
  ASSUME ToolInv, WaitInv, NEW c \in Calls,
         MonitorJoins(c) \/ MonitorRecorded(c) \/ MonitorAbandons(c)
  PROVE  WaitInv'
<1>1. UNCHANGED <<requests, pc>>
  BY DEF MonitorJoins, MonitorRecorded, MonitorAbandons, durable, loop
<1>2. PICK l \in {"recording", "settled"} :
        /\ mon' = [mon EXCEPT ![c] = l]
        /\ inv' \in {inv, [inv EXCEPT ![c] = "none"]}
        /\ mon[c] \in {"watching", "recording"}
        /\ \/ l = "settled"
           \/ mon[c] = "watching" /\ strays' = strays \cup {Stray(c, "returned")}
        /\ \E st \in {"starting", "executing", "returned"} :
             strays' \subseteq strays \cup {Stray(c, st)}
  BY DEF MonitorJoins, MonitorRecorded, MonitorAbandons
<1>3. mon \in [Calls -> {"none", "watching", "recording", "settled", "taken"}]
      /\ inv \in [Calls -> {"none", "starting", "executing", "settled"}]
  BY DEF ToolInv, TasksTyped
<1>4. Watched'
  BY <1>2, <1>3 DEF WaitInv, Watched
<1>5. \A d \in Calls : /\ mon'[d] = "none" <=> mon[d] = "none"
                       /\ mon'[d] = "taken" <=> mon[d] = "taken"
  BY <1>2, <1>3
<1>6. Waits'
  <2>1. SUFFICES ASSUME pc = "batch" PROVE Waits'
    BY <1>1 DEF Waits
  <2>2. \E d \in Calls : mon'[d] # "taken"
    BY <1>5, <2>1 DEF WaitInv, Waits
  <2>3. ASSUME NEW d \in Calls, mon'[d] = "none"
        PROVE  \E e \in WaitEdges(d) : mon'[e] # "taken"
    <3>1. PICK e \in WaitEdges(d) : mon[e] # "taken"
      BY <1>5, <2>1, <2>3 DEF WaitInv, Waits, WaitsForSome, Unlaunched
    <3>2. e \in Calls
      BY <3>1 DEF WaitEdges
    <3>. QED  BY <1>5, <3>1, <3>2
  <2>4. WaitsForSome(mon)'
    BY <2>3 DEF WaitsForSome, Unlaunched, WaitEdges
  <2>. QED  BY <2>2, <2>4 DEF Waits
<1>7. ASSUME NEW s \in strays', s.req = req', mon'[s.call] = "recording"
      PROVE  s.st \in {"returned", "half"}
  <2>1. s.req = req
    BY <1>1, <1>7 DEF req
  <2>2. CASE s \in strays /\ s.call # c
    <3>1. s.call \in Calls
      BY <2>2 DEF ToolInv, StraysTyped
    <3>. QED  BY <1>2, <1>3, <1>7, <2>1, <2>2, <3>1 DEF WaitInv, Records
  <2>3. CASE s \in strays /\ s.call = c
    <3>1. l = "recording" /\ mon[c] = "watching"
      BY <1>2, <1>3, <1>7, <2>3
    <3>2. Busy
      BY <3>1 DEF ToolInv, Phases
    <3>3. out[c] = "abandoned"
      BY <2>1, <2>3, <3>2 DEF ToolInv, Handover
    <3>. QED  BY <3>1, <3>2, <3>3 DEF ToolInv, Handover
  <2>4. CASE s \notin strays
    <3>1. PICK st : s = Stray(c, st)
      BY <1>2, <2>4
    <3>2. s.call = c
      BY <3>1 DEF Stray
    <3>3. l = "recording"
      BY <1>2, <1>3, <1>7, <3>2
    <3>4. s = Stray(c, "returned")
      BY <1>2, <2>4, <3>3
    <3>. QED  BY <3>4 DEF Stray
  <2>. QED  BY <2>2, <2>3, <2>4
<1>. QED  BY <1>4, <1>6, <1>7 DEF WaitInv, Records

(* The batch takes an outcome and makes its next pass. *)
LEMMA PassMoves ==
  ASSUME ToolInv, WaitInv, NEW c \in Calls, BatchTakes(c)
  PROVE  WaitInv'
<1> DEFINE m == [mon EXCEPT ![c] = "taken"]
<1>1. /\ UNCHANGED <<requests, strays>> /\ SchedulePass(m, out, cancelled)
      /\ inv' = Launched(inv) /\ mon[c] = "settled"
      /\ pc' = IF \A d \in Calls : mon'[d] = "taken" THEN "commit" ELSE "batch"
  BY DEF BatchTakes, durable
<1>2. /\ m \in [Calls -> {"none", "watching", "recording", "settled", "taken"}]
      /\ mon \in [Calls -> {"none", "watching", "recording", "settled", "taken"}]
      /\ inv \in [Calls -> {"none", "starting", "executing", "settled"}]
      /\ m[c] = "taken" /\ \A d \in Calls : d # c => m[d] = mon[d]
  BY DEF ToolInv, TasksTyped
<1> HIDE DEF m
<1>3. /\ \A d \in Calls : mon'[d] \in {"watching", "taken", m[d]}
      /\ WaitsForSome(mon)'
  <2>1. CASE cancelled
    <3>1. mon' = [d \in Calls |-> IF d \in Unlaunched(m) THEN "taken" ELSE m[d]]
      BY <1>1, <2>1 DEF SchedulePass
    <3>2. \A d \in Calls : mon'[d] # "none"
      BY <3>1 DEF Unlaunched
    <3>. QED  BY <3>1, <3>2 DEF WaitsForSome, Unlaunched
  <2>2. CASE ~cancelled
    <3>1. mon' = [d \in Calls |-> IF d \in Ready(m) THEN "watching" ELSE m[d]]
      BY <1>1, <2>2 DEF SchedulePass
    <3>. QED  BY <3>1, PassLaunches
  <2>. QED  BY <2>1, <2>2
<1>4. Watched'
  BY <1>1, <1>2, <1>3 DEF WaitInv, Watched, Launched
<1>5. Waits'
  BY <1>1, <1>3 DEF Waits
<1>6. Records'
  <2>1. ASSUME NEW d \in Calls, mon'[d] = "recording" PROVE mon[d] = "recording"
    BY <1>2, <1>3, <2>1
  <2>2. \A s \in strays : s.call \in Calls
    BY DEF ToolInv, StraysTyped
  <2>. QED  BY <1>1, <2>1, <2>2 DEF WaitInv, Records, req
<1>. QED  BY <1>4, <1>5, <1>6 DEF WaitInv

(* A new execution of the batch launches its first call at least. *)
LEMMA BatchBegins ==
  ASSUME ToolInv, WaitInv, StartBatch
  PROVE  WaitInv'
<1>1. /\ mon' = [c \in Calls |-> IF c \in Ready(NoTasks) THEN "watching" ELSE NoTasks[c]]
      /\ inv' = [c \in Calls |-> IF mon'[c] = "watching" THEN "starting" ELSE "none"]
  BY DEF StartBatch, SchedulePass
<1>2. \A c \in Calls : mon'[c] \in {"watching", "none"}
  BY <1>1 DEF NoTasks
<1>3. Watched'
  BY <1>1 DEF Watched
<1>4. 1 \in Calls
  BY DEF Calls
<1>5. Waits'
  BY <1>1, <1>2, <1>4, PassLaunches DEF Waits
<1>6. strays' = strays /\ \A s \in strays : s.call \in Calls
  BY DEF StartBatch, ToolInv, StraysTyped
<1>7. Records'
  BY <1>2, <1>6 DEF Records
<1>. QED  BY <1>3, <1>5, <1>7 DEF WaitInv

(* Steps of the tasks outside the batch. *)
LEMMA StrayMoves ==
  ASSUME ToolInv, WaitInv, NEW s \in strays, StrayRuns(s) \/ StrayRecords(s)
  PROVE  WaitInv'
<1>1. UNCHANGED <<inv, mon, requests, pc>>
  BY DEF StrayRuns, StrayRecords, durable, tasks, loop
<1>2. Watched' /\ Waits'
  BY <1>1 DEF WaitInv, Watched, Waits, WaitsForSome, Unlaunched, WaitEdges
<1>3. \/ strays' = strays \ {s}
      \/ \E st \in {"executing", "returned", "half"} :
           /\ strays' = (strays \ {s}) \cup {[s EXCEPT !.st = st]}
           /\ st = "executing" => s.st = "starting"
  BY DEF StrayRuns, StrayRecords, Moved
<1>4. s \in [call : Calls, req : 1..MaxRuns,
             st : {"starting", "executing", "returned", "half"},
             act : {"Reuse", "Reexecute", "ConservativeFailure"}]
  BY DEF ToolInv, StraysTyped
<1>5. \A st : /\ [s EXCEPT !.st = st].call = s.call /\ [s EXCEPT !.st = st].req = s.req
              /\ [s EXCEPT !.st = st].st = st
  BY <1>4
<1>6. ASSUME NEW u \in strays', u.req = req', mon'[u.call] = "recording"
      PROVE  u.st \in {"returned", "half"}
  <2>1. u.req = req /\ mon[u.call] = "recording"
    BY <1>1, <1>6 DEF req
  <2>2. CASE u \in strays
    BY <2>1, <2>2 DEF WaitInv, Records
  <2>3. CASE u \notin strays
    <3>1. PICK st \in {"executing", "returned", "half"} :
            u = [s EXCEPT !.st = st] /\ (st = "executing" => s.st = "starting")
      BY <1>3, <2>3
    <3>2. s.req = req /\ mon[s.call] = "recording" /\ u.st = st
      BY <1>5, <2>1, <3>1
    <3>3. s.st \in {"returned", "half"}
      BY <3>2 DEF WaitInv, Records
    <3>. QED  BY <3>1, <3>2, <3>3
  <2>. QED  BY <2>2, <2>3
<1>7. Records'
  BY <1>6 DEF Records
<1>. QED  BY <1>2, <1>7 DEF WaitInv

LEMMA WaitInvStep ==
  ASSUME ToolInv, ToolInv', WaitInv, [Next]_vars
  PROVE  WaitInv'
<1>1. CASE UNCHANGED vars
  BY <1>1, TasksRest DEF vars, durable, tasks, loop
<1>2. CASE RunTurn
  <2>1. \/ StartBatch
        \/ pc' = "idle"
    BY <1>2 DEF RunTurn, TurnFails, FailTurn, AtRest, loop
  <2>2. pc' = "idle" => ~Busy'
    BY DEF Busy
  <2>. QED  BY <2>1, <2>2, BatchBegins, LoopRests
<1>3. CASE Scheduling
  <2>1. CASE CommitResult \/ CommitCompletion \/ CommitNothing
    BY <2>1, TasksRest DEF CommitResult, CommitCompletion, CommitNothing, durable, tasks
  <2>2. CASE CommitDone
    <3>1. pc' = "idle"
      BY <2>2 DEF CommitDone, TurnFails, FailTurn, AtRest
    <3>. QED  BY <3>1, LoopRests DEF Busy
  <2>. QED  BY <1>3, <2>1, <2>2, TaskMoves, MonitorMoves, PassMoves, StrayMoves DEF Scheduling
<1>4. ASSUME NEW why, EndBatch(why) PROVE WaitInv'
  BY <1>4, TasksRest DEF EndBatch, durable, tasks
<1>5. ASSUME NEW c \in Calls, Resume(c) PROVE WaitInv'
  <2>1. pc' \in {"idle", "resume"}
    BY <1>5 DEF Resume, ResumeRefused
  <2>. QED  BY <2>1, LoopRests DEF Busy
<1>6. ASSUME NEW c, NEW kind, NEW src, ControlFact(c, kind, src) PROVE WaitInv'
  BY <1>6, TasksRest DEF ControlFact, tasks, loop
<1>7. CASE Rebind
  BY <1>7, TasksRest DEF Rebind, tasks, loop
<1>8. CASE ResumeExecutes \/ ResumeAppendsResult
  BY <1>8, TasksRest DEF ResumeExecutes, ResumeAppendsResult, durable, tasks
<1>9. CASE CommitFails \/ ResumeFails \/ ResumeCompletes \/ Crash
  <2>1. pc' = "idle"
    BY <1>9 DEF CommitFails, ResumeFails, ResumeCompletes, Crash, FailTurn, AtRest
  <2>. QED  BY <2>1, LoopRests DEF Busy
<1>. QED
  BY <1>1, <1>2, <1>3, <1>4, <1>5, <1>6, <1>7, <1>8, <1>9, TaskMoves, StrayMoves DEF Next

(* tool_holds.rs: no set of calls, whatever their holds, waits on itself,   *)
(* and neither cancellation nor an abandoned tool makes it.                 *)
THEOREM HoldsDoNotDeadlock == Spec => []HoldsNeverDeadlock
<1>1. Init => WaitInv
  BY DEF Init, NoTasks, WaitInv, Watched, Waits, Records
<1>2. ToolInv /\ ToolInv' /\ WaitInv /\ [Next]_vars => WaitInv'
  BY WaitInvStep
<1>3. ToolInv /\ WaitInv => HoldsNeverDeadlock
  BY FirstMoves
<1>. QED  BY <1>1, <1>2, <1>3, ToolInvariant, PTL DEF Spec
=============================================================================

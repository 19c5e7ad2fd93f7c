# Verlet kernel: TLA+ verification project

Verlet runs agents from an append-only record. This project models the parts of
the kernel whose correctness depends on what several tasks, processes and
transactions do in an order nobody wrote a test for: the daemon's durable
ingress outcome protocol, the single-writer leases under which remote children
write into their parent's store, the propagators that carry a child's stream
there, the whole life of one remote thread (executor, child process, queue,
tail, monitor, recovery sweep), and the tool batch of a turn (holds, control
decisions, cancellation, replay). TLC checks the models on small instances;
TLAPS proves the safety properties, and that the models implement three abstract
specifications, for every instance.

Paths below are relative to `src/crates/verlet-kernel/src/` unless they start
with `crates/` or `docs/`.

## 1. Inventory

| Part | State it keeps | Operations | Hard behaviour | What makes it correct |
|---|---|---|---|---|
| Ingress bridge and queue worker (`daemon/daemon_io.rs`) | control streams, ownership rows, conversation binding; in memory: scope locks, active turns | lease, fold, witness, decide, own, claim, effects, settle, recover, fork | overlapping deliveries, crash at every cut, two databases, errors, timeouts | one claim and one settle per envelope; effects only of the claim; every envelope settles |
| Ingress queue (`crates/verlet-io-pgqrs`) | messages with read count, visibility, holder | submit, lease, complete, retry, hold | redelivery under a busy worker | no message leaves before its outcome is durable |
| Runtime host (`kernel/runtime_host.rs`) | resident threads, reserved turn ids, mailboxes | reserve, submit, cancel, shutdown, load, fork | reservation and runtime die separately | a turn id runs once |
| Agent loop (`adapters/agent_loop.rs`) | running turn, deferred commands | start, steer, cancel, interrupt, finish, fail | commands arrive while a turn runs | evidence before settle; no command lost while live |
| History store (`crates/verlet-history-sqlite`) | event streams, entries, branches | append, fenced append, read | concurrent appenders | fenced appends linearise |
| Stream lease authority (`daemon/remote_store/lease.rs`) | grants, credentials | grant, renew, release, fence, append, mint, verify, revoke | takeover racing a comeback, clock steps | one live writer; a replaced writer is fenced |
| Sync endpoint (`endpoint.rs`, `endpoint_http.rs`) | rejection witnesses | push, renew, pull, acknowledge | verify and use are two transactions | a token is worth no more than its lease |
| Propagator, tail (`propagator.rs`, `tail.rs`) | confirmed length and lease, durable; tail cursor in memory | push a batch, renew, pull and compare, adopt or stop; poll | lost answers, expiry or takeover mid-batch, process death | what is confirmed is in the parent's store; nothing stored twice; divergence only on a difference |
| Remote ingress queue (`queue.rs`) | rows by dispatch, acknowledged or not | enqueue, pull after a cursor, acknowledge | redelivery across processes | no turn dropped, none injected twice or out of order |
| Process executor (`process_executor.rs`, `placement.rs`) | handle, process, monitor, tail | spawn, submit, monitor, tail, child loop | half-done spawn, orphaned child, daemon death | a handle is joined once, with the durable truth, and never left open |
| Supervisor, kernel control (`kernel/supervisor.rs`, `kernel_control.rs`) | thread registry | start, shutdown tree | shutdown racing a start | children before parents |
| Spawn projection, joins, process handles | topology, join outcomes | spawn, terminal join, deliver outcome | four racing joiners, first wins | one outcome per handle |
| Recovery sweep | none of its own | sweep before the first listener | a terminal that was pushed but never joined | joins what is durable, fails the rest |
| Coupling scheduler | coupling claims | schedule, run, retry | overlapping runs | a coupling fires once per trigger |
| Tool batch, control decisions, tool holds (`agent_loop.rs`, `control_decision.rs`, `tool_holds.rs`) | requests, results, completions, control facts; in memory: tasks, monitors | request, hold, run, monitor, commit, decide, suspend, resume, replay | cancellation racing a settlement, replay after a crash, stale decisions | exclusive holds; one result per request; an at-most-once tool is not replayed; a call runs only on its own decision |
| Mandates, clock route | mandates, fired occurrences | due ticks, fire | missed ticks, DST | each occurrence fires at most once |
| Identity, manifests, app server, tools, providers | documents, configuration | validation, I/O | little protocol state | out of scope |

How they interact: an adapter submits an envelope to the queue; each route has
a queue worker task that leases messages and calls the bridge; the bridge reads
and appends control streams in the history store, keeps ownership and bindings
in a second SQLite database, and submits turns to the runtime host; the agent
loop of the thread executes them and records evidence on the thread stream; the
egress drain reads that stream, delivers answers and clears the active turn. A
remote child has its own store and pushes its stream to the parent's endpoint
under a lease; it pulls its turns from a queue in the parent's store, and the
parent's tail of the pushed stream, the monitor of the child process, a failing
spawn and the recovery sweep race to join its handle.

The hazards this exposes are listed at their lines in `PROJECT.json`.

## 2. Modules

| Module | What it is |
|---|---|
| `IngressOutcome` | the ingress outcome protocol with queue, runtimes and agent loops |
| `IngressPromise` | what the protocol promises per envelope: claim, settle, archive |
| `IngressRefinement` | the refinement mapping from the first to the second |
| `MCIngressOutcome` | symmetry for TLC |
| `IngressOutcomeProofs`, `IngressClaimProofs`, `IngressSettleProofs`, `IngressRunProofs` | proofs: types; uniqueness and ownership of claims; settles, forks, executed turns and the refinement; single execution |
| `StreamLease` | lease authority, credentials, endpoint push and renewal |
| `WriterPromise` | what the authority promises of each stream: one writer at a time, authority that moves whole |
| `LeaseRefinement` | the refinement mapping from leases to writers |
| `MCStreamLease` | two nested scopes for TLC |
| `StreamLeaseProofs` | proofs about leases |
| `StreamPropagation` | the local-first propagators of one stream |
| `RemoteThread` | one remote thread: `StreamPropagation` composed with executor, child, queue, tail, joins and recovery |
| `HandlePromise` | what the parent promises of a spawned thread's handle: one end of the spawn turn, one join |
| `RemoteRefinement` | the mappings from `RemoteThread` to `HandlePromise` and to `StreamPropagation` |
| `MCRemoteThread` | what records say, for TLC |
| `StreamPropagationProofs`, `RemoteThreadProofs` | proofs about confirmed lengths and positions; the queue, the order of turns, the handle and its joins |
| `ToolBatch` | one batch of tool calls, its controllers, cancellation, resumption and replay |
| `MCToolBatch` | two conflicting shell calls, for TLC |
| `ToolBatchProofs` | proofs about tool batches |

### IngressOutcome

State. `queue` is pgqrs (state, read count, holder). `control[t]` is the control
stream of thread `t`: received, decided, claimed, settled and spawned events.
`trace[t]` is the part of the thread stream that counts as execution evidence:
compile receipts, steers recorded, failures. `owner` is
`cooldis_daemon_ingress_ownership`, `lock` the `BEGIN IMMEDIATE` admission
transaction, `scope` the in-process scope lock, `route` the conversation
binding, `active` the active-turn map's entry. `thr[t]` is the resident runtime:
status, reserved turn ids, mailbox, running turn. `pc[w]` and `job[w]` are
worker `w`'s apply.

Actions. An apply is cut at each `await` that reads or writes shared state:

| Action | Code |
|---|---|
| `Lease`, `Expire`, `Complete` | `lease_ingress`, the visibility timeout, `complete_ingress` |
| `FoldOutcome` | the fold at the head of `submit_envelope_with_sources_at_target` |
| `Witness`, `RecordDecision`, `RecordOwnership` | `ensure_thread` + `ingress_state` + `record_ingress_received`; `record_admission_decided`; `record_ingress_ownership` |
| `Reserve` | `reserve_turn_submission_at_choke_point` |
| `LockAdmission`, `AwaitOutcome`, `ReadClaimStream`, `AppendClaim`, `CommitAdmission` | `append_ingress_claim`, and `append_effect_free_ingress_outcome` for observe and reject |
| `CancelActive`, `SubmitTurn`, `AwaitEvidence` | `cancel`, `complete_claimed_turn`, `wait_for_turn_execution_evidence` |
| `ReadSettleStream`, `AppendSettle` | `append_ingress_settle` |
| `Recover`, `Reload`, `CheckEvidence` | `recover_ingress_outcome` |
| `TakeScope`, `CreateChild`, `AppendSpawned`, `RebindRoute`, `SubmitFork` | `apply_fork_admission`, `recover_claimed_fork`, `run_fork_effects` |
| `StartCommand`, `CompileContext`, `ActiveCommand`, `FinishTurn`, `FailTurn` | the agent loop |
| `DeliverAnswer` | `drain_thread_egress` |
| `Timeout`, `Fault`, `Crash` | the 30 second waits, any failing call, process death |

Abstractions. One conversation scope. A turn id is the pair of the envelope and
the delivery that decided it, a fork child is named by its envelope: ids are
fresh in the code and only their identity matters. Observe and reject take the
same path and share one policy. A worker leases one message at a time; the code
leases batches but applies them one after the other. An evidence wait that times
out while its turn is still in flight is a `Fault` at that wait, so it is
counted; one whose turn is gone always times out. An error may strike at every
step of an apply, and at process death everything in memory goes. What the queue
does with the completion of a worker that lost its lease is not decided by this
repository: both outcomes are kept. The parts of `run_provider_turn` between the
compile receipt and the end of the turn (model requests, tool rounds) are one
step each way, because no claim, evidence or mailbox operation depends on them.

### StreamLease

Every authority operation is one immediate SQLite transaction and one action.
A push or a renewal is two: `ReceivePush`/`ReceiveRenewal` (token, scope, lease
match) and `AppendIfCurrent`/`Renew`, with `pending` between them; a request may
be lost in between. Rejected requests change nothing but the witness table,
which is left out. The clock may step to any value up to the bound. A push
carries one record; scopes and streams are sequences of colon-separated
segments, so prefix containment is the sequence prefix. Records carry two ghost
fields, the writing lease and the number of grants at that moment, used only by
`NoStaleWriter`.

### StreamPropagation

`parent` is the stream in the parent's store, `local[p]` the stream in the store
of propagator `p`, `pushed[p]` its durable `pushed_through`. `holder`, `granted`
and `expired` are what `StreamLease` leaves of a lease for one stream: whose
grant is the latest, and whether it is past its expiry. `pc[p]` is the place in
`propagate_once`, `batchEnd[p]` and `seen[p]` what the attempt carries across its
awaits: the last position of the batch it read, and the length of the parent's
stream when it was pulled. A record carries its writer and the position it was
given, which together stand for its event id.

| Action | Code |
|---|---|
| `StartBatch`, `Converged` | the read of the local tail at the head of `propagate_once` |
| `RenewIfDue`, `RenewAfterExpiry` | `renew_if_due`; the renewal after an `Expired` answer, which pushes once more |
| `Push` | the endpoint's push: lease, expiry and sequence checks, append; then what the propagator does with the answer |
| `Pull`, `Reconcile` | `reconcile_sequence_conflict`: the pull, then the comparison, adoption or `StreamDiverged` |
| `AppendLocal`, `Die`, `Reboot` | the runtime's append; process death; `SqlitePropagationStateStore::load` |
| `Expire`, `Supersede`, `TakeOver` | the clock; a grant to a fresh replacement, or to one that opens a dead propagator's database |

Every exchange with the endpoint is `dropped` (not processed), `lost` (processed,
answer lost) or `answered`.

### RemoteThread

The model starts with `thread.spawned` on the parent's control stream. The child
is the propagator `First`; its loop is `phase`, and a step of `propagate_once` is
a step of `StreamPropagation`. A turn is named by its dispatch. `settle[j]` is the
settlement joiner `j` has under way, with the position it read; `gaveUp` are the
joiners of this daemon that met a storage error and will not try again.

| Action | Code |
|---|---|
| `SpawnChild`, `SpawnFails`, `Submit` | `spawn`, `spawn_shielded`, `submit` |
| `ChildExitObserved` | the process monitor, `settle_remote_process_death` |
| `TailPoll` | `run_parent_tail`: one poll |
| `SettleRead`, `SettleAppend` | `append_thread_joined_first_wins`: fold the joins, append behind the position read, start over on a conflict |
| `SettleFails` | a storage error of a settlement: the tail keeps its cursor and reads the page again, the caller of `spawn_shielded` tries once more unless it was dropped, monitor and spawn print the error, the sweep skips the thread |
| `DaemonCrash`, `DaemonStart` | death of the daemon; `StartupRecoverySweep::run_once` with `recover_threads`, which skips a thread whose child left conflicting terminals |
| `ChildPull`, `ChildAdmit`, `ChildAck`, `ChildSync` | `run_remote_child`: pull, admission, acknowledgement and cursor, propagation |
| `ChildSeesOrphan`, `ChildDies` | `remote_parent_process_is_alive`; a kill, a failing boot or a refused row |
| `TurnStart`, `TurnEnd` | `turn.submitted` and the turn's terminal on the child's stream |
| `TurnCompletionErrs`, `TurnFailsLate`, `TurnEndUnrecorded` | `append_turn_completed_event` fails behind its `turn.completed`; `turn.failed` is appended behind it; an end whose append fails is only logged |
| `Replacement`, `ReplacementStep`, `LeaseExpires` | external: another holder of the stream, the clock |

Abstractions. The child's ingress lane is `IngressOutcome`'s; here it submits a
dispatch at most once, and an attempt that reports a transient error may have
submitted it or not. A submitted dispatch stays submitted, and a turn lost with the
child's process is not taken up again. Appends of other events to the control
stream, which only make a fenced append start over, are left out.

### ToolBatch

The request of call `c` in the `k`-th execution of the batch is `<<c, k>>`: one
append writes the requests of all calls. Durable state: `requests` (with the
snapshot they were made under), `results`, `completed`, control `facts`, the bound
`snapshot` and the `turn`. In memory: per call the owned task (`inv`), its monitor
(`mon`), the prepared outcome (`out`) and the recovery action; `strays` are the
tasks that record their own outcome after the batch lost interest. `ending` is why
the batch ends; the cancellation token is set as soon as it ends.

| Action | Code |
|---|---|
| `RunTurn` | `run_provider_turn` up to its tool batch, first time or replayed: requests, recovery action per call, first pass of the scheduler; or waiting on a suspension, or going on, or `TurnFails`, whose `turn.failed` is best effort |
| `InvocationStarts`, `InvocationSettles`, `InvocationErrs` | `prepare_tool_call` in its task: reuse, deny, suspend or run |
| `MonitorJoins`, `MonitorAbandons`, `MonitorRecorded` | the monitor: joined, or the cancellation grace ran out; the settlement compare-exchange decides |
| `BatchTakes` | the batch takes a monitor's outcome and makes the next pass over the wait edges |
| `StrayRuns`, `StrayRecords` | an abandoned task; `append_detached_tool_call_outcome_until_recorded` |
| `EndBatch` | cancel, interrupt, shutdown, a steer that cannot be appended |
| `CommitResult`, `CommitCompletion`, `CommitNothing`, `CommitDone`, `CommitFails` | `append_tool_results` in call order, and the end of the round |
| `Resume`, `ResumeExecutes`, `ResumeAppendsResult`, `ResumeCompletes`, `ResumeFails` | the resume command of a suspended call; `ResumeRefused` is the one that finds no request or more than one |
| `ControlFact`, `Rebind`, `Crash` | a controller's or a witness's fact; a manifest binding; process death |

A witnessed fact stands for every request of its subject, a discharged one names
its request. A replay sends the recorded calls again, so names, arguments and
fingerprints are those of the first execution and only the snapshot may differ.
Bindings are recorded only while the thread runs no turn, as all callers do. The
effect class of a call (`EffectClass`) is a constant: the code reads it from the
bind receipt of the earlier request, so a binding that changes the class of a tool
is not covered, and the instance checked has no call of the class that is repeated
with rewritten arguments. A control fact may arrive when the turn is already
cancelled. A
resume is issued by embedders of the kernel. Panics of tool tasks and monitors are
left out.

Behaviour the model has and no property forbids, worth knowing when reading the
code: the process monitor joins `failed` even when the completion is already in
the parent's store and the tail has not read it; a settlement given up after a
storage error leaves the handle open until the next daemon start; a completion
followed by a `turn.failed` of the same turn, joined by nobody before the daemon
died, is skipped by every later sweep, so that the handle never gets the outcome
of which docs/adr/0006-unified-orchestration-semantics.md:20 says "every handle
reaches exactly one witnessed terminal outcome"; an end of the spawn turn that
could not be recorded leaves the handle to the exit of the child; a resumption runs an at-most-once
tool again if a crash fell between its run and its result; a task abandoned before
it asked its controller runs its tool even if a resumption has meanwhile run the
same request, so that a call both at-most-once and controlled runs twice
(`AtMostOnceReplay` names this one exception); after a replay a
resume command finds two requests and fails the turn as ambiguous; a call that is
suspended next to one whose outcome was lost waits until someone resumes it; a
late approval resumes a turn that was cancelled; an abandoned task outlives a
stopped runtime; and only the latest earlier request's result is reused.

## 3. Runs

| Run | Instance | Checks |
|---|---|---|
| `ingress_overlap` | 1 envelope of every policy, 2 workers, 4 deliveries, one crash, error, expiry and failed turn | types, `OneSettlePerClaim`, `SettledOnEvidence`, `OneChildPerForkClaim`, `OnlyClaimedTurnsRun`, `RunsOnceUnlessFailed`, refinement of `IngressPromise` |
| `ingress_routes` | 2 envelopes (queue, fork), 2 workers, 2 deliveries, one expiry | `OneClaimPerEnvelope`, `ClaimIsOwned` |
| `ingress_liveness` | 1 envelope (steer, interrupt), 2 workers, 5 deliveries, one of each failure | `EveryEnvelopeSettles`, absence of deadlock |
| `stream_lease` | 2 nested scopes, 3 grants, 2 credentials, 2 records | types, `OneLiveWriter`, `NoStaleWriter`, `NoOrphanCredential`, `LineageIsChain`, refinement of `WriterPromise` |
| `remote_thread` | child and one replacement, batches of 2, 3 local records, 2 dispatches, one daemon crash, one record of the replacement, one storage error | types, `ConfirmedIsDurable`, `PositionsKept`, `JoinFollowsDurableTruth`, `OpenHandleHasASettler`, `NoTurnDropped`, `InjectedOnceInOrder`, refinement of `HandlePromise` |
| `tool_batch` | 2 conflicting shell calls, the second at-most-once and controlled; 2 executions, 2 snapshots, 2 facts, one resume, one crash, error or rebinding | types, `HoldsExclusive`, `AuthorisedForThisRequest`, `OneResultPerRequest`, `AbandonedIsRecorded`, `RoundBarrier`, `CompletionHasResult`, `HoldsNeverDeadlock`, `CancelNeverWaits`, `AtMostOnceReplay` |

Why these bounds are enough to be interesting. Two workers and one expired
lease give two applies of one envelope at any two steps; one more crash or error
gives a third delivery that recovers what the first two left, and the delivery
bound leaves room for it. Two envelopes are needed for one to move the
conversation under the other; that run has no crash, so for the crash between the
claim and its owner rows it is `ingress_overlap` and the theorems of
`IngressClaimProofs` that speak. Three grants are a scope, its replacement and an
overlapping scope, in any order with releases; two credentials show that all
credentials of a lease are revoked. In `remote_thread`, three records and batches
of two give a batch that is full and one that is not, with the local stream
growing behind a batch being pushed; lost answers are not bounded; one crash is
enough for a recovery that finds a joined, a terminated, a running and a never
started child; two dispatches are needed for order. In `tool_batch`, two calls
are what a hold conflict needs, two executions what a replay needs, and one
trouble can fall between any two steps of either.

The safety runs of the ingress protocol switch deadlock checking off because the
delivery bound can be exhausted; the liveness run leaves it on, with a delivery
bound no behaviour of its failures exhausts, and `stream_lease` leaves it on.
`remote_thread` and `tool_batch` switch it off because the system really stops
there: the child is gone and its handle joined, or the turn has left the batch.
How far they may stop earlier is said by `OpenHandleHasASettler`, which names the
cases in which a handle stands open with nobody left to settle it (the last settler
met a storage error and gave up, or a daemon has started over conflicting
terminals), and by `HoldsNeverDeadlock` and `CancelNeverWaits`, which allow none.

Fairness (liveness run only). Workers, agent loops and the egress drain are
tokio tasks that are polled while they can move (`WF` of `Apply(w)`,
`Execute(t)`, `DeliverAnswer`), the waits of an apply end in a timeout (part of
`Apply`), and an expired lease becomes visible (`WF` of `Expire`). Nothing makes
an error, a crash or a failed turn happen or stop happening: they are bounded by
`MaxFault`, `MaxCrash` and `MaxFail`, and the property says that after finitely
many of them the envelope settles. Fork is left out of this run because of
finding 1, queue because steer becomes queue when nothing is active.

Six more runs end in a violation and document where the code and a document
disagree (`PROJECT.json`, findings):

1. `ingress_fork_loser`: a lost fork race completes the lease of an unsettled
   claim; if the winner then fails, the claim is never settled.
2. `ingress_decision`: a decision that depends on memory is refused when a
   restart changes it.
3. `ingress_stale_steer`: an envelope steers a thread on which nothing runs.
4. `ingress_double_run`: two recoveries around a failed runtime run a turn twice.
   `RunsOnceUnlessFailed` in `ingress_overlap` is the counterpart that holds.
5. `ingress_failed_resident`: a fresh envelope is bound to an ended runtime.
6. `propagation_lost_ack` (2 propagators, batches of 2, 2 records): a batch is
   accepted and its answer lost, the local stream grows, and the next, longer
   batch finds only its first part in the parent's store. The comparison wants
   the whole batch there and reports `StreamDiverged`, although the parent's
   stream is a prefix of the local one.

Each property of a passing run has a mutant in `PROJECT.json`: a definition
changed the way a plausible bug would change the code, under which TLC finds the
property violated. The mutated forms stand before the definitions they replace.

## 4. Proofs

All theorems hold for arbitrary constants satisfying the modules' named
assumptions (`IngressAssumption`: the special values are distinct, `None` is no turn, bounds
are naturals; `LeaseAssumption`: scopes are non-empty segment sequences, bounds are
naturals; `PropagationAssumption`: batches are not empty, the first holder is a
propagator; `RemoteAssumption`: the facts of every dispatch are facts, and `None`
is neither a dispatch nor a settlement; `ToolBatchAssumption`: bounds are
naturals, special calls are calls). No finiteness of envelopes, workers, scopes,
streams, propagators, dispatches or calls is assumed beyond what the modules
declare.

**Ingress protocol.**

- `TypeCorrect` (`IngressOutcomeProofs`): `Spec => []TypeOK`. `TypeOK` alone is
  not inductive, because what an apply carries is written into the journal and
  read back from it; the invariant adds `JobShape` (past each label, the fields
  of the job are set) and `ClaimShape` (claims and settles name a turn of their
  envelope). One lemma per action.
- `ClaimInvariant`, `OneClaim`, `OwnedClaim` (`IngressClaimProofs`). The argument:
  all claims are appended inside the admission lock; before the append its
  holder has folded every owner stream and found nothing (`LockDiscipline`), and
  because every claim is on an owner stream (`ClaimIsOwned`) that means no claim
  anywhere; `prune_to_reservation` keeps the holder's row, `prune_to_stream` keeps
  a row on the claim's stream. Uniqueness and ownership need each other: neither
  is inductive alone.
- `SettleInvariant`, `OneSettle`, `SettlesRestOnEvidence` (`IngressSettleProofs`).
  Said of one stream at a time (`StreamGood`): its claims and settles alternate
  the right way round. Said of one apply at a time (`Good`): past its claim it
  names a claim of the journal, and past the wait for evidence the evidence is in
  the trace. Evidence and claims are never removed, so what an apply has seen
  stays true while others interleave; the fenced append of the settle is what
  rules out the second one.
- `IngressInvariant`, `OneChild`, `ClaimedTurnsRun` (`IngressSettleProofs`).
  `ForkInv`: a fork holds the scope lock from before its claim to its
  `thread.spawned`, so that recovery and first apply cannot both spawn.
  `ThreadInv`: mailbox, running turn, commands and records of every runtime name
  claimed turns, and a child that is loaded or a route that is bound rests on a
  fork claim; a reload is only of a thread that existed.
- `Refinement` (`IngressSettleProofs`): `Spec => ImplementsPromise`. The initial
  state maps to the abstract one, and each step is an abstract claim, settle,
  completion or a stutter (`ClaimRefines`, `SettleRefines`, `CompleteRefines`).
  What the mapping computes from the journal is settled by `OneClaim` and
  `OneSettle`; that a lease is completed only for an envelope whose outcome allows
  it is what the apply learned from its fold (`FoldSays`).
- `RunInvariant`, `RunsOnce` (`IngressRunProofs`). On a thread a turn is at most
  one of: reserved by a worker that will submit it, waiting in the mailbox,
  running without a record, recorded (`ThreadOnce`, `WorkerOnce`,
  `HoldersApart`). It moves along these places and never comes back, because its
  id stays in the runtime's reservation set from the first to the last; only the
  loss of the runtime empties that set. A restart takes the workers along, so no
  one is left who looked for evidence before it; the reload of a failed runtime
  does not, which is finding 4 and why the property asks that none has failed.
  Two more facts are needed: deliveries are numbered apart, so that a fresh turn
  is nobody else's (`AttemptInv`), and a fork keeps the scope lock until its
  child has its turn, so that only one submits it (`ScopeInv`, `ForkOnce`). Each
  step is shown to leave what the other workers rely on (`Passes`), then to give
  the moving worker what it relies on (`OwnOnce`).

**Leases.**

- `LeaseTypes`, `LeaseInvariant`, `SingleWriter`, `StaleWriterFenced`,
  `CredentialsRetired`, `LineageChained` (`StreamLeaseProofs`). The invariant orders
  everything by the grant table: generations grow along a scope
  (`GenerationsGrow`), nothing granted after a live lease overlaps it
  (`LiveIsNewest`), records hang off leases that cover their stream
  (`RecordsCovered`). A stale append would need a live lease that is not the newest
  covering grant. The clock occurs in no conjunct, which is why authority survives
  clock steps. The chain is said of the table alone (`Chained`): only a grant
  extends it, and a grant is refused unless it names the head of its scope.
- `AuthorityMoves`: `Spec => ImplementsWriterPromise`. The abstract specification
  knows writers and streams only; the mapping calls the live lease covering a
  stream its writer. By `OneLiveWriter` there is at most one, so the choice in the
  mapping is no choice (`WriterHolds`). A grant is refused unless what it overlaps
  is nothing live or exactly its own predecessor, so it takes all the predecessor
  held or only streams nobody held; a release gives up exactly its own; renewals,
  credentials, requests and the clock are stutters. An append is a `Write` of the
  stream's writer because the fence is evaluated in the transaction that appends.
- `WritersOrdered`: `Spec => []WritersInOrder`. Along a stream the leases of the
  records are in grant order. A lease that passes the fence is at least as new as
  every lease the stream has records of (`CurrentIsNewest`), so an append keeps
  the order and nothing else touches a stream.

**Remote thread.**

- `ConfirmedDurably`, `NoDuplicateNoGap` (`StreamPropagationProofs`). The parent's
  stream only grows, at its end, by a batch whose start is checked against its
  length; so what was confirmed stays confirmed. The invariant adds that a batch
  under way lies in the local stream right behind the confirmed length
  (`BatchInLocal`), which makes an accepted or adopted batch a confirmed one, and
  that local streams number their records by position (`LocalPositions`), which
  the parent inherits. One lemma per action.
- `ConfirmedStays` (`StreamPropagationProofs`): `Spec => ConfirmedForGood`, an action
  property. No step changes a stored record or shrinks the confirmed length of a
  propagator that has been granted the stream; `TakeOver` starts a new one with
  the length of the database it opens.
- `RemoteInvariant`, `RemoteTypes`, `RemoteConfirmedDurably`,
  `RemoteNoDuplicateNoGap`, `RemoteNoTurnDropped`, `RemoteInjectedOnce`,
  `RemoteJoinedOnce`, `RemoteHandleSettled`, `RemoteJoinsTruth`
  (`RemoteThreadProofs`). The streams' invariant is preserved because every step
  of the composition is a step of a propagator, leaves the streams alone or starts
  the child. For the queue, an unacknowledged row before a row of the child's page
  is on the page (`PageIsComplete`) and a row about to be acknowledged is
  submitted (`AtARow`); the row handled next is the least of the page, so the
  cursor passes nothing. For the order of turns (`LaneInv`), rows are submitted in
  queue order, wait in the child in that order, are recorded in that order, and
  what is recorded comes before what waits. For the joins, a settlement that has
  read the stream carries position 1, and the fenced append compares it with the
  length. For their truth, a terminal in the parent's or a replacement's stream is
  an echo, at the same position, of one in the child's own stream (`EchoInv`),
  where a failure may follow the completion of its turn and no completion follows a
  failure (`TerminalsOrdered`, `FailureIsLast`); so the first terminal of a page is
  what the store will always say of completion, and neither tail nor sweep is
  contradicted by what arrives later (`TruthInv`, `FoldIsTrue`). `SettlerInv` says
  what is left to do while the handle is open, or who gave it up; it needs that the
  tail has passed no terminal until it has folded one (`TailInv`) and that only a dead child of a serving executor is observed to have
  exited (`RestInv`).
- `HandleKeepsPromise` (`RemoteThreadProofs`): `RemoteSpec => ImplementsHandlePromise`.
  The truth of the abstract handle is the end of the spawn turn in the parent's
  store, completed if both are there. It is final because terminals stay
  and no completion arrives behind a failure (`TruthStays`, `ParentStays`). The tail's
  settlement carries an end that is durable, the sweep's what its fold found
  (`TruthInv`), and those of the joiners that do not look carry a failure
  (`UnseenInv`); so each append of a join is the abstract join of its joiner, and
  everything else is the arrival of the end or a stutter.
- `StreamsPropagate` (`RemoteThreadProofs`): `RemoteSpec => ImplementsPropagation`. The
  composition implements its component. A child that is `off` maps to an idle
  propagator, which is right because it has done nothing until the spawn
  (`RestInv`).

**Tool batch.**

- `ToolInvariant`, `ToolTypes`, `ConflictingToolsApart`,
  `ControlledToolsAuthorised`, `ResultsWrittenOnce`, `AbandonedNeverLost`,
  `RoundsAreComplete`, `CompletionsHaveResults`, `AtMostOnceHolds`
  (`ToolBatchProofs`), for any number of calls, executions, snapshots and troubles.
  The invariant ties a task's stage to what the journal holds: who owns the outcome
  of a call (task, monitor or batch, by the settlement exchange), that the results
  and completions of a request are written only by its owner, that a running call
  was admitted by a scheduling pass that saw no conflicting one, and that a replay's
  plan was made from the evidence of the requests before it. An earlier form of
  `AtMostOnceReplay` failed here: it did not allow for a task abandoned before it
  asked its controller, and the run now has a call that is at-most-once and
  controlled at once, where TLC reaches that case.
- `HoldsDoNotDeadlock`: `Spec => []HoldsNeverDeadlock`. Wait edges lead to earlier
  calls, so the first call that is not done waits for nobody and was launched by
  the last pass; the invariant (`WaitInv`) says that a launched call has a task or a
  monitor that will move it, and that a call left unlaunched has a wait edge to one
  that is not done. The calls are finitely many and ordered, so there is a first one.

The inductive invariants themselves (`ClaimInv`, `LeaseInv` and the others) and
`JoinedOnce`, which the refinement of `HandlePromise` contains, were checked with
TLC while they were found and are theorems now; the runs keep the properties they
serve. Three results are theorems that no run repeats: `WritersInOrder`,
`ConfirmedForGood` and `ImplementsPropagation`. TLC takes too long over the last
one on the instance of `remote_thread`.

Only model-checked: `EveryEnvelopeSettles` (liveness under fairness is outside the
prover), `CancelNeverWaits` (it speaks of `ENABLED`), and the counterexamples of
the six runs that end in a violation. Every other property of a passing run is a
theorem.

## 5. Not modelled

Coalesced batches, direct (unqueued) ingress, producer dedupe, timed holds,
pending-input limits, the ageing of ownership rows with their dedupe row,
rejection witnesses of the endpoint, branches and entries of the session store,
model requests, joins of local children and process dispatches in the recovery
sweep; and the components listed as `not_modelled` in `PROJECT.json`. These are
mostly validation, encoding, configuration and I/O (identity plane, manifests and
binding, app server, provider adapters, sandboxes): large in lines, with little
state that two actors share. The exceptions are in the plan.

## 6. Plan

1. Coupling scheduler: claim, run and retry of couplings, composed with the
   thread stream that triggers them.
2. Process handle dispatch and handle ingress, local joins and the spawn
   projector: one outcome per handle, delivered through the ingress queue.
3. Coalesced batches in the ingress protocol; the clock route's occurrence
   arithmetic against a reference definition.
4. Proofs: with each new module, its types and invariants.

# A TLA+ verification of Nimbusware

Nimbusware is a local-first platform for agentic software work: Maker and Admin
UIs talk to a FastAPI application, whose orchestrator runs *runs* and *campaigns*
(long backlogs of small slices) and may spread their stages over the machines of
a chat session, the *compute mesh*. Everything a run does is an event in an
append-only store; state is folded out of the events.

This directory models the parts of that system where several actors act on shared
state: the work-unit queues of the mesh, the host that dispatches over them, the
campaign driver, the dispatch queue its ticks and verifications travel through, and
the collaborative chat session with the transfer of its host. Paths below are
relative to `packages/`.

## 1. Inventory

| component | state | operations | interacts with | hard behaviour |
|---|---|---|---|---|
| **Work-unit queue** `compute/work_unit*.py` | one record per unit: status, node, session | `enqueue`, `dequeue`, `complete`, `terminate_restart` | host enqueues; API routes `api/routes/compute.py` pass claims, reports and restarts on | claims of many workers at once; restart is several transactions; late reports |
| **Worker daemon** `compute/worker_cli.py` | the unit in hand | poll: claim, execute, complete | the API over HTTP | no retry, no lease: a lost answer strands a unit |
| **Mesh host** `orchestrator/collab/*`, `compute/mesh_host_sync_legacy.py`, `_pipeline/writers_parallel.py` | the process-wide scheduler; per dispatch its remote stages and results | assign, enqueue, run local stages, wait, absorb, read results | the queue, concurrent dispatches, the operator's restarts | deadlines racing late completions; global mode; units superseded while waited for |
| **Campaign driver** `orchestrator/campaign/*`, `completion_evaluator.py`, `api/routes/campaigns/lifecycle.py` | none of its own: the event log | the tick (plan, one slice, assess, evaluate), pause, resume, cancel, interjections | run-dispatch queue, event store, operators | operator events between the steps of a tick; retries and replans; lost ticks |
| **Run dispatch** `orchestrator/run_dispatch.py`, `run_worker.py`, `_pipeline/campaign_dispatch.py` | Redis list and in-flight hash, or an in-process deque | `enqueue`, `dequeue`, `ack`; the loops of the embedded thread and of CLI workers | campaign ticks, verify tasks and verify shards | pop and in-flight mark are two commands; in-flight tasks are never requeued; an exception ends the loop; the stop event is seen between tasks only |
| **Verify fan-out** `orchestrator/verify_fanout.py`, `verifiers.py` | one result bucket per fan-out | enqueue shards, wait, merge, clear | the queue its own task came from | a single worker waits for shards only it could serve; shards report after the deadline |
| **Chat session** `maker/chat/postgres.py`, `maker/session_scope.py`, `api/routes/chat*.py` | a tree of turns, the active leaf, one JSON metadata column | message, fork, switch of branch, scope publication and approval | requests of several users | each handler is several transactions; metadata are written back whole |
| **Host transfer** `maker/host_transfer_store_postgres.py`, `maker/host_transfer_bundle.py`, `api/routes/chat_collab.py` | transfer status, session host, freeze flag | request, accept, export, import, complete, decline | two users' requests, the chat session | status not checked by every operation; two stores changed one after the other |
| **Event store** `store/*.py` | the log | append, list | everybody | none modelled separately: an append is atomic and a read a snapshot |
| Node registry, broker-routed compute, auth, admin, UI | CRUD stores and an external broker | | | little concurrency of their own |

What makes each part correct: *queue*: a unit is executed by one worker, a
finished unit stays finished, a restart never leaves original and replacement both
live, a queued unit is served. *Host*: a dispatch ends, its results come from the
latest units, finished, whose files were merged, nothing leaves a host_only session, every
remote stage is read. *Campaign*: nothing runs before its dependencies, a campaign
stops only for a visible reason, completion means delivered, operators are heeded.
*Dispatch*: first in first out and at most once, lost tasks are lost for a reason, the
queue drains. *Fan-out*: a verdict comes from shards that ran. *Chat*: the
conversation branches only where somebody asked for it, and a freeze ends.
*Transfer*: concurrent transfers leave a host they agree on.

`PROJECT.json` lists every hazard at its line, with the properties that cover it.

## 2. Modules

| module | models | uses |
|---|---|---|
| `WorkUnitLedger` | the lifecycle the queue protocol promises (abstract specification) | |
| `WorkUnitPostgres` | Postgres queue, workers, operators; implements the ledger | `WorkUnitLedger` |
| `WorkUnitPostgresProofs` | theorems about it | |
| `WorkUnitRedis` | Redis queue, hosts, workers, operators | |
| `WorkUnitRedisProofs` | theorems about it | |
| `MeshHost` | the host's dispatch over the ledger | `WorkUnitLedger` |
| `MeshHostProofs` | theorems about it | |
| `CampaignDriver` | the campaign tick and its operators | |
| `CampaignDriverProofs` | theorems about its ends: pauses and completion | |
| `CampaignBacklogProofs` | theorems about its backlog: order, replans, stops | |
| `TaskDelivery` | first in, first out, at most once: what the dispatch queue promises of a task (abstract specification) | |
| `RunDispatch` | both dispatch queues, their workers, verify fan-out, ticks as tasks; implements the delivery | `TaskDelivery` |
| `RunDispatchProofs` | theorems about it | |
| `ChatSession` | one chat session: turns, host transfer, metadata, under concurrent requests | |
| `ChatSessionProofs` | theorems about it | |
| `MC*` | values of the constants for TLC | |

`MeshHost` composes the host with the *abstract* ledger. That is justified for a
Postgres deployment by the proved refinement (`PostgresImplementsLedger`), and for
the in-memory queue as long as its calls do not overlap.

Operators whose comment begins with "Variant" are plausible mistakes in the code,
used to show that a property can fail; no specification uses them.

### WorkUnitLedger and WorkUnitPostgres

A row's columns are `status`, `node` and `session`; the uuid is abstracted to the
position in `created_at` order. `origin[u]` remembers which unit's restart
inserted `u` (the code keeps no such column; properties need it).

Each SQL transaction is one action, except the claim: its `SELECT ... FOR UPDATE
SKIP LOCKED` (`ClaimLock`) and its commit (`ClaimCommit`) are two, because the row
lock is visible to others in between; `ReceiveClaim` is the HTTP answer. A report
waits for the lock of its row. `terminate_restart` is `RestartSelect`,
`RestartCancel`, `RestartEnqueue`; others may act between them. `WorkerFault` and
`RestartFault` are aborted transactions, lost answers and crashes; the daemon never
retries and nothing requeues.

### WorkUnitRedis

The Redis queue keeps a JSON record per unit and a list of pending ids. Every
Redis command is one action, and a caller remembers in `read` the record it loaded,
which it writes back *whole* later (`SaveAssigned`, `ReportSave`, `CancelSave`).
`Pop`/`LoadPopped`/`PushBack` are the dequeue loop that returns units of other
sessions to the list, at most as often as the list was long when the loop began
(`attempts`).

### MeshHost

One `Dispatch` is one call of `_run_writers_parallel_dispatch` in its thread. `pc`
follows the function: `set_mode` (a write to the process-wide scheduler), `assign`
(which reads it), `enqueue` stage by stage, the local stages, `wait`, `absorb`,
and per remote stage `read`, with the second wait of
`writer_stage_result_from_mesh` when the unit is not over yet. A local stage's thread
may raise (`LocalStageRaises`), which ends the dispatch in `raised` and leaves its remote
stages to themselves. A worker's claim
and report are the ledger's `Dequeue` and `Complete`; the operator's restart is
three steps as above. `Kept` is what the governor's cap on parallel writers leaves
of the stages. Worker availability is arbitrary: `registered` is chosen freely.

### CampaignDriver

Nothing is stored but events, so the variables are what the driver folds out of
them: the latest backlog event (`stored`, `deps`, `first`, `replanOf`, `replanAt`), the outcome of
`slice.gate` events (`gate`, `streak`, `failures`), the verdict of
`completion.evaluated`, and the terminal events (`ends`). `Status(s)` is
`apply_slice_outcomes`: the last gate overrides what the backlog says. Of `depends_on`
escalation follows the first element only and everything else asks for all, so it is
a set (`deps`) and an element (`first`). The id of a replan slice is
`replan-<replanOf>-<replanAt>`, the failed slice and its streak; a `Replan` whose id was
given before lands on the slice that has it, since gates go by id. `skipped` is history:
an operator's skip deferred a slice. A tick is
`TickStart`/`TickStop`, `GenerateBacklog`, the choice of a slice (`SelectReady`,
`Replan`, `SelectEscalated`, `NothingEligible`, `PlanEvaluate`; a tick revises the backlog
at most once, and `select` is where it chooses after that), its execution
(`RunSlice`; `RunSubdivided`, which is gated under the id of the subdivided plan, so that
no slice of the backlog gets the verdict; or the interjections `BreakSlice`, `SkipSlice`), the assessment
(`Continue`, `GiveUp`, `AssessEvaluate`) and the evaluation (`Evaluate`,
`EvaluateCached`, `Announce`, `AnnounceRun`). Pause, resume and the three appends
of a cancel interleave with all of it. `Resume` stands for `replay-from` too, which
enqueues a tick in the same way. What a slice's gate decides, the completion policy and the
enforcement gate are free choices.

### TaskDelivery and RunDispatch

Tasks are numbered in the order they are sent. LPUSH with BRPOP, and the deque, keep
that order, so the pending list is the *set* of its tasks and its end the smallest.
`job[t]` is the payload: a `verify`, a `verify_shard` of some fan-out, a
`campaign_tick`, or a step no handler knows. `pc[w]` follows `run_worker_loop`:
`Dequeue` (with the in-memory queue's mark under the same lock), `Mark` (the Redis
queue's second command), the handler, `Ack`. A tick is `CampaignDriver`'s whole tick
seen from outside: it may send the next one. A verify is `BeginVerify`, one
`SendShard` per shard, the wait (`ShardsComplete` or `WaitExpires`), `ReadPartial`,
`Merge`, `Clear`; `RunShard` records a result in the bucket whether or not anybody
waits for it. Exit codes are a choice, negative ones included.

`backend` is chosen once: with `memory` only the embedded worker serves the queue and
an `ApiRestarts` empties it. `WorkerDies` stands for a killed process and for any
exception of a handler, since the loop catches none. `Shutdown` sets the stop event,
which `Ack` reads.

`Whereabouts` is the refinement mapping to `TaskDelivery`: a task past `sent` is
unsent, a pending one queued, one in a hand taken, an acked one done, any other lost.

### ChatSession

A handler is a row of `Program`, the list of its store calls; `call[r]` is the request
`r` serves, with its position, target, and what it has read (`host`, `meta`). One store
call, which is one transaction, is one action, and requests interleave between store
calls. Turns are numbered as `append_turn` numbers them under the session's row
lock, and `parent[k]` is what turn k answers. The metadata column is a set of flags:
the freeze of a transfer, a scope that waits or is approved, and `folder` for
everything else it may hold, so that the import's "metadata if there are any" is
told apart. A manifest handed out by accept or export stays in `bundle`. An import is
the nominee's of any transfer that exists, accepted or not, and sends any manifest that
was handed out for any transfer, or one its client has from elsewhere (`Manifest`), since
the handler looks at neither. `finished` is history: the transfers that were completed. `lost` becomes true when a write undoes one it
had not seen. `HandlerFails` ends a handler between two calls.

## 3. Runs

| run | states | checks |
|---|---|---|
| `postgres_safety` | 1,102,500 | type; exclusive claims; the holder is the recorded node; restart leaves no live original; finality; refinement of the ledger; a queued unit of a polled session is claimed or cancelled |
| `redis_safety` | 336,483 | an id is in one place; a queued record is reachable unless a fault lost it; a report is credited to its reporter |
| `redis_restart` | violation | restart does *not* keep original and replacement apart |
| `mesh_host` | 413,499 | a stage passes by its latest unit only; undisturbed passes merged; host_only enqueues nothing; every remote stage is read; every dispatch ends |
| `mesh_host_merge` | violation | a pass without a merge |
| `mesh_host_mode` | violation | a host_only session's stage becomes remote |
| `campaign` | 599,125 | explained stops; dependencies first; completed is delivered; pause heeded; revisions help unless a slice was skipped; comes to rest unless a slice is stuck or subdivided over and over |
| `campaign_resume` | violation | resume of a paused campaign stops at once |
| `campaign_rerun` | violation | the ancestor of a failed slice is run again right after it passed |
| `run_dispatch` | 1,134,112 | refinement of `TaskDelivery`; the in-flight hash is explained; verdicts are sound; the stop event is heeded; the queue drains |
| `run_dispatch_redelivery` | violation | a task whose worker is gone is *not* delivered again |
| `chat_session` | 3,407,184 | branches are asked for; transfers agree on the host; a freeze ends unless an update was lost |

**Bounds.** *Queues*: three units (two for Redis), two workers of which one polls a
session and one any session, two operators, one fault. Exclusivity and lineage
involve two workers and one unit, or a unit, its replacement and the replacement's
replacement; two operators can restart the same unit. The order of claims matters
with two queued units. One fault per behaviour strands a unit at any point.
*Host*: one session that shares two stages of which the cap keeps one, one
host_only session, a worker, one restart; `MaxUnits` has a unit for every stage and restart
(`RoomAssumption`), so that it never holds a dispatch up. Interference needs exactly two
dispatches; a superseded unit needs one restart. *Campaign*: a diamond of four
slices with room for two replans, the default limit of five failures, two operator
requests (enough for pause and resume, for a skip before a cancel) and one lost
tick; the violation runs use two slices. *Dispatch*: the embedded worker and one CLI
worker; two requests of the API, which make a verify beside a verify, a tick or an
unknown step; two shards, the least that can disagree; an exit code of each sign that
the merge distinguishes (-9 counts as pass, 1 as failure); two ticks, so that one
sends the other; one fault. `MaxTasks` has room for every task these can make
(`DispatchAssumption`), so that it never holds anybody up. *Chat*: two requests at a
time and five in all: two transfers can be requested and accepted, or imported
without, and a fifth request can be served half way meanwhile; besides the manifests
handed out, one from elsewhere that carries a freeze flag and the creator's name (with
`MaxCalls` at four, all manifests of the three users with and without the flag were
checked by hand; the theorems have any); a creator and two users he may nominate, who
are interchangeable like the two requests (`MCSymmetry`); one handler that fails.
All bounds are constants that appear in guards (`MaxUnits`, `MaxFaults`,
`MaxRestarts`, `MaxSlices`, `MaxOps`, `MaxTasks`, `MaxRequests`, `MaxTicks`,
`MaxCalls`, `MaxTransfers`). When
`MaxSlices` is exhausted a further replan stays undone: the driver waits in "plan",
which no property takes for a stop. Deadlock is not checked where the system may
rest (empty queue and used-up bounds, a campaign that ended); in `MeshHost` it is,
with an explicit step for the end of all dispatches.

**Fairness.** `postgres_safety`: weak fairness of each worker's loop, which polls for
ever (`run_worker_cli`), and whose stage and SQL end. No fairness of hosts or
operators. `mesh_host`: weak fairness of the host thread only; its waits end at
their deadline whatever the workers do. `campaign`: weak fairness of the worker loop
that takes ticks; that a loop ended by a fault is started again is an assumption about
the deployment, not something the code does. Operators and the duration limit are
not fair. `run_dispatch`: weak fairness of each worker's own loop (`Progress`): it polls,
its handlers end, its wait for a fan-out has a deadline. A dead worker need not come
back, which is why `QueueDrains` allows for nobody being up; `InFlightIsRedelivered`
is refuted under the same fairness, for behaviours in which a worker stays up, with one
request, tick and fault. `chat_session` states no
fairness: all its properties are about safety.

### Disagreements between code and documentation

* **Redis restart** (`redis_restart`). `dequeue` and `complete` write back the record
  they loaded; a restart's cancellation in between is undone and both units run. The
  Postgres queue has the guard and is proved free of this.
* **Late completion is passed, not merged** (`mesh_host_merge`). A unit that finishes
  after `absorb_completed_mesh_units` counts as passed through the second wait, but
  its files and events never reach the host.
* **Shared scheduler mode** (`mesh_host_mode`). Another dispatch's `set_mode` turns a
  host_only session's stages remote; nothing is enqueued for them (which
  `HostOnlyStaysHome` checks), so they time out and fail.
* **Resume** (`campaign_resume`). `campaign.paused` is treated as an end and resume
  appends nothing that would lift it.
* **Escalation** (`campaign_rerun`). Once a slice has failed twice, its ancestor or its
  replan slice is run in every tick, for its streak never changes any more. Escalation
  never gets beyond the first ancestor, and the limit of consecutive failures never
  applies because each pass resets it; only the duration limit ends it.
  `RestsUnlessStuck` says that besides a slice that is subdivided in every tick this is the
  only way not to come to rest.
* **Delivery** (`run_dispatch_redelivery`). The run-dispatch runbook calls tasks
  at-least-once, in the in-flight hash until `ack`. Nothing ever reads that hash to
  deliver a task again, so delivery is at most once, which is what `TaskDelivery` says
  and `run_dispatch` checks. A lost task stays in the hash for ever and counts in the
  fleet's backpressure (`orchestrator/fleet/worker.py`).

Met while modelling, without a run of their own (the models contain the behaviour and
no property contradicts it):

* *Skip.* `docs/operator-interjection-slo.md` says that `[skip]` defers the current slice.
  The slice to defer is chosen from the stored backlog (`slice/interjection.py:367`), in
  which passed slices are still pending: a skip marks the first of those, whose gate
  outcome hides it, and the slice of the tick is run by the next tick after all.
* *Subdivision.* When a slice's diff exceeds its budget the plan is subdivided, and
  `slice.gate` carries the id of what is left of it, `<slice>-r<n>` (`slice/diff.py:185`,
  `_pipeline/micro_slice.py:177`). `apply_slice_outcomes` goes by that id, so the slice in
  the backlog stays pending though it passed, and every further tick runs it again. Only
  a run without subdivision, or the end of the campaign, gets past it.
* *Local stages.* When a local stage's thread raises, `asyncio.gather` passes that on and
  the dispatch is over: its remote units stay in the queue, are executed, and nobody
  merges or reads them.
* *Workers.* The embedded thread ends with the first exception of a handler and is
  never restarted. While idle it does not see its stop event; `StopIsHeeded` bounds
  what it may still take by one task. A single worker that verifies waits for its own
  shards until the deadline (`QueueDrains` shows that it gets free again).
* *Shards.* A verifier killed by a signal has a negative code and passes
  (`verifiers.py:276` takes the maximum with 0). A shard that reports late makes a
  cleared bucket again.
* *Freeze.* No code reads `transfer_frozen` or calls `session_is_frozen`, although ADR
  026 says that accept freezes turns, claims and work units in flight. The flag is
  bookkeeping only, and `FreezeEnds` is about that. Accept and complete do not look at
  the status: an accept after a decline or a completion freezes again, and one whose
  flag is written after the completion leaves the flag for good (`lost`).
* *Import.* `docs/compute-mesh.md` has the target accept, which freezes the session and
  makes the manifest, and then import, and ADR 026 has a declined request leave the host
  unchanged. The handler (`api/routes/chat_collab.py:383`) asks only that the caller is the
  transfer's nominee: an import completes a transfer that is pending or declined just as
  well, and makes the nominee host. So the models claim no consent;
  `HostIsRightful` says that whatever is completed at once leaves the nominee of one
  of the completed transfers, and never the host a manifest names. An import that fails
  after its first call does leave that one. An import also writes back the whole metadata of
  its manifest, so that what changed since (a scope's approval, say) is undone. The
  expiry of a nomination is stored and never checked.
* *Active leaf.* `set_active_leaf` checks for a branch tip in one transaction and moves
  the leaf in another: a message in between makes the target an inner turn.
* *Replan ids.* A replan slice is named after its failed slice and the streak
  (`failure_escalate.py:165`), and only a replan still pending keeps another from being
  inserted. After a skip has deferred the first replan, the failed slice is retried as the
  ancestor of its failed dependents; at a streak of four it is replanned again, and once that
  replan has passed it is replanned at four once more, under an id whose gate has passed. The
  "pending replan slice" of the docstring is then not pending, and every further tick prepends
  one more. TLC finds this on a chain of four slices with `MaxSlices = 6`, `MaxFail = 12` (the
  policy allows 1 to 50) and one skip, as a counterexample to `RevisionsHelp` without its
  `~skipped`; that it takes a skip is the theorem `RevisionsAreNew`.
* *Ids of replans* are found by the prefix `replan-<slice>-`, so that a slice `a-1` may be
  taken for having the open replan of `a-1-b`. The model keeps the slice a replan is for.
* *Role claims.* The append of a claim follows a check of the log, so two claims of one
  role at once can both succeed; `docs/collaborative-chat.md` promises a 409. Not
  modelled, see section 5.

## 4. Proofs

**WorkUnitPostgres**, for any number of units, workers, operators, sessions and
faults, from the four named assumptions of the module. `IInv` is inductive and
strengthens the type invariant by: rows are numbered without gaps (`RowsInOrder`),
a busy worker's row exists (`TaskExists`), a locked row is queued and locked by one
transaction (`LocksExclusive`), a claimed row has left the queue in its holder's
name (`ClaimsRecorded`), an operator past its cancellation has a finished target
(`TargetEnded`). Exclusivity alone is not inductive: that a second worker cannot
commit a claim of a row somebody holds follows from the lock being exclusive *and*
from a claimed row not being queued. From `IInv` follow

* `TypeCorrect`, `ExclusiveClaims`, `RecordedHolder` (the holder of a unit is the
  recorded node, from `ClaimsRecorded`), `RestartsAreSerial` (by `TargetEnded` at the insertion and
  the guard of `complete` afterwards),
* `Finality`: no step changes the status of a finished unit,
* `PostgresImplementsLedger`: initial states map to initial states and each action
  to `Enqueue`, `Dequeue`, `Complete` or a stutter.

**CampaignDriver**, for every backlog and any number of requests and faults.
`PauseHeeded`: the invariant `HeededInv` adds to the bound on `late` that after a
late gate the campaign has ended and the worker is past `plan`, `select` and
`execute`, so another gate needs another `TickStart`, which an end forbids. `CompletionDelivered`:
`DeliveredInv` adds that a PASS verdict settles the backlog for good, whatever tick
is still taken after a crash between verdict and announcement: with nothing
pending or failed no slice is ever selected again.

The backlog has an invariant of its own, in `CampaignBacklogProofs`. `BacklogShape`: the
backlog lists what a slice depends on before it (`Before`), replans being prepended, and
`first` is one of `deps`. `GatesInOrder`: a slice that was run had all its planned
dependencies run before it. `StreaksAreFails`: exactly the failed slices have a streak. From it

* `TypeCorrect`: an escalation ends at a slice. `WalkBack` is a recursive function on
  `0 .. n`; that such a function exists and stays among the slices is shown once, by the
  least number of steps at which it would not (`WalkExists`, `WalkBackStays`);
* `RunsAfterDependencies`: what is selected may be run (`CurrentHasDeps`). For a ready slice
  that is its definition; for an escalation, the target was run before, or depends on
  nothing (`TargetInOrder`);
* `RevisionsAreNew` and `ReplannedOnce`: `FewFails`, that without a skip no streak exceeds
  `FailsPerLevel`. The first failed slice in backlog order is then a head (`HeadsExist`), its
  first dependency is run in its place at that streak, and only a slice without
  dependencies is replanned (`RootsAreReplanned`), which its replan then is;
* `StopsHaveReasons`: when slices are pending but none is ready or failed, the first of them
  in backlog order waits for a deferred one (`DeferralBlocks`), and a reason once there
  lasts (`ReasonLasts`).

The proof corrected the model and the claim. That no slice is replanned twice had been
checked on one instance and stated of all; it fails for longer chains once an operator
skips, which is how the collision of ids was found.

**WorkUnitRedis**, for any number of units, workers, hosts, operators, sessions and faults.
`IInv` says where the id of a unit may be. `HandsExclusive`, `ListExclusive` and
`PushExclusive`: in one worker's hands, at one position of the list, or with one caller who
is about to push it, and in no two of them. That needs `IdsSaved` (an id that is anywhere
has a record, so a new one is nowhere) and `Busy` (who holds an id is in the step that
says so). `QueuedHasPlace` is the reverse for queued records while no fault has happened,
and `ReporterRecorded` says that the record a worker has read for its report names it:
nobody else can take the unit meanwhile, since its id is in that worker's hands. Hence
`NeverDeliveredTwice`, `QueuedStaysReachable` and `ReportsAreCredited`. What the queue does
not keep, a cancelled unit cancelled, is the violation `redis_restart`.

**MeshHost**, for any dispatches, stages, caps, workloads, workers and restarts, over the
ledger. `IInv` follows a dispatch through its phases: units belong to remote stages of a
dispatch past its assignment (`JobsRemote`), results are empty until the read loop
(`UnreadUntilAbsorbed`) and complete behind it (`ReadInTurn`), and within the deadline a
stage the wait no longer visits has a finished unit (`WaitedFor`), which the absorb merges
unless a restart has put another over it (`MergedOrSuperseded`). Hence `PassesRest` (an
action property: what `Record` writes comes from `LatestUnit`, which `MaxOfUnits` and
`LatestIsUnit` show to be the greatest of the stage's units),
`PassesMerged`, `HostOnlyKept` and `EveryStageRead`.

**RunDispatch**, for any number of workers, shards, tasks and faults, from
`DispatchAssumption`. `IInv` is checked by TLC on the bounds of the run and proved inductive.

* `TaskInv`: a task is in one place. It is pending, in one worker's hand, acked, or
  nowhere, and a hand is full exactly from the dequeue to the ack. In flight is what is
  in a hand past the mark, or lost. With the types this gives `InFlightExplained` and
  the refinement `DispatchImplementsDelivery`: `Places` says what `Whereabouts` is in
  such a state, and each step moves one task (`OneMoves`), none (`SamePlaces`), or
  loses some (`FaultDelivers`). First in first out needs no more than that tasks are
  numbered as they are sent and the smallest pending one is taken.
* `LateInv`: once the embedded worker has taken a task after its stop event, it is on its
  way to the `Ack` that sees the event, and what it carries is no unknown step, whose
  handling would skip that look. Hence `StopHeeded`.
* `ShardInv` and `VerdictInv`: a verdict could become unsound *after* it was given, if a
  shard reported twice. So the invariant says that each shard of a fan-out is sent
  once, only after its verify task was taken to run, and reports only while it was not
  run; and that a bucket holds nothing that was not reported, and all of it where a
  merge begins without an expired deadline (`AllPresent`: as many results as shards are
  all of them). Hence `VerdictsSound`.

**ChatSession**, for any number of users, requests, turns and transfers. A handler is a
sequence of store calls, so the first lemma, `ProgramTable`, says which handler is at
which of its calls when it makes a given store call, and `TypeInv` that every request in
progress is within its handler and has a target that exists (`CallFits`). On it rest

* `BranchesAsked`, by `TreeInv`: nobody has answered the active leaf unless a user went
  back to it (`LeafIsNew`), so that what a message answers has no answer yet or is asked for;
* `RightfulHost`, by `SeatInv`: whenever the host is not the nominee of a completed
  transfer, be it that a manifest's host was restored or that the first transfer has
  just been completed, there is a handler that will seat its nominee (`SeatDue`), unless
  one failed; and a handler about to seat has completed its transfer. It needs nothing of
  the manifests, which are any;
* `FreezesEnd`, by `FreezeInv`: a freeze flag without a frozen transfer has a handler
  that will take it away (`ThawDue`), or an update was lost, or a handler failed.

With these every safety property of a passing run is a theorem. Left to TLC is liveness
(`QueuedIsServed`, `HostNeverHangs`, `RestsUnlessStuck`, `QueueDrains`), which with ENABLED
and fairness is out of the prover's reach, and of course the violations. The proofs use no
assumption but the named ones on constants, which TLC evaluates in every run.

## 5. Not modelled

* The broker route (`NIMBUSWARE_BROKER_COMPUTE`): the queue is then an external
  system. The node registry: nodes are never marked offline by themselves.
* Threads inside the in-memory queue, whose `dequeue` reads and replaces a record
  without a lock.
* Reports with a status a daemon never sends (`queued`, `running`): the API accepts
  them. Claims in order of client clocks are taken to be in order of insertion.
* The campaign-slice and critic variants of the mesh wait; parallel slices;
  maintenance, council and factory passes that add slices (every fifth passed slice
  by default, beyond the instance checked); patch and build interjections (a build also
  starts a campaign, whose tick comes on top, `slice/interjection.py:149`); the
  deferral of ticks under resource pressure, which enqueues the tick again and
  changes nothing; synchronous ticks without a dispatch queue.
* What one slice does (plan, patch, verify, gate): its outcome is a choice. Gate
  overrides, the dev-environment supervisor, the IDE bridge.
* Of dispatch: `stats`, heartbeats and the fleet's scaling, which read only; the expiry of
  a result bucket after an hour; the payload of tasks beyond step, fan-out and shard.
* Of imports: a manifest of another session, which restores that one; one without a
  host or a session id, which restores less or fails before it writes.
* Of chat: role claims and their hand-over, the routing of a message to a run and the
  start of a run from a session, folders, tags, search, titles, the expiry of a
  nomination, the in-memory and Redis stores for tests and single processes.
* CRUD handlers, UIs, model providers, git and file contents. They make up most of the
  repository's lines, together with the installers and the scripts that split
  modules: code without shared state that a model checker would tell more about than a
  unit test.

## 6. Plan

1. Done: ledger, both durable work-unit queues, mesh host, campaign driver, run dispatch
   with the verify fan-out, chat session with host transfer; the two abstract
   specifications and their refinements.
2. The in-memory work-unit queue under threads as a second detailed queue against the
   ledger; role claims as a further program of `ChatSession`, with the run's log.
3. Several campaigns of one project (the limit of one active campaign per project) and
   two executors of one campaign, for the revisions of the backlog.
4. Proofs: done for every safety property of the passing runs. Next: that the ledger itself
   is final and keeps restarts serial, so that `MeshHost` inherits it for any queue that
   implements the ledger; properties of the modules of items 2 and 3 as they come.

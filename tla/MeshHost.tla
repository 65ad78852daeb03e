------------------------------ MODULE MeshHost ------------------------------
(***************************************************************************)
(* The host's side of a mesh dispatch: a run's parallel writer stages are  *)
(* assigned to the host or to the session's nodes, the remote ones become  *)
(* work units, and the host waits for them, merges what the workers sent   *)
(* back and reads one result per stage.                                    *)
(*   writers_parallel.py    the dispatch (_run_writers_parallel_dispatch)  *)
(*   pipeline_hook.py       assignment and enqueueing                      *)
(*   scheduler.py           the process-wide MeshScheduler                 *)
(*   mesh_host_sync_legacy.py   wait, absorb, result                       *)
(* The queue is WorkUnitLedger, which WorkUnitPostgres implements.         *)
(* Dispatches of different runs are threads of one host process; workers   *)
(* and the operator who restarts units reach the queue through the API.    *)
(***************************************************************************)
EXTENDS Integers, FiniteSets, FiniteSetsExt

CONSTANTS Dispatch,      \* one dispatch of writers, each of a run of its own
          Stage,         \* the writer stages there are
          Stages,        \* Stages[d]: the stages d dispatches
          Kept,          \* Kept[d]: those left after the parallel-writers cap
          Workload,      \* Workload[d]: workload_distribution of d's session
          Worker, NoNode,
          Reports,       \* what workers report: status and verifier's verdict
          MaxUnits,      \* bound on work units
          MaxRestarts    \* bound on terminate-restart calls

Mode == {"host_only", "auto_share"}

\* Where a dispatch can be besides waiting for one stage again, when it is at
\* that stage's name.
Label == {"set_mode", "assign", "enqueue", "wait", "absorb", "read", "done",
          "raised"}

ASSUME DispatchAssumption ==
    /\ Stages \in [Dispatch -> SUBSET Stage]
    /\ Kept \in [Dispatch -> SUBSET Stage]
    /\ \A d \in Dispatch : Kept[d] \subseteq Stages[d]
    /\ Workload \in [Dispatch -> Mode]
    /\ Reports \subseteq {<<"ok", "pass">>, <<"ok", "fail">>, <<"failed", "fail">>}
    /\ Stage \cap Label = {}
    /\ MaxUnits \in Nat /\ MaxRestarts \in Nat

\* There is a unit for every stage and every restart, so that the bound on
\* units never keeps a dispatch waiting.
ASSUME RoomAssumption ==
    MaxUnits >= MapThenSumSet(LAMBDA d : Cardinality(Stages[d]), Dispatch) + MaxRestarts

\* Units are numbered by created_at: every enqueue happens on this host.
Unit == 1..MaxUnits
NoUnit == 0

VARIABLES
    status, node,   \* the queue (WorkUnitLedger)
    job,            \* job[u]: the dispatch (run_id) and stage_name of unit u
    payload,        \* payload[u]: what its result says: "pass", "fail", "none"
    mode,           \* MeshScheduler.mode, one variable for the whole process
    registered,     \* registered[d]: the scheduler has nodes for d's session
    pc,             \* pc[d]: where d is in _run_writers_parallel_dispatch
    remote,         \* remote[d]: remote_stage_names(assignments)
    todo,           \* todo[d]: stages the current loop has still to visit
    result,         \* result[d][s]: the WriterStageResult's verdict ("local" for
                    \* whatever a stage that ran here returned), or "none"
    absorbed,       \* units whose events and files were merged on the host
    late,           \* history: dispatches that hit a wait deadline
    op, restarts    \* the operator's terminate-restart call; calls made

queueVars == <<status, node, job, payload>>
hostVars  == <<mode, registered, pc, remote, todo, result, absorbed, late>>
opVars    == <<op, restarts>>
vars      == <<queueVars, hostVars, opVars>>

Queue == INSTANCE WorkUnitLedger WITH status <- status, node <- node

NoJob == [run |-> "none", stage |-> "none"]
Idle  == [pc |-> "idle", unit |-> NoUnit]

Init == /\ Queue!Init
        /\ job = [u \in Unit |-> NoJob]
        /\ payload = [u \in Unit |-> "none"]
        /\ mode = "host_only"
        /\ registered = [d \in Dispatch |-> FALSE]
        /\ pc = [d \in Dispatch |-> "set_mode"]
        /\ remote = [d \in Dispatch |-> {}]
        /\ todo = [d \in Dispatch |-> {}]
        /\ result = [d \in Dispatch |-> [s \in Stage |-> "none"]]
        /\ absorbed = {}
        /\ late = {}
        /\ op = Idle
        /\ restarts = 0

-----------------------------------------------------------------------------
(* What every part reads from the queue.                                   *)

Created == {u \in Unit : status[u] # "absent"}

UnitsOf(d, s) == {u \in Created : job[u] = [run |-> d, stage |-> s]}

\* Variant: the stage's first unit, which a restart supersedes.
OldestUnit(d, s) ==
    IF UnitsOf(d, s) = {} THEN NoUnit ELSE Min(UnitsOf(d, s))

\* _latest_unit(): the stage's unit created last, or none.
LatestUnit(d, s) ==
    IF UnitsOf(d, s) = {} THEN NoUnit ELSE Max(UnitsOf(d, s))

IsOver(u) == u # NoUnit /\ status[u] \in Queue!Terminal

\* A fresh record for job j: enqueue() of the queue.
EnqueueJob(j) ==
    LET u == Cardinality(Created) + 1
    IN  /\ u \in Unit
        /\ Queue!Enqueue(u)
        /\ job' = [job EXCEPT ![u] = j]

Goto(d, label) == pc' = [pc EXCEPT ![d] = label]

-----------------------------------------------------------------------------
(* Assignment: mesh_assign_parallel_stages.                                *)

\* set_mode() and, when the session has nodes online, register_session_nodes();
\* what an earlier dispatch of the session registered stays registered.
SetMode(d) ==
    /\ pc[d] = "set_mode"
    /\ mode' = Workload[d]
    /\ \E known \in BOOLEAN : registered' = [registered EXCEPT ![d] = known]
    /\ Goto(d, "assign")
    /\ UNCHANGED <<queueVars, opVars, remote, todo, result, absorbed, late>>

\* MeshScheduler.assign() reads the shared mode and the registered nodes.
\* A stage claimed by a user without a node stays local.
Assignable(d) == IF mode = "host_only" \/ ~registered[d] THEN {} ELSE Stages[d]

\* Variant: everything the scheduler assigned away is enqueued.
AssignUnguarded(d) ==
    /\ pc[d] = "assign"
    /\ \E claimedAway \in SUBSET Assignable(d) :
           LET away == Assignable(d) \ claimedAway
           IN  /\ remote' = [remote EXCEPT ![d] = away]
               /\ todo' = [todo EXCEPT ![d] = away]
    /\ Goto(d, "enqueue")
    /\ UNCHANGED <<queueVars, opVars, mode, registered, result, absorbed, late>>

\* Nothing is enqueued for a host_only session, whatever assign() answered.
Assign(d) ==
    /\ pc[d] = "assign"
    /\ \E claimedAway \in SUBSET Assignable(d) :
           LET away == Assignable(d) \ claimedAway
           IN  /\ remote' = [remote EXCEPT ![d] = away]
               /\ todo' = [todo EXCEPT ![d] =
                      IF Workload[d] = "host_only" THEN {} ELSE away]
    /\ Goto(d, "enqueue")
    /\ UNCHANGED <<queueVars, opVars, mode, registered, result, absorbed, late>>

EnqueueStage(d) ==
    /\ pc[d] = "enqueue"
    /\ \E s \in todo[d] :
           /\ EnqueueJob([run |-> d, stage |-> s])
           /\ todo' = [todo EXCEPT ![d] = @ \ {s}]
    /\ UNCHANGED <<payload, opVars, mode, registered, pc, remote, result,
                   absorbed, late>>

\* The kept stages that are not remote run here; with no remote stage there
\* is nothing left to do.
RunLocalStages(d) ==
    /\ pc[d] = "enqueue"
    /\ todo[d] = {}
    /\ result' = [result EXCEPT ![d] =
           [s \in Stage |-> IF s \in Kept[d] \ remote[d] THEN "local" ELSE @[s]]]
    /\ todo' = [todo EXCEPT ![d] = remote[d]]
    /\ Goto(d, IF remote[d] = {} THEN "done" ELSE "wait")
    /\ UNCHANGED <<queueVars, opVars, mode, registered, remote, absorbed, late>>

\* A local stage's thread raises: run_parallel_writer_group() passes that on, the
\* dispatch is over, and nobody waits for its remote stages.
LocalStageRaises(d) ==
    /\ pc[d] = "enqueue"
    /\ todo[d] = {}
    /\ Kept[d] \ remote[d] # {}
    /\ Goto(d, "raised")
    /\ UNCHANGED <<queueVars, opVars, mode, registered, remote, todo, result,
                   absorbed, late>>

-----------------------------------------------------------------------------
(* Waiting, merging and reading the results: mesh_host_sync.               *)

\* Variant: a stage is no longer waited for once it has a unit.
PollCreated(d) ==
    LET over == {s \in todo[d] : LatestUnit(d, s) # NoUnit}
    IN  /\ pc[d] = "wait"
        /\ over # {}
        /\ todo' = [todo EXCEPT ![d] = @ \ over]
        /\ Goto(d, IF todo[d] = over THEN "absorb" ELSE "wait")
        /\ UNCHANGED <<queueVars, opVars, mode, registered, remote, result,
                       absorbed, late>>

\* One round of wait_for_mesh_units' loop that finds a stage over.
Poll(d) ==
    LET over == {s \in todo[d] : IsOver(LatestUnit(d, s))}
    IN  /\ pc[d] = "wait"
        /\ over # {}
        /\ todo' = [todo EXCEPT ![d] = @ \ over]
        /\ Goto(d, IF todo[d] = over THEN "absorb" ELSE "wait")
        /\ UNCHANGED <<queueVars, opVars, mode, registered, remote, result,
                       absorbed, late>>

\* Variant: the loop only ends when nothing is pending.
WaitNoDeadline(d) ==
    /\ pc[d] = "wait"
    /\ todo[d] = {}
    /\ Goto(d, "absorb")
    /\ UNCHANGED <<queueVars, opVars, mode, registered, remote, todo, result,
                   absorbed, late>>

\* The wait gives up; its False is ignored by the dispatch.
WaitDeadline(d) ==
    /\ pc[d] = "wait"
    /\ todo' = [todo EXCEPT ![d] = {}]
    /\ late' = late \cup {d}
    /\ Goto(d, "absorb")
    /\ UNCHANGED <<queueVars, opVars, mode, registered, remote, result, absorbed>>

\* Variant: the cap also drops remote stages, whose units are already queued.
AbsorbKept(d) ==
    /\ pc[d] = "absorb"
    /\ absorbed' = absorbed \cup
           {u \in Unit : IsOver(u) /\ \E s \in remote[d] : u = LatestUnit(d, s)}
    /\ todo' = [todo EXCEPT ![d] = remote[d] \cap Kept[d]]
    /\ Goto(d, IF remote[d] \cap Kept[d] = {} THEN "done" ELSE "read")
    /\ UNCHANGED <<queueVars, opVars, mode, registered, remote, result, late>>

\* absorb_completed_mesh_units(): the latest unit of each stage, if over.
Absorb(d) ==
    /\ pc[d] = "absorb"
    /\ absorbed' = absorbed \cup
           {u \in Unit : IsOver(u) /\ \E s \in remote[d] : u = LatestUnit(d, s)}
    /\ todo' = [todo EXCEPT ![d] = remote[d]]
    /\ Goto(d, "read")
    /\ UNCHANGED <<queueVars, opVars, mode, registered, remote, result, late>>

\* Variant: only a reported failure fails the stage.
UnitVerdictUnlessFailed(u) ==
    IF u # NoUnit /\ status[u] # "failed" /\ payload[u] # "fail"
    THEN "pass" ELSE "fail"

\* The WriterStageResult made of unit u ("mesh unit missing" when none).
UnitVerdict(u) ==
    IF u # NoUnit /\ status[u] = "ok" /\ payload[u] = "pass"
    THEN "pass" ELSE "fail"

Record(d, s) ==
    /\ result' = [result EXCEPT ![d][s] = UnitVerdict(LatestUnit(d, s))]
    /\ todo' = [todo EXCEPT ![d] = @ \ {s}]
    /\ Goto(d, IF todo[d] = {s} THEN "done" ELSE "read")

\* writer_stage_result_from_mesh(): a unit that is over, or none at all.
ReadResult(d) ==
    /\ pc[d] = "read"
    /\ \E s \in todo[d] :
           /\ LatestUnit(d, s) = NoUnit \/ IsOver(LatestUnit(d, s))
           /\ Record(d, s)
    /\ UNCHANGED <<queueVars, opVars, mode, registered, remote, absorbed, late>>

\* ... otherwise it waits once more: until the stage's unit is over,
WaitAgain(d) ==
    /\ pc[d] = "read"
    /\ \E s \in todo[d] :
           /\ LatestUnit(d, s) # NoUnit /\ ~IsOver(LatestUnit(d, s))
           /\ Goto(d, s)
    /\ UNCHANGED <<queueVars, opVars, mode, registered, remote, todo, result,
                   absorbed, late>>

\* or its deadline, and then records the status the unit has when read again.
ReadAgain(d) ==
    /\ pc[d] \in Stage
    /\ Record(d, pc[d])
    /\ late' = IF IsOver(LatestUnit(d, pc[d])) THEN late ELSE late \cup {d}
    /\ UNCHANGED <<queueVars, opVars, mode, registered, remote, absorbed>>

HostStep(d) ==
    \/ SetMode(d) \/ Assign(d) \/ EnqueueStage(d) \/ RunLocalStages(d)
    \/ LocalStageRaises(d)
    \/ Poll(d) \/ WaitDeadline(d) \/ Absorb(d)
    \/ ReadResult(d) \/ WaitAgain(d) \/ ReadAgain(d)

-----------------------------------------------------------------------------
(* The other users of the queue.                                           *)

WorkerClaim(u) ==
    /\ \E w \in Worker : Queue!Dequeue(u, w)
    /\ UNCHANGED <<job, payload, hostVars, opVars>>

\* Variant: the status of the report is not validated.
WorkerCompleteAny(u) ==
    /\ status[u] = "assigned"
    /\ \E report \in {<<"ok", "pass">>, <<"done", "pass">>, <<"failed", "fail">>} :
           /\ Queue!Complete(u, report[1])
           /\ payload' = [payload EXCEPT ![u] = report[2]]
    /\ UNCHANGED <<job, hostVars, opVars>>

\* The worker reports ok with its verifier's outcome, or failed.
WorkerComplete(u) ==
    /\ status[u] = "assigned"
    /\ \E report \in Reports :
           /\ Queue!Complete(u, report[1])
           /\ payload' = [payload EXCEPT ![u] = report[2]]
    /\ UNCHANGED <<job, hostVars, opVars>>

\* terminate_and_restart() reads a live unit, cancels it unless it is over
\* by then, and enqueues a clone in any case.
RestartSelect(u) ==
    /\ op = Idle
    /\ restarts < MaxRestarts
    /\ status[u] \in Queue!Live
    /\ op' = [pc |-> "cancel", unit |-> u]
    /\ restarts' = restarts + 1
    /\ UNCHANGED <<queueVars, hostVars>>

RestartCancel ==
    /\ op.pc = "cancel"
    /\ IF IsOver(op.unit) THEN UNCHANGED <<status, node>>
                          ELSE Queue!Complete(op.unit, "cancelled")
    /\ op' = [op EXCEPT !.pc = "enqueue"]
    /\ UNCHANGED <<job, payload, hostVars, restarts>>

RestartEnqueue ==
    /\ op.pc = "enqueue"
    /\ EnqueueJob(job[op.unit])
    /\ op' = Idle
    /\ UNCHANGED <<payload, hostVars, restarts>>

Over(d) == pc[d] \in {"done", "raised"}

AllDone == /\ \A d \in Dispatch : Over(d)
           /\ UNCHANGED vars

Next == \/ \E d \in Dispatch : HostStep(d)
        \/ \E u \in Unit : WorkerClaim(u) \/ WorkerComplete(u) \/ RestartSelect(u)
        \/ RestartCancel \/ RestartEnqueue
        \/ AllDone

Spec == Init /\ [][Next]_vars

\* Some thread of the host that can run does (a dispatch takes finitely many
\* steps); the wait loops end at their deadline.  Nothing is assumed of workers
\* (they may be gone) or of the operator.
FairSpec == Spec /\ WF_vars(\E d \in Dispatch : HostStep(d))

-----------------------------------------------------------------------------
(* Properties.                                                             *)

TypeOK ==
    /\ status \in [Unit -> Queue!Status]
    /\ node \in [Unit -> Worker \cup {NoNode}]
    /\ job \in [Unit -> [run : Dispatch, stage : Stage] \cup {NoJob}]
    /\ payload \in [Unit -> {"none", "pass", "fail"}]
    /\ mode \in Mode
    /\ registered \in [Dispatch -> BOOLEAN]
    /\ pc \in [Dispatch -> Label \cup Stage]
    /\ remote \in [Dispatch -> SUBSET Stage]
    /\ todo \in [Dispatch -> SUBSET Stage]
    /\ result \in [Dispatch -> [Stage -> {"none", "pass", "fail", "local"}]]
    /\ absorbed \subseteq Unit
    /\ late \subseteq Dispatch
    /\ op \in [pc : {"idle", "cancel", "enqueue"}, unit : Unit \cup {NoUnit}]
    /\ restarts \in 0..MaxRestarts

\* When a remote stage passes, the unit of its last restart has passed: a
\* worker has finished it ok and its verifier passed.  A unit that finished
\* before it was superseded does not make the stage pass, nor does one that
\* still runs at a deadline (writer_stage_result_from_mesh and its waits).
PassIsOfLatestUnit ==
    [][\A d \in Dispatch : \A s \in remote[d] :
           result[d][s] # "pass" /\ result'[d][s] = "pass" =>
               \E u \in UnitsOf(d, s) :
                   /\ status[u] = "ok" /\ payload[u] = "pass"
                   /\ \A v \in UnitsOf(d, s) : v <= u]_vars

\* Absent deadlines and restarts, a stage that passed remotely has had its
\* files and events merged: absorb saw the very unit the result was read from.
UndisturbedPassIsMerged ==
    \A d \in Dispatch \ late : \A s \in remote[d] :
        result[d][s] = "pass" /\ Cardinality(UnitsOf(d, s)) = 1
            => UnitsOf(d, s) \subseteq absorbed

\* No work unit leaves the host for a host_only session, even when another
\* session's dispatch has changed the scheduler's mode in between.
HostOnlyStaysHome ==
    \A u \in Created : Workload[job[u].run] # "host_only"

\* Nobody executes a unit whose outcome is not read: a dispatch that did not
\* raise has a result for every stage it enqueued in the end, the ones over the
\* cap included.
NoOrphanedStage ==
    \A u \in Created :
        LET j == job[u]
        IN  pc[j.run] = "done" => result[j.run][j.stage] # "none"

\* A dispatch ends even if no worker ever claims or finishes a unit.
HostNeverHangs == <>(\A d \in Dispatch : Over(d))

\* docs/compute-mesh.md: "The host merges both [events and files] via
\* mesh_host_sync.absorb_completed_mesh_units after wait_for_mesh_units",
\* so what passed remotely has been merged.  The code reads results after
\* absorbing, waits again for what is not over, and never absorbs again.
PassIsMerged ==
    \A d \in Dispatch : \A s \in remote[d] :
        result[d][s] = "pass" =>
            \E u \in UnitsOf(d, s) \cap absorbed : payload[u] = "pass"

\* docs/compute-mesh.md: the mesh takes part "when a chat session's
\* workload_distribution is not host_only".  The mode is the scheduler's, not
\* the dispatch's: another dispatch may set it between set_mode and assign.
HostOnlyRunsLocally ==
    \A d \in Dispatch : Workload[d] = "host_only" => remote[d] = {}
=============================================================================

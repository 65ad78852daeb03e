--------------------------- MODULE CampaignDriver ---------------------------
(***************************************************************************)
(* The campaign driver of the orchestrator: the tick that plans, runs one  *)
(* slice of the delivery backlog and assesses it, the queue that feeds it, *)
(* the escalation of failing slices, the completion evaluator, and the     *)
(* operators who pause, resume, cancel and interject meanwhile.            *)
(*                                                                         *)
(* Nothing is stored but events, so the variables are what the driver      *)
(* folds out of them: the latest backlog event (stored, deps, first,       *)
(* replanOf, replanAt), the slice.gate events (gate, streak, failures,     *)
(* lastGate), the last completion.evaluated and the ends that were         *)
(* announced.  A tick is several steps, one per append or per read that    *)
(* decides something, so an operator's event or a crash may fall between   *)
(* any two of them.                                                        *)
(*                                                                         *)
(* One worker takes the ticks, one slice is run per tick, and the backlog  *)
(* has one feature and one surface, kept in the order of slice numbers;    *)
(* a replan slice is prepended, so the highest number comes first.  Of     *)
(* depends_on, escalation reads the first element and everything else asks *)
(* for all of them, so it is kept as a set and its first element.          *)
(***************************************************************************)
EXTENDS Naturals, Sequences, FiniteSets

CONSTANTS Planned,    \* how many slices the generated backlog has
          MaxSlices,  \* bound on the slices, replan slices included
          DependsOn,  \* DependsOn[s]: depends_on of the generated slice s
          MaxFail,    \* max_consecutive_slice_failures of the policy
          MaxOps,     \* bound on operator requests
          MaxFaults   \* bound on lost ticks

FailsPerLevel == 2

Slice == 1 .. MaxSlices

ASSUME SizeAssumption == /\ Planned \in 1 .. MaxSlices
                         /\ MaxSlices \in Nat
                         /\ MaxFail \in Nat \ {0}
                         /\ MaxOps \in Nat
                         /\ MaxFaults \in Nat
\* validate_backlog_dag: dependencies are known slices and form no cycle;
\* slices are numbered along them.
ASSUME DagAssumption == DependsOn \in [1 .. Planned -> Seq(1 .. Planned)]
                        /\ \A s \in 1 .. Planned : \A i \in DOMAIN DependsOn[s] :
                               DependsOn[s][i] < s

VARIABLES stored,    \* slice statuses in the latest backlog event
          deps,      \* depends_on in the latest backlog event, as a set
          first,     \* its first element, or 0
          replanOf,  \* the id of r is replan-<replanOf[r]>-<replanAt[r]>;
          replanAt,  \* both are 0 for a planned slice
          gate,      \* the last slice.gate verdict of each slice
          streak,    \* trailing FAILs of each slice
          failures,  \* trailing FAILs over all slice.gate events
          verdict,   \* verdict of completion.evaluated
          ends,      \* the terminal campaign and run events so far
          ticks,     \* campaign_tick tasks in the queue
          pc,        \* where the worker is in a tick
          current,   \* the slice of this tick, or 0
          passed,    \* what execute_single_micro_slice returned
          cancelling,\* what a cancel request has still to append
          expired,   \* max_campaign_duration_hours are over
          ops,       \* operator requests so far
          faults,    \* ticks lost so far
          lastGate,  \* history: the slice of the last slice.gate event, or 0
          late,      \* history: gates since the campaign first ended
          resumed,   \* history: resumed since it was last paused
          skipped    \* history: an operator skipped (deferred) a slice

backlog == <<stored, deps, first, replanOf, replanAt>>
gates == <<gate, streak, failures, lastGate, late>>
worker == <<pc, current, passed>>
requests == <<cancelling, expired, ops, resumed>>
vars == <<backlog, gates, verdict, ends, ticks, worker, requests, faults, skipped>>

CampaignEnd == {"campaign.completed", "campaign.failed", "campaign.paused"}
RunEnd      == {"run.completed", "run.failed"}
SliceStatus == {"absent", "pending", "passed", "failed", "deferred"}
WorkerStep  == {"idle", "plan", "select", "execute", "assess", "evaluate", "announce", "announce_run"}

TypeOK ==
    /\ stored \in [Slice -> SliceStatus]
    /\ deps \in [Slice -> SUBSET Slice]
    /\ first \in [Slice -> 0 .. MaxSlices]
    /\ replanOf \in [Slice -> 0 .. MaxSlices]
    /\ replanAt \in [Slice -> Nat]
    /\ gate \in [Slice -> {"none", "passed", "failed"}]
    /\ streak \in [Slice -> Nat]
    /\ failures \in Nat
    /\ verdict \in {"none", "PASS", "FAIL", "INCOMPLETE"}
    /\ ends \subseteq CampaignEnd \cup RunEnd
    /\ ticks \in Nat
    /\ pc \in WorkerStep
    /\ current \in 0 .. MaxSlices
    /\ passed \in BOOLEAN
    /\ cancelling \in {"nothing", "campaign", "run"}
    /\ expired \in BOOLEAN
    /\ ops \in 0 .. MaxOps
    /\ faults \in 0 .. MaxFaults
    /\ lastGate \in 0 .. MaxSlices
    /\ late \in Nat
    /\ resumed \in BOOLEAN
    /\ skipped \in BOOLEAN

\* start_campaign has enqueued the first tick; no backlog event exists yet.
Init ==
    /\ stored = [s \in Slice |-> "absent"]
    /\ deps = [s \in Slice |-> {}]
    /\ first = [s \in Slice |-> 0]
    /\ replanOf = [s \in Slice |-> 0]
    /\ replanAt = [s \in Slice |-> 0]
    /\ gate = [s \in Slice |-> "none"]
    /\ streak = [s \in Slice |-> 0]
    /\ failures = 0
    /\ verdict = "none"
    /\ ends = {}
    /\ ticks = 1
    /\ pc = "idle"
    /\ current = 0
    /\ passed = FALSE
    /\ cancelling = "nothing"
    /\ expired = FALSE
    /\ ops = 0
    /\ faults = 0
    /\ lastGate = 0
    /\ late = 0
    /\ resumed = FALSE
    /\ skipped = FALSE

-----------------------------------------------------------------------------
(* What the driver reads out of the events                                 *)

Generated == stored # [s \in Slice |-> "absent"]

\* apply_slice_outcomes: the last gate of a slice overrides its stored status.
Status(s) == IF gate[s] = "none" THEN stored[s] ELSE gate[s]

InBacklog     == {s \in Slice : stored[s] # "absent"}
With(st)      == {s \in InBacklog : Status(s) = st}
Ended         == ends \cap CampaignEnd # {}
Quiet         == pc = "idle" /\ ticks = 0

\* The first slice of a set in backlog order.
First(S) == LET replans == {s \in S : s > Planned}
            IN  IF replans # {} THEN CHOOSE s \in replans : \A t \in replans : t <= s
                                ELSE CHOOSE s \in S : \A t \in S : s <= t

\* Variant: a deferred dependency counts as passed.
ReadyOrDeferred == {s \in With("pending") : deps[s] \subseteq With("passed") \cup With("deferred")}

\* _ready_slices: pending, and every dependency passed.
Ready == {s \in With("pending") : deps[s] \subseteq With("passed")}

\* The same on the backlog as it is stored, without the gates.
StoredReady == {s \in Slice : stored[s] = "pending" /\ \A d \in deps[s] : stored[d] = "passed"}

\* all_slices_terminal: a failed or deferred slice is terminal.
AllTerminal == With("pending") = {}

-----------------------------------------------------------------------------
(* failure_escalate                                                        *)

\* walk_dependency_back: n steps along first dependencies, or to the root.
WalkBack(s, n) ==
    LET back[i \in 0 .. n] ==
            IF i = 0 THEN s
            ELSE LET t == back[i - 1] IN IF first[t] = 0 THEN t ELSE first[t]
    IN  back[n]

\* Failed slices whose dependencies have all passed, or else any failed one.
Candidates == LET heads == {s \in With("failed") : deps[s] \subseteq With("passed")}
              IN  IF heads # {} THEN heads ELSE With("failed")

\* The longest streak; ties, which the code breaks by slice id, are open.
Worst == {s \in Candidates : \A t \in Candidates : streak[t] <= streak[s]}

Depth(s)      == (IF streak[s] = 0 THEN 1 ELSE streak[s]) \div FailsPerLevel
OpenReplan(s) == {r \in With("pending") : replanOf[r] = s}

\* depth > dependency_chain_depth: there are no cycles, so the root is reached
\* in fewer steps than the escalation asks for.
PastRoot(s) == Depth(s) > 0 /\ first[WalkBack(s, Depth(s) - 1)] = 0

\* Variant: one step too few, and the replans already inserted are not looked for.
NeedsReplanAgain(s) == Depth(s) > 0 /\ first[WalkBack(s, Depth(s))] = 0

NeedsReplan(s) == PastRoot(s) /\ OpenReplan(s) = {}
RetryTarget(s) == IF PastRoot(s) /\ OpenReplan(s) # {} THEN First(OpenReplan(s))
                                                      ELSE WalkBack(s, Depth(s))

\* The slice with the id replan-<s>-<streak>: an id given before, or else a
\* new one.
ReplanId(s) ==
    LET given == {r \in InBacklog : replanOf[r] = s /\ replanAt[r] = streak[s]}
    IN  IF given # {} THEN given
        ELSE {r \in Slice \ InBacklog : \A t \in Slice \ InBacklog : r <= t}

-----------------------------------------------------------------------------
(* A tick: plan                                                            *)

Goto(step) == pc' = step

\* A tick of a campaign that has ended, or is over its duration, does nothing.
TickStop ==
    /\ pc = "idle" /\ ticks > 0
    /\ Ended \/ expired
    /\ ticks' = ticks - 1
    /\ UNCHANGED <<backlog, gates, verdict, ends, worker, requests, faults, skipped>>

\* Variant: a paused campaign is planned on.
TickStartPaused ==
    /\ pc = "idle" /\ ticks > 0
    /\ ends \cap {"campaign.completed", "campaign.failed"} = {} /\ ~expired
    /\ ticks' = ticks - 1
    /\ Goto("plan")
    /\ UNCHANGED <<backlog, gates, verdict, ends, current, passed, requests, faults, skipped>>

\* Variant: a dequeue that timed out is taken for a task.
TickStartUnqueued ==
    /\ pc = "idle"
    /\ ~Ended /\ ~expired
    /\ ticks' = ticks - 1
    /\ Goto("plan")
    /\ UNCHANGED <<backlog, gates, verdict, ends, current, passed, requests, faults, skipped>>

TickStart ==
    /\ pc = "idle" /\ ticks > 0
    /\ ~Ended /\ ~expired
    /\ ticks' = ticks - 1
    /\ Goto("plan")
    /\ UNCHANGED <<backlog, gates, verdict, ends, current, passed, requests, faults, skipped>>

\* ensure_backlog, when no backlog event exists.
GenerateBacklog ==
    /\ pc = "plan" /\ ~Generated
    /\ stored' = [s \in Slice |-> IF s <= Planned THEN "pending" ELSE "absent"]
    /\ deps' = [s \in Slice |-> IF s <= Planned THEN {DependsOn[s][i] : i \in DOMAIN DependsOn[s]} ELSE {}]
    /\ first' = [s \in Slice |-> IF s <= Planned /\ DependsOn[s] # <<>> THEN Head(DependsOn[s]) ELSE 0]
    /\ UNCHANGED <<replanOf, replanAt, gates, verdict, ends, ticks, worker, requests, faults, skipped>>

PlanEvaluate ==
    /\ pc = "plan" /\ Generated /\ AllTerminal
    /\ Goto("evaluate")
    /\ UNCHANGED <<backlog, gates, verdict, ends, ticks, current, passed, requests, faults, skipped>>

SelectReady ==
    /\ pc \in {"plan", "select"} /\ Generated /\ Ready # {}
    /\ current' = First(Ready)
    /\ Goto("execute")
    /\ UNCHANGED <<backlog, gates, verdict, ends, ticks, passed, requests, faults, skipped>>

\* revise_backlog_with_replan: a new pending slice the failed one depends on;
\* the statuses written are those with the gates applied.  Where the id was
\* given before, the backlog holds it twice; one slice stands for both, since
\* a gate sets the status of all that have its id.
Replan ==
    /\ pc = "plan" /\ ~AllTerminal /\ Ready = {}
    /\ \E s \in Worst : \E r \in ReplanId(s) :
        /\ NeedsReplan(s)
        /\ stored' = [t \in Slice |-> IF t \in {s, r} THEN "pending" ELSE Status(t)]
        /\ deps' = [deps EXCEPT ![s] = @ \cup {r}]
        /\ first' = [first EXCEPT ![s] = r]
        /\ replanOf' = [replanOf EXCEPT ![r] = s]
        /\ replanAt' = [replanAt EXCEPT ![r] = streak[s]]
    /\ Goto("select")
    /\ UNCHANGED <<gates, verdict, ends, ticks, current, passed, requests, faults, skipped>>

\* A tick revises the backlog at most once; what it selects then, it runs.
SelectEscalated ==
    /\ pc \in {"plan", "select"} /\ ~AllTerminal /\ Ready = {}
    /\ \E s \in Worst : /\ pc = "plan" => ~NeedsReplan(s)
                        /\ current' = RetryTarget(s)
    /\ Goto("execute")
    /\ UNCHANGED <<backlog, gates, verdict, ends, ticks, passed, requests, faults, skipped>>

\* Variant: without an eligible slice the driver tries again.
NothingEligibleContinued ==
    /\ pc = "plan" /\ Generated /\ ~AllTerminal
    /\ Ready = {} /\ With("failed") = {}
    /\ ticks' = ticks + 1
    /\ Goto("idle")
    /\ UNCHANGED <<backlog, gates, verdict, ends, current, passed, requests, faults, skipped>>

\* "no eligible pending slice": the campaign is not continued.
NothingEligible ==
    /\ pc = "plan" /\ Generated /\ ~AllTerminal
    /\ Ready = {} /\ With("failed") = {}
    /\ Goto("idle")
    /\ UNCHANGED <<backlog, gates, verdict, ends, ticks, current, passed, requests, faults, skipped>>

-----------------------------------------------------------------------------
(* A tick: run the slice                                                   *)

\* The slice.gate event of the slice that was run.
RunSlice ==
    /\ pc = "execute"
    /\ \E ok \in BOOLEAN :
        /\ gate' = [gate EXCEPT ![current] = IF ok THEN "passed" ELSE "failed"]
        /\ streak' = [streak EXCEPT ![current] = IF ok THEN 0 ELSE @ + 1]
        /\ failures' = IF ok THEN 0 ELSE failures + 1
        /\ passed' = ok
    /\ lastGate' = current
    /\ late' = IF Ended THEN late + 1 ELSE late
    /\ Goto("assess")
    /\ UNCHANGED <<backlog, verdict, ends, ticks, current, requests, faults, skipped>>

\* The slice's diff exceeds its budget and the plan is subdivided: the gate
\* event carries the id of the subdivided plan, <slice>-r<attempt>, which no
\* slice of the backlog has.  The verdict counts for this tick only.
RunSubdivided ==
    /\ pc = "execute"
    /\ \E ok \in BOOLEAN :
        /\ failures' = IF ok THEN 0 ELSE failures + 1
        /\ passed' = ok
    /\ lastGate' = 0
    /\ late' = IF Ended THEN late + 1 ELSE late
    /\ Goto("assess")
    /\ UNCHANGED <<backlog, gate, streak, verdict, ends, ticks, current, requests, faults, skipped>>

\* A force break interjection: not passed, and no gate event.
BreakSlice ==
    /\ pc = "execute"
    /\ ops < MaxOps
    /\ ops' = ops + 1
    /\ passed' = FALSE
    /\ Goto("assess")
    /\ UNCHANGED <<backlog, gates, verdict, ends, ticks, current, cancelling, expired, resumed, faults, skipped>>

\* A skip interjection: passed without a gate event, after deferring what
\* select_next_slice finds in the backlog as it is stored.
SkipSlice ==
    /\ pc = "execute"
    /\ ops < MaxOps
    /\ ops' = ops + 1
    /\ stored' = IF StoredReady = {} THEN stored
                 ELSE [stored EXCEPT ![First(StoredReady)] = "deferred"]
    /\ skipped' = (skipped \/ StoredReady # {})
    /\ passed' = TRUE
    /\ Goto("assess")
    /\ UNCHANGED <<deps, first, replanOf, replanAt, gates, verdict, ends, ticks, current, cancelling, expired, resumed, faults>>

-----------------------------------------------------------------------------
(* A tick: assess                                                          *)

\* Too many failures in a row: the campaign is not continued.
GiveUp ==
    /\ pc = "assess" /\ ~passed
    /\ failures >= MaxFail
    /\ Goto("idle")
    /\ UNCHANGED <<backlog, gates, verdict, ends, ticks, current, passed, requests, faults, skipped>>

\* Variant: a failed slice ends the chain of ticks.
ContinueIfPassed ==
    /\ pc = "assess"
    /\ IF passed THEN ~AllTerminal ELSE failures < MaxFail
    /\ ticks' = IF passed THEN ticks + 1 ELSE ticks
    /\ Goto("idle")
    /\ UNCHANGED <<backlog, gates, verdict, ends, current, passed, requests, faults, skipped>>

Continue ==
    /\ pc = "assess"
    /\ IF passed THEN ~AllTerminal ELSE failures < MaxFail
    /\ ticks' = ticks + 1
    /\ Goto("idle")
    /\ UNCHANGED <<backlog, gates, verdict, ends, current, passed, requests, faults, skipped>>

AssessEvaluate ==
    /\ pc = "assess" /\ passed /\ AllTerminal
    /\ Goto("evaluate")
    /\ UNCHANGED <<backlog, gates, verdict, ends, ticks, current, passed, requests, faults, skipped>>

-----------------------------------------------------------------------------
(* A tick: evaluate and finalize                                           *)

\* A verdict has been written: it is returned, and nothing is announced.
EvaluateCached ==
    /\ pc = "evaluate" /\ verdict # "none"
    /\ Goto("idle")
    /\ UNCHANGED <<backlog, gates, verdict, ends, ticks, current, passed, requests, faults, skipped>>

\* Variant: failed slices do not block.
VerdictsOfTerminal == IF AllTerminal THEN {"PASS", "FAIL", "INCOMPLETE"} ELSE {"INCOMPLETE"}

\* The verdicts evaluate_completion may come to: PASS needs every slice passed
\* or deferred and the completion policy; the enforcement gate may turn it
\* into FAIL.
Verdicts == IF AllTerminal /\ With("failed") = {} THEN {"PASS", "FAIL", "INCOMPLETE"}
                                                  ELSE {"INCOMPLETE"}

Evaluate ==
    /\ pc = "evaluate" /\ verdict = "none"
    /\ \E v \in Verdicts :
        /\ verdict' = v
        /\ Goto(IF v = "INCOMPLETE" THEN "idle" ELSE "announce")
    /\ UNCHANGED <<backlog, gates, ends, ticks, current, passed, requests, faults, skipped>>

Announce ==
    /\ pc = "announce"
    /\ ends' = ends \cup {IF verdict = "PASS" THEN "campaign.completed" ELSE "campaign.failed"}
    /\ Goto("announce_run")
    /\ UNCHANGED <<backlog, gates, verdict, ticks, current, passed, requests, faults, skipped>>

AnnounceRun ==
    /\ pc = "announce_run"
    /\ ends' = ends \cup {IF verdict = "PASS" THEN "run.completed" ELSE "run.failed"}
    /\ Goto("idle")
    /\ UNCHANGED <<backlog, gates, verdict, ticks, current, passed, requests, faults, skipped>>

\* The tick was popped from the queue and its worker dies or its handler
\* raises: what it has appended stays, the tick is gone.
WorkerFault ==
    /\ pc # "idle"
    /\ faults < MaxFaults
    /\ faults' = faults + 1
    /\ Goto("idle")
    /\ UNCHANGED <<backlog, gates, verdict, ends, ticks, current, passed, requests, skipped>>

-----------------------------------------------------------------------------
(* Operators and time                                                      *)

Request == ops < MaxOps /\ ops' = ops + 1

Pause ==
    /\ Request
    /\ ends' = ends \cup {"campaign.paused"}
    /\ resumed' = FALSE
    /\ UNCHANGED <<backlog, gates, verdict, ticks, worker, cancelling, expired, faults, skipped>>

\* Resume (and replay-from) appends nothing: it enqueues a tick.
Resume ==
    /\ Request
    /\ ticks' = ticks + 1
    /\ resumed' = TRUE
    /\ UNCHANGED <<backlog, gates, verdict, ends, worker, cancelling, expired, faults, skipped>>

\* Cancel appends campaign.paused, campaign.failed and run.failed, in three steps;
\* one cancel is under way at a time.
Cancel ==
    /\ Request
    /\ cancelling = "nothing"
    /\ ends' = ends \cup {"campaign.paused"}
    /\ resumed' = FALSE
    /\ cancelling' = "campaign"
    /\ UNCHANGED <<backlog, gates, verdict, ticks, worker, expired, faults, skipped>>

CancelCampaign ==
    /\ cancelling = "campaign"
    /\ ends' = ends \cup {"campaign.failed"}
    /\ cancelling' = "run"
    /\ UNCHANGED <<backlog, gates, verdict, ticks, worker, expired, ops, resumed, faults, skipped>>

CancelRun ==
    /\ cancelling = "run"
    /\ ends' = ends \cup {"run.failed"}
    /\ cancelling' = "nothing"
    /\ UNCHANGED <<backlog, gates, verdict, ticks, worker, expired, ops, resumed, faults, skipped>>

Expire ==
    /\ ~expired
    /\ expired' = TRUE
    /\ UNCHANGED <<backlog, gates, verdict, ends, ticks, worker, cancelling, ops, resumed, faults, skipped>>

-----------------------------------------------------------------------------

Tick ==
    \/ TickStop \/ TickStart
    \/ GenerateBacklog \/ PlanEvaluate \/ SelectReady \/ Replan \/ SelectEscalated \/ NothingEligible
    \/ RunSlice \/ RunSubdivided \/ BreakSlice \/ SkipSlice
    \/ GiveUp \/ Continue \/ AssessEvaluate
    \/ EvaluateCached \/ Evaluate \/ Announce \/ AnnounceRun

Next ==
    \/ Tick
    \/ WorkerFault
    \/ Pause \/ Resume
    \/ Cancel \/ CancelCampaign \/ CancelRun
    \/ Expire

Spec == Init /\ [][Next]_vars

\* The worker loop takes the next tick and carries it on.
FairSpec == Spec /\ WF_vars(Tick)

-----------------------------------------------------------------------------
(* Properties                                                              *)

\* A campaign whose queue has run dry without an accident has a reason the
\* operator can see: it ended, was judged incomplete, failed too often, ran
\* out of time, or waits for a slice that was deferred.  The chain of ticks
\* (should_continue and the re-enqueue) never just breaks.
StoppedIsExplained ==
    Quiet /\ faults = 0 =>
        \/ Ended
        \/ verdict = "INCOMPLETE"
        \/ failures >= MaxFail
        \/ expired
        \/ \E s \in With("pending") : deps[s] \cap With("deferred") # {}

\* A slice is run for the first time only when all it depends on has passed
\* its gate, however the backlog was revised and retried before.
DependenciesFirst ==
    [][\A s \in Slice : gate[s] = "none" /\ gate'[s] # "none"
           => deps[s] \subseteq With("passed")]_vars

\* run.completed and campaign.completed are announced only over a backlog in
\* which every slice passed or was deferred, and it stays so.
CompletedIsDelivered ==
    ends \cap {"campaign.completed", "run.completed"} # {} =>
        InBacklog = With("passed") \cup With("deferred")

\* A pause, a cancel or an end stops the campaign: of all slices only the one
\* in flight may still be run, whoever enqueues further ticks.
PauseIsHeeded == late <= 1

\* Some failed slice has a pending replan as its first dependency.
ReplanInserted == \E s \in Slice : first[s] \in OpenReplan(s)

\* Unless an operator skipped a slice, a revision of the backlog brings a slice
\* that is yet to be run: no slice is replanned twice, so the ids of replan
\* slices (replan-<slice>-<streak>) never collide and the tick gets on.
RevisionsHelp == pc = "select" /\ ~skipped => ReplanInserted

\* The campaign comes to rest after finitely many ticks, unless a slice fails
\* twice in a row or the plan of a slice is subdivided over and over.
RestsUnlessStuck ==
    [](\A s \in Slice : streak[s] < FailsPerLevel)
        => <>[]Quiet \/ []<><<RunSubdivided>>_vars

\* mcp/tool_specs.py "Resume a paused campaign.": a tick that starts after an
\* operator resumed a campaign that is merely paused goes on with it.
ResumeContinues ==
    [][ticks' < ticks /\ resumed /\ ends = {"campaign.paused"} /\ ~expired
           => pc' = "plan"]_vars

\* failure_escalate.py "Pick retry target for a failed head slice": the slice
\* whose gate passed last is not run again at once instead of a failed one.
NoImmediateRerun ==
    pc = "execute" /\ lastGate # 0 => ~(current = lastGate /\ gate[current] = "passed")
=============================================================================

----------------------------- MODULE RunDispatch ----------------------------
(***************************************************************************)
(* The run-dispatch queue, the workers that serve it, and the verify       *)
(* fan-out, whose handler sends three tasks to the queue it was taken from *)
(* and waits for their results.                                            *)
(*   run_dispatch.py        InMemoryRunQueue, RedisRunQueue                *)
(*   run_worker.py          run_worker_loop, the embedded worker           *)
(*   verify_fanout.py       shards, their results, the merged verdict      *)
(*   lifecycle_verify.py    the verify task                                *)
(*   campaign_dispatch.py   campaign ticks, each of which sends the next   *)
(* Each Redis command, and each call under the in-memory queue's lock, is  *)
(* one step.  Tasks are numbered in the order they are sent, which is the  *)
(* order LPUSH and BRPOP, or the deque, keep them in: the pending list is  *)
(* the set of its tasks and its end is the smallest of them.               *)
(***************************************************************************)
EXTENDS Integers, Sequences, FiniteSets

CONSTANTS Worker,       \* worker loops: the CLI's processes and Embedded
          Embedded,     \* the thread in the API's process (EMBED_DISPATCH_WORKER)
          ShardNames,   \* VERIFIER_SHARD_NAMES, in the order they are sent
          Code,         \* exit codes of a verifier; a signal's are negative
          NoCode,       \* the code of a shard without a result
          MaxTasks,     \* bound: tasks that are ever sent
          MaxRequests,  \* bound: tasks the API sends
          MaxTicks,     \* bound: campaign ticks that are ever sent
          MaxFaults     \* bound: deaths of workers, shutdowns and crashes of the API

\* A request is at most a verify with its shards; a tick sends one tick: there
\* is room for every task, and MaxTasks keeps nobody waiting.
ASSUME DispatchAssumption ==
    /\ Embedded \in Worker
    /\ ShardNames # <<>> /\ ShardNames \in Seq(STRING)
    /\ \A i, k \in DOMAIN ShardNames : ShardNames[i] = ShardNames[k] => i = k
    /\ Code \subseteq Int /\ NoCode \notin Int
    /\ MaxTasks \in Nat /\ MaxRequests \in Nat /\ MaxTicks \in Nat /\ MaxFaults \in Nat
    /\ MaxTasks >= MaxRequests * (1 + Len(ShardNames)) + MaxTicks

Shard == {ShardNames[i] : i \in DOMAIN ShardNames}
Task == 1..MaxTasks
NoTask == 0
\* The steps the API sends; a shard is sent by the verify it belongs to.
Step == {"verify", "campaign_tick", "other"}

VARIABLES
    backend,     \* NIMBUSWARE_RUN_DISPATCH: "memory" or "redis"
    sent,        \* tasks sent so far
    job,         \* job[t]: the step and payload of task t
    pending,     \* the queue's list
    inFlight,    \* the queue's in-flight hash
    pc,          \* pc[w]: where worker w is in run_worker_loop
    hand,        \* hand[w]: the task w dequeued
    next,        \* next[w]: the shard dispatch_verify_shards() sends next
    bucket,      \* bucket[t]: shard results of the fan-out of verify task t
    stop,        \* the embedded worker's stop event
    requests, faults,
    \* history
    acked,       \* tasks that were acked (the in-memory queue keeps them too)
    verdict,     \* verdict[t]: what run_writer_verifier_resolved returned
    reported,    \* reported[t]: all shard results ever recorded for t's fan-out
    expired,     \* verify tasks whose wait ran into its deadline
    late         \* handlers the embedded worker has called since its stop event

queueVars   == <<backend, sent, job, pending, inFlight, acked>>
workerVars  == <<pc, hand, next>>
fanoutVars  == <<bucket, verdict, reported, expired>>
processVars == <<stop, late, requests, faults>>
vars == <<queueVars, workerVars, fanoutVars, processVars>>

NoJob == [step |-> "none", fanout |-> NoTask, shard |-> "none"]
JobOf(s) == [NoJob EXCEPT !.step = s]
ShardJob(v, s) == [step |-> "verify_shard", fanout |-> v, shard |-> s]
Job == {NoJob} \cup {JobOf(s) : s \in Step}
               \cup {ShardJob(v, s) : v \in Task, s \in Shard}

Verdict == {"none", "pass", "fail"}
NoResult == [s \in Shard |-> NoCode]
Results == [Shard -> Code \cup {NoCode}]
EmptyBuckets == [t \in Task |-> NoResult]

\* A process-local queue is served by its own process only.
Serving == IF backend = "memory" THEN {Embedded} ELSE Worker

Init == /\ backend \in {"memory", "redis"}
        /\ sent = 0
        /\ job = [t \in Task |-> NoJob]
        /\ pending = {}
        /\ inFlight = {}
        /\ pc = [w \in Worker |-> IF w \in Serving THEN "poll" ELSE "down"]
        /\ hand = [w \in Worker |-> NoTask]
        /\ next = [w \in Worker |-> 1]
        /\ bucket = EmptyBuckets
        /\ stop = FALSE
        /\ requests = 0
        /\ faults = 0
        /\ acked = {}
        /\ verdict = [t \in Task |-> "none"]
        /\ reported = EmptyBuckets
        /\ expired = {}
        /\ late = 0

-----------------------------------------------------------------------------
(* The queue                                                               *)

Goto(w, label) == pc' = [pc EXCEPT ![w] = label]

\* enqueue(): LPUSH, or append under the lock.
Send(j) == /\ sent < MaxTasks
           /\ sent' = sent + 1
           /\ job' = [job EXCEPT ![sent + 1] = j]
           /\ pending' = pending \cup {sent + 1}
           /\ UNCHANGED <<backend, inFlight, acked>>

Ticks == {t \in Task : job[t].step = "campaign_tick"}

\* dispatch_or_run_verify(), dispatch_or_run_campaign_tick() (start, resume
\* and replay of a campaign), or a task whose step no worker knows.
Request(s) ==
    /\ ~stop
    /\ requests < MaxRequests
    /\ s = "campaign_tick" => Cardinality(Ticks) < MaxTicks
    /\ requests' = requests + 1
    /\ Send(JobOf(s))
    /\ UNCHANGED <<workerVars, fanoutVars, stop, late, faults>>

Oldest(t) == \A s \in pending : t <= s

\* Variant: the list is popped at the end it is pushed to.
DequeueNewest(w) ==
    /\ pc[w] = "poll"
    /\ \E t \in pending :
           /\ \A s \in pending : s <= t
           /\ pending' = pending \ {t}
           /\ hand' = [hand EXCEPT ![w] = t]
           /\ inFlight' = IF backend = "memory" THEN inFlight \cup {t} ELSE inFlight
           /\ late' = IF stop /\ w = Embedded /\ job[t].step # "other"
                      THEN late + 1 ELSE late
    /\ Goto(w, IF backend = "memory" THEN "run" ELSE "mark")
    /\ UNCHANGED <<backend, sent, job, acked, next, fanoutVars, stop, requests, faults>>

\* dequeue(): under the lock the in-memory queue pops and marks at once; the
\* Redis queue pops (BRPOP) and marks with a second command.
Dequeue(w) ==
    /\ pc[w] = "poll"
    /\ \E t \in pending :
           /\ Oldest(t)
           /\ pending' = pending \ {t}
           /\ hand' = [hand EXCEPT ![w] = t]
           /\ inFlight' = IF backend = "memory" THEN inFlight \cup {t} ELSE inFlight
           /\ late' = IF stop /\ w = Embedded /\ job[t].step # "other"
                      THEN late + 1 ELSE late
    /\ Goto(w, IF backend = "memory" THEN "run" ELSE "mark")
    /\ UNCHANGED <<backend, sent, job, acked, next, fanoutVars, stop, requests, faults>>

Mark(w) ==
    /\ pc[w] = "mark"
    /\ inFlight' = inFlight \cup {hand[w]}
    /\ Goto(w, "run")
    /\ UNCHANGED <<backend, sent, job, pending, acked, hand, next, fanoutVars, processVars>>

\* Variant: the embedded loop looks for its stop event nowhere.
AckForever(w) ==
    /\ pc[w] = "ack"
    /\ inFlight' = inFlight \ {hand[w]}
    /\ acked' = acked \cup {hand[w]}
    /\ hand' = [hand EXCEPT ![w] = NoTask]
    /\ Goto(w, "poll")
    /\ UNCHANGED <<backend, sent, job, pending, next, fanoutVars, processVars>>

\* ack(); the embedded worker looks at its stop event between tasks only.
Ack(w) ==
    /\ pc[w] = "ack"
    /\ inFlight' = inFlight \ {hand[w]}
    /\ acked' = acked \cup {hand[w]}
    /\ hand' = [hand EXCEPT ![w] = NoTask]
    /\ Goto(w, IF w = Embedded /\ stop THEN "down" ELSE "poll")
    /\ UNCHANGED <<backend, sent, job, pending, next, fanoutVars, processVars>>

-----------------------------------------------------------------------------
(* The handlers of the worker loop                                         *)

Runs(w, s) == pc[w] = "run" /\ job[hand[w]].step = s

\* Variant: a task with an unknown step is dropped without an ack.
DropUnknown(w) ==
    /\ Runs(w, "other")
    /\ hand' = [hand EXCEPT ![w] = NoTask]
    /\ acked' = acked \cup {hand[w]}
    /\ Goto(w, "poll")
    /\ UNCHANGED <<backend, sent, job, pending, inFlight, next, fanoutVars, processVars>>

\* A step no handler knows is acked and does not count as processed, so the
\* embedded worker's inner loop goes on without a look at the stop event.
IgnoreUnknown(w) ==
    /\ Runs(w, "other")
    /\ inFlight' = inFlight \ {hand[w]}
    /\ acked' = acked \cup {hand[w]}
    /\ hand' = [hand EXCEPT ![w] = NoTask]
    /\ Goto(w, "poll")
    /\ UNCHANGED <<backend, sent, job, pending, next, fanoutVars, processVars>>

\* process_campaign_dispatch_task(): the tick (CampaignDriver), and the next
\* one is sent if it says should_continue.
RunTick(w) ==
    /\ Runs(w, "campaign_tick")
    /\ \/ Cardinality(Ticks) < MaxTicks /\ Send(JobOf("campaign_tick"))
       \/ UNCHANGED queueVars
    /\ Goto(w, "ack")
    /\ UNCHANGED <<hand, next, fanoutVars, processVars>>

\* process_verify_shard_task(): the shard's verifier ends and its result is
\* recorded, even if nobody waits for it any more.
RunShard(w) ==
    /\ Runs(w, "verify_shard")
    /\ LET j == job[hand[w]]
       IN  \E c \in Code :
               /\ bucket' = [bucket EXCEPT ![j.fanout][j.shard] = c]
               /\ reported' = [reported EXCEPT ![j.fanout][j.shard] = c]
    /\ Goto(w, "ack")
    /\ UNCHANGED <<queueVars, hand, next, verdict, expired, processVars>>

\* process_verify_dispatch_task() up to the verifier; when a writer fails
\* before it, there is nothing to verify.
BeginVerify(w) ==
    /\ Runs(w, "verify")
    /\ Goto(w, "fan_out") \/ Goto(w, "ack")
    /\ UNCHANGED <<queueVars, hand, next, fanoutVars, processVars>>

-----------------------------------------------------------------------------
(* run_writer_verifier_resolved(), in the handler of a verify task         *)

\* Variant: the loop over the shards is left in place for the next verify.
SendShardOnward(w) ==
    /\ pc[w] = "fan_out"
    /\ Send(ShardJob(hand[w], ShardNames[next[w]]))
    /\ next' = [next EXCEPT ![w] = @ + 1]
    /\ Goto(w, IF next[w] < Len(ShardNames) THEN "fan_out" ELSE "wait")
    /\ UNCHANGED <<hand, fanoutVars, processVars>>

\* dispatch_verify_shards(): one task per shard, to the same queue.
SendShard(w) ==
    /\ pc[w] = "fan_out"
    /\ Send(ShardJob(hand[w], ShardNames[next[w]]))
    /\ IF next[w] < Len(ShardNames)
       THEN next' = [next EXCEPT ![w] = @ + 1] /\ Goto(w, "fan_out")
       ELSE next' = [next EXCEPT ![w] = 1] /\ Goto(w, "wait")
    /\ UNCHANGED <<hand, fanoutVars, processVars>>

Present(results) == {s \in Shard : results[s] # NoCode}
Recorded(w) == Present(bucket[hand[w]])

\* wait_verify_fanout() sees as many results as there are shards.
ShardsComplete(w) ==
    /\ pc[w] = "wait"
    /\ Cardinality(Recorded(w)) >= Cardinality(Shard)
    /\ Goto(w, "merge")
    /\ UNCHANGED <<queueVars, hand, next, fanoutVars, processVars>>

\* Variant: the wait has no deadline.
NeverExpires(w) == FALSE

\* The deadline passes and one last look finds results missing.
WaitExpires(w) ==
    /\ pc[w] = "wait"
    /\ Cardinality(Recorded(w)) < Cardinality(Shard)
    /\ expired' = expired \cup {hand[w]}
    /\ Goto(w, "partial")
    /\ UNCHANGED <<queueVars, hand, next, bucket, verdict, reported, processVars>>

\* With some results the partial set is merged, with none the verify fails.
ReadPartial(w) ==
    /\ pc[w] = "partial"
    /\ IF Recorded(w) = {}
       THEN verdict' = [verdict EXCEPT ![hand[w]] = "fail"] /\ Goto(w, "clear")
       ELSE UNCHANGED verdict /\ Goto(w, "merge")
    /\ UNCHANGED <<queueVars, hand, next, bucket, reported, expired, processVars>>

\* Variant: a missing shard has exit code 0.
MergedLeniently(results) ==
    IF \A s \in Present(results) : results[s] <= 0 THEN "pass" ELSE "fail"

\* merge_verifier_shard_logs(): the largest of 0 and the codes, where a
\* missing shard has code 1; the writers pass when it is 0.
Merged(results) ==
    IF \A s \in Shard : results[s] # NoCode /\ results[s] <= 0
    THEN "pass" ELSE "fail"

Merge(w) ==
    /\ pc[w] = "merge"
    /\ verdict' = [verdict EXCEPT ![hand[w]] = Merged(bucket[hand[w]])]
    /\ Goto(w, "clear")
    /\ UNCHANGED <<queueVars, hand, next, bucket, reported, expired, processVars>>

\* _clear_fanout(); a shard that reports later makes a new bucket.
Clear(w) ==
    /\ pc[w] = "clear"
    /\ bucket' = [bucket EXCEPT ![hand[w]] = NoResult]
    /\ Goto(w, "ack")
    /\ UNCHANGED <<queueVars, hand, next, verdict, reported, expired, processVars>>

-----------------------------------------------------------------------------
(* Processes end and are started                                           *)

Fault == faults < MaxFaults /\ faults' = faults + 1

Drop(w) == /\ hand' = [hand EXCEPT ![w] = NoTask]
           /\ next' = [next EXCEPT ![w] = 1]

\* Variant: what a dead worker had in its hands is requeued.
RequeueOnDeath(w) ==
    /\ pc[w] # "down"
    /\ Fault
    /\ pending' = IF hand[w] = NoTask THEN pending ELSE pending \cup {hand[w]}
    /\ Drop(w)
    /\ Goto(w, "down")
    /\ UNCHANGED <<backend, sent, job, inFlight, acked, fanoutVars, stop, late, requests>>

\* The process is killed, or an exception of a handler (a verifier's
\* TimeoutExpired, a lost connection) ends run_worker_loop, which catches
\* nothing.  The task stays in flight if it was marked; nobody looks there.
WorkerDies(w) ==
    /\ pc[w] # "down"
    /\ Fault
    /\ Drop(w)
    /\ Goto(w, "down")
    /\ UNCHANGED <<queueVars, fanoutVars, stop, late, requests>>

\* A CLI worker is started again; the embedded thread is not.
WorkerStarts(w) ==
    /\ pc[w] = "down"
    /\ w # Embedded
    /\ backend = "redis"
    /\ Goto(w, "poll")
    /\ UNCHANGED <<queueVars, hand, next, fanoutVars, processVars>>

\* EmbeddedDispatchWorker.shutdown() sets the event; the loop may be idle.
Shutdown ==
    /\ ~stop
    /\ Fault
    /\ stop' = TRUE
    /\ UNCHANGED <<queueVars, workerVars, fanoutVars, late, requests>>

\* The API's process ends, with its daemon thread wherever that is, and is
\* started again.  What a process-local queue held is gone.
ApiRestarts ==
    /\ IF stop THEN UNCHANGED faults ELSE Fault
    /\ Drop(Embedded)
    /\ Goto(Embedded, "poll")
    /\ stop' = FALSE
    /\ IF backend = "memory"
       THEN pending' = {} /\ inFlight' = {} /\ bucket' = EmptyBuckets
       ELSE UNCHANGED <<pending, inFlight, bucket>>
    /\ late' = 0
    /\ UNCHANGED <<backend, sent, job, acked, verdict, reported, expired, requests>>

-----------------------------------------------------------------------------
\* What a worker does when nothing goes wrong.
Progress(w) ==
    \/ Dequeue(w) \/ Mark(w) \/ Ack(w)
    \/ IgnoreUnknown(w) \/ RunTick(w) \/ RunShard(w) \/ BeginVerify(w)
    \/ SendShard(w) \/ ShardsComplete(w) \/ WaitExpires(w)
    \/ ReadPartial(w) \/ Merge(w) \/ Clear(w)

Next == \/ \E s \in Step : Request(s)
        \/ \E w \in Worker : Progress(w) \/ WorkerDies(w) \/ WorkerStarts(w)
        \/ Shutdown
        \/ ApiRestarts

Spec == Init /\ [][Next]_vars

\* A worker that is up keeps polling, its verifiers and ticks end, and the
\* wait for a fan-out has a deadline.  Nobody has to start a worker again.
Fairness == \A w \in Worker : WF_vars(Progress(w))

FairSpec == Spec /\ Fairness

-----------------------------------------------------------------------------
(* Properties                                                              *)

Held == {hand[w] : w \in Worker} \ {NoTask}

\* Where a task is, in the terms of TaskDelivery.
Whereabouts(t) ==
    CASE t > sent     -> "unsent"
      [] t \in pending -> "queued"
      [] t \in Held    -> "taken"
      [] t \in acked   -> "done"
      [] OTHER         -> "lost"

TypeOK ==
    /\ backend \in {"memory", "redis"}
    /\ sent \in 0..MaxTasks
    /\ job \in [Task -> Job]
    /\ pending \subseteq 1..sent
    /\ inFlight \subseteq 1..sent
    /\ acked \subseteq 1..sent
    /\ pc \in [Worker -> {"poll", "mark", "run", "fan_out", "wait", "partial",
                          "merge", "clear", "ack", "down"}]
    /\ hand \in [Worker -> 0..sent]
    /\ next \in [Worker -> 1..Len(ShardNames)]
    /\ bucket \in [Task -> Results] /\ reported \in [Task -> Results]
    /\ verdict \in [Task -> Verdict]
    /\ expired \subseteq Task /\ late \in 0..sent
    /\ stop \in BOOLEAN
    /\ requests \in 0..MaxRequests /\ faults \in 0..MaxFaults

\* Both queues deliver in order and at most once, whoever dies when, and the
\* Redis queue loses only what a worker had in its hands.
Delivery == INSTANCE TaskDelivery
    WITH state <- [t \in Task |-> Whereabouts(t)], durable <- (backend = "redis")
ImplementsDelivery == Delivery!Spec

\* The in-flight hash holds the task of every worker past its dequeue, and
\* besides only tasks that were lost: nothing finished or pending stays there.
InFlightIsExplained ==
    /\ \A w \in Worker : pc[w] \notin {"poll", "mark", "down"} => hand[w] \in inFlight
    /\ \A t \in inFlight : Whereabouts(t) \in {"taken", "lost"}

\* A verify passes only if every shard of its own fan-out has run and none
\* has ended with a positive exit code, whichever workers ran them and however
\* late (a verifier that a signal killed has a negative code and counts as
\* passed); it fails only for a shard with a positive code or one that its
\* deadline cut off.
VerdictIsSound ==
    \A t \in Task :
        /\ verdict[t] = "pass" =>
              \A s \in Shard : reported[t][s] # NoCode /\ reported[t][s] <= 0
        /\ verdict[t] = "fail" =>
              t \in expired \/ \E s \in Present(reported[t]) : reported[t][s] > 0

\* After its stop event the embedded worker takes at most one more task that
\* some handler runs (idle, it does not look at the event).
StopIsHeeded == late <= 1

\* The queue drains: every task that was sent is finished or lost in the end,
\* unless no worker is left, also when all of them wait for shards that only
\* they could serve.
Drained == pending = {} /\ Held = {}
QueueDrains == []<>(Drained \/ \A w \in Worker : pc[w] = "down")

\* scripts/runbooks/run_dispatch_fleet_runbook.md: "tasks are at-least-once
\* (in-flight hash until `ack`)": on Redis, and as long as a worker stays up, a
\* task in the in-flight hash is acked in the end.  Nothing ever takes a task
\* out of that hash but its own worker's ack.
InFlightIsRedelivered ==
    [](backend = "redis") /\ <>[](\E w \in Worker : pc[w] # "down") =>
        \A t \in Task : t \in inFlight ~> t \in acked
=============================================================================

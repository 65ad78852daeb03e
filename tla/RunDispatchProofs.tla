--------------------------- MODULE RunDispatchProofs ---------------------------
(***************************************************************************)
(* The dispatch queue and the verify fan-out, for any number of workers,   *)
(* shards, tasks and faults: type correctness, what stays in flight, the   *)
(* verdicts, the stop event, and the refinement of TaskDelivery.           *)
(***************************************************************************)
EXTENDS RunDispatch, TLAPS, FiniteSetTheorems, FunctionTheorems

-----------------------------------------------------------------------------
(* The inductive invariant, in parts                                       *)

Working == {"run", "fan_out", "wait", "partial", "merge", "clear", "ack"}

\* A task is in one place: pending, in one worker's hand, acked, or nowhere
\* any more; and the in-flight hash holds none that is pending or acked.
TaskInv ==
    /\ \A w \in Worker : hand[w] = NoTask <=> pc[w] \in {"poll", "down"}
    /\ \A v, w \in Worker : hand[v] = hand[w] /\ hand[v] # NoTask => v = w
    /\ \A w \in Worker : hand[w] \notin pending /\ hand[w] \notin acked
    /\ pending \cap acked = {}
    /\ inFlight \cap (pending \cup acked) = {}
    /\ \A w \in Worker : pc[w] \in Working => hand[w] \in inFlight
    /\ backend = "memory" => \A w \in Worker \ {Embedded} : pc[w] = "down"

\* Once the embedded worker has taken a task after its stop event, it carries
\* it to its ack, where it sees the event.
LateInv ==
    /\ late \in {0, 1}
    /\ late = 1 => /\ stop
                   /\ pc[Embedded] # "poll"
                   /\ pc[Embedded] \in {"mark", "run"} => job[hand[Embedded]].step # "other"

\* Tasks past their dequeue, in the hands of a worker that has not yet run
\* them, or pending still.
NotRun(t) == t \in pending \/ \E w \in Worker : hand[w] = t /\ pc[w] \in {"mark", "run"}

\* Each shard of a fan-out is sent once, after its verify task has been taken
\* to run, and it reports once.
ShardInv ==
    /\ \A t \in Task : t > sent => job[t] = NoJob
    /\ \A t, v \in Task, s \in Shard : job[t] = ShardJob(v, s) => v \in 1 .. sent /\ ~NotRun(v)
    /\ \A t, u, v \in Task, s \in Shard :
           job[t] = ShardJob(v, s) /\ job[u] = ShardJob(v, s) => t = u
    /\ \A w \in Worker : pc[w] = "fan_out" =>
           \A i \in next[w] .. Len(ShardNames), t \in Task :
               job[t] # ShardJob(hand[w], ShardNames[i])
    /\ \A t, v \in Task, s \in Shard :
           job[t] = ShardJob(v, s) /\ NotRun(t) => reported[v][s] = NoCode
    /\ \A v \in Task, s \in Shard :
           reported[v][s] # NoCode => \E t \in Task : job[t] = ShardJob(v, s)

\* What is in a bucket was reported, and a full merge sees all of it.
VerdictInv ==
    /\ \A t \in Task, s \in Shard : bucket[t][s] \in {NoCode, reported[t][s]}
    /\ \A w \in Worker : pc[w] = "partial" => hand[w] \in expired
    /\ \A w \in Worker : pc[w] = "merge" =>
           hand[w] \in expired \/ Present(bucket[hand[w]]) = Shard
    /\ VerdictIsSound

IInv == TypeOK /\ TaskInv /\ LateInv /\ ShardInv /\ VerdictInv

-----------------------------------------------------------------------------
(* Constants and jobs                                                      *)

\* There is at least one shard, no two have one name, and they are finitely many.
LEMMA ShardFacts ==
  /\ Len(ShardNames) \in Nat /\ Len(ShardNames) >= 1
  /\ \A i \in 1 .. Len(ShardNames) : ShardNames[i] \in Shard
  /\ \A i, k \in 1 .. Len(ShardNames) : ShardNames[i] = ShardNames[k] => i = k
  /\ IsFiniteSet(Shard)
<1>1. ShardNames \in Seq(STRING) /\ ShardNames # <<>>
  BY DispatchAssumption
<1>2. DOMAIN ShardNames = 1 .. Len(ShardNames) /\ Len(ShardNames) \in Nat
  BY <1>1
<1>3. Len(ShardNames) # 0
  BY <1>1
<1>4. IsFiniteSet(1 .. Len(ShardNames))
  BY <1>2, FS_Interval
<1> DEFINE f == [i \in 1 .. Len(ShardNames) |-> ShardNames[i]]
<1>5. Shard = {ShardNames[i] : i \in 1 .. Len(ShardNames)}
  BY <1>2 DEF Shard
<1>6. IsFiniteSet(Shard)
  <2>1. f \in Surjection(1 .. Len(ShardNames), Shard)
    BY <1>5, Fun_IsSurj
  <2> QED
    BY <1>4, <2>1, FS_Surjection
<1> QED
  BY <1>2, <1>3, <1>5, <1>6, DispatchAssumption

\* Every step and every shard makes a job of its own kind, and a shard job says
\* which fan-out and which shard it is for.
LEMMA Jobs ==
  /\ NoJob \in Job /\ NoJob.step = "none"
  /\ \A s \in Step : JobOf(s) \in Job /\ JobOf(s).step = s /\ s # "verify_shard"
  /\ \A v \in Task, s \in Shard : /\ ShardJob(v, s) \in Job
                                  /\ ShardJob(v, s).step = "verify_shard"
                                  /\ ShardJob(v, s).fanout = v
                                  /\ ShardJob(v, s).shard = s
  /\ \A j \in Job : j.step = "verify_shard" =>
         j.fanout \in Task /\ j.shard \in Shard /\ j = ShardJob(j.fanout, j.shard)
<1>1. NoJob \in Job /\ NoJob.step = "none"
  BY DEF NoJob, Job
<1>2. ASSUME NEW s \in Step
      PROVE  JobOf(s) \in Job /\ JobOf(s).step = s /\ s # "verify_shard"
  BY DEF JobOf, Job, NoJob, Step
<1>3. ASSUME NEW v \in Task, NEW s \in Shard
      PROVE  /\ ShardJob(v, s) \in Job
             /\ ShardJob(v, s).step = "verify_shard"
             /\ ShardJob(v, s).fanout = v
             /\ ShardJob(v, s).shard = s
  BY DEF ShardJob, Job
<1>4. ASSUME NEW j \in Job, j.step = "verify_shard"
      PROVE  j.fanout \in Task /\ j.shard \in Shard /\ j = ShardJob(j.fanout, j.shard)
  <2>1. j # NoJob /\ \A s \in Step : j # JobOf(s)
    BY <1>1, <1>2, <1>4
  <2>2. PICK v \in Task, s \in Shard : j = ShardJob(v, s)
    BY <2>1 DEF Job
  <2> QED
    BY <1>3, <2>2
<1> QED
  BY <1>1, <1>2, <1>3, <1>4

-----------------------------------------------------------------------------
(* Types                                                                   *)

\* TypeOK by owner: the queue, the workers, the fan-outs, the processes.
QueueType ==
    /\ backend \in {"memory", "redis"}
    /\ sent \in 0 .. MaxTasks
    /\ job \in [Task -> Job]
    /\ pending \subseteq 1 .. sent
    /\ inFlight \subseteq 1 .. sent
    /\ acked \subseteq 1 .. sent
WorkerType ==
    /\ pc \in [Worker -> Working \cup {"poll", "mark", "down"}]
    /\ hand \in [Worker -> 0 .. sent]
    /\ next \in [Worker -> 1 .. Len(ShardNames)]
FanoutType ==
    /\ bucket \in [Task -> Results] /\ reported \in [Task -> Results]
    /\ verdict \in [Task -> Verdict]
    /\ expired \subseteq Task
ProcessType ==
    /\ late \in 0 .. sent
    /\ stop \in BOOLEAN
    /\ requests \in 0 .. MaxRequests /\ faults \in 0 .. MaxFaults

\* The type invariant in four parts, one for each group of variables.
LEMMA TypeParts == TypeOK <=> QueueType /\ WorkerType /\ FanoutType /\ ProcessType
  BY DEF TypeOK, QueueType, WorkerType, FanoutType, ProcessType, Working

\* What a task sent makes of the queue.
LEMMA Sent ==
  ASSUME QueueType, NEW j \in Job, Send(j)
  PROVE  /\ QueueType'
         /\ sent \in Nat /\ sent' = sent + 1 /\ sent' \in Task /\ sent' \notin 1 .. sent
         /\ job'[sent'] = j /\ \A t \in Task : t # sent' => job'[t] = job[t]
         /\ pending' = pending \cup {sent'}
         /\ UNCHANGED <<backend, inFlight, acked>>
<1>1. sent \in Nat /\ sent + 1 \in 1 .. MaxTasks /\ sent' = sent + 1
  BY DispatchAssumption DEF Send, QueueType
<1>2. job' = [job EXCEPT ![sent + 1] = j] /\ sent + 1 \in Task
  BY <1>1 DEF Send, Task
<1>3. job' \in [Task -> Job]
  BY <1>2 DEF QueueType
<1>4. 1 .. sent \subseteq 1 .. sent' /\ sent' \in 1 .. sent' /\ sent' \notin 1 .. sent
      /\ sent' \in 0 .. MaxTasks
  BY <1>1, DispatchAssumption
<1>5. pending' = pending \cup {sent'} /\ UNCHANGED <<backend, inFlight, acked>>
  BY <1>1 DEF Send
<1>6. QueueType'
  BY <1>3, <1>4, <1>5 DEF QueueType
<1> QED
  BY <1>1, <1>2, <1>4, <1>5, <1>6 DEF QueueType

\* More tasks leave what is known of the others.
LEMMA SentMore ==
  ASSUME TypeOK, sent' = sent + 1
  PROVE  /\ \A h \in 0 .. sent : h \in 0 .. sent'
         /\ hand' = hand => hand' \in [Worker -> 0 .. sent']
         /\ late' = late => late' \in 0 .. sent'
  BY DEF TypeOK

\* An empty hand, and the first shard.
LEMMA NoTaskFits ==
  ASSUME TypeOK
  PROVE  NoTask \in 0 .. sent /\ 1 \in 1 .. Len(ShardNames)
  BY ShardFacts, DispatchAssumption DEF TypeOK, NoTask

\* The handlers that send: the jobs are jobs.
LEMMA SendingJobs ==
  ASSUME TypeOK, TaskInv, NEW w \in Worker
  PROVE  /\ pc[w] \notin {"poll", "down"} => hand[w] \in 1 .. sent /\ hand[w] \in Task
         /\ pc[w] = "fan_out" =>
                /\ next[w] \in 1 .. Len(ShardNames) /\ ShardNames[next[w]] \in Shard
                /\ ShardJob(hand[w], ShardNames[next[w]]) \in Job
<1>1. pc[w] \notin {"poll", "down"} => hand[w] \in 1 .. sent /\ hand[w] \in Task
  BY DispatchAssumption DEF TypeOK, TaskInv, NoTask, Task
<1>2. next[w] \in 1 .. Len(ShardNames) /\ ShardNames[next[w]] \in Shard
  BY ShardFacts DEF TypeOK
<1> QED
  BY <1>1, <1>2, Jobs

\* A shard that runs belongs to a fan-out, and its code is a result.
LEMMA RunningShard ==
  ASSUME TypeOK, TaskInv, NEW w \in Worker, Runs(w, "verify_shard"), NEW c \in Code
  PROVE  /\ job[hand[w]].fanout \in Task /\ job[hand[w]].shard \in Shard
         /\ job[hand[w]] = ShardJob(job[hand[w]].fanout, job[hand[w]].shard)
         /\ hand[w] \in Task /\ pc[w] = "run"
         /\ c \in Int /\ c # NoCode
<1>1. hand[w] \in Task /\ pc[w] = "run"
  BY SendingJobs DEF Runs
<1>2. job[hand[w]] \in Job /\ job[hand[w]].step = "verify_shard"
  BY <1>1 DEF TypeOK, Runs
<1> QED
  BY <1>1, <1>2, Jobs, DispatchAssumption

\* Every step keeps the types.
LEMMA TypeStep ==
  ASSUME TypeOK, TaskInv, LateInv, [Next]_vars
  PROVE  TypeOK'
<1> USE TypeParts DEF Goto
<1> SUFFICES QueueType' /\ WorkerType' /\ FanoutType' /\ ProcessType'
  BY DEF TypeOK, QueueType, WorkerType, FanoutType, ProcessType, Working
<1>0. QueueType /\ WorkerType /\ FanoutType /\ ProcessType
  OBVIOUS
<1>1. CASE UNCHANGED vars
  BY <1>0, <1>1 DEF vars, queueVars, workerVars, fanoutVars, processVars,
                    QueueType, WorkerType, FanoutType, ProcessType
<1>2. ASSUME NEW st \in Step, Request(st)
      PROVE  QueueType' /\ WorkerType' /\ FanoutType' /\ ProcessType'
  <2>1. Send(JobOf(st)) /\ JobOf(st) \in Job
    BY <1>2, Jobs DEF Request
  <2>2. QueueType' /\ sent' = sent + 1
    BY <1>0, <2>1, Sent
  <2>3. UNCHANGED <<pc, hand, next, bucket, verdict, reported, expired, stop, late, faults>>
    BY <1>2 DEF Request, workerVars, fanoutVars
  <2>4. requests' \in 0 .. MaxRequests
    BY <1>0, <1>2, DispatchAssumption DEF Request, ProcessType
  <2> QED
    BY <1>0, <2>2, <2>3, <2>4, SentMore DEF WorkerType, FanoutType, ProcessType
<1>3. ASSUME NEW w \in Worker, Dequeue(w)
      PROVE  QueueType' /\ WorkerType' /\ FanoutType' /\ ProcessType'
  <2>1. PICK t \in pending :
            /\ pending' = pending \ {t}
            /\ hand' = [hand EXCEPT ![w] = t]
            /\ inFlight' = IF backend = "memory" THEN inFlight \cup {t} ELSE inFlight
            /\ late' = IF stop /\ w = Embedded /\ job[t].step # "other"
                       THEN late + 1 ELSE late
    BY <1>3 DEF Dequeue
  <2>2. pc[w] = "poll" /\ pc' = [pc EXCEPT ![w] = IF backend = "memory" THEN "run" ELSE "mark"]
    BY <1>3 DEF Dequeue
  <2>3. UNCHANGED <<backend, sent, job, acked, next, bucket, verdict, reported, expired,
                    stop, requests, faults>>
    BY <1>3 DEF Dequeue, fanoutVars
  <2>4. t \in 1 .. sent /\ sent \in Nat
    BY <1>0, <2>1, DispatchAssumption DEF QueueType
  <2>5. late' \in 0 .. sent'
    <3>1. stop /\ w = Embedded => late = 0
      BY <2>2 DEF LateInv
    <3> QED
      BY <1>0, <2>1, <2>3, <2>4, <3>1 DEF ProcessType
  <2>6. QueueType'
    BY <1>0, <2>1, <2>3, <2>4 DEF QueueType
  <2>7. WorkerType'
    BY <1>0, <2>1, <2>2, <2>3, <2>4 DEF WorkerType, Working
  <2> QED
    BY <1>0, <2>3, <2>5, <2>6, <2>7 DEF FanoutType, ProcessType
<1>4. ASSUME NEW w \in Worker, Mark(w) \/ Ack(w) \/ IgnoreUnknown(w)
      PROVE  QueueType' /\ WorkerType' /\ FanoutType' /\ ProcessType'
  <2>1. pc[w] \notin {"poll", "down"}
    BY <1>4 DEF Mark, Ack, IgnoreUnknown, Runs
  <2>2. hand[w] \in 1 .. sent
    BY <2>1, SendingJobs
  <2>3. UNCHANGED <<backend, sent, job, pending, next, bucket, verdict, reported, expired,
                    stop, late, requests, faults>>
    BY <1>4 DEF Mark, Ack, IgnoreUnknown, fanoutVars, processVars
  <2>4. QueueType'
    BY <1>0, <1>4, <2>2, <2>3 DEF Mark, Ack, IgnoreUnknown, QueueType
  <2>5. WorkerType'
    <3>1. hand' \in [Worker -> 0 .. sent]
      BY <1>0, <1>4, NoTaskFits DEF Mark, Ack, IgnoreUnknown, WorkerType
    <3>2. pc' \in [Worker -> Working \cup {"poll", "mark", "down"}]
      BY <1>0, <1>4 DEF Mark, Ack, IgnoreUnknown, WorkerType, Working
    <3> QED
      BY <1>0, <2>3, <3>1, <3>2 DEF WorkerType
  <2> QED
    BY <1>0, <2>3, <2>4, <2>5 DEF FanoutType, ProcessType
<1>5. ASSUME NEW w \in Worker, RunTick(w) \/ SendShard(w)
      PROVE  QueueType' /\ WorkerType' /\ FanoutType' /\ ProcessType'
  <2>1. UNCHANGED <<hand, bucket, verdict, reported, expired, stop, late, requests, faults>>
    BY <1>5 DEF RunTick, SendShard, fanoutVars, processVars
  <2>2. UNCHANGED queueVars \/ \E j \in Job : Send(j)
    BY <1>5, SendingJobs, Jobs DEF RunTick, SendShard, Step
  <2>3. QueueType' /\ (sent' = sent \/ sent' = sent + 1)
    <3>1. CASE UNCHANGED queueVars
      BY <1>0, <3>1 DEF queueVars, QueueType
    <3> QED
      BY <1>0, <2>2, <3>1, Sent
  <2>4. hand' \in [Worker -> 0 .. sent'] /\ late' \in 0 .. sent'
    BY <1>0, <2>1, <2>3, SentMore DEF WorkerType, ProcessType
  <2>5. next' \in [Worker -> 1 .. Len(ShardNames)]
    BY <1>0, <1>5, ShardFacts DEF RunTick, SendShard, WorkerType
  <2>6. pc' \in [Worker -> Working \cup {"poll", "mark", "down"}]
    BY <1>0, <1>5 DEF RunTick, SendShard, WorkerType, Working
  <2> QED
    BY <1>0, <2>1, <2>3, <2>4, <2>5, <2>6 DEF WorkerType, FanoutType, ProcessType
<1>6. ASSUME NEW w \in Worker, RunShard(w)
      PROVE  QueueType' /\ WorkerType' /\ FanoutType' /\ ProcessType'
  <2> DEFINE v == job[hand[w]].fanout
             s == job[hand[w]].shard
  <2>1. PICK c \in Code : /\ bucket' = [bucket EXCEPT ![v][s] = c]
                          /\ reported' = [reported EXCEPT ![v][s] = c]
    BY <1>6 DEF RunShard
  <2>2. v \in Task /\ s \in Shard
    BY <1>6, RunningShard, <2>1 DEF RunShard
  <2>3. bucket' \in [Task -> Results] /\ reported' \in [Task -> Results]
    BY <1>0, <2>1, <2>2 DEF FanoutType, Results
  <2>4. UNCHANGED <<queueVars, hand, next, verdict, expired, processVars>>
        /\ pc' = [pc EXCEPT ![w] = "ack"]
    BY <1>6 DEF RunShard
  <2> QED
    BY <1>0, <2>3, <2>4 DEF queueVars, processVars, QueueType, WorkerType, FanoutType,
                            ProcessType, Working
<1>7. ASSUME NEW w \in Worker,
             \/ BeginVerify(w) \/ ShardsComplete(w) \/ WaitExpires(w)
             \/ ReadPartial(w) \/ Merge(w) \/ Clear(w)
      PROVE  QueueType' /\ WorkerType' /\ FanoutType' /\ ProcessType'
  <2>1. hand[w] \in Task
    BY <1>7, SendingJobs DEF BeginVerify, Runs, ShardsComplete, WaitExpires, ReadPartial,
                             Merge, Clear
  <2>2. UNCHANGED <<queueVars, hand, next, reported, processVars>>
    BY <1>7 DEF BeginVerify, ShardsComplete, WaitExpires, ReadPartial, Merge, Clear, fanoutVars
  <2>3. pc' \in [Worker -> Working \cup {"poll", "mark", "down"}]
    BY <1>0, <1>7 DEF BeginVerify, ShardsComplete, WaitExpires, ReadPartial, Merge, Clear,
                      WorkerType, Working
  <2>4. NoResult \in Results
    BY DEF NoResult, Results
  <2>5. bucket' \in [Task -> Results] /\ expired' \subseteq Task
    BY <1>0, <1>7, <2>1, <2>4 DEF BeginVerify, ShardsComplete, WaitExpires, ReadPartial,
                                  Merge, Clear, fanoutVars, FanoutType
  <2>6. verdict' \in [Task -> Verdict]
    BY <1>0, <1>7 DEF BeginVerify, ShardsComplete, WaitExpires, ReadPartial, Merge, Clear,
                      fanoutVars, FanoutType, Merged, Verdict
  <2> QED
    BY <1>0, <2>2, <2>3, <2>5, <2>6 DEF queueVars, processVars, QueueType, WorkerType,
                                        FanoutType, ProcessType
<1>8. ASSUME NEW w \in Worker, WorkerDies(w) \/ WorkerStarts(w)
      PROVE  QueueType' /\ WorkerType' /\ FanoutType' /\ ProcessType'
  <2>1. WorkerType'
    <3>1. hand' \in [Worker -> 0 .. sent] /\ next' \in [Worker -> 1 .. Len(ShardNames)]
      BY <1>0, <1>8, NoTaskFits DEF WorkerDies, WorkerStarts, Drop, WorkerType
    <3>2. pc' \in [Worker -> Working \cup {"poll", "mark", "down"}] /\ sent' = sent
      BY <1>0, <1>8 DEF WorkerDies, WorkerStarts, WorkerType, queueVars
    <3> QED
      BY <3>1, <3>2 DEF WorkerType
  <2>2. faults' \in 0 .. MaxFaults
    BY <1>0, <1>8, DispatchAssumption DEF WorkerDies, WorkerStarts, Fault, ProcessType, processVars
  <2> QED
    BY <1>0, <1>8, <2>1, <2>2 DEF WorkerDies, WorkerStarts, queueVars, fanoutVars, processVars,
                                  QueueType, FanoutType, ProcessType
<1>9. CASE Shutdown
  <2>1. faults' \in 0 .. MaxFaults
    BY <1>0, <1>9, DispatchAssumption DEF Shutdown, Fault, ProcessType
  <2> QED
    BY <1>0, <1>9, <2>1 DEF Shutdown, queueVars, workerVars, fanoutVars, QueueType, WorkerType,
                            FanoutType, ProcessType
<1>10. CASE ApiRestarts
  <2>1. faults' \in 0 .. MaxFaults
    BY <1>0, <1>10, DispatchAssumption DEF ApiRestarts, Fault, ProcessType
  <2>2. WorkerType'
    BY <1>0, <1>10, ShardFacts, DispatchAssumption
       DEF ApiRestarts, Drop, WorkerType, QueueType, NoTask
  <2>3. EmptyBuckets \in [Task -> Results]
    BY DEF EmptyBuckets, NoResult, Results
  <2>4. QueueType' /\ FanoutType'
    BY <1>0, <1>10, <2>3 DEF ApiRestarts, QueueType, FanoutType
  <2>5. late' \in 0 .. sent' /\ stop' \in BOOLEAN /\ requests' \in 0 .. MaxRequests
    BY <1>0, <1>10, NoTaskFits DEF ApiRestarts, NoTask, ProcessType
  <2> QED
    BY <2>1, <2>2, <2>4, <2>5 DEF ProcessType
<1> QED
  BY <1>1, <1>2, <1>3, <1>4, <1>5, <1>6, <1>7, <1>8, <1>9, <1>10 DEF Next, Progress

-----------------------------------------------------------------------------
(* Where a task is                                                         *)

\* A step of one worker that keeps its task, and at most sends another.
Carries(w) ==
    /\ pc[w] \in Working /\ \E l \in Working \ {"run"} : Goto(w, l)
    /\ hand' = hand
    /\ UNCHANGED queueVars \/ \E j \in Job : Send(j)

\* What the steps do to the tasks.
LEMMA Carrying ==
  ASSUME TypeOK, TaskInv, NEW w \in Worker,
         \/ RunTick(w) \/ RunShard(w) \/ BeginVerify(w) \/ SendShard(w) \/ ShardsComplete(w)
         \/ WaitExpires(w) \/ ReadPartial(w) \/ Merge(w) \/ Clear(w)
  PROVE  Carries(w)
<1>1. CASE RunTick(w)
  BY <1>1, Jobs DEF RunTick, Runs, Carries, Working, Step
<1>2. CASE SendShard(w)
  <2>1. \E j \in Job : Send(j)
    BY <1>2, SendingJobs DEF SendShard
  <2>2. pc[w] \in Working /\ hand' = hand /\ \E l \in Working \ {"run"} : Goto(w, l)
    BY <1>2 DEF SendShard, Working
  <2> QED
    BY <2>1, <2>2 DEF Carries
<1>3. CASE RunShard(w) \/ BeginVerify(w) \/ ShardsComplete(w)
  BY <1>3 DEF RunShard, BeginVerify, Runs, ShardsComplete, Carries, Working
<1>4. CASE WaitExpires(w) \/ ReadPartial(w) \/ Merge(w) \/ Clear(w)
  BY <1>4 DEF WaitExpires, ReadPartial, Merge, Clear, Carries, Working
<1> QED
  BY <1>1, <1>2, <1>3, <1>4

\* A task that is sent is pending and nowhere else.
LEMMA SendKeepsPlaces ==
  ASSUME TypeOK, TaskInv, NEW j \in Job, Send(j), hand' = hand
  PROVE  /\ \A w \in Worker : hand'[w] \notin pending' /\ hand'[w] \notin acked'
         /\ pending' \cap acked' = {}
         /\ inFlight' \cap (pending' \cup acked') = {}
         /\ UNCHANGED <<backend, inFlight, acked>>
<1>1. /\ pending' = pending \cup {sent'} /\ UNCHANGED <<backend, inFlight, acked>>
      /\ sent' = sent + 1 /\ sent \in Nat /\ sent' \notin 1 .. sent
  BY TypeParts, Sent
<1>2. \A w \in Worker : hand[w] # sent'
  BY <1>1 DEF TypeOK
<1>3. sent' \notin acked /\ sent' \notin inFlight
  BY <1>1 DEF TypeOK
<1> QED
  BY <1>1, <1>2, <1>3 DEF TaskInv

\* No step puts a task in two places.
LEMMA TaskStep ==
  ASSUME TypeOK, TypeOK', TaskInv, [Next]_vars
  PROVE  TaskInv'
<1> USE DEF Goto
<1>0. /\ pc \in [Worker -> Working \cup {"poll", "mark", "down"}]
      /\ hand \in [Worker -> 0 .. sent]
  BY DEF TypeOK, Working
<1>1. CASE UNCHANGED <<backend, pending, inFlight, acked, pc, hand>>
  BY <1>1 DEF TaskInv
<1>2. ASSUME NEW st \in Step, Request(st) PROVE TaskInv'
  <2>1. Send(JobOf(st)) /\ JobOf(st) \in Job /\ hand' = hand /\ pc' = pc
    BY <1>2, Jobs DEF Request, workerVars
  <2> QED
    BY <2>1, SendKeepsPlaces DEF TaskInv
<1>3. ASSUME NEW w \in Worker, Carries(w) PROVE TaskInv'
  <2>1. PICK l \in Working : pc' = [pc EXCEPT ![w] = l]
    BY <1>3 DEF Carries
  <2>2. pc[w] \in Working /\ hand' = hand
    BY <1>3 DEF Carries
  <2>3. \A v \in Worker : /\ pc'[v] \in {"poll", "down"} <=> pc[v] \in {"poll", "down"}
                          /\ pc'[v] \in Working <=> pc[v] \in Working
    BY <1>0, <2>1, <2>2 DEF Working
  <2>4. /\ \A v \in Worker : hand'[v] \notin pending' /\ hand'[v] \notin acked'
        /\ pending' \cap acked' = {}
        /\ inFlight' \cap (pending' \cup acked') = {}
        /\ UNCHANGED <<backend, inFlight>>
    <3>1. CASE UNCHANGED queueVars
      BY <2>2, <3>1 DEF queueVars, TaskInv
    <3> QED
      BY <1>3, <2>2, <3>1, SendKeepsPlaces DEF Carries
  <2>5. backend = "memory" => \A v \in Worker \ {Embedded} : pc'[v] = "down"
    BY <1>0, <2>1, <2>2 DEF TaskInv, Working
  <2> QED
    BY <2>2, <2>3, <2>4, <2>5 DEF TaskInv
<1>4. ASSUME NEW w \in Worker, Dequeue(w) PROVE TaskInv'
  <2>1. PICK t \in pending :
            /\ pending' = pending \ {t}
            /\ hand' = [hand EXCEPT ![w] = t]
            /\ inFlight' = IF backend = "memory" THEN inFlight \cup {t} ELSE inFlight
    BY <1>4 DEF Dequeue
  <2>2. /\ pc[w] = "poll" /\ UNCHANGED <<backend, acked>>
        /\ pc' = [pc EXCEPT ![w] = IF backend = "memory" THEN "run" ELSE "mark"]
    BY <1>4 DEF Dequeue
  <2>3. t # NoTask /\ t \notin acked /\ t \notin inFlight /\ \A v \in Worker : hand[v] # t
    BY <2>1 DEF TypeOK, NoTask, TaskInv
  <2>4. hand[w] = NoTask
    BY <2>2 DEF TaskInv
  <2>5. \A v \in Worker : hand'[v] = NoTask <=> pc'[v] \in {"poll", "down"}
    BY <1>0, <2>1, <2>2, <2>3 DEF TaskInv
  <2>6. \A u, v \in Worker : hand'[u] = hand'[v] /\ hand'[u] # NoTask => u = v
    BY <1>0, <2>1, <2>3 DEF TaskInv
  <2>7. \A v \in Worker : hand'[v] \notin pending' /\ hand'[v] \notin acked'
    BY <1>0, <2>1, <2>2, <2>3 DEF TaskInv
  <2>8. pending' \cap acked' = {} /\ inFlight' \cap (pending' \cup acked') = {}
    BY <2>1, <2>2, <2>3 DEF TaskInv
  <2>9. \A v \in Worker : pc'[v] \in Working => hand'[v] \in inFlight'
    BY <1>0, <2>1, <2>2 DEF TaskInv, Working
  <2>10. backend' = "memory" => \A v \in Worker \ {Embedded} : pc'[v] = "down"
    BY <1>0, <2>2 DEF TaskInv
  <2> QED
    BY <2>5, <2>6, <2>7, <2>8, <2>9, <2>10 DEF TaskInv
<1>5. ASSUME NEW w \in Worker, Mark(w) PROVE TaskInv'
  <2>1. /\ pc[w] = "mark" /\ pc' = [pc EXCEPT ![w] = "run"]
        /\ inFlight' = inFlight \cup {hand[w]}
        /\ UNCHANGED <<backend, pending, acked, hand>>
    BY <1>5 DEF Mark
  <2> QED
    BY <1>0, <2>1 DEF TaskInv, Working
<1>6. ASSUME NEW w \in Worker, Ack(w) \/ IgnoreUnknown(w) PROVE TaskInv'
  <2>1. /\ pc[w] \in Working
        /\ \E l \in {"poll", "down"} : pc' = [pc EXCEPT ![w] = l]
        /\ inFlight' = inFlight \ {hand[w]}
        /\ acked' = acked \cup {hand[w]}
        /\ hand' = [hand EXCEPT ![w] = NoTask]
        /\ UNCHANGED <<backend, pending>>
    BY <1>6 DEF Ack, IgnoreUnknown, Runs, Working
  <2>2. hand[w] # NoTask /\ hand[w] \notin pending
        /\ \A v \in Worker : v # w => hand[v] # hand[w]
    BY <2>1 DEF TaskInv, Working
  <2>3. \A v \in Worker : /\ hand'[v] = IF v = w THEN NoTask ELSE hand[v]
                          /\ v # w => pc'[v] = pc[v]
                          /\ v = w => pc'[v] \in {"poll", "down"}
    BY <1>0, <2>1
  <2>4. \A v \in Worker : hand'[v] = NoTask <=> pc'[v] \in {"poll", "down"}
    BY <2>3 DEF TaskInv
  <2>5. \A u, v \in Worker : hand'[u] = hand'[v] /\ hand'[u] # NoTask => u = v
    BY <2>3 DEF TaskInv
  <2>6. NoTask \notin pending' /\ NoTask \notin acked'
    BY DEF TypeOK, NoTask
  <2>7. \A v \in Worker : hand'[v] \notin pending' /\ hand'[v] \notin acked'
    BY <2>1, <2>2, <2>3, <2>6 DEF TaskInv
  <2>8. pending' \cap acked' = {} /\ inFlight' \cap (pending' \cup acked') = {}
    BY <2>1, <2>2 DEF TaskInv
  <2>9. \A v \in Worker : pc'[v] \in Working => hand'[v] \in inFlight'
    BY <2>1, <2>2, <2>3 DEF TaskInv, Working
  <2>10. backend' = "memory" => \A v \in Worker \ {Embedded} : pc'[v] = "down"
    BY <2>1, <2>3 DEF TaskInv, Working
  <2> QED
    BY <2>4, <2>5, <2>7, <2>8, <2>9, <2>10 DEF TaskInv
<1>7. ASSUME NEW w \in Worker, WorkerDies(w) \/ WorkerStarts(w) PROVE TaskInv'
  <2>1. /\ hand' = [hand EXCEPT ![w] = NoTask] \/ (hand' = hand /\ hand[w] = NoTask)
        /\ \E l \in {"poll", "down"} : /\ pc' = [pc EXCEPT ![w] = l]
                                       /\ l = "poll" => backend = "redis"
        /\ UNCHANGED <<backend, pending, inFlight, acked>>
    BY <1>7 DEF WorkerDies, WorkerStarts, Drop, queueVars, TaskInv
  <2>2. \A v \in Worker : /\ hand'[v] = IF v = w THEN NoTask ELSE hand[v]
                          /\ v # w => pc'[v] = pc[v]
                          /\ v = w => pc'[v] \in {"poll", "down"}
                          /\ v = w /\ backend = "memory" => pc'[v] = "down"
    BY <1>0, <2>1
  <2>3. NoTask \notin pending' /\ NoTask \notin acked'
    BY DEF TypeOK, NoTask
  <2> QED
    BY <2>1, <2>2, <2>3 DEF TaskInv, Working
<1>8. CASE ApiRestarts
  <2>1. /\ hand' = [hand EXCEPT ![Embedded] = NoTask]
        /\ pc' = [pc EXCEPT ![Embedded] = "poll"]
        /\ UNCHANGED <<backend, acked>>
        /\ \/ backend = "memory" /\ pending' = {} /\ inFlight' = {}
           \/ UNCHANGED <<pending, inFlight>>
    BY <1>8 DEF ApiRestarts, Drop
  <2>2. \A v \in Worker : /\ hand'[v] = IF v = Embedded THEN NoTask ELSE hand[v]
                          /\ pc'[v] = IF v = Embedded THEN "poll" ELSE pc[v]
    BY <1>0, <2>1
  <2>3. NoTask \notin pending' /\ NoTask \notin acked'
    BY DEF TypeOK, NoTask
  <2>4. \A v \in Worker : pc'[v] \in Working => hand'[v] \in inFlight'
    BY <2>1, <2>2 DEF TaskInv, Working
  <2> QED
    BY <2>1, <2>2, <2>3, <2>4 DEF TaskInv
<1>9. CASE Shutdown
  BY <1>1, <1>9 DEF Shutdown, queueVars, workerVars
<1>10. CASE UNCHANGED vars
  BY <1>1, <1>10 DEF vars, queueVars, workerVars
<1> QED
  BY <1>2, <1>3, <1>4, <1>5, <1>6, <1>7, <1>8, <1>9, <1>10, Carrying DEF Next, Progress

-----------------------------------------------------------------------------
(* The stop event                                                          *)

\* The jobs of the tasks sent so far never change.
LEMMA JobsStay ==
  ASSUME TypeOK, [Next]_vars
  PROVE  \A t \in 1 .. sent : job'[t] = job[t]
<1>1. CASE job' = job
  BY <1>1
<1>2. ASSUME NEW j \in Job, Send(j) PROVE \A t \in 1 .. sent : job'[t] = job[t]
  BY <1>2 DEF Send, TypeOK
<1>3. ASSUME NEW st \in Step, Request(st) PROVE \E j \in Job : Send(j)
  BY <1>3, Jobs DEF Request
<1>4. ASSUME NEW w \in Worker, RunTick(w) PROVE job' = job \/ \E j \in Job : Send(j)
  BY <1>4, Jobs DEF RunTick, queueVars, Step
<1>5. ASSUME NEW w \in Worker, SendShard(w) PROVE \A t \in 1 .. sent : job'[t] = job[t]
  BY <1>5 DEF SendShard, Send, TypeOK
<1>6. ASSUME NEW w \in Worker,
             \/ Dequeue(w) \/ Mark(w) \/ Ack(w) \/ IgnoreUnknown(w) \/ RunShard(w)
             \/ BeginVerify(w) \/ ShardsComplete(w) \/ WaitExpires(w) \/ ReadPartial(w)
             \/ Merge(w) \/ Clear(w) \/ WorkerDies(w) \/ WorkerStarts(w)
      PROVE  job' = job
  BY <1>6 DEF Dequeue, Mark, Ack, IgnoreUnknown, RunShard, BeginVerify, ShardsComplete,
              WaitExpires, ReadPartial, Merge, Clear, WorkerDies, WorkerStarts, queueVars
<1>7. CASE Shutdown \/ ApiRestarts \/ UNCHANGED vars
  BY <1>1, <1>7 DEF Shutdown, ApiRestarts, vars, queueVars
<1> QED
  BY <1>1, <1>2, <1>3, <1>4, <1>5, <1>6, <1>7 DEF Next, Progress

\* No step lets the embedded worker take a second task after its stop event.
LEMMA LateStep ==
  ASSUME TypeOK, TaskInv, LateInv, [Next]_vars
  PROVE  LateInv'
<1> USE DEF Goto
<1>0. /\ pc \in [Worker -> Working \cup {"poll", "mark", "down"}]
      /\ hand \in [Worker -> 0 .. sent] /\ Embedded \in Worker
  BY DispatchAssumption DEF TypeOK, Working
<1>a. pc[Embedded] \in {"mark", "run"} => job'[hand[Embedded]] = job[hand[Embedded]]
  BY <1>0, SendingJobs, JobsStay
\* A step that takes no task, and does not bring the embedded worker back.
<1>1. ASSUME late' = late, stop => stop', UNCHANGED hand,
             pc'[Embedded] = pc[Embedded]
      PROVE  LateInv'
  BY <1>1, <1>a DEF LateInv
<1>2. ASSUME late' = late, stop => stop',
             pc'[Embedded] \notin {"poll", "mark", "run"}
      PROVE  LateInv'
  BY <1>2 DEF LateInv
<1>3. ASSUME NEW w \in Worker, w # Embedded, late' = late, stop => stop',
             \E l : pc' = [pc EXCEPT ![w] = l],
             UNCHANGED hand \/ \E h : hand' = [hand EXCEPT ![w] = h]
      PROVE  LateInv'
  <2>1. pc'[Embedded] = pc[Embedded] /\ hand'[Embedded] = hand[Embedded]
    BY <1>0, <1>3
  <2> QED
    BY <1>3, <1>a, <2>1 DEF LateInv
<1>4. ASSUME NEW st \in Step, Request(st) PROVE LateInv'
  BY <1>1, <1>4 DEF Request, workerVars
<1>5. ASSUME NEW w \in Worker, Dequeue(w) PROVE LateInv'
  <2>1. PICK t \in pending :
            /\ hand' = [hand EXCEPT ![w] = t]
            /\ late' = IF stop /\ w = Embedded /\ job[t].step # "other"
                       THEN late + 1 ELSE late
    BY <1>5 DEF Dequeue
  <2>2. /\ pc[w] = "poll" /\ stop' = stop /\ job' = job
        /\ \E l \in {"mark", "run"} : pc' = [pc EXCEPT ![w] = l]
    BY <1>5 DEF Dequeue
  <2>3. CASE w = Embedded
    <3>1. late = 0
      BY <2>2, <2>3 DEF LateInv
    <3>2. hand'[Embedded] = t /\ pc'[Embedded] # "poll"
      BY <1>0, <2>1, <2>2, <2>3
    <3> QED
      BY <2>1, <2>2, <2>3, <3>1, <3>2 DEF LateInv
  <2>4. CASE w # Embedded
    BY <1>3, <2>1, <2>2, <2>4
  <2> QED
    BY <2>3, <2>4
<1>6. ASSUME NEW w \in Worker, Mark(w) PROVE LateInv'
  <2>1. /\ pc[w] = "mark" /\ pc' = [pc EXCEPT ![w] = "run"]
        /\ UNCHANGED <<hand, late, stop, job>>
    BY <1>6 DEF Mark, processVars
  <2> QED
    BY <1>0, <2>1 DEF LateInv
<1>7. ASSUME NEW w \in Worker, Ack(w) PROVE LateInv'
  <2>1. /\ pc' = [pc EXCEPT ![w] = IF w = Embedded /\ stop THEN "down" ELSE "poll"]
        /\ hand' = [hand EXCEPT ![w] = NoTask] /\ UNCHANGED <<late, stop>>
    BY <1>7 DEF Ack, processVars
  <2>2. CASE w = Embedded
    BY <1>0, <2>1, <2>2 DEF LateInv
  <2> QED
    BY <1>3, <2>1, <2>2
<1>8. ASSUME NEW w \in Worker, IgnoreUnknown(w) PROVE LateInv'
  <2>1. /\ pc' = [pc EXCEPT ![w] = "poll"] /\ pc[w] = "run" /\ job[hand[w]].step = "other"
        /\ hand' = [hand EXCEPT ![w] = NoTask] /\ UNCHANGED <<late, stop>>
    BY <1>8 DEF IgnoreUnknown, Runs, processVars
  <2>2. CASE w = Embedded
    BY <1>0, <2>1, <2>2 DEF LateInv
  <2> QED
    BY <1>3, <2>1, <2>2
<1>9. ASSUME NEW w \in Worker, WorkerDies(w) PROVE LateInv'
  <2>1. /\ pc' = [pc EXCEPT ![w] = "down"]
        /\ hand' = [hand EXCEPT ![w] = NoTask] /\ UNCHANGED <<late, stop>>
    BY <1>9 DEF WorkerDies, Drop
  <2>2. CASE w = Embedded
    BY <1>0, <2>1, <2>2, <1>2
  <2> QED
    BY <1>3, <2>1, <2>2
<1>10. ASSUME NEW w \in Worker, WorkerStarts(w) PROVE LateInv'
  <2>1. w # Embedded /\ pc' = [pc EXCEPT ![w] = "poll"] /\ UNCHANGED <<hand, late, stop>>
    BY <1>10 DEF WorkerStarts, processVars
  <2> QED
    BY <1>3, <2>1
<1>11. CASE Shutdown
  BY <1>1, <1>11 DEF Shutdown, workerVars
<1>12. CASE ApiRestarts
  BY <1>12 DEF ApiRestarts, LateInv
<1>13. CASE UNCHANGED vars
  BY <1>1, <1>13 DEF vars, workerVars, processVars
<1>14. ASSUME NEW w \in Worker,
              \/ RunTick(w) \/ RunShard(w) \/ BeginVerify(w) \/ SendShard(w)
              \/ ShardsComplete(w) \/ WaitExpires(w) \/ ReadPartial(w) \/ Merge(w) \/ Clear(w)
       PROVE  LateInv'
  <2>1. UNCHANGED <<hand, late, stop>>
    BY <1>14 DEF RunTick, RunShard, BeginVerify, SendShard, ShardsComplete, WaitExpires,
                 ReadPartial, Merge, Clear, processVars
  <2>2. \E l \in Working \ {"run"} : pc' = [pc EXCEPT ![w] = l]
    BY <1>14 DEF RunTick, RunShard, BeginVerify, SendShard, ShardsComplete, WaitExpires,
                 ReadPartial, Merge, Clear, Working
  <2>3. CASE w = Embedded
    <3>1. pc'[Embedded] \in Working \ {"run"}
      BY <1>0, <2>2, <2>3
    <3> QED
      BY <1>2, <2>1, <3>1 DEF Working
  <2> QED
    BY <1>3, <2>1, <2>2, <2>3
<1> QED
  BY <1>4, <1>5, <1>6, <1>7, <1>8, <1>9, <1>10, <1>11, <1>12, <1>13, <1>14 DEF Next, Progress

\* The initial states have the types, every task unsent and every hand empty.
LEMMA InitDispatch ==
  ASSUME Init
  PROVE  TypeOK /\ TaskInv /\ LateInv
<1>1. \A w \in Worker : hand[w] = NoTask /\ pc[w] \in {"poll", "down"} /\ NoTask = 0
  BY DEF Init, NoTask
<1>2. backend = "memory" => \A w \in Worker \ {Embedded} : pc[w] = "down"
  BY DEF Init, Serving
<1>3. NoResult \in Results /\ EmptyBuckets \in [Task -> Results]
  BY DEF NoResult, Results, EmptyBuckets
<1>4. QueueType /\ ProcessType
  <2>1. job \in [Task -> Job]
    BY Jobs DEF Init
  <2>2. sent \in 0 .. MaxTasks /\ 0 \in 0 .. MaxRequests /\ 0 \in 0 .. MaxFaults
    BY DispatchAssumption DEF Init
  <2>3. QueueType
    BY <2>1, <2>2 DEF Init, QueueType
  <2>4. ProcessType
    <3>1. late \in 0 .. sent /\ stop \in BOOLEAN
      <4>1. late = 0 /\ sent = 0
        BY DEF Init
      <4>2. stop \in BOOLEAN
        BY Zenon DEF Init
      <4>3. late \in 0 .. sent
        BY <4>1
      <4> QED
        BY <4>2, <4>3
    <3>2. requests = 0 /\ faults = 0
      BY DEF Init
    <3> QED
      BY <2>2, <3>1, <3>2 DEF ProcessType
  <2> QED
    BY <2>3, <2>4
<1>5. WorkerType
  BY ShardFacts DEF Init, WorkerType, NoTask
<1>6. FanoutType
  BY <1>3 DEF Init, FanoutType, Verdict
<1>7. TaskInv
  BY <1>1, <1>2 DEF Init, TaskInv, Working
<1>8. LateInv
  BY DEF Init, LateInv
<1> QED
  BY <1>4, <1>5, <1>6, <1>7, <1>8, TypeParts

\* What does not need the verdicts.
DispatchInv == TypeOK /\ TaskInv /\ LateInv

\* What every behaviour keeps of queue, workers and stop event.
LEMMA DispatchInvariance == Spec => []DispatchInv
<1>1. Init => DispatchInv
  BY InitDispatch DEF DispatchInv
<1>2. DispatchInv /\ [Next]_vars => DispatchInv'
  BY TypeStep, TaskStep, LateStep DEF DispatchInv
<1> QED
  BY <1>1, <1>2, PTL DEF Spec

\* The type invariant of the dispatch queue, its workers and the fan-outs.
THEOREM DispatchTypeCorrect == Spec => []TypeOK
<1>1. DispatchInv => TypeOK
  BY DEF DispatchInv
<1> QED
  BY <1>1, DispatchInvariance, PTL

\* What the in-flight hash holds is in a worker's hands or lost, whoever dies.
THEOREM InFlightExplained == Spec => []InFlightIsExplained
<1>1. DispatchInv => InFlightIsExplained
  <2> SUFFICES ASSUME DispatchInv PROVE InFlightIsExplained
    OBVIOUS
  <2>1. ASSUME NEW w \in Worker, pc[w] \notin {"poll", "mark", "down"}
        PROVE  hand[w] \in inFlight
    BY <2>1 DEF DispatchInv, TypeOK, TaskInv, Working
  <2>2. ASSUME NEW t \in inFlight PROVE Whereabouts(t) \in {"taken", "lost"}
    <3>1. t \in 1 .. sent /\ sent \in Nat /\ t \notin pending /\ t \notin acked
      BY DispatchAssumption DEF DispatchInv, TypeOK, TaskInv
    <3>2. ~(t > sent)
      BY <3>1
    <3> QED
      BY <3>1, <3>2 DEF Whereabouts
  <2> QED
    BY <2>1, <2>2 DEF InFlightIsExplained
<1> QED
  BY <1>1, DispatchInvariance, PTL

\* The embedded worker takes at most one task for a handler after its stop event.
THEOREM StopHeeded == Spec => []StopIsHeeded
<1>1. DispatchInv => StopIsHeeded
  BY DEF DispatchInv, LateInv, StopIsHeeded
<1> QED
  BY <1>1, DispatchInvariance, PTL

-----------------------------------------------------------------------------
(* The verdicts                                                            *)

\* A task that some worker may still run was so before, or is new.
LEMMA NothingReturns ==
  ASSUME TypeOK, TaskInv, [Next]_vars
  PROVE  \A t \in Task : NotRun(t)' => NotRun(t) \/ (t = sent + 1 /\ t \notin 1 .. sent)
<1> USE DEF Goto
<1>0. /\ pc \in [Worker -> Working \cup {"poll", "mark", "down"}]
      /\ hand \in [Worker -> 0 .. sent]
  BY DEF TypeOK, Working
<1>1. ASSUME pending' \subseteq pending \cup ({sent + 1} \ 1 .. sent),
             \A w \in Worker : pc'[w] \in {"mark", "run"} =>
                 pc[w] \in {"mark", "run"} /\ hand'[w] = hand[w]
      PROVE  \A t \in Task : NotRun(t)' => NotRun(t) \/ (t = sent + 1 /\ t \notin 1 .. sent)
  BY <1>1 DEF NotRun
<1>2. ASSUME NEW j \in Job, Send(j)
      PROVE  pending' \subseteq pending \cup ({sent + 1} \ 1 .. sent)
  BY <1>2, Sent, TypeParts
<1>3. ASSUME NEW st \in Step, Request(st)
      PROVE  \A t \in Task : NotRun(t)' => NotRun(t) \/ (t = sent + 1 /\ t \notin 1 .. sent)
  <2>1. pending' \subseteq pending \cup ({sent + 1} \ 1 .. sent) /\ hand' = hand /\ pc' = pc
    BY <1>2, <1>3, Jobs DEF Request, workerVars
  <2> QED
    BY <1>1, <2>1
<1>4. ASSUME NEW w \in Worker, Dequeue(w)
      PROVE  \A t \in Task : NotRun(t)' => NotRun(t)
  <2>1. PICK t \in pending : pending' = pending \ {t} /\ hand' = [hand EXCEPT ![w] = t]
    BY <1>4 DEF Dequeue
  <2>2. \E l \in {"mark", "run"} : pc' = [pc EXCEPT ![w] = l]
    BY <1>4 DEF Dequeue
  <2> QED
    BY <1>0, <2>1, <2>2 DEF NotRun
<1>5. ASSUME NEW w \in Worker, Mark(w)
      PROVE  \A t \in Task : NotRun(t)' => NotRun(t)
  <2>1. pc[w] = "mark" /\ pc' = [pc EXCEPT ![w] = "run"] /\ UNCHANGED <<pending, hand>>
    BY <1>5 DEF Mark
  <2> QED
    BY <1>0, <2>1 DEF NotRun
<1>6. ASSUME NEW w \in Worker, Carries(w)
      PROVE  \A t \in Task : NotRun(t)' => NotRun(t) \/ (t = sent + 1 /\ t \notin 1 .. sent)
  <2>1. pc[w] \in Working /\ hand' = hand
    BY <1>6 DEF Carries
  <2>2. pending' \subseteq pending \cup ({sent + 1} \ 1 .. sent)
    BY <1>2, <1>6 DEF Carries, queueVars
  <2>3. \E l \in Working \ {"run"} : pc' = [pc EXCEPT ![w] = l]
    BY <1>6 DEF Carries
  <2> QED
    BY <1>0, <1>1, <2>1, <2>2, <2>3 DEF Working
<1>7. ASSUME NEW w \in Worker,
             Ack(w) \/ IgnoreUnknown(w) \/ WorkerDies(w) \/ WorkerStarts(w)
      PROVE  \A t \in Task : NotRun(t)' => NotRun(t) \/ (t = sent + 1 /\ t \notin 1 .. sent)
  <2>1. /\ pending' = pending
        /\ \E l \in {"poll", "down"} : pc' = [pc EXCEPT ![w] = l]
        /\ hand' = hand \/ hand' = [hand EXCEPT ![w] = NoTask]
    BY <1>7 DEF Ack, IgnoreUnknown, WorkerDies, WorkerStarts, Drop, queueVars
  <2> QED
    BY <1>0, <1>1, <2>1
<1>8. CASE ApiRestarts
  <2>1. /\ pending' \subseteq pending
        /\ pc' = [pc EXCEPT ![Embedded] = "poll"]
        /\ hand' = [hand EXCEPT ![Embedded] = NoTask]
    BY <1>8 DEF ApiRestarts, Drop
  <2> QED
    BY <1>0, <1>1, <2>1
<1>9. CASE Shutdown \/ UNCHANGED vars
  BY <1>1, <1>9 DEF Shutdown, vars, queueVars, workerVars
<1> QED
  BY <1>3, <1>4, <1>5, <1>6, <1>7, <1>8, <1>9, Carrying DEF Next, Progress

\* A step that sends no shard, reports nothing and begins no fan-out.
LEMMA ShardFrame ==
  ASSUME TypeOK, TaskInv, ShardInv, [Next]_vars,
         sent' \in Nat, sent <= sent', UNCHANGED reported,
         \A t \in Task : t > sent' => job'[t] = NoJob,
         \A t, v \in Task, s \in Shard : job'[t] = ShardJob(v, s) <=> job[t] = ShardJob(v, s),
         \A w \in Worker : pc'[w] = "fan_out" =>
             pc[w] = "fan_out" /\ hand'[w] = hand[w] /\ next'[w] = next[w]
  PROVE  ShardInv'
<1>1. \A t \in 1 .. sent : t \in Task => (NotRun(t)' => NotRun(t))
  <2>1. \A t \in 1 .. sent : t # sent + 1
    BY DEF TypeOK
  <2> QED
    BY <2>1, NothingReturns
<1>2. \A t, v \in Task, s \in Shard : job[t] = ShardJob(v, s) => t \in 1 .. sent
  <2>1. ASSUME NEW t \in Task, NEW v \in Task, NEW s \in Shard, job[t] = ShardJob(v, s)
        PROVE  t \in 1 .. sent
    <3>1. job[t] # NoJob
      BY <2>1, Jobs
    <3>2. ~(t > sent)
      BY <3>1 DEF ShardInv
    <3> QED
      BY <3>2, DispatchAssumption DEF Task, TypeOK
  <2> QED
    BY <2>1
<1>3. \A t, v \in Task, s \in Shard :
          job'[t] = ShardJob(v, s) => v \in 1 .. sent' /\ ~NotRun(v)'
  <2>1. 1 .. sent \subseteq 1 .. sent'
    BY DEF TypeOK
  <2> QED
    BY <1>1, <2>1 DEF ShardInv
<1>4. \A t, u, v \in Task, s \in Shard :
          job'[t] = ShardJob(v, s) /\ job'[u] = ShardJob(v, s) => t = u
  BY DEF ShardInv
<1>5. ASSUME NEW w \in Worker, pc'[w] = "fan_out", NEW i \in next'[w] .. Len(ShardNames),
             NEW t \in Task
      PROVE  job'[t] # ShardJob(hand'[w], ShardNames[i])
  <2>1. pc[w] = "fan_out" /\ hand'[w] = hand[w] /\ next'[w] = next[w]
    BY <1>5
  <2>2. hand[w] \in Task /\ next[w] \in 1 .. Len(ShardNames)
    BY <2>1, SendingJobs
  <2>3. i \in 1 .. Len(ShardNames) /\ ShardNames[i] \in Shard
    BY <1>5, <2>1, <2>2, ShardFacts
  <2>4. job[t] # ShardJob(hand[w], ShardNames[i])
    BY <1>5, <2>1 DEF ShardInv
  <2> QED
    BY <2>1, <2>2, <2>3, <2>4
<1>6. \A t, v \in Task, s \in Shard :
          job'[t] = ShardJob(v, s) /\ NotRun(t)' => reported'[v][s] = NoCode
  BY <1>1, <1>2 DEF ShardInv
<1>7. \A v \in Task, s \in Shard :
          reported'[v][s] # NoCode => \E t \in Task : job'[t] = ShardJob(v, s)
  BY DEF ShardInv
<1> QED
  BY <1>3, <1>4, <1>5, <1>6, <1>7 DEF ShardInv

\* A task sent that is no shard.
LEMMA SendOther ==
  ASSUME TypeOK, TaskInv, ShardInv, [Next]_vars, NEW j \in Job, Send(j),
         j.step # "verify_shard", UNCHANGED reported,
         \A w \in Worker : pc'[w] = "fan_out" =>
             pc[w] = "fan_out" /\ hand'[w] = hand[w] /\ next'[w] = next[w]
  PROVE  ShardInv'
<1>1. /\ sent \in Nat /\ sent' = sent + 1 /\ sent' \in Task
      /\ job'[sent'] = j /\ \A t \in Task : t # sent' => job'[t] = job[t]
  BY TypeParts, Sent
<1>2. job[sent'] = NoJob
  BY <1>1 DEF ShardInv
<1>3. \A t \in Task : t > sent' => job'[t] = NoJob
  <2>1. \A t \in Task : t > sent' => t > sent /\ t # sent'
    BY <1>1 DEF Task
  <2> QED
    BY <1>1, <2>1 DEF ShardInv
<1>4. \A t, v \in Task, s \in Shard : job'[t] = ShardJob(v, s) <=> job[t] = ShardJob(v, s)
  <2>1. \A v \in Task, s \in Shard : ShardJob(v, s) # NoJob /\ ShardJob(v, s) # j
    BY Jobs
  <2> QED
    BY <1>1, <1>2, <2>1
<1>5. sent' \in Nat /\ sent <= sent'
  BY <1>1
<1> QED
  BY <1>3, <1>4, <1>5, ShardFrame

\* A shard sent: the first of its name for this fan-out.
LEMMA SendShardStep ==
  ASSUME TypeOK, TaskInv, TaskInv', ShardInv, [Next]_vars, NEW w \in Worker, SendShard(w)
  PROVE  ShardInv'
<1> DEFINE v0 == hand[w]
           s0 == ShardNames[next[w]]
<1>1. /\ pc[w] = "fan_out" /\ v0 \in Task /\ v0 \in 1 .. sent
      /\ next[w] \in 1 .. Len(ShardNames) /\ s0 \in Shard /\ ShardJob(v0, s0) \in Job
  BY SendingJobs DEF SendShard
<1>2. /\ sent \in Nat /\ sent' = sent + 1 /\ sent' \in Task
      /\ job'[sent'] = ShardJob(v0, s0) /\ \A t \in Task : t # sent' => job'[t] = job[t]
      /\ pending' = pending \cup {sent'}
  BY <1>1, TypeParts, Sent DEF SendShard
<1>3. /\ hand' = hand /\ reported' = reported
      /\ \/ /\ next' = [next EXCEPT ![w] = next[w] + 1]
            /\ pc' = [pc EXCEPT ![w] = "fan_out"]
         \/ /\ next' = [next EXCEPT ![w] = 1]
            /\ pc' = [pc EXCEPT ![w] = "wait"]
  BY DEF SendShard, Goto, fanoutVars
<1>4. job[sent'] = NoJob
  BY <1>2 DEF ShardInv
<1>5. \A t, v \in Task, s \in Shard :
          job'[t] = ShardJob(v, s) <=>
              job[t] = ShardJob(v, s) \/ (t = sent' /\ v = v0 /\ s = s0)
  <2>1. \A v \in Task, s \in Shard : ShardJob(v, s) # NoJob
    BY Jobs
  <2>2. \A v \in Task, s \in Shard : ShardJob(v0, s0) = ShardJob(v, s) <=> v = v0 /\ s = s0
    BY <1>1, Jobs
  <2>3. \A t \in Task : t # sent' => job'[t] = job[t]
    BY <1>2
  <2> QED
    BY <1>2, <1>4, <2>1, <2>2, <2>3
<1>6. \A t \in 1 .. sent : t \in Task => (NotRun(t)' => NotRun(t))
  <2>1. \A t \in 1 .. sent : t # sent + 1
    BY DEF TypeOK
  <2> QED
    BY <2>1, NothingReturns
<1>7. \A t \in Task : job[t] # ShardJob(v0, s0)
  BY <1>1 DEF ShardInv
<1>8. ~NotRun(v0)
  BY <1>1 DEF NotRun, TaskInv, NoTask
<1>a. \A t \in Task : t > sent' => job'[t] = NoJob
  <2>1. \A t \in Task : t > sent' => t > sent /\ t # sent'
    BY <1>2 DEF Task
  <2> QED
    BY <1>2, <2>1 DEF ShardInv
<1>b. \A t, v \in Task, s \in Shard :
          job'[t] = ShardJob(v, s) => v \in 1 .. sent' /\ ~NotRun(v)'
  <2>1. 1 .. sent \subseteq 1 .. sent'
    BY <1>2
  <2>2. \A v \in Task : v \in 1 .. sent /\ ~NotRun(v) => v \in 1 .. sent' /\ ~NotRun(v)'
    BY <1>6, <2>1
  <2>3. \A t, v \in Task, s \in Shard : job[t] = ShardJob(v, s) => v \in 1 .. sent /\ ~NotRun(v)
    BY DEF ShardInv
  <2>4. \A v \in Task : v = v0 => v \in 1 .. sent /\ ~NotRun(v)
    BY <1>1, <1>8
  <2> QED
    BY <1>5, <2>2, <2>3, <2>4
<1>c. \A t, u, v \in Task, s \in Shard :
          job'[t] = ShardJob(v, s) /\ job'[u] = ShardJob(v, s) => t = u
  <2>1. \A t, u, v \in Task, s \in Shard :
            job[t] = ShardJob(v, s) /\ job[u] = ShardJob(v, s) => t = u
    BY DEF ShardInv
  <2> QED
    BY <1>5, <1>7, <2>1
<1>d. ASSUME NEW u \in Worker, pc'[u] = "fan_out", NEW i \in next'[u] .. Len(ShardNames),
             NEW t \in Task
      PROVE  job'[t] # ShardJob(hand'[u], ShardNames[i])
  <2>1. CASE u = w
    <3>1. next'[w] = next[w] + 1 /\ pc \in [Worker -> Working \cup {"poll", "mark", "down"}]
      BY <1>3, <1>d, <2>1 DEF TypeOK, Working
    <3>2. i \in 1 .. Len(ShardNames) /\ i \in next[w] .. Len(ShardNames) /\ i # next[w]
      BY <1>1, <1>d, <2>1, <3>1, ShardFacts
    <3>3. ShardNames[i] \in Shard /\ ShardNames[i] # s0
      BY <1>1, <3>2, ShardFacts
    <3>4. job[t] # ShardJob(v0, ShardNames[i])
      BY <1>1, <3>2 DEF ShardInv
    <3> QED
      BY <1>1, <1>3, <1>5, <2>1, <3>3, <3>4
  <2>2. CASE u # w
    <3>1. pc[u] = "fan_out" /\ next'[u] = next[u] /\ hand'[u] = hand[u]
      BY <1>3, <1>d, <2>2 DEF TypeOK
    <3>2. hand[u] \in Task /\ hand[u] # v0
      BY <1>1, <2>2, <3>1, SendingJobs DEF TaskInv
    <3>3. i \in 1 .. Len(ShardNames) /\ ShardNames[i] \in Shard
      BY <1>d, <3>1, ShardFacts DEF TypeOK
    <3>4. job[t] # ShardJob(hand[u], ShardNames[i])
      BY <1>d, <3>1 DEF ShardInv
    <3> QED
      BY <1>5, <3>1, <3>2, <3>3, <3>4
  <2> QED
    BY <2>1, <2>2
<1>e. \A t, v \in Task, s \in Shard :
          job'[t] = ShardJob(v, s) /\ NotRun(t)' => reported'[v][s] = NoCode
  <2>1. reported[v0][s0] = NoCode
    BY <1>1, <1>7 DEF ShardInv
  <2>2. \A t, v \in Task, s \in Shard : job[t] = ShardJob(v, s) => t \in 1 .. sent
    <3>1. ASSUME NEW t \in Task, NEW v \in Task, NEW s \in Shard, job[t] = ShardJob(v, s)
          PROVE  t \in 1 .. sent
      <4>1. job[t] # NoJob
        BY <3>1, Jobs
      <4>2. ~(t > sent)
        BY <4>1 DEF ShardInv
      <4> QED
        BY <4>2, DispatchAssumption DEF Task, TypeOK
    <3> QED
      BY <3>1
  <2>3. \A t, v \in Task, s \in Shard :
            job[t] = ShardJob(v, s) /\ NotRun(t) => reported[v][s] = NoCode
    BY DEF ShardInv
  <2> QED
    BY <1>3, <1>5, <1>6, <2>1, <2>2, <2>3
<1>f. \A v \in Task, s \in Shard :
          reported'[v][s] # NoCode => \E t \in Task : job'[t] = ShardJob(v, s)
  BY <1>3, <1>5 DEF ShardInv
<1> QED
  BY <1>a, <1>b, <1>c, <1>d, <1>e, <1>f DEF ShardInv

\* A verify that begins has no shards yet.
LEMMA BeginVerifyStep ==
  ASSUME TypeOK, TaskInv, ShardInv, [Next]_vars, NEW w \in Worker, BeginVerify(w)
  PROVE  ShardInv'
<1>1. /\ UNCHANGED <<sent, job, reported, hand, next>>
      /\ pc[w] = "run" /\ hand[w] \in Task
      /\ \E l \in {"fan_out", "ack"} : pc' = [pc EXCEPT ![w] = l]
  BY SendingJobs DEF BeginVerify, Runs, Goto, queueVars, fanoutVars
<1>2. NotRun(hand[w])
  BY <1>1 DEF NotRun
<1>3. \A t \in Task : NotRun(t)' => NotRun(t)
  <2>1. pending' = pending /\ \A u \in Worker : pc'[u] \in {"mark", "run"} =>
                                  pc[u] \in {"mark", "run"} /\ hand'[u] = hand[u]
    BY <1>1 DEF BeginVerify, queueVars, TypeOK
  <2> QED
    BY <2>1 DEF NotRun
<1>4. ASSUME NEW u \in Worker, pc'[u] = "fan_out", NEW i \in next'[u] .. Len(ShardNames),
             NEW t \in Task
      PROVE  job'[t] # ShardJob(hand'[u], ShardNames[i])
  <2>1. CASE u = w
    <3>1. ShardNames[i] \in Shard
      BY <1>1, <1>4, ShardFacts DEF TypeOK
    <3>2. PICK v \in Task : v = hand[w]
      BY <1>1
    <3>3. job[t] # ShardJob(v, ShardNames[i])
      BY <1>2, <3>1, <3>2 DEF ShardInv
    <3> QED
      BY <1>1, <2>1, <3>2, <3>3
  <2>2. CASE u # w
    <3>1. pc[u] = "fan_out"
      BY <1>1, <1>4, <2>2 DEF TypeOK
    <3> QED
      BY <1>1, <1>4, <3>1 DEF ShardInv
  <2> QED
    BY <2>1, <2>2
<1> QED
  BY <1>1, <1>3, <1>4 DEF ShardInv

\* A shard that runs is the only one of its name, and does not run again.
LEMMA RunShardStep ==
  ASSUME TypeOK, TaskInv, ShardInv, NEW w \in Worker, RunShard(w)
  PROVE  /\ ShardInv'
         /\ \E v \in Task, s \in Shard, c \in Code :
                /\ reported[v][s] = NoCode /\ c # NoCode
                /\ bucket' = [bucket EXCEPT ![v][s] = c]
                /\ reported' = [reported EXCEPT ![v][s] = c]
<1>1. PICK c \in Code :
          /\ bucket' = [bucket EXCEPT ![job[hand[w]].fanout][job[hand[w]].shard] = c]
          /\ reported' = [reported EXCEPT ![job[hand[w]].fanout][job[hand[w]].shard] = c]
  BY DEF RunShard
<1>2. Runs(w, "verify_shard")
  BY DEF RunShard
<1>3. /\ job[hand[w]].fanout \in Task /\ job[hand[w]].shard \in Shard
      /\ job[hand[w]] = ShardJob(job[hand[w]].fanout, job[hand[w]].shard)
      /\ hand[w] \in Task /\ pc[w] = "run" /\ c # NoCode
  BY <1>2, RunningShard
<1>4. PICK v0 \in Task, s0 \in Shard, t0 \in Task :
          v0 = job[hand[w]].fanout /\ s0 = job[hand[w]].shard /\ t0 = hand[w]
  BY <1>3
<1>5. job[t0] = ShardJob(v0, s0) /\ NotRun(t0)
  BY <1>3, <1>4 DEF NotRun
<1>6. reported[v0][s0] = NoCode
  BY <1>5 DEF ShardInv
<1>7. reported' = [reported EXCEPT ![v0][s0] = c] /\ bucket' = [bucket EXCEPT ![v0][s0] = c]
  BY <1>1, <1>4
<1>8. /\ UNCHANGED <<sent, job, hand, next, pending>>
      /\ pc' = [pc EXCEPT ![w] = "ack"]
  BY DEF RunShard, queueVars, Goto
<1>9. \A t \in Task : NotRun(t)' => NotRun(t) /\ t # t0
  <2>1. \A u \in Worker : pc'[u] \in {"mark", "run"} => pc[u] \in {"mark", "run"} /\ u # w
    BY <1>8 DEF TypeOK
  <2>2. t0 \notin pending /\ \A u \in Worker : hand[u] = t0 => u = w
    BY <1>3, <1>4 DEF TaskInv
  <2> QED
    BY <1>8, <2>1, <2>2 DEF NotRun
<1>10. \A v \in Task, s \in Shard : v # v0 \/ s # s0 => reported'[v][s] = reported[v][s]
  BY <1>7 DEF TypeOK, Results
<1>11. \A t, v \in Task, s \in Shard :
           job'[t] = ShardJob(v, s) /\ NotRun(t)' => reported'[v][s] = NoCode
  <2>1. ASSUME NEW t \in Task, NEW v \in Task, NEW s \in Shard,
               job[t] = ShardJob(v, s), NotRun(t), t # t0
        PROVE  reported'[v][s] = NoCode
    <3>1. v # v0 \/ s # s0
      BY <1>5, <2>1 DEF ShardInv
    <3>2. reported[v][s] = NoCode
      BY <2>1 DEF ShardInv
    <3> QED
      BY <1>10, <3>1, <3>2
  <2> QED
    BY <1>8, <1>9, <2>1
<1>12. \A v \in Task, s \in Shard :
           reported'[v][s] # NoCode => \E t \in Task : job'[t] = ShardJob(v, s)
  BY <1>5, <1>8, <1>10 DEF ShardInv
<1>13. \A u \in Worker : pc'[u] = "fan_out" => pc[u] = "fan_out"
  BY <1>8 DEF TypeOK
<1>14. ShardInv'
  BY <1>8, <1>9, <1>11, <1>12, <1>13 DEF ShardInv
<1> QED
  BY <1>3, <1>6, <1>7, <1>14

\* What has been sent and reported stays single, whatever is done.
LEMMA ShardStep ==
  ASSUME TypeOK, TaskInv, TaskInv', ShardInv, [Next]_vars
  PROVE  ShardInv'
<1> USE DEF Goto
<1>0. pc \in [Worker -> Working \cup {"poll", "mark", "down"}]
  BY DEF TypeOK, Working
\* A step that touches neither the jobs nor the reports.
<1>1. ASSUME UNCHANGED <<sent, job, reported>>,
             \A w \in Worker : pc'[w] = "fan_out" =>
                 pc[w] = "fan_out" /\ hand'[w] = hand[w] /\ next'[w] = next[w]
      PROVE  ShardInv'
  <2>1. \A t \in Task : t > sent' => job'[t] = NoJob
    BY <1>1 DEF ShardInv
  <2>2. sent' \in Nat /\ sent <= sent'
    BY <1>1, DispatchAssumption DEF TypeOK
  <2> QED
    BY <1>1, <2>1, <2>2, ShardFrame
<1>2. ASSUME NEW st \in Step, Request(st) PROVE ShardInv'
  <2>1. Send(JobOf(st)) /\ JobOf(st) \in Job /\ JobOf(st).step # "verify_shard"
    BY <1>2, Jobs DEF Request
  <2>2. UNCHANGED <<reported, pc, hand, next>>
    BY <1>2 DEF Request, workerVars, fanoutVars
  <2> QED
    BY <2>1, <2>2, SendOther
<1>3. ASSUME NEW w \in Worker, RunTick(w) PROVE ShardInv'
  <2>1. UNCHANGED <<reported, hand, next>> /\ pc' = [pc EXCEPT ![w] = "ack"]
    BY <1>3 DEF RunTick, fanoutVars
  <2>2. \A u \in Worker : pc'[u] = "fan_out" => pc[u] = "fan_out"
    BY <1>0, <2>1
  <2>3. CASE Send(JobOf("campaign_tick"))
    <3>1. JobOf("campaign_tick") \in Job /\ JobOf("campaign_tick").step # "verify_shard"
      BY Jobs DEF Step
    <3> QED
      BY <2>1, <2>2, <2>3, <3>1, SendOther
  <2>4. CASE UNCHANGED queueVars
    BY <1>1, <2>1, <2>2, <2>4 DEF queueVars
  <2> QED
    BY <1>3, <2>3, <2>4 DEF RunTick
<1>4. ASSUME NEW w \in Worker, Dequeue(w) PROVE ShardInv'
  <2>1. /\ pc[w] = "poll" /\ UNCHANGED <<sent, job, reported, next>>
        /\ \E l \in {"mark", "run"} : pc' = [pc EXCEPT ![w] = l]
        /\ \E t \in pending : hand' = [hand EXCEPT ![w] = t]
    BY <1>4 DEF Dequeue, fanoutVars
  <2>2. \A u \in Worker : pc'[u] = "fan_out" => pc[u] = "fan_out" /\ u # w
    BY <1>0, <2>1
  <2>3. \A u \in Worker : u # w => hand'[u] = hand[u]
    BY <2>1 DEF TypeOK
  <2> QED
    BY <1>1, <2>1, <2>2, <2>3
<1>5. ASSUME NEW w \in Worker,
             \/ Mark(w) \/ Ack(w) \/ IgnoreUnknown(w) \/ ShardsComplete(w) \/ WaitExpires(w)
             \/ ReadPartial(w) \/ Merge(w) \/ Clear(w) \/ WorkerDies(w) \/ WorkerStarts(w)
      PROVE  ShardInv'
  <2>1. UNCHANGED <<sent, job, reported>>
    BY <1>5 DEF Mark, Ack, IgnoreUnknown, ShardsComplete, WaitExpires, ReadPartial, Merge,
                Clear, WorkerDies, WorkerStarts, queueVars, fanoutVars
  <2>2. \E l \in {"run", "poll", "down", "merge", "partial", "clear", "ack"} :
            pc' = [pc EXCEPT ![w] = l]
    BY <1>5 DEF Mark, Ack, IgnoreUnknown, ShardsComplete, WaitExpires, ReadPartial, Merge,
                Clear, WorkerDies, WorkerStarts
  <2>3. /\ hand' = hand \/ hand' = [hand EXCEPT ![w] = NoTask]
        /\ next' = next \/ next' = [next EXCEPT ![w] = 1]
    BY <1>5 DEF Mark, Ack, IgnoreUnknown, ShardsComplete, WaitExpires, ReadPartial, Merge,
                Clear, WorkerDies, WorkerStarts, Drop
  <2>4. \A u \in Worker : pc'[u] = "fan_out" => pc[u] = "fan_out" /\ u # w
    BY <1>0, <2>2
  <2>5. \A u \in Worker : u # w => hand'[u] = hand[u] /\ next'[u] = next[u]
    BY <2>3 DEF TypeOK
  <2> QED
    BY <1>1, <2>1, <2>4, <2>5
<1>6. CASE ApiRestarts
  <2>1. /\ UNCHANGED <<sent, job, reported>> /\ pc' = [pc EXCEPT ![Embedded] = "poll"]
        /\ hand' = [hand EXCEPT ![Embedded] = NoTask] /\ next' = [next EXCEPT ![Embedded] = 1]
    BY <1>6 DEF ApiRestarts, Drop
  <2>2. \A u \in Worker : pc'[u] = "fan_out" => pc[u] = "fan_out" /\ u # Embedded
    BY <1>0, <2>1
  <2>3. \A u \in Worker : u # Embedded => hand'[u] = hand[u] /\ next'[u] = next[u]
    BY <2>1 DEF TypeOK
  <2> QED
    BY <1>1, <2>1, <2>2, <2>3
<1>7. CASE Shutdown \/ UNCHANGED vars
  BY <1>1, <1>7 DEF Shutdown, vars, queueVars, workerVars, fanoutVars
<1> QED
  BY <1>2, <1>3, <1>4, <1>5, <1>6, <1>7, SendShardStep, BeginVerifyStep, RunShardStep
     DEF Next, Progress

\* As many results as shards: nothing is missing.
LEMMA AllPresent ==
  ASSUME NEW results \in Results, Cardinality(Present(results)) >= Cardinality(Shard)
  PROVE  Present(results) = Shard
<1>1. Present(results) \subseteq Shard
  BY DEF Present
<1>2. /\ IsFiniteSet(Present(results))
      /\ Cardinality(Present(results)) <= Cardinality(Shard)
      /\ Cardinality(Shard) = Cardinality(Present(results)) => Present(results) = Shard
  BY <1>1, ShardFacts, FS_Subset
<1>3. Cardinality(Present(results)) \in Nat /\ Cardinality(Shard) \in Nat
  BY <1>2, ShardFacts, FS_CardinalityType
<1> QED
  BY <1>2, <1>3

\* What a merge says of a full or an expired fan-out.
LEMMA MergeIsSound ==
  ASSUME TypeOK, VerdictInv, NEW t \in Task, t \in expired \/ Present(bucket[t]) = Shard
  PROVE  /\ Merged(bucket[t]) = "pass" =>
                \A s \in Shard : reported[t][s] # NoCode /\ reported[t][s] <= 0
         /\ Merged(bucket[t]) = "fail" =>
                t \in expired \/ \E s \in Present(reported[t]) : reported[t][s] > 0
<1>1. \A s \in Shard : bucket[t][s] # NoCode => bucket[t][s] = reported[t][s]
  BY DEF VerdictInv
<1>2. \A s \in Shard : reported[t][s] # NoCode => reported[t][s] \in Int
  <2>1. reported[t] \in [Shard -> Code \cup {NoCode}]
    BY DEF TypeOK, Results
  <2>2. Code \subseteq Int
    BY DispatchAssumption
  <2>3. \A s \in Shard : reported[t][s] \in Code \cup {NoCode}
    BY <2>1
  <2> QED
    BY <2>2, <2>3
<1>3. ASSUME Merged(bucket[t]) = "pass", NEW s \in Shard
      PROVE  reported[t][s] # NoCode /\ reported[t][s] <= 0
  <2>1. bucket[t][s] # NoCode /\ bucket[t][s] <= 0
    BY <1>3 DEF Merged
  <2> QED
    BY <1>1, <2>1
<1>4. ASSUME Merged(bucket[t]) = "fail", t \notin expired
      PROVE  \E s \in Present(reported[t]) : reported[t][s] > 0
  <2>1. PICK s \in Shard : ~(bucket[t][s] # NoCode /\ bucket[t][s] <= 0)
    BY <1>4 DEF Merged
  <2>2. bucket[t][s] # NoCode
    BY <1>4 DEF Present
  <2>3. reported[t][s] # NoCode /\ reported[t][s] > 0
    BY <1>1, <1>2, <2>1, <2>2
  <2> QED
    BY <2>3 DEF Present
<1> QED
  BY <1>3, <1>4

\* A step that leaves the results alone, decides nothing and begins no merge.
LEMMA VerdictFrame ==
  ASSUME VerdictInv, UNCHANGED <<bucket, verdict, reported>>, expired \subseteq expired',
         \A w \in Worker : pc'[w] \in {"partial", "merge"} =>
             pc'[w] = pc[w] /\ hand'[w] = hand[w]
  PROVE  VerdictInv'
<1>1. VerdictIsSound'
  BY DEF VerdictInv, VerdictIsSound, Present
<1>2. \A w \in Worker : pc'[w] = "merge" =>
          hand'[w] \in expired' \/ Present(bucket'[hand'[w]]) = Shard
  BY DEF VerdictInv
<1> QED
  BY <1>1, <1>2 DEF VerdictInv

\* A shard that reports leaves no verdict unsound: a fan-out that has one
\* passed only with every result, and failed for a result that stays.
LEMMA ReportStep ==
  ASSUME TypeOK, VerdictInv, NEW v \in Task, NEW s \in Shard, NEW c \in Code,
         reported[v][s] = NoCode, c # NoCode,
         bucket' = [bucket EXCEPT ![v][s] = c],
         reported' = [reported EXCEPT ![v][s] = c],
         UNCHANGED <<verdict, expired, hand>>,
         \A w \in Worker : pc'[w] \in {"partial", "merge"} => pc'[w] = pc[w],
         \A w \in Worker : pc[w] = "merge" => hand[w] \in Task
  PROVE  VerdictInv'
<1>1. \A t \in Task, r \in Shard :
          /\ bucket'[t][r] = IF t = v /\ r = s THEN c ELSE bucket[t][r]
          /\ reported'[t][r] = IF t = v /\ r = s THEN c ELSE reported[t][r]
  BY DEF TypeOK, Results
<1>2. \A t \in Task, r \in Shard : bucket'[t][r] \in {NoCode, reported'[t][r]}
  BY <1>1 DEF VerdictInv
<1>3. \A t \in Task : Present(bucket[t]) = Shard => Present(bucket'[t]) = Shard
  BY <1>1 DEF Present
<1>4. ASSUME NEW t \in Task, verdict[t] = "pass", NEW r \in Shard
      PROVE  reported'[t][r] # NoCode /\ reported'[t][r] <= 0
  <2>1. reported[t][r] # NoCode /\ reported[t][r] <= 0 /\ t # v
    BY <1>4 DEF VerdictInv, VerdictIsSound
  <2> QED
    BY <1>1, <2>1
<1>5. ASSUME NEW t \in Task, verdict[t] = "fail", t \notin expired
      PROVE  \E r \in Present(reported'[t]) : reported'[t][r] > 0
  <2>1. PICK r \in Present(reported[t]) : reported[t][r] > 0
    BY <1>5 DEF VerdictInv, VerdictIsSound
  <2>2. r \in Shard /\ reported'[t][r] = reported[t][r] /\ reported[t][r] # NoCode
    BY <1>1, <2>1 DEF Present
  <2> QED
    BY <2>1, <2>2 DEF Present
<1>6. VerdictIsSound'
  BY <1>4, <1>5 DEF VerdictIsSound
<1>7. \A w \in Worker : pc'[w] = "merge" =>
          hand'[w] \in expired' \/ Present(bucket'[hand'[w]]) = Shard
  BY <1>3 DEF VerdictInv
<1> QED
  BY <1>2, <1>6, <1>7 DEF VerdictInv

\* Every step keeps the verdicts sound.
LEMMA VerdictStep ==
  ASSUME TypeOK, TaskInv, ShardInv, VerdictInv, [Next]_vars
  PROVE  VerdictInv'
<1> USE DEF Goto
<1>0. /\ pc \in [Worker -> Working \cup {"poll", "mark", "down"}]
      /\ hand \in [Worker -> 0 .. sent]
      /\ bucket \in [Task -> Results] /\ verdict \in [Task -> Verdict]
  BY DEF TypeOK, Working
<1>1. ASSUME NEW w \in Worker, pc[w] \in {"wait", "partial", "merge", "clear"}
      PROVE  hand[w] \in Task /\ \A u \in Worker : u # w => hand[u] # hand[w]
  <2>1. hand[w] \in Task /\ hand[w] # NoTask
    BY <1>1, SendingJobs DEF TaskInv
  <2> QED
    BY <2>1 DEF TaskInv
\* The steps that have nothing to do with results.
<1>2. ASSUME NEW w \in Worker,
             \/ Dequeue(w) \/ Mark(w) \/ Ack(w) \/ IgnoreUnknown(w) \/ RunTick(w)
             \/ BeginVerify(w) \/ SendShard(w) \/ WorkerDies(w) \/ WorkerStarts(w)
      PROVE  VerdictInv'
  <2>1. UNCHANGED <<bucket, verdict, reported, expired>>
    BY <1>2 DEF Dequeue, Mark, Ack, IgnoreUnknown, RunTick, BeginVerify, SendShard, WorkerDies,
                WorkerStarts, fanoutVars
  <2>2. \E l \in {"mark", "run", "poll", "down", "fan_out", "wait", "ack"} :
            pc' = [pc EXCEPT ![w] = l]
    BY <1>2 DEF Dequeue, Mark, Ack, IgnoreUnknown, RunTick, BeginVerify, SendShard, WorkerDies,
                WorkerStarts
  <2>3. \E h : hand' = hand \/ hand' = [hand EXCEPT ![w] = h]
    BY <1>2 DEF Dequeue, Mark, Ack, IgnoreUnknown, RunTick, BeginVerify, SendShard, WorkerDies,
                WorkerStarts, Drop
  <2>4. \A u \in Worker : pc'[u] \in {"partial", "merge"} =>
            pc'[u] = pc[u] /\ hand'[u] = hand[u]
    BY <1>0, <2>2, <2>3
  <2> QED
    BY <2>1, <2>4, VerdictFrame
<1>3. ASSUME NEW st \in Step, Request(st) PROVE VerdictInv'
  BY <1>3, VerdictFrame DEF Request, workerVars, fanoutVars
<1>4. ASSUME NEW w \in Worker, RunShard(w) PROVE VerdictInv'
  <2>1. PICK v \in Task, s \in Shard, c \in Code :
            /\ reported[v][s] = NoCode /\ c # NoCode
            /\ bucket' = [bucket EXCEPT ![v][s] = c]
            /\ reported' = [reported EXCEPT ![v][s] = c]
    BY <1>4, RunShardStep
  <2>2. UNCHANGED <<verdict, expired, hand>> /\ pc' = [pc EXCEPT ![w] = "ack"]
    BY <1>4 DEF RunShard
  <2>3. \A u \in Worker : pc'[u] \in {"partial", "merge"} => pc'[u] = pc[u]
    BY <1>0, <2>2
  <2> QED
    BY <1>1, <2>1, <2>2, <2>3, ReportStep
<1>5. ASSUME NEW w \in Worker, ShardsComplete(w) PROVE VerdictInv'
  <2>1. /\ pc[w] = "wait" /\ pc' = [pc EXCEPT ![w] = "merge"]
        /\ UNCHANGED <<bucket, verdict, reported, expired, hand>>
    BY <1>5 DEF ShardsComplete, fanoutVars
  <2>2. Present(bucket[hand[w]]) = Shard
    BY <1>0, <1>1, <1>5, <2>1, AllPresent DEF ShardsComplete, Recorded
  <2>3. \A u \in Worker : u # w => pc'[u] = pc[u]
    BY <1>0, <2>1
  <2>4. VerdictIsSound'
    BY <2>1 DEF VerdictInv, VerdictIsSound, Present
  <2>5. pc'[w] = "merge"
    BY <1>0, <2>1
  <2> QED
    BY <2>1, <2>2, <2>3, <2>4, <2>5 DEF VerdictInv
<1>6. ASSUME NEW w \in Worker, WaitExpires(w) PROVE VerdictInv'
  <2>1. /\ expired' = expired \cup {hand[w]} /\ pc' = [pc EXCEPT ![w] = "partial"]
        /\ UNCHANGED <<bucket, verdict, reported, hand>>
    BY <1>6 DEF WaitExpires
  <2>2. \A u \in Worker : pc'[u] = IF u = w THEN "partial" ELSE pc[u]
    BY <1>0, <2>1
  <2>3. VerdictIsSound'
    BY <2>1 DEF VerdictInv, VerdictIsSound, Present
  <2> QED
    BY <2>1, <2>2, <2>3 DEF VerdictInv
<1>7. ASSUME NEW w \in Worker, ReadPartial(w) PROVE VerdictInv'
  <2>1. /\ pc[w] = "partial" /\ UNCHANGED <<bucket, reported, expired, hand>>
        /\ \/ verdict' = [verdict EXCEPT ![hand[w]] = "fail"] /\ pc' = [pc EXCEPT ![w] = "clear"]
           \/ verdict' = verdict /\ pc' = [pc EXCEPT ![w] = "merge"]
    BY <1>7 DEF ReadPartial
  <2>2. hand[w] \in expired /\ hand[w] \in Task
    BY <1>1, <2>1 DEF VerdictInv
  <2>3. \A t \in Task : verdict'[t] = verdict[t] \/ (t \in expired /\ verdict'[t] = "fail")
    BY <1>0, <2>1, <2>2
  <2>4. VerdictIsSound'
    BY <2>1, <2>3 DEF VerdictInv, VerdictIsSound, Present
  <2>5. \A u \in Worker : (u = w => pc'[u] # "partial") /\ (u # w => pc'[u] = pc[u])
    BY <1>0, <2>1
  <2> QED
    BY <2>1, <2>2, <2>4, <2>5 DEF VerdictInv
<1>8. ASSUME NEW w \in Worker, Merge(w) PROVE VerdictInv'
  <2>1. /\ pc[w] = "merge" /\ UNCHANGED <<bucket, reported, expired, hand>>
        /\ verdict' = [verdict EXCEPT ![hand[w]] = Merged(bucket[hand[w]])]
        /\ pc' = [pc EXCEPT ![w] = "clear"]
    BY <1>8 DEF Merge
  <2>2. PICK t0 \in Task : t0 = hand[w]
    BY <1>1, <2>1
  <2>3. /\ Merged(bucket[t0]) = "pass" =>
               \A s \in Shard : reported[t0][s] # NoCode /\ reported[t0][s] <= 0
        /\ Merged(bucket[t0]) = "fail" =>
               t0 \in expired \/ \E s \in Present(reported[t0]) : reported[t0][s] > 0
    BY <2>1, <2>2, MergeIsSound DEF VerdictInv
  <2>4. \A t \in Task : verdict'[t] = IF t = t0 THEN Merged(bucket[t0]) ELSE verdict[t]
    BY <1>0, <2>1, <2>2
  <2>5. VerdictIsSound'
    BY <2>1, <2>3, <2>4 DEF VerdictInv, VerdictIsSound, Present
  <2>6. \A u \in Worker : pc'[u] = IF u = w THEN "clear" ELSE pc[u]
    BY <1>0, <2>1
  <2> QED
    BY <2>1, <2>5, <2>6 DEF VerdictInv
<1>9. ASSUME NEW w \in Worker, Clear(w) PROVE VerdictInv'
  <2>1. /\ pc[w] = "clear" /\ UNCHANGED <<verdict, reported, expired, hand>>
        /\ bucket' = [bucket EXCEPT ![hand[w]] = NoResult]
        /\ pc' = [pc EXCEPT ![w] = "ack"]
    BY <1>9 DEF Clear
  <2>2. hand[w] \in Task /\ \A u \in Worker : u # w => hand[u] # hand[w]
    BY <1>1, <2>1
  <2>3. \A t \in Task, s \in Shard : bucket'[t][s] \in {NoCode, bucket[t][s]}
    BY <1>0, <2>1, <2>2 DEF NoResult
  <2>4. \A u \in Worker : pc'[u] = IF u = w THEN "ack" ELSE pc[u]
    BY <1>0, <2>1
  <2>5. \A u \in Worker : pc'[u] = "merge" => bucket'[hand'[u]] = bucket[hand[u]]
    <3>1. ASSUME NEW u \in Worker, pc'[u] = "merge" PROVE bucket'[hand'[u]] = bucket[hand[u]]
      <4>1. u # w /\ pc[u] = "merge"
        BY <2>4, <3>1
      <4>2. hand[u] \in Task /\ hand[u] # hand[w]
        BY <1>1, <2>2, <4>1
      <4> QED
        BY <1>0, <2>1, <4>2
    <3> QED
      BY <3>1
  <2>6. VerdictIsSound'
    BY <2>1 DEF VerdictInv, VerdictIsSound, Present
  <2> QED
    BY <2>1, <2>3, <2>4, <2>5, <2>6 DEF VerdictInv
<1>10. CASE ApiRestarts
  <2>1. /\ UNCHANGED <<verdict, reported, expired>>
        /\ hand' = [hand EXCEPT ![Embedded] = NoTask]
        /\ pc' = [pc EXCEPT ![Embedded] = "poll"]
        /\ bucket' = bucket \/ (backend = "memory" /\ bucket' = EmptyBuckets)
    BY <1>10 DEF ApiRestarts, Drop
  <2>2. \A u \in Worker : (u = Embedded => pc'[u] = "poll")
                          /\ (u # Embedded => pc'[u] = pc[u] /\ hand'[u] = hand[u])
    BY <1>0, <2>1
  <2>3. \A t \in Task, s \in Shard : bucket'[t][s] \in {NoCode, bucket[t][s]}
    BY <2>1 DEF EmptyBuckets, NoResult
  <2>4. \A u \in Worker : pc'[u] = "merge" => bucket' = bucket
    BY <2>1, <2>2 DEF TaskInv
  <2>5. VerdictIsSound'
    BY <2>1 DEF VerdictInv, VerdictIsSound, Present
  <2> QED
    BY <2>1, <2>2, <2>3, <2>4, <2>5 DEF VerdictInv
<1>11. CASE Shutdown \/ UNCHANGED vars
  BY <1>11, VerdictFrame DEF Shutdown, vars, workerVars, fanoutVars
<1> QED
  BY <1>2, <1>3, <1>4, <1>5, <1>6, <1>7, <1>8, <1>9, <1>10, <1>11 DEF Next, Progress

\* Nothing is sent, reported or decided at first.
LEMMA InitVerdicts ==
  ASSUME Init
  PROVE  ShardInv /\ VerdictInv
<1>1. \A v \in Task, s \in Shard : bucket[v][s] = NoCode /\ reported[v][s] = NoCode
  BY DEF Init, EmptyBuckets, NoResult
<1>2. \A t \in Task : job[t] = NoJob /\ verdict[t] = "none"
  BY DEF Init
<1>3. \A w \in Worker : pc[w] \in {"poll", "down"}
  BY DEF Init
<1>4. \A v \in Task, s \in Shard : ShardJob(v, s) # NoJob
  BY Jobs
<1>5. ShardInv
  BY <1>1, <1>2, <1>3, <1>4 DEF ShardInv
<1>6. VerdictIsSound
  BY <1>2 DEF VerdictIsSound
<1> QED
  BY <1>1, <1>3, <1>5, <1>6 DEF VerdictInv

\* A verify passes only if each of its shards ran and none failed; it fails
\* only for one that failed or that the deadline cut off.
THEOREM VerdictsSound == Spec => []VerdictIsSound
<1>1. Init => IInv
  BY InitDispatch, InitVerdicts DEF IInv
<1>2. IInv /\ [Next]_vars => IInv'
  BY TypeStep, TaskStep, LateStep, ShardStep, VerdictStep DEF IInv
<1>3. IInv => VerdictIsSound
  BY DEF IInv, VerdictInv
<1> QED
  BY <1>1, <1>2, <1>3, PTL DEF Spec

-----------------------------------------------------------------------------
(* Delivery: first in, first out, at most once                             *)

State == [t \in Task |-> Whereabouts(t)]

\* The whereabouts of every task, once for all.
LEMMA Places ==
  ASSUME TypeOK, TaskInv
  PROVE  \A t \in Task :
             /\ Whereabouts(t) = "unsent" <=> t > sent
             /\ Whereabouts(t) = "queued" <=> t \in pending
             /\ Whereabouts(t) = "taken" <=> t \in Held
             /\ Whereabouts(t) = "done" <=> t \in acked
             /\ Whereabouts(t) \in {"unsent", "queued", "taken", "done", "lost"}
<1> TAKE t \in Task
<1>1. t \in Nat /\ sent \in Nat
  BY DispatchAssumption DEF Task, TypeOK
<1>2. t \in pending \/ t \in acked \/ t \in Held => ~(t > sent)
  <2>1. t \in pending \/ t \in acked => t \in 1 .. sent
    BY DEF TypeOK
  <2>2. t \in Held => t \in 0 .. sent
    BY DEF TypeOK, Held
  <2> QED
    BY <1>1, <2>1, <2>2
<1>3. t \in Held => t \notin pending /\ t \notin acked
  BY DEF Held, TaskInv
<1>4. ~(t \in pending /\ t \in acked)
  BY DEF TaskInv
<1> QED
  BY <1>2, <1>3, <1>4 DEF Whereabouts

\* A step that keeps every task where it is.
LEMMA SamePlaces ==
  ASSUME UNCHANGED <<sent, pending, hand, acked>>
  PROVE  State' = State
<1>1. Held' = Held
  BY DEF Held
<1>2. \A t \in Task : Whereabouts(t)' = Whereabouts(t)
  BY <1>1 DEF Whereabouts
<1> QED
  BY <1>2 DEF State

\* A step that moves one task only.
LEMMA OneMoves ==
  ASSUME NEW t \in Task, NEW p,
         Whereabouts(t)' = p,
         \A u \in Task \ {t} : Whereabouts(u)' = Whereabouts(u)
  PROVE  State' = [State EXCEPT ![t] = p]
  BY DEF State

\* enqueue() is a send of the next task.
LEMMA SendDelivers ==
  ASSUME TypeOK, TypeOK', TaskInv, TaskInv', NEW j \in Job, Send(j), hand' = hand
  PROVE  Delivery!Next
<1>0. /\ sent \in Nat /\ sent + 1 \in Task /\ sent' = sent + 1
      /\ pending' = pending \cup {sent + 1} /\ UNCHANGED <<backend, acked>>
  BY TypeParts, Sent
<1>a. PICK t \in Task : t = sent + 1
  BY <1>0
<1>1. /\ t \in Nat /\ sent \in Nat /\ sent' = t /\ t > sent
      /\ pending' = pending \cup {t} /\ UNCHANGED <<backend, acked>>
  BY <1>0, <1>a
<1>2. Held' = Held
  BY DEF Held
<1>3. Whereabouts(t) = "unsent" /\ Whereabouts(t)' = "queued"
  <2>1. Whereabouts(t) = "unsent"
    BY <1>1, Places
  <2>2. ~(t > sent') /\ t \in pending' /\ t \notin acked' /\ t \notin Held'
    <3>1. ~(t > sent') /\ t \in pending'
      BY <1>1
    <3> QED
      BY <3>1 DEF TaskInv, Held
  <2>3. Whereabouts(t)' = "queued"
    BY <2>2 DEF Whereabouts
  <2> QED
    BY <2>1, <2>3
<1>4. \A u \in Task \ {t} : Whereabouts(u)' = Whereabouts(u)
  <2> TAKE u \in Task \ {t}
  <2>1. (u > sent' <=> u > sent) /\ (u \in pending' <=> u \in pending)
    <3>1. u \in Nat /\ u # t
      BY DEF Task
    <3> QED
      BY <1>1, <1>a, <3>1
  <2> QED
    BY <1>1, <1>2, <2>1 DEF Whereabouts
<1>5. State' = [State EXCEPT ![t] = "queued"]
  BY <1>1, <1>3, <1>4, OneMoves
<1>6. \A s \in Task : Whereabouts(s) = "unsent" => t <= s
  <2>1. ASSUME NEW s \in Task, Whereabouts(s) = "unsent" PROVE t <= s
    <3>1. s \in Nat /\ s > sent
      BY <2>1, Places DEF Task
    <3> QED
      BY <1>1, <1>a, <3>1
  <2> QED
    BY <2>1
<1>7. Delivery!Send(t)
  BY <1>1, <1>3, <1>5, <1>6 DEF Delivery!Send, Delivery!In, Delivery!Move, State
<1> QED
  BY <1>1, <1>7 DEF Delivery!Next

\* dequeue() takes the task that has waited longest.
LEMMA DequeueDelivers ==
  ASSUME TypeOK, TypeOK', TaskInv, TaskInv', NEW w \in Worker, Dequeue(w)
  PROVE  Delivery!Next
<1>1. PICK t \in pending :
          /\ Oldest(t)
          /\ pending' = pending \ {t}
          /\ hand' = [hand EXCEPT ![w] = t]
  BY DEF Dequeue
<1>2. pc[w] = "poll" /\ UNCHANGED <<backend, sent, acked>>
  BY DEF Dequeue
<1>3. t \in Task /\ t # NoTask
  BY <1>1, DispatchAssumption DEF TypeOK, Task, NoTask
<1>4. hand[w] = NoTask
  BY <1>2 DEF TaskInv
<1>5. Held' = Held \cup {t}
  BY <1>1, <1>3, <1>4 DEF Held, TypeOK
<1>6. Whereabouts(t) = "queued" /\ Whereabouts(t)' = "taken"
  <2>1. Whereabouts(t) = "queued" /\ ~(t > sent)
    BY <1>1, <1>3, Places
  <2>2. ~(t > sent') /\ t \notin pending' /\ t \in Held' /\ t \notin acked'
    BY <1>1, <1>2, <1>5, <2>1 DEF TaskInv
  <2>3. Whereabouts(t)' = "taken"
    BY <2>2 DEF Whereabouts
  <2> QED
    BY <2>1, <2>3
<1>7. \A u \in Task \ {t} : Whereabouts(u)' = Whereabouts(u)
  BY <1>1, <1>2, <1>5 DEF Whereabouts
<1>8. State' = [State EXCEPT ![t] = "taken"]
  BY <1>3, <1>6, <1>7, OneMoves
<1>9. \A s \in Task : Whereabouts(s) = "queued" => t <= s
  BY <1>1, Places DEF Oldest
<1>10. Delivery!Take(t)
  BY <1>2, <1>3, <1>6, <1>8, <1>9 DEF Delivery!Take, Delivery!In, Delivery!Move, State
<1> QED
  BY <1>3, <1>10 DEF Delivery!Next

\* ack() finishes the task in the worker's hand.
LEMMA AckDelivers ==
  ASSUME TypeOK, TypeOK', TaskInv, TaskInv', NEW w \in Worker, Ack(w) \/ IgnoreUnknown(w)
  PROVE  Delivery!Next
<1>0. hand[w] \in Task
  <2>1. hand[w] # NoTask
    BY DEF Ack, IgnoreUnknown, Runs, TaskInv
  <2> QED
    BY <2>1, DispatchAssumption DEF TypeOK, Task, NoTask
<1>a. PICK t \in Task : t = hand[w]
  BY <1>0
<1>1. /\ pc[w] \notin {"poll", "down"}
      /\ acked' = acked \cup {t}
      /\ hand' = [hand EXCEPT ![w] = NoTask]
      /\ UNCHANGED <<backend, sent, pending>>
  BY <1>a DEF Ack, IgnoreUnknown, Runs
<1>2. t \in Task /\ t # NoTask
  BY <1>1, <1>a DEF TaskInv
<1>3. \A v \in Worker : v # w => hand[v] # t
  BY <1>2, <1>a DEF TaskInv
<1>4. t \in Held /\ Held' = Held \ {t}
  BY <1>1, <1>2, <1>3, <1>a DEF Held, TypeOK
<1>5. Whereabouts(t) = "taken" /\ Whereabouts(t)' = "done"
  <2>1. Whereabouts(t) = "taken" /\ ~(t > sent) /\ t \notin pending
    BY <1>2, <1>4, Places
  <2>2. ~(t > sent') /\ t \notin pending' /\ t \notin Held' /\ t \in acked'
    BY <1>1, <1>4, <2>1
  <2>3. Whereabouts(t)' = "done"
    BY <2>2 DEF Whereabouts
  <2> QED
    BY <2>1, <2>3
<1>6. \A u \in Task \ {t} : Whereabouts(u)' = Whereabouts(u)
  BY <1>1, <1>4 DEF Whereabouts
<1>7. State' = [State EXCEPT ![t] = "done"]
  BY <1>2, <1>5, <1>6, OneMoves
<1>8. Delivery!Finish(t)
  BY <1>1, <1>2, <1>5, <1>7 DEF Delivery!Finish, Delivery!Move, State
<1> QED
  BY <1>2, <1>8 DEF Delivery!Next

\* A task out of a dead worker's hand, or out of a process that ended, is lost.
LEMMA FaultDelivers ==
  ASSUME TypeOK, TypeOK', TaskInv, TaskInv',
         ApiRestarts \/ \E w \in Worker : WorkerDies(w)
  PROVE  Delivery!Next
<1>1. PICK w \in Worker : hand' = [hand EXCEPT ![w] = NoTask]
  BY DispatchAssumption DEF ApiRestarts, WorkerDies, Drop
<1>2. /\ UNCHANGED <<backend, sent, acked>>
      /\ pending' \subseteq pending
      /\ pending' # pending => backend = "memory"
  BY DEF ApiRestarts, WorkerDies, queueVars
<1>3. Held' \subseteq Held
  BY <1>1 DEF Held, TypeOK
<1>4. ASSUME NEW t \in Task, Whereabouts(t)' # Whereabouts(t)
      PROVE  /\ Whereabouts(t)' = "lost"
             /\ Whereabouts(t) = "taken" \/ (Whereabouts(t) = "queued" /\ backend # "redis")
  <2>1. (t > sent' <=> t > sent) /\ (t \in acked' <=> t \in acked)
    BY <1>2
  <2>2. CASE t \in pending
    <3>1. t \notin pending' /\ backend = "memory"
      BY <1>2, <1>4, <2>1, <2>2 DEF Whereabouts
    <3>2. t \notin Held' /\ t \notin acked' /\ ~(t > sent')
      BY <1>2, <1>3, <2>2, Places
    <3> QED
      BY <2>2, <3>1, <3>2, Places DEF Whereabouts
  <2>3. CASE t \notin pending
    <3>1. t \in Held /\ t \notin Held'
      BY <1>2, <1>3, <1>4, <2>1, <2>3 DEF Whereabouts
    <3>2. t \notin pending' /\ t \notin acked' /\ ~(t > sent')
      BY <1>2, <2>3, <3>1, Places
    <3> QED
      BY <3>1, <3>2, Places DEF Whereabouts
  <2> QED
    BY <2>2, <2>3
<1>5. State' \in [Task -> Delivery!TaskState]
  <2>1. \A t \in Task : Whereabouts(t)' \in {"unsent", "queued", "taken", "done", "lost"}
    BY DEF Whereabouts
  <2> QED
    BY <2>1 DEF State, Delivery!TaskState
<1>6. Delivery!Lose
  BY <1>2, <1>4, <1>5 DEF Delivery!Lose, Delivery!Losable, State
<1> QED
  BY <1>6 DEF Delivery!Next

\* Every step of queue, workers and processes is a step of the delivery, or none.
LEMMA DeliveryStep ==
  ASSUME TypeOK, TypeOK', TaskInv, TaskInv', [Next]_vars
  PROVE  [Delivery!Next]_Delivery!deliveryVars
<1>1. ASSUME UNCHANGED <<backend, sent, pending, hand, acked>>
      PROVE  [Delivery!Next]_Delivery!deliveryVars
  BY <1>1, SamePlaces DEF Delivery!deliveryVars, State
<1>2. ASSUME NEW st \in Step, Request(st) PROVE Delivery!Next
  BY <1>2, SendDelivers, Jobs DEF Request, workerVars
<1>3. ASSUME NEW w \in Worker, Carries(w)
      PROVE  [Delivery!Next]_Delivery!deliveryVars
  <2>1. CASE UNCHANGED queueVars
    BY <1>1, <1>3, <2>1 DEF Carries, queueVars
  <2> QED
    BY <1>3, <2>1, SendDelivers DEF Carries
<1>4. ASSUME NEW w \in Worker, Mark(w) \/ WorkerStarts(w)
      PROVE  [Delivery!Next]_Delivery!deliveryVars
  BY <1>1, <1>4 DEF Mark, WorkerStarts, queueVars
<1>5. CASE Shutdown \/ UNCHANGED vars
  BY <1>1, <1>5 DEF Shutdown, vars, queueVars, workerVars
<1> QED
  BY <1>2, <1>3, <1>4, <1>5, Carrying, DequeueDelivers, AckDelivers, FaultDelivers
     DEF Next, Progress

\* Both queues deliver first in, first out and at most once, and lose a task
\* only with a worker or, in memory, with the process.
THEOREM DispatchImplementsDelivery == Spec => ImplementsDelivery
<1>1. Init => Delivery!Init
  <2> SUFFICES ASSUME Init PROVE Delivery!Init
    OBVIOUS
  <2>1. \A t \in Task : t > sent
    BY DispatchAssumption DEF Init, Task
  <2>2. \A t \in Task : Whereabouts(t) = "unsent"
    BY <2>1, InitDispatch, Places
  <2> QED
    BY <2>2 DEF Delivery!Init
<1>2. DispatchInv /\ DispatchInv' /\ [Next]_vars => [Delivery!Next]_Delivery!deliveryVars
  BY DeliveryStep DEF DispatchInv
<1> QED
  BY <1>1, <1>2, DispatchInvariance, PTL DEF Spec, ImplementsDelivery, Delivery!Spec
=============================================================================

---------------------------- MODULE MeshHostProofs ----------------------------
(***************************************************************************)
(* The host's side of a mesh dispatch, for any dispatches, stages, caps,   *)
(* workload distributions, workers and restarts: type correctness, what a  *)
(* pass rests on, what was merged, what stays at home and what is read.    *)
(***************************************************************************)
EXTENDS MeshHost, FiniteSetTheorems, TLAPS

-----------------------------------------------------------------------------
(* The inductive invariant                                                 *)

\* Unit u is a unit of dispatch d's stage s.
IsUnitOf(u, d, s) == u \in Created /\ job[u] = [run |-> d, stage |-> s]

\* Every unit is of a remote stage of a dispatch that has been assigned; the
\* unit an operator is restarting exists.
JobsRemote ==
    /\ \A u \in Created :
           /\ job[u] \in [run : Dispatch, stage : Stage]
           /\ job[u].stage \in remote[job[u].run]
           /\ pc[job[u].run] \notin {"set_mode", "assign"}
    /\ op.pc # "idle" => op.unit \in Created

\* While it enqueues, a dispatch has only remote stages before it, and a
\* host_only one has none.
TodoRemote ==
    \A d \in Dispatch : pc[d] = "enqueue" =>
        /\ todo[d] \subseteq remote[d]
        /\ Workload[d] = "host_only" => todo[d] = {}

\* No remote stage has a result before the read loop.
UnreadUntilAbsorbed ==
    \A d \in Dispatch :
        /\ pc[d] \in {"set_mode", "assign", "enqueue", "raised"} =>
               \A s \in Stage : result[d][s] = "none"
        /\ pc[d] \in {"wait", "absorb"} => \A s \in remote[d] : result[d][s] = "none"

\* The read loop has a result for every remote stage it no longer visits.
ReadInTurn ==
    \A d \in Dispatch :
        /\ pc[d] \in {"read"} \cup Stage =>
               \A s \in remote[d] : s \in todo[d] \/ result[d][s] # "none"
        /\ pc[d] = "done" => \A s \in remote[d] : result[d][s] # "none"

\* In time, the wait saw a unit over for every stage it no longer visits.
WaitedFor ==
    \A d \in Dispatch \ late : \A s \in remote[d] :
        pc[d] = "absorb" \/ (pc[d] = "wait" /\ s \notin todo[d]) =>
            \E u \in Created : IsUnitOf(u, d, s) /\ IsOver(u)

\* ... so that afterwards the stage has a merged unit, or several units.
MergedOrSuperseded ==
    \A d \in Dispatch \ late : \A s \in remote[d] :
        pc[d] \in {"read", "done"} \cup Stage =>
            \/ \E u \in absorbed : IsUnitOf(u, d, s)
            \/ \E u, v \in Created : u # v /\ IsUnitOf(u, d, s) /\ IsUnitOf(v, d, s)

IInv == /\ TypeOK
        /\ JobsRemote
        /\ TodoRemote
        /\ UnreadUntilAbsorbed
        /\ ReadInTurn
        /\ WaitedFor
        /\ MergedOrSuperseded
        /\ HostOnlyStaysHome

-----------------------------------------------------------------------------
(* The latest unit of a stage                                              *)

\* A nonempty set of units has a greatest one, and Max() is in the set.
LEMMA MaxOfUnits ==
  ASSUME NEW S, S \subseteq Unit, S # {}
  PROVE  Max(S) \in S /\ \A y \in S : y <= Max(S)
<1> DEFINE R == OpToRel(<, Nat)
           T == {k \in Nat : \E x \in S : k = MaxUnits - x}
<1>1. MaxUnits \in Nat /\ \A x \in S : x \in Nat /\ MaxUnits - x \in Nat
  BY DispatchAssumption DEF Unit
<1>2. T \subseteq Nat /\ T # {}
  BY <1>1
<1>3. IsWellFoundedOn(R, Nat)
  BY NatLessThanWellFounded
<1>4. \A i, j \in Nat : i < j => <<i, j>> \in R
  BY DEF OpToRel
<1> HIDE DEF R
<1>5. PICK k \in T : \A j \in T : ~(<<j, k>> \in R)
  <2> HIDE DEF T
  <2> QED
    BY <1>2, <1>3, WFMin
<1>6. PICK x \in S : k = MaxUnits - x
  BY <1>5
<1>7. \A y \in S : x >= y
  <2> SUFFICES ASSUME NEW y \in S, ~(x >= y) PROVE FALSE
    OBVIOUS
  <2>1. MaxUnits - y \in T /\ MaxUnits - y < k /\ MaxUnits - y \in Nat /\ k \in Nat
    BY <1>1, <1>6
  <2> QED
    BY <1>4, <1>5, <2>1
<1> QED
  BY <1>7 DEF Max

\* _latest_unit() returns a unit of the stage, unless there is none.
LEMMA LatestIsUnit ==
  ASSUME NEW d \in Dispatch, NEW s \in Stage
  PROVE  /\ LatestUnit(d, s) # NoUnit => IsUnitOf(LatestUnit(d, s), d, s)
         /\ LatestUnit(d, s) \in Unit \cup {NoUnit}
         /\ \A u : IsUnitOf(u, d, s) => LatestUnit(d, s) \in Unit
         /\ \A u \in UnitsOf(d, s) : u <= LatestUnit(d, s)
<1>1. UnitsOf(d, s) \subseteq Unit /\ NoUnit \notin Unit
  BY DEF UnitsOf, Created, Unit, NoUnit
<1>2. CASE UnitsOf(d, s) = {}
  BY <1>2 DEF LatestUnit, UnitsOf, IsUnitOf
<1>3. CASE UnitsOf(d, s) # {}
  <2>1. /\ Max(UnitsOf(d, s)) \in UnitsOf(d, s)
        /\ \A u \in UnitsOf(d, s) : u <= Max(UnitsOf(d, s))
    BY <1>1, <1>3, MaxOfUnits
  <2> QED
    BY <1>1, <1>3, <2>1 DEF LatestUnit, UnitsOf, IsUnitOf
<1> QED
  BY <1>2, <1>3

\* A stage's name is no label.
LEMMA StageNotLabel ==
  \A s \in Stage : s \notin {"set_mode", "assign", "enqueue", "wait", "absorb", "read",
                             "done", "raised"}
  BY DispatchAssumption DEF Label

-----------------------------------------------------------------------------
(* Steps of the queue                                                      *)

\* enqueue() makes one fresh unit and changes no other.
LEMMA EnqueueEffect ==
  ASSUME TypeOK, NEW j \in [run : Dispatch, stage : Stage], EnqueueJob(j)
  PROVE  \E n \in Unit : /\ n \notin Created /\ Created' = Created \cup {n}
                         /\ job' = [job EXCEPT ![n] = j] /\ job'[n] = j
                         /\ node' = node
                         /\ status' \in [Unit -> Queue!Status]
                         /\ job' \in [Unit -> [run : Dispatch, stage : Stage] \cup {NoJob}]
                         /\ \A u \in Created : status'[u] = status[u] /\ job'[u] = job[u]
<1>1. PICK n \in Unit : Queue!Enqueue(n) /\ job' = [job EXCEPT ![n] = j]
  BY DEF EnqueueJob
<1>2. status[n] = "absent" /\ status' = [status EXCEPT ![n] = "queued"] /\ node' = node
  BY <1>1 DEF Queue!Enqueue
<1>3. n \notin Created /\ Created' = Created \cup {n}
  BY <1>2 DEF Created, TypeOK
<1>4. \A u \in Created : status'[u] = status[u] /\ job'[u] = job[u]
  BY <1>1, <1>2, <1>3 DEF Created, TypeOK
<1> QED
  BY <1>1, <1>2, <1>3, <1>4 DEF TypeOK, Queue!Status, Queue!Live

\* Units only appear, keep their job, and keep what they ended with.
QueueMonotone ==
    /\ \A u \in Created : u \in Created' /\ job'[u] = job[u]
    /\ \A u \in Created : IsOver(u) => status'[u] = status[u] /\ payload'[u] = payload[u]

\* What a dispatch has seen of the queue stays true when the queue moves on
\* and the dispatch does not, but for what it has still to enqueue.
LEMMA QueueMoves ==
  ASSUME IInv, QueueMonotone, UNCHANGED <<pc, remote, result, absorbed, late>>,
         \A d \in Dispatch : pc[d] # "enqueue" => todo'[d] = todo[d]
  PROVE  /\ UnreadUntilAbsorbed' /\ ReadInTurn' /\ WaitedFor' /\ MergedOrSuperseded'
<1>1. \A u : \A d \in Dispatch, s \in Stage : IsUnitOf(u, d, s) => IsUnitOf(u, d, s)'
  BY DEF QueueMonotone, IsUnitOf
<1>2. \A u \in Created : u \in Created' /\ (IsOver(u) => IsOver(u)')
  BY DEF QueueMonotone, IsOver
<1>3. UnreadUntilAbsorbed'
  BY DEF IInv, UnreadUntilAbsorbed
<1>4. \A d \in Dispatch : remote[d] \subseteq Stage
  BY DEF IInv, TypeOK
<1>5. ReadInTurn'
  <2>1. \A d \in Dispatch : pc[d] \in {"read"} \cup Stage => pc[d] # "enqueue"
    BY StageNotLabel
  <2> QED
    BY <2>1 DEF IInv, ReadInTurn
<1>6. WaitedFor'
  <2> SUFFICES ASSUME NEW d \in Dispatch \ late, NEW s \in remote[d],
                      pc[d] = "absorb" \/ (pc[d] = "wait" /\ s \notin todo[d])
               PROVE  \E u \in Created' : IsUnitOf(u, d, s)' /\ IsOver(u)'
    BY DEF WaitedFor
  <2>1. PICK u \in Created : IsUnitOf(u, d, s) /\ IsOver(u)
    BY DEF IInv, WaitedFor
  <2> QED
    BY <1>1, <1>2, <1>4, <2>1
<1>7. MergedOrSuperseded'
  BY <1>1, <1>2, <1>4 DEF IInv, MergedOrSuperseded
<1> QED
  BY <1>3, <1>5, <1>6, <1>7

\* A step of the queue that makes no unit leaves the units' jobs alone.
LEMMA NoNewUnit ==
  ASSUME IInv, Created' = Created, UNCHANGED <<job, remote, pc, todo>>,
         op'.pc # "idle" => op'.unit \in Created
  PROVE  JobsRemote' /\ TodoRemote' /\ HostOnlyStaysHome'
  BY DEF IInv, JobsRemote, TodoRemote, HostOnlyStaysHome

\* A new unit has the job of a remote stage of a dispatch that may share it.
LEMMA NewUnit ==
  ASSUME IInv, NEW n \in Unit, NEW j \in [run : Dispatch, stage : Stage],
         Created' = Created \cup {n}, job'[n] = j,
         \A u \in Created : job'[u] = job[u],
         j.stage \in remote[j.run], pc[j.run] \notin {"set_mode", "assign"},
         Workload[j.run] # "host_only",
         UNCHANGED <<remote, pc>>, op' = op \/ op' = Idle
  PROVE  JobsRemote' /\ HostOnlyStaysHome'
<1>1. op'.pc # "idle" => op'.unit \in Created'
  BY DEF IInv, JobsRemote, Idle
<1> QED
  BY <1>1 DEF IInv, JobsRemote, HostOnlyStaysHome

\* A worker's claim.
LEMMA WorkerClaimIInv ==
  ASSUME IInv, NEW u \in Unit, WorkerClaim(u)
  PROVE  IInv'
<1>1. PICK w \in Worker : Queue!Dequeue(u, w)
  BY DEF WorkerClaim
<1>2. /\ status[u] = "queued" /\ status' = [status EXCEPT ![u] = "assigned"]
      /\ node' = [node EXCEPT ![u] = w]
      /\ UNCHANGED <<job, payload, mode, registered, pc, remote, todo, result, absorbed, late,
                     op, restarts>>
  BY <1>1 DEF Queue!Dequeue, WorkerClaim, hostVars, opVars
<1>3. TypeOK'
  BY <1>2 DEF IInv, TypeOK, Queue!Status, Queue!Live
<1>4. Created' = Created
  BY <1>2 DEF Created, IInv, TypeOK
<1>5. QueueMonotone
  BY <1>2, <1>4 DEF QueueMonotone, IsOver, Queue!Terminal, IInv, TypeOK, Created
<1>6. UnreadUntilAbsorbed' /\ ReadInTurn' /\ WaitedFor' /\ MergedOrSuperseded'
  BY <1>2, <1>5, QueueMoves
<1>7. JobsRemote' /\ TodoRemote' /\ HostOnlyStaysHome'
  BY <1>2, <1>4, NoNewUnit DEF IInv, JobsRemote
<1> QED
  BY <1>3, <1>6, <1>7 DEF IInv

\* A worker's report.
LEMMA WorkerCompleteIInv ==
  ASSUME IInv, NEW u \in Unit, WorkerComplete(u)
  PROVE  IInv'
<1>1. PICK report \in Reports : /\ Queue!Complete(u, report[1])
                                /\ payload' = [payload EXCEPT ![u] = report[2]]
  BY DEF WorkerComplete
<1>2. report[1] \in {"ok", "failed"} /\ report[2] \in {"pass", "fail"}
  BY DispatchAssumption
<1>3. /\ status[u] = "assigned" /\ status' = [status EXCEPT ![u] = report[1]]
      /\ node' = node
      /\ UNCHANGED <<job, mode, registered, pc, remote, todo, result, absorbed, late,
                     op, restarts>>
  BY <1>1 DEF Queue!Complete, WorkerComplete, hostVars, opVars
<1>4. TypeOK'
  BY <1>1, <1>2, <1>3 DEF IInv, TypeOK, Queue!Status, Queue!Terminal
<1>5. Created' = Created
  BY <1>2, <1>3 DEF Created, IInv, TypeOK
<1>6. QueueMonotone
  BY <1>1, <1>3, <1>5 DEF QueueMonotone, IsOver, Queue!Terminal, IInv, TypeOK, Created
<1>7. UnreadUntilAbsorbed' /\ ReadInTurn' /\ WaitedFor' /\ MergedOrSuperseded'
  BY <1>3, <1>6, QueueMoves
<1>8. JobsRemote' /\ TodoRemote' /\ HostOnlyStaysHome'
  BY <1>3, <1>5, NoNewUnit DEF IInv, JobsRemote
<1> QED
  BY <1>4, <1>7, <1>8 DEF IInv

\* terminate_restart() reads a live unit.
LEMMA RestartSelectIInv ==
  ASSUME IInv, NEW u \in Unit, RestartSelect(u)
  PROVE  IInv'
<1>1. /\ restarts < MaxRestarts /\ restarts' = restarts + 1
      /\ op' = [pc |-> "cancel", unit |-> u] /\ u \in Created
      /\ UNCHANGED <<status, node, job, payload, mode, registered, pc, remote, todo, result,
                     absorbed, late>>
  BY DEF RestartSelect, queueVars, hostVars, Created, Queue!Live
<1>2. TypeOK'
  <2>1. restarts' \in 0 .. MaxRestarts
    BY <1>1, DispatchAssumption DEF IInv, TypeOK
  <2> QED
    BY <1>1, <2>1 DEF IInv, TypeOK
<1>3. Created' = Created
  BY <1>1 DEF Created
<1>4. QueueMonotone
  BY <1>1, <1>3 DEF QueueMonotone
<1>5. UnreadUntilAbsorbed' /\ ReadInTurn' /\ WaitedFor' /\ MergedOrSuperseded'
  BY <1>1, <1>4, QueueMoves
<1>6. JobsRemote' /\ TodoRemote' /\ HostOnlyStaysHome'
  BY <1>1, <1>3, NoNewUnit
<1> QED
  BY <1>2, <1>5, <1>6 DEF IInv

\* ... ends it, unless it is over by then,
LEMMA RestartCancelIInv ==
  ASSUME IInv, RestartCancel
  PROVE  IInv'
<1>1. PICK u \in Created : u = op.unit
  BY DEF RestartCancel, IInv, JobsRemote
<1>2. /\ op.pc = "cancel" /\ op' = [op EXCEPT !.pc = "enqueue"] /\ node' = node
      /\ status' = status \/ (~IsOver(u) /\ status' = [status EXCEPT ![u] = "cancelled"])
      /\ UNCHANGED <<job, payload, mode, registered, pc, remote, todo, result, absorbed, late,
                     restarts>>
  BY <1>1 DEF RestartCancel, Queue!Complete, hostVars
<1>3. u \in Unit /\ op'.unit = u
  BY <1>1, <1>2 DEF Created, IInv, TypeOK
<1>4. TypeOK'
  <2>1. status' \in [Unit -> Queue!Status]
    BY <1>2, <1>3 DEF IInv, TypeOK, Queue!Status, Queue!Terminal
  <2>2. op' \in [pc : {"idle", "cancel", "enqueue"}, unit : Unit \cup {NoUnit}]
    BY <1>2 DEF IInv, TypeOK
  <2> QED
    BY <1>2, <2>1, <2>2 DEF IInv, TypeOK
<1>5. Created' = Created
  BY <1>1, <1>2 DEF Created, IInv, TypeOK
<1>6. QueueMonotone
  BY <1>2, <1>5 DEF QueueMonotone, Created, IInv, TypeOK
<1>7. UnreadUntilAbsorbed' /\ ReadInTurn' /\ WaitedFor' /\ MergedOrSuperseded'
  BY <1>2, <1>6, QueueMoves
<1>8. JobsRemote' /\ TodoRemote' /\ HostOnlyStaysHome'
  BY <1>1, <1>2, <1>3, <1>5, NoNewUnit
<1> QED
  BY <1>4, <1>7, <1>8 DEF IInv

\* ... and enqueues a unit with the same job.
LEMMA RestartEnqueueIInv ==
  ASSUME IInv, RestartEnqueue
  PROVE  IInv'
<1>1. PICK v \in Created : v = op.unit
  BY DEF RestartEnqueue, IInv, JobsRemote
<1>2. PICK j \in [run : Dispatch, stage : Stage] :
          j = job[v] /\ EnqueueJob(j) /\ j.stage \in remote[j.run]
          /\ pc[j.run] \notin {"set_mode", "assign"} /\ Workload[j.run] # "host_only"
  BY <1>1 DEF RestartEnqueue, IInv, JobsRemote, HostOnlyStaysHome
<1>3. PICK n \in Unit : /\ n \notin Created /\ Created' = Created \cup {n}
                        /\ job' = [job EXCEPT ![n] = j] /\ job'[n] = j
                        /\ node' = node
                        /\ status' \in [Unit -> Queue!Status]
                        /\ job' \in [Unit -> [run : Dispatch, stage : Stage] \cup {NoJob}]
                        /\ \A u \in Created : status'[u] = status[u] /\ job'[u] = job[u]
  BY <1>2, EnqueueEffect DEF IInv
<1>4. /\ op' = Idle
      /\ UNCHANGED <<payload, mode, registered, pc, remote, todo, result, absorbed, late,
                     restarts>>
  BY DEF RestartEnqueue, hostVars
<1>5. TypeOK'
  <2>1. op' \in [pc : {"idle", "cancel", "enqueue"}, unit : Unit \cup {NoUnit}]
    BY <1>4 DEF Idle
  <2> QED
    BY <1>3, <1>4, <2>1 DEF IInv, TypeOK
<1>6. QueueMonotone
  BY <1>3, <1>4 DEF QueueMonotone
<1>7. UnreadUntilAbsorbed' /\ ReadInTurn' /\ WaitedFor' /\ MergedOrSuperseded'
  BY <1>4, <1>6, QueueMoves
<1>8. JobsRemote' /\ HostOnlyStaysHome'
  BY <1>2, <1>3, <1>4, NewUnit
<1>9. TodoRemote'
  BY <1>4 DEF IInv, TodoRemote
<1> QED
  BY <1>5, <1>7, <1>8, <1>9 DEF IInv

-----------------------------------------------------------------------------
(* Steps of a dispatch                                                     *)

\* The dispatch enqueues one of the stages it assigned away.
LEMMA EnqueueStageIInv ==
  ASSUME IInv, NEW d \in Dispatch, EnqueueStage(d)
  PROVE  IInv'
<1>1. PICK s \in todo[d] : /\ EnqueueJob([run |-> d, stage |-> s])
                           /\ todo' = [todo EXCEPT ![d] = @ \ {s}]
  BY DEF EnqueueStage
<1>2. /\ pc[d] = "enqueue"
      /\ UNCHANGED <<payload, op, restarts, mode, registered, pc, remote, result,
                     absorbed, late>>
  BY DEF EnqueueStage, opVars
<1>3. s \in remote[d] /\ s \in Stage /\ Workload[d] # "host_only"
  BY <1>1, <1>2 DEF IInv, TodoRemote, TypeOK
<1>4. PICK j \in [run : Dispatch, stage : Stage] : j = [run |-> d, stage |-> s]
  BY <1>3
<1>5. PICK n \in Unit : /\ n \notin Created /\ Created' = Created \cup {n}
                        /\ job' = [job EXCEPT ![n] = j] /\ job'[n] = j
                        /\ node' = node
                        /\ status' \in [Unit -> Queue!Status]
                        /\ job' \in [Unit -> [run : Dispatch, stage : Stage] \cup {NoJob}]
                        /\ \A u \in Created : status'[u] = status[u] /\ job'[u] = job[u]
  BY <1>1, <1>4, EnqueueEffect DEF IInv
<1>6. TypeOK'
  <2>1. todo' \in [Dispatch -> SUBSET Stage]
    BY <1>1 DEF IInv, TypeOK
  <2> QED
    BY <1>2, <1>5, <2>1 DEF IInv, TypeOK
<1>7. QueueMonotone
  BY <1>2, <1>5 DEF QueueMonotone
<1>8. UnreadUntilAbsorbed' /\ ReadInTurn' /\ WaitedFor' /\ MergedOrSuperseded'
  BY <1>1, <1>2, <1>7, QueueMoves DEF IInv, TypeOK
<1>9. j.run = d /\ j.stage = s
  BY <1>4
<1>10. JobsRemote' /\ HostOnlyStaysHome'
  BY <1>2, <1>3, <1>5, <1>9, NewUnit
<1>11. TodoRemote'
  BY <1>1, <1>2 DEF IInv, TodoRemote, TypeOK
<1> QED
  BY <1>6, <1>8, <1>10, <1>11 DEF IInv

\* A dispatch's own steps leave the queue and the operator alone.
QueueStill == UNCHANGED <<status, node, job, payload, op, restarts>>

\* ... and the units, with them.
LEMMA StillUnits ==
  ASSUME QueueStill
  PROVE  /\ Created' = Created
         /\ \A u, e, s : IsUnitOf(u, e, s)' <=> IsUnitOf(u, e, s)
         /\ \A u : IsOver(u)' <=> IsOver(u)
  BY DEF QueueStill, Created, IsUnitOf, IsOver

\* A step of dispatch d changes nothing another dispatch relies on.
OthersStill(d) ==
    \A e \in Dispatch : e # d =>
        /\ pc'[e] = pc[e] /\ remote'[e] = remote[e] /\ todo'[e] = todo[e]
        /\ result'[e] = result[e]

\* A step past the assignment that keeps the remote stages keeps the units'.
LEMMA JobsKept ==
  ASSUME IInv, QueueStill, remote' = remote, NEW d \in Dispatch,
         \A e \in Dispatch : e # d => pc'[e] = pc[e],
         pc'[d] \notin {"set_mode", "assign"} \/ pc[d] \in {"set_mode", "assign"}
  PROVE  JobsRemote' /\ HostOnlyStaysHome'
<1>1. Created' = Created /\ job' = job /\ op' = op
  BY StillUnits DEF QueueStill
<1> QED
  BY <1>1 DEF IInv, JobsRemote, HostOnlyStaysHome

\* set_mode() of the process-wide scheduler.
LEMMA SetModeIInv ==
  ASSUME IInv, NEW d \in Dispatch, SetMode(d)
  PROVE  IInv'
<1>1. PICK known \in BOOLEAN : registered' = [registered EXCEPT ![d] = known]
  BY DEF SetMode
<1>2. /\ pc[d] = "set_mode" /\ pc' = [pc EXCEPT ![d] = "assign"] /\ mode' = Workload[d]
      /\ QueueStill /\ UNCHANGED <<remote, todo, result, absorbed, late>>
  BY DEF SetMode, Goto, queueVars, opVars, QueueStill
<1>3. TypeOK'
  <2>1. mode' \in Mode /\ registered' \in [Dispatch -> BOOLEAN]
    BY <1>1, <1>2, DispatchAssumption DEF IInv, TypeOK
  <2>2. pc' \in [Dispatch -> Label \cup Stage]
    BY <1>2 DEF IInv, TypeOK, Label
  <2> QED
    BY <1>2, <2>1, <2>2 DEF IInv, TypeOK, QueueStill
<1>4. pc'[d] = "assign" /\ OthersStill(d)
  BY <1>2 DEF OthersStill, IInv, TypeOK
<1>5. JobsRemote' /\ HostOnlyStaysHome'
  BY <1>2, <1>4, JobsKept DEF OthersStill
<1>6. TodoRemote' /\ UnreadUntilAbsorbed'
  BY <1>2, <1>4 DEF IInv, TodoRemote, UnreadUntilAbsorbed, OthersStill
<1>7. ReadInTurn'
  BY <1>2, <1>4, StageNotLabel DEF IInv, ReadInTurn, OthersStill
<1>8. WaitedFor' /\ MergedOrSuperseded'
  BY <1>2, <1>4, StillUnits, StageNotLabel
     DEF IInv, WaitedFor, MergedOrSuperseded, OthersStill
<1> QED
  BY <1>3, <1>5, <1>6, <1>7, <1>8 DEF IInv

\* assign(): the dispatch has no unit and no result yet, so that whatever is
\* assigned away is consistent with both.
LEMMA AssignIInv ==
  ASSUME IInv, NEW d \in Dispatch, Assign(d)
  PROVE  IInv'
<1>1. PICK claimedAway \in SUBSET Assignable(d) :
          LET away == Assignable(d) \ claimedAway
          IN  /\ remote' = [remote EXCEPT ![d] = away]
              /\ todo' = [todo EXCEPT ![d] =
                     IF Workload[d] = "host_only" THEN {} ELSE away]
  BY DEF Assign
<1>2. PICK away \in SUBSET Stage :
          /\ remote' = [remote EXCEPT ![d] = away]
          /\ todo' = [todo EXCEPT ![d] = IF Workload[d] = "host_only" THEN {} ELSE away]
  <2>1. Assignable(d) \ claimedAway \in SUBSET Stage
    BY DispatchAssumption DEF Assignable
  <2> QED
    BY <1>1, <2>1
<1>3. /\ pc[d] = "assign" /\ pc' = [pc EXCEPT ![d] = "enqueue"]
      /\ QueueStill /\ UNCHANGED <<mode, registered, result, absorbed, late>>
  BY DEF Assign, Goto, queueVars, opVars, QueueStill
<1>4. TypeOK'
  <2>1. pc' \in [Dispatch -> Label \cup Stage]
    BY <1>3 DEF IInv, TypeOK, Label
  <2> QED
    BY <1>2, <1>3, <2>1 DEF IInv, TypeOK, QueueStill
<1>5. /\ pc'[d] = "enqueue" /\ remote'[d] = away
      /\ todo'[d] = IF Workload[d] = "host_only" THEN {} ELSE away
      /\ OthersStill(d)
  BY <1>2, <1>3 DEF OthersStill, IInv, TypeOK
<1>6. Created' = Created /\ job' = job /\ op' = op
  BY <1>3, StillUnits DEF QueueStill
<1>7. \A u \in Created : job[u].run \in Dispatch /\ job[u].run # d
  BY <1>3 DEF IInv, JobsRemote
<1>8. JobsRemote' /\ HostOnlyStaysHome'
  BY <1>5, <1>6, <1>7 DEF IInv, JobsRemote, HostOnlyStaysHome, OthersStill
<1>9. TodoRemote' /\ UnreadUntilAbsorbed'
  BY <1>3, <1>5 DEF IInv, TodoRemote, UnreadUntilAbsorbed, OthersStill
<1>10. ReadInTurn'
  BY <1>3, <1>5, StageNotLabel DEF IInv, ReadInTurn, OthersStill
<1>11. WaitedFor' /\ MergedOrSuperseded'
  BY <1>3, <1>5, StillUnits, StageNotLabel
     DEF IInv, WaitedFor, MergedOrSuperseded, OthersStill
<1> QED
  BY <1>4, <1>8, <1>9, <1>10, <1>11 DEF IInv

\* The kept local stages run here; the remote ones still have no result.
LEMMA RunLocalStagesIInv ==
  ASSUME IInv, NEW d \in Dispatch, RunLocalStages(d)
  PROVE  IInv'
<1>1. PICK label \in {"done", "wait"} : /\ pc' = [pc EXCEPT ![d] = label]
                                        /\ label = "done" => remote[d] = {}
  <2>1. pc' = [pc EXCEPT ![d] = IF remote[d] = {} THEN "done" ELSE "wait"]
    BY DEF RunLocalStages, Goto
  <2> QED
    BY <2>1
<1>2. PICK f \in [Stage -> {"none", "pass", "fail", "local"}] :
          /\ result' = [result EXCEPT ![d] = f]
          /\ \A s \in remote[d] : f[s] = "none"
  <2> DEFINE g == [s \in Stage |-> IF s \in Kept[d] \ remote[d] THEN "local"
                                                                ELSE result[d][s]]
  <2>1. result' = [result EXCEPT ![d] = g]
    BY DEF RunLocalStages
  <2>2. pc[d] = "enqueue" /\ result[d] \in [Stage -> {"none", "pass", "fail", "local"}]
        /\ remote[d] \subseteq Stage
    BY DEF RunLocalStages, IInv, TypeOK
  <2>3. \A s \in Stage : result[d][s] = "none"
    BY <2>2 DEF IInv, UnreadUntilAbsorbed
  <2>4. g \in [Stage -> {"none", "pass", "fail", "local"}]
        /\ \A s \in remote[d] : g[s] = "none"
    BY <2>2, <2>3
  <2> QED
    BY <2>1, <2>4
<1>3. /\ pc[d] = "enqueue" /\ todo' = [todo EXCEPT ![d] = remote[d]]
      /\ QueueStill /\ UNCHANGED <<mode, registered, remote, absorbed, late>>
  BY DEF RunLocalStages, queueVars, opVars, QueueStill
<1>4. TypeOK'
  <2>1. pc' \in [Dispatch -> Label \cup Stage]
    BY <1>1 DEF IInv, TypeOK, Label
  <2>2. result' \in [Dispatch -> [Stage -> {"none", "pass", "fail", "local"}]]
    BY <1>2 DEF IInv, TypeOK
  <2>3. todo' \in [Dispatch -> SUBSET Stage]
    BY <1>3 DEF IInv, TypeOK
  <2> QED
    BY <1>3, <2>1, <2>2, <2>3 DEF IInv, TypeOK, QueueStill
<1>5. /\ pc'[d] = label /\ todo'[d] = remote[d] /\ result'[d] = f
      /\ OthersStill(d)
  BY <1>1, <1>2, <1>3 DEF OthersStill, IInv, TypeOK
<1>6. JobsRemote' /\ HostOnlyStaysHome'
  BY <1>3, <1>5, JobsKept DEF OthersStill
<1>7. TodoRemote' /\ UnreadUntilAbsorbed'
  BY <1>2, <1>3, <1>5 DEF IInv, TodoRemote, UnreadUntilAbsorbed, OthersStill
<1>8. ReadInTurn'
  BY <1>1, <1>3, <1>5, StageNotLabel DEF IInv, ReadInTurn, OthersStill
<1>9. WaitedFor' /\ MergedOrSuperseded'
  BY <1>1, <1>3, <1>5, StillUnits, StageNotLabel
     DEF IInv, WaitedFor, MergedOrSuperseded, OthersStill
<1> QED
  BY <1>4, <1>6, <1>7, <1>8, <1>9 DEF IInv

\* An exception in a local stage's thread.
LEMMA LocalStageRaisesIInv ==
  ASSUME IInv, NEW d \in Dispatch, LocalStageRaises(d)
  PROVE  IInv'
<1>1. /\ pc[d] = "enqueue" /\ pc' = [pc EXCEPT ![d] = "raised"] /\ QueueStill
      /\ UNCHANGED <<mode, registered, remote, todo, result, absorbed, late>>
  BY DEF LocalStageRaises, Goto, queueVars, opVars, QueueStill
<1>2. TypeOK'
  <2>1. pc' \in [Dispatch -> Label \cup Stage]
    BY <1>1 DEF IInv, TypeOK, Label
  <2> QED
    BY <1>1, <2>1 DEF IInv, TypeOK, QueueStill
<1>3. pc'[d] = "raised" /\ OthersStill(d)
  BY <1>1 DEF OthersStill, IInv, TypeOK
<1>4. JobsRemote' /\ HostOnlyStaysHome'
  BY <1>1, <1>3, JobsKept DEF OthersStill
<1>5. TodoRemote' /\ UnreadUntilAbsorbed'
  BY <1>1, <1>3 DEF IInv, TodoRemote, UnreadUntilAbsorbed, OthersStill
<1>6. ReadInTurn'
  BY <1>1, <1>3, StageNotLabel DEF IInv, ReadInTurn, OthersStill
<1>7. WaitedFor' /\ MergedOrSuperseded'
  BY <1>1, <1>3, StillUnits, StageNotLabel
     DEF IInv, WaitedFor, MergedOrSuperseded, OthersStill
<1> QED
  BY <1>2, <1>4, <1>5, <1>6, <1>7 DEF IInv

\* A round of the wait loop drops stages whose latest unit is over.
LEMMA PollIInv ==
  ASSUME IInv, NEW d \in Dispatch, Poll(d)
  PROVE  IInv'
<1>1. PICK over \in SUBSET Stage : over = {s \in todo[d] : IsOver(LatestUnit(d, s))}
  BY DEF IInv, TypeOK
<1>2. /\ pc[d] = "wait" /\ todo' = [todo EXCEPT ![d] = todo[d] \ over]
      /\ QueueStill /\ UNCHANGED <<mode, registered, remote, result, absorbed, late>>
  BY <1>1 DEF Poll, queueVars, opVars, QueueStill
<1>3. PICK label \in {"absorb", "wait"} : /\ pc' = [pc EXCEPT ![d] = label]
                                          /\ label = "absorb" => todo[d] = over
  <2>1. pc' = [pc EXCEPT ![d] = IF todo[d] = over THEN "absorb" ELSE "wait"]
    BY <1>1 DEF Poll, Goto
  <2> QED
    BY <2>1
<1>4. TypeOK'
  <2>1. pc' \in [Dispatch -> Label \cup Stage]
    BY <1>3 DEF IInv, TypeOK, Label
  <2>2. todo' \in [Dispatch -> SUBSET Stage]
    BY <1>2 DEF IInv, TypeOK
  <2> QED
    BY <1>2, <2>1, <2>2 DEF IInv, TypeOK, QueueStill
<1>5. /\ pc'[d] = label /\ todo'[d] = todo[d] \ over /\ OthersStill(d)
  BY <1>2, <1>3 DEF OthersStill, IInv, TypeOK
<1>6. JobsRemote' /\ HostOnlyStaysHome'
  BY <1>2, <1>5, JobsKept DEF OthersStill
<1>7. TodoRemote' /\ UnreadUntilAbsorbed'
  BY <1>2, <1>5 DEF IInv, TodoRemote, UnreadUntilAbsorbed, OthersStill
<1>8. ReadInTurn'
  BY <1>2, <1>5, StageNotLabel DEF IInv, ReadInTurn, OthersStill
<1>9. \A s \in over : \E u \in Created : IsUnitOf(u, d, s) /\ IsOver(u)
  <2> SUFFICES ASSUME NEW s \in over
               PROVE  \E u \in Created : IsUnitOf(u, d, s) /\ IsOver(u)
    OBVIOUS
  <2>1. IsOver(LatestUnit(d, s)) /\ LatestUnit(d, s) # NoUnit
    BY <1>1 DEF IsOver
  <2>2. IsUnitOf(LatestUnit(d, s), d, s)
    BY <1>1, <2>1, LatestIsUnit
  <2> QED
    BY <2>1, <2>2 DEF IsUnitOf
<1>10. d \notin late => \A s \in remote[d] : s \notin todo'[d] =>
           \E u \in Created : IsUnitOf(u, d, s) /\ IsOver(u)
  <2>1. d \notin late => \A s \in remote[d] : s \notin todo[d] =>
            \E u \in Created : IsUnitOf(u, d, s) /\ IsOver(u)
    BY <1>2 DEF IInv, WaitedFor
  <2> QED
    BY <1>5, <1>9, <2>1
<1>11. WaitedFor'
  BY <1>2, <1>3, <1>5, <1>10, StillUnits DEF IInv, WaitedFor, OthersStill
<1>12. MergedOrSuperseded'
  BY <1>2, <1>5, StillUnits, StageNotLabel DEF IInv, MergedOrSuperseded, OthersStill
<1> QED
  BY <1>4, <1>6, <1>7, <1>8, <1>11, <1>12 DEF IInv

\* The wait loop's deadline: the dispatch is late from now on.
LEMMA WaitDeadlineIInv ==
  ASSUME IInv, NEW d \in Dispatch, WaitDeadline(d)
  PROVE  IInv'
<1>1. /\ pc[d] = "wait" /\ pc' = [pc EXCEPT ![d] = "absorb"]
      /\ todo' = [todo EXCEPT ![d] = {}] /\ late' = late \cup {d}
      /\ QueueStill /\ UNCHANGED <<mode, registered, remote, result, absorbed>>
  BY DEF WaitDeadline, Goto, queueVars, opVars, QueueStill
<1>2. TypeOK'
  <2>1. pc' \in [Dispatch -> Label \cup Stage]
    BY <1>1 DEF IInv, TypeOK, Label
  <2>2. todo' \in [Dispatch -> SUBSET Stage] /\ late' \subseteq Dispatch
    BY <1>1 DEF IInv, TypeOK
  <2> QED
    BY <1>1, <2>1, <2>2 DEF IInv, TypeOK, QueueStill
<1>3. pc'[d] = "absorb" /\ OthersStill(d)
  BY <1>1 DEF OthersStill, IInv, TypeOK
<1>4. JobsRemote' /\ HostOnlyStaysHome'
  BY <1>1, <1>3, JobsKept DEF OthersStill
<1>5. TodoRemote' /\ UnreadUntilAbsorbed'
  BY <1>1, <1>3 DEF IInv, TodoRemote, UnreadUntilAbsorbed, OthersStill
<1>6. ReadInTurn'
  BY <1>1, <1>3, StageNotLabel DEF IInv, ReadInTurn, OthersStill
<1>7. WaitedFor' /\ MergedOrSuperseded'
  BY <1>1, <1>3, StillUnits, StageNotLabel
     DEF IInv, WaitedFor, MergedOrSuperseded, OthersStill
<1> QED
  BY <1>2, <1>4, <1>5, <1>6, <1>7 DEF IInv

\* absorb_completed_mesh_units(): what the wait saw over is merged now, or it
\* is no longer the stage's only unit.
LEMMA AbsorbIInv ==
  ASSUME IInv, NEW d \in Dispatch, Absorb(d)
  PROVE  IInv'
<1>1. /\ pc[d] = "absorb" /\ pc' = [pc EXCEPT ![d] = "read"]
      /\ todo' = [todo EXCEPT ![d] = remote[d]]
      /\ absorbed' = absorbed \cup
             {u \in Unit : IsOver(u) /\ \E s \in remote[d] : u = LatestUnit(d, s)}
      /\ QueueStill /\ UNCHANGED <<mode, registered, remote, result, late>>
  BY DEF Absorb, Goto, queueVars, opVars, QueueStill
<1>2. TypeOK'
  <2>1. pc' \in [Dispatch -> Label \cup Stage]
    BY <1>1 DEF IInv, TypeOK, Label
  <2>2. todo' \in [Dispatch -> SUBSET Stage] /\ absorbed' \subseteq Unit
    BY <1>1 DEF IInv, TypeOK
  <2> QED
    BY <1>1, <2>1, <2>2 DEF IInv, TypeOK, QueueStill
<1>3. pc'[d] = "read" /\ todo'[d] = remote[d] /\ OthersStill(d)
  BY <1>1 DEF OthersStill, IInv, TypeOK
<1>4. JobsRemote' /\ HostOnlyStaysHome'
  BY <1>1, <1>3, JobsKept DEF OthersStill
<1>5. TodoRemote' /\ UnreadUntilAbsorbed'
  BY <1>1, <1>3 DEF IInv, TodoRemote, UnreadUntilAbsorbed, OthersStill
<1>6. ReadInTurn'
  BY <1>1, <1>3, StageNotLabel DEF IInv, ReadInTurn, OthersStill
<1>7. WaitedFor'
  BY <1>1, <1>3, StillUnits DEF IInv, WaitedFor, OthersStill
<1>8. ASSUME d \notin late, NEW s \in remote[d]
      PROVE  \/ \E u \in absorbed' : IsUnitOf(u, d, s)
             \/ \E u, v \in Created : u # v /\ IsUnitOf(u, d, s) /\ IsUnitOf(v, d, s)
  <2>1. PICK u \in Created : IsUnitOf(u, d, s) /\ IsOver(u)
    BY <1>1, <1>8 DEF IInv, WaitedFor
  <2>2. s \in Stage
    BY DEF IInv, TypeOK
  <2>3. PICK v \in Unit : v = LatestUnit(d, s) /\ IsUnitOf(v, d, s)
    <3>1. LatestUnit(d, s) \in Unit /\ LatestUnit(d, s) # NoUnit
      BY <2>1, <2>2, LatestIsUnit DEF Unit, NoUnit
    <3> QED
      BY <2>2, <3>1, LatestIsUnit
  <2>4. CASE u = v
    <3>1. v \in absorbed'
      BY <1>1, <2>1, <2>3, <2>4
    <3> QED
      BY <2>3, <3>1
  <2>5. CASE u # v
    BY <2>1, <2>3, <2>5 DEF IsUnitOf
  <2> QED
    BY <2>4, <2>5
<1>9. MergedOrSuperseded'
  <2>1. \A e \in Dispatch : e # d /\ e \notin late => \A s \in remote[e] :
            pc[e] \in {"read", "done"} \cup Stage =>
                \/ \E u \in absorbed' : IsUnitOf(u, e, s)
                \/ \E u, v \in Created : u # v /\ IsUnitOf(u, e, s) /\ IsUnitOf(v, e, s)
    BY <1>1 DEF IInv, MergedOrSuperseded
  <2> QED
    BY <1>1, <1>3, <1>8, <2>1, StillUnits DEF MergedOrSuperseded, OthersStill
<1> QED
  BY <1>2, <1>4, <1>5, <1>6, <1>7, <1>9 DEF IInv

\* A result is recorded.
LEMMA RecordIInv ==
  ASSUME IInv, NEW d \in Dispatch, NEW s \in Stage, Record(d, s),
         pc[d] \in {"read"} \cup Stage,
         late \subseteq late', late' \subseteq Dispatch,
         QueueStill, UNCHANGED <<mode, registered, remote, absorbed>>
  PROVE  IInv'
<1>1. PICK verdict \in {"pass", "fail"} : verdict = UnitVerdict(LatestUnit(d, s))
  BY DEF UnitVerdict
<1>2. PICK label \in {"done", "read"} : /\ pc' = [pc EXCEPT ![d] = label]
                                        /\ label = "done" => todo[d] = {s}
  <2>1. pc' = [pc EXCEPT ![d] = IF todo[d] = {s} THEN "done" ELSE "read"]
    BY DEF Record, Goto
  <2> QED
    BY <2>1
<1>3. /\ result' = [result EXCEPT ![d][s] = verdict]
      /\ todo' = [todo EXCEPT ![d] = todo[d] \ {s}]
  BY <1>1 DEF Record
<1>4. TypeOK'
  <2>1. pc' \in [Dispatch -> Label \cup Stage]
    BY <1>2 DEF IInv, TypeOK, Label
  <2>2. todo' \in [Dispatch -> SUBSET Stage]
    BY <1>3 DEF IInv, TypeOK
  <2>3. result' \in [Dispatch -> [Stage -> {"none", "pass", "fail", "local"}]]
    BY <1>3 DEF IInv, TypeOK
  <2> QED
    BY <2>1, <2>2, <2>3 DEF IInv, TypeOK, QueueStill
<1>5. /\ pc'[d] = label /\ todo'[d] = todo[d] \ {s} /\ OthersStill(d)
      /\ result'[d][s] = verdict
      /\ \A t \in Stage : t # s => result'[d][t] = result[d][t]
  BY <1>2, <1>3 DEF OthersStill, IInv, TypeOK
<1>6. pc[d] \notin {"set_mode", "assign", "enqueue", "wait", "absorb", "done", "raised"}
  BY StageNotLabel
<1>7. JobsRemote' /\ HostOnlyStaysHome'
  BY <1>5, JobsKept DEF OthersStill
<1>8. TodoRemote' /\ UnreadUntilAbsorbed'
  BY <1>5 DEF IInv, TodoRemote, UnreadUntilAbsorbed, OthersStill
<1>9. ReadInTurn'
  <2>1. \A t \in remote[d] : t \in Stage
    BY DEF IInv, TypeOK
  <2>2. \A t \in remote[d] : t \in todo'[d] \/ result'[d][t] # "none"
    BY <1>5, <2>1 DEF IInv, ReadInTurn
  <2>3. label = "done" => todo'[d] = {}
    BY <1>2, <1>5
  <2> QED
    BY <1>5, <2>2, <2>3, StageNotLabel DEF IInv, ReadInTurn, OthersStill
<1>10. WaitedFor'
  BY <1>5, StillUnits DEF IInv, WaitedFor, OthersStill
<1>11. MergedOrSuperseded'
  BY <1>5, StillUnits DEF IInv, MergedOrSuperseded, OthersStill
<1> QED
  BY <1>4, <1>7, <1>8, <1>9, <1>10, <1>11 DEF IInv

\* A result read at once,
LEMMA ReadResultIInv ==
  ASSUME IInv, NEW d \in Dispatch, ReadResult(d)
  PROVE  IInv'
<1>1. PICK s \in todo[d] : Record(d, s)
  BY DEF ReadResult
<1>2. s \in Stage /\ late \subseteq Dispatch
  BY <1>1 DEF IInv, TypeOK
<1>3. /\ pc[d] = "read" /\ QueueStill
      /\ UNCHANGED <<mode, registered, remote, absorbed, late>>
  BY DEF ReadResult, queueVars, opVars, QueueStill
<1> QED
  BY <1>1, <1>2, <1>3, RecordIInv

\* ... or waited for once more,
LEMMA WaitAgainIInv ==
  ASSUME IInv, NEW d \in Dispatch, WaitAgain(d)
  PROVE  IInv'
<1>1. PICK s \in todo[d] : pc' = [pc EXCEPT ![d] = s]
  BY DEF WaitAgain, Goto
<1>2. /\ pc[d] = "read" /\ s \in Stage
      /\ QueueStill /\ UNCHANGED <<mode, registered, remote, todo, result, absorbed, late>>
  BY <1>1 DEF WaitAgain, queueVars, opVars, QueueStill, IInv, TypeOK
<1>3. TypeOK'
  <2>1. pc' \in [Dispatch -> Label \cup Stage]
    BY <1>1, <1>2 DEF IInv, TypeOK
  <2> QED
    BY <1>2, <2>1 DEF IInv, TypeOK, QueueStill
<1>4. /\ pc'[d] = s /\ OthersStill(d)
      /\ s \notin {"set_mode", "assign", "enqueue", "wait", "absorb", "read", "done", "raised"}
  BY <1>1, <1>2, StageNotLabel DEF OthersStill, IInv, TypeOK
<1>5. JobsRemote' /\ HostOnlyStaysHome'
  BY <1>2, <1>4, JobsKept DEF OthersStill
<1>6. TodoRemote' /\ UnreadUntilAbsorbed'
  BY <1>2, <1>4 DEF IInv, TodoRemote, UnreadUntilAbsorbed, OthersStill
<1>7. ReadInTurn'
  BY <1>2, <1>4 DEF IInv, ReadInTurn, OthersStill
<1>8. WaitedFor' /\ MergedOrSuperseded'
  BY <1>2, <1>4, StillUnits DEF IInv, WaitedFor, MergedOrSuperseded, OthersStill
<1> QED
  BY <1>3, <1>5, <1>6, <1>7, <1>8 DEF IInv

\* ... and read after that.
LEMMA ReadAgainIInv ==
  ASSUME IInv, NEW d \in Dispatch, ReadAgain(d)
  PROVE  IInv'
<1>1. PICK s \in Stage : s = pc[d] /\ Record(d, s)
  BY DEF ReadAgain
<1>2. late \subseteq late' /\ late' \subseteq Dispatch
  BY DEF ReadAgain, IInv, TypeOK
<1>3. QueueStill /\ UNCHANGED <<mode, registered, remote, absorbed>>
  BY DEF ReadAgain, queueVars, opVars, QueueStill
<1> QED
  BY <1>1, <1>2, <1>3, RecordIInv

-----------------------------------------------------------------------------
(* The invariant                                                           *)

\* The invariant holds when no dispatch has begun.
LEMMA InitIInv == Init => IInv
<1> SUFFICES ASSUME Init PROVE IInv
  OBVIOUS
<1>1. TypeOK
  BY DispatchAssumption
     DEF Init, TypeOK, Queue!Init, Queue!Status, Mode, Label, NoJob, Idle, NoUnit
<1>2. Created = {} /\ op.pc = "idle" /\ \A d \in Dispatch : pc[d] = "set_mode"
  BY DEF Init, Queue!Init, Created, Idle
<1>3. JobsRemote /\ TodoRemote /\ HostOnlyStaysHome
  BY <1>2 DEF JobsRemote, TodoRemote, HostOnlyStaysHome
<1>4. UnreadUntilAbsorbed /\ ReadInTurn
  BY <1>2, StageNotLabel DEF Init, UnreadUntilAbsorbed, ReadInTurn
<1>5. WaitedFor /\ MergedOrSuperseded
  BY <1>2, StageNotLabel DEF WaitedFor, MergedOrSuperseded
<1> QED
  BY <1>1, <1>3, <1>4, <1>5 DEF IInv

\* Every step of the specification preserves the invariant.
LEMMA StepIInv == IInv /\ [Next]_vars => IInv'
<1> SUFFICES ASSUME IInv, [Next]_vars PROVE IInv'
  OBVIOUS
<1>1. ASSUME NEW d \in Dispatch, HostStep(d) PROVE IInv'
  BY <1>1, SetModeIInv, AssignIInv, EnqueueStageIInv, RunLocalStagesIInv,
     LocalStageRaisesIInv, PollIInv,
     WaitDeadlineIInv, AbsorbIInv, ReadResultIInv, WaitAgainIInv, ReadAgainIInv
     DEF HostStep
<1>2. ASSUME NEW u \in Unit, WorkerClaim(u) \/ WorkerComplete(u) \/ RestartSelect(u)
      PROVE  IInv'
  BY <1>2, WorkerClaimIInv, WorkerCompleteIInv, RestartSelectIInv
<1>3. CASE UNCHANGED vars
  <2>1. QueueStill /\ UNCHANGED <<mode, registered, pc, remote, todo, result, absorbed, late>>
    BY <1>3 DEF vars, queueVars, hostVars, opVars, QueueStill
  <2>2. TypeOK'
    BY <2>1 DEF IInv, TypeOK, QueueStill
  <2>3. Created' = Created /\ QueueMonotone
    BY <2>1, StillUnits DEF QueueMonotone, QueueStill
  <2>4. UnreadUntilAbsorbed' /\ ReadInTurn' /\ WaitedFor' /\ MergedOrSuperseded'
    BY <2>1, <2>3, QueueMoves
  <2>5. JobsRemote' /\ TodoRemote' /\ HostOnlyStaysHome'
    BY <2>1, <2>3, NoNewUnit DEF IInv, JobsRemote, QueueStill
  <2> QED
    BY <2>2, <2>4, <2>5 DEF IInv
<1> QED
  BY <1>1, <1>2, <1>3, RestartCancelIInv, RestartEnqueueIInv DEF Next, AllDone

\* The inductive invariant holds of every reachable state.
THEOREM Invariance == Spec => []IInv
  BY InitIInv, StepIInv, PTL DEF Spec

-----------------------------------------------------------------------------
(* The theorems                                                            *)

\* Every variable of the host, the queue and the operator keeps its type.
THEOREM TypeCorrect == Spec => []TypeOK
<1>1. IInv => TypeOK
  BY DEF IInv
<1> QED
  BY <1>1, Invariance, PTL

\* A recorded pass is the latest unit's.
LEMMA RecordedPass ==
  ASSUME TypeOK, NEW e \in Dispatch, NEW t \in Stage, Record(e, t),
         NEW d \in Dispatch, NEW s \in Stage,
         result[d][s] # "pass", result'[d][s] = "pass"
  PROVE  \E u \in UnitsOf(d, s) : /\ status[u] = "ok" /\ payload[u] = "pass"
                                  /\ \A v \in UnitsOf(d, s) : v <= u
<1> DEFINE unit == LatestUnit(e, t)
<1>1. result' = [result EXCEPT ![e][t] = UnitVerdict(unit)]
  BY DEF Record
<1>2. d = e /\ s = t
  BY <1>1 DEF TypeOK
<1>3. UnitVerdict(unit) = "pass"
  BY <1>1, <1>2 DEF TypeOK
<1>4. unit # NoUnit /\ status[unit] = "ok" /\ payload[unit] = "pass"
  BY <1>3 DEF UnitVerdict
<1>5. IsUnitOf(unit, e, t) /\ \A v \in UnitsOf(e, t) : v <= unit
  BY <1>4, LatestIsUnit
<1>6. unit \in UnitsOf(e, t)
  BY <1>5 DEF IsUnitOf, UnitsOf
<1> QED
  BY <1>2, <1>4, <1>5, <1>6

\* A remote stage passes only when the latest of its units has finished ok with
\* a passing verifier: neither a superseded nor a running unit makes it pass.
THEOREM PassesRest == Spec => PassIsOfLatestUnit
<1>1. IInv /\ [Next]_vars =>
          [\A d \in Dispatch : \A s \in remote[d] :
               result[d][s] # "pass" /\ result'[d][s] = "pass" =>
                   \E u \in UnitsOf(d, s) :
                       /\ status[u] = "ok" /\ payload[u] = "pass"
                       /\ \A v \in UnitsOf(d, s) : v <= u]_vars
  <2> SUFFICES ASSUME IInv, Next, NEW d \in Dispatch, NEW s \in remote[d],
                      result[d][s] # "pass", result'[d][s] = "pass"
               PROVE  \E u \in UnitsOf(d, s) : /\ status[u] = "ok" /\ payload[u] = "pass"
                                               /\ \A v \in UnitsOf(d, s) : v <= u
    OBVIOUS
  <2>1. TypeOK /\ s \in Stage
    BY DEF IInv, TypeOK
  <2>2. result' # result
    OBVIOUS
  <2>3. PICK e \in Dispatch : HostStep(e)
    BY <2>2 DEF Next, AllDone, WorkerClaim, WorkerComplete, RestartSelect, RestartCancel,
                RestartEnqueue, hostVars, vars
  <2>4. CASE RunLocalStages(e)
    <3>1. result' = [result EXCEPT ![e] =
               [t \in Stage |-> IF t \in Kept[e] \ remote[e] THEN "local" ELSE result[e][t]]]
      BY <2>4 DEF RunLocalStages
    <3> QED
      BY <2>1, <3>1 DEF TypeOK
  <2>5. CASE ReadResult(e)
    <3>1. PICK t \in todo[e] : Record(e, t)
      BY <2>5 DEF ReadResult
    <3>2. t \in Stage
      BY <2>1, <3>1 DEF TypeOK
    <3> QED
      BY <2>1, <3>1, <3>2, RecordedPass
  <2>6. CASE ReadAgain(e)
    <3>1. pc[e] \in Stage /\ Record(e, pc[e])
      BY <2>6 DEF ReadAgain
    <3> QED
      BY <2>1, <3>1, RecordedPass
  <2> QED
    BY <2>2, <2>3, <2>4, <2>5, <2>6
       DEF HostStep, SetMode, Assign, EnqueueStage, LocalStageRaises, Poll, WaitDeadline,
           Absorb, WaitAgain
<1> QED
  BY <1>1, Invariance, PTL DEF Spec, PassIsOfLatestUnit

\* A dispatch that met no deadline has merged what a stage passed on, unless
\* the stage was restarted in between.
THEOREM PassesMerged == Spec => []UndisturbedPassIsMerged
<1>1. IInv => UndisturbedPassIsMerged
  <2> SUFFICES ASSUME IInv, NEW d \in Dispatch \ late, NEW s \in remote[d],
                      result[d][s] = "pass", Cardinality(UnitsOf(d, s)) = 1
               PROVE  UnitsOf(d, s) \subseteq absorbed
    BY DEF UndisturbedPassIsMerged
  <2>1. \A u : u \in UnitsOf(d, s) <=> IsUnitOf(u, d, s)
    BY DEF UnitsOf, IsUnitOf
  <2>2. PICK x : UnitsOf(d, s) = {x}
    <3>1. IsFiniteSet(Unit) /\ UnitsOf(d, s) \subseteq Unit
      BY FS_Interval, DispatchAssumption DEF Unit, UnitsOf, Created
    <3>2. IsFiniteSet(UnitsOf(d, s))
      BY <3>1, FS_Subset
    <3> QED
      BY <3>2, FS_Singleton
  <2>3. pc[d] \in {"read", "done"} \cup Stage
    <3>1. pc[d] \in Label \cup Stage /\ s \in Stage
      BY DEF IInv, TypeOK
    <3>2. pc[d] \notin {"set_mode", "assign", "enqueue", "wait", "absorb", "raised"}
      BY <3>1 DEF IInv, UnreadUntilAbsorbed
    <3> QED
      BY <3>1, <3>2 DEF Label
  <2>4. \/ \E u \in absorbed : IsUnitOf(u, d, s)
        \/ \E u, v \in Created : u # v /\ IsUnitOf(u, d, s) /\ IsUnitOf(v, d, s)
    BY <2>3 DEF IInv, MergedOrSuperseded
  <2> QED
    BY <2>1, <2>2, <2>4
<1> QED
  BY <1>1, Invariance, PTL

\* No unit is ever enqueued for a host_only session, whatever mode another
\* session's dispatch left in the scheduler.
THEOREM HostOnlyKept == Spec => []HostOnlyStaysHome
<1>1. IInv => HostOnlyStaysHome
  BY DEF IInv
<1> QED
  BY <1>1, Invariance, PTL

\* A dispatch that is over has a result for every stage that was enqueued for
\* it, the restarted ones and the ones over the cap included.
THEOREM EveryStageRead == Spec => []NoOrphanedStage
<1>1. IInv => NoOrphanedStage
  <2> SUFFICES ASSUME IInv, NEW u \in Created, pc[job[u].run] = "done"
               PROVE  result[job[u].run][job[u].stage] # "none"
    BY DEF NoOrphanedStage
  <2>1. job[u].run \in Dispatch /\ job[u].stage \in remote[job[u].run]
    BY DEF IInv, JobsRemote
  <2> QED
    BY <2>1 DEF IInv, ReadInTurn
<1> QED
  BY <1>1, Invariance, PTL
=============================================================================

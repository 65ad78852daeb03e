-------------------------- MODULE WorkUnitPostgres --------------------------
(***************************************************************************)
(* The Postgres work-unit queue of the compute mesh together with its      *)
(* callers: the host that enqueues, the worker daemons that claim, execute *)
(* and complete, and the operators that call terminate-restart.            *)
(*                                                                         *)
(* Every SQL transaction is one action, except the claim, whose row lock   *)
(* (FOR UPDATE SKIP LOCKED) is visible to the others between the lock and  *)
(* the commit.  terminate_restart is three transactions, so three actions  *)
(* of an operator, between which anything else may happen.                 *)
(*                                                                         *)
(* A unit's identity (uuid4) is abstracted to its position in created_at   *)
(* order: the units that exist are 1 .. created.                           *)
(***************************************************************************)
EXTENDS Naturals

CONSTANTS MaxUnits,       \* bound on the units ever enqueued
          Worker,         \* worker daemons, one node each
          Operator,       \* concurrent callers of terminate-restart
          Session,        \* chat sessions
          WorkerSession,  \* WorkerSession[w]: the session a worker polls
          AnySession,     \* the session_id of a claim that names none
          NoNode,         \* node_id of an unclaimed unit
          MaxFaults       \* bound on lost calls, aborted claims and crashes

ASSUME UnitsAssumption   == MaxUnits \in Nat
ASSUME FaultsAssumption  == MaxFaults \in Nat
ASSUME SessionAssumption == /\ WorkerSession \in [Worker -> Session \cup {AnySession}]
                            /\ AnySession \notin Session
ASSUME NodeAssumption    == NoNode \notin Worker

VARIABLES created,   \* how many rows nimbusware_work_unit has
          status,    \* status[u], "absent" until the INSERT commits
          node,      \* node[u]: the node_id column
          session,   \* session[u]: the session_id column
          origin,    \* origin[u]: the unit whose restart enqueued u, or 0
          wpc,       \* what each worker is doing
          task,      \* task[w]: the unit a worker's claim is about, or 0
          opc,       \* what each operator is doing
          target,    \* target[o]: the unit an operator restarts, or 0
          faults     \* how many faults have happened

rows == <<created, status, node, session, origin>>
workers == <<wpc, task>>
operators == <<opc, target>>
vars == <<rows, workers, operators, faults>>

Unit     == 1 .. MaxUnits
Terminal == {"ok", "failed", "timeout", "cancelled"}
Status   == {"absent", "queued", "assigned"} \cup Terminal

\* A worker: between polls, holding a row lock, with its claim committed but
\* not yet answered, executing the stage.
WorkerState == {"idle", "locked", "claimed", "executing"}
\* An operator: before its call, after the SELECT, after complete("cancelled").
OperatorState == {"idle", "selected", "cancelled"}

TypeOK ==
    /\ created \in 0 .. MaxUnits
    /\ status \in [Unit -> Status]
    /\ node \in [Unit -> Worker \cup {NoNode}]
    /\ session \in [Unit -> Session \cup {AnySession}]
    /\ origin \in [Unit -> Unit \cup {0}]
    /\ wpc \in [Worker -> WorkerState]
    /\ task \in [Worker -> Unit \cup {0}]
    /\ opc \in [Operator -> OperatorState]
    /\ target \in [Operator -> Unit \cup {0}]
    /\ faults \in 0 .. MaxFaults

Init ==
    /\ created = 0
    /\ status = [u \in Unit |-> "absent"]
    /\ node = [u \in Unit |-> NoNode]
    /\ session = [u \in Unit |-> AnySession]
    /\ origin = [u \in Unit |-> 0]
    /\ wpc = [w \in Worker |-> "idle"]
    /\ task = [w \in Worker |-> 0]
    /\ opc = [o \in Operator |-> "idle"]
    /\ target = [o \in Operator |-> 0]
    /\ faults = 0

-----------------------------------------------------------------------------
(* Rows                                                                    *)

\* The INSERT of enqueue(): the next row, queued, for session s.
Insert(s, from) ==
    /\ created < MaxUnits
    /\ created' = created + 1
    /\ status' = [status EXCEPT ![created + 1] = "queued"]
    /\ session' = [session EXCEPT ![created + 1] = s]
    /\ origin' = [origin EXCEPT ![created + 1] = from]
    /\ UNCHANGED node

\* The rows an open claim transaction has locked.
RowLocked(u) == \E w \in Worker : wpc[w] = "locked" /\ task[w] = u

\* Variant: a filter that forgets the IS NULL arm: nothing equals NULL.
SessionEquals(w, u) ==
    WorkerSession[w] # AnySession /\ WorkerSession[w] = session[u]

\* "(%s::uuid IS NULL OR session_id = %s)"
SessionMatches(w, u) == WorkerSession[w] \in {AnySession, session[u]}

\* Variant: a SELECT without FOR UPDATE SKIP LOCKED.
ClaimableUnlocked(w) == {u \in Unit : status[u] = "queued" /\ SessionMatches(w, u)}

\* The rows the claim's SELECT may return; SKIP LOCKED passes over the others.
Claimable(w) == {u \in Unit : /\ status[u] = "queued"
                              /\ SessionMatches(w, u)
                              /\ ~RowLocked(u)}

\* Variants: an UPDATE without the NOT IN guard; one that ignores row locks.
CompleteRowUnguarded(u, st) ==
    /\ ~RowLocked(u)
    /\ status' = [status EXCEPT ![u] = st]
    /\ UNCHANGED <<created, node, session, origin>>

CompleteRowUnlocked(u, st) ==
    /\ status' = [status EXCEPT ![u] = IF @ \in Terminal THEN @ ELSE st]
    /\ UNCHANGED <<created, node, session, origin>>

\* UPDATE ... WHERE status NOT IN (terminal): waits for a claim's row lock.
CompleteRow(u, st) ==
    /\ ~RowLocked(u)
    /\ status' = [status EXCEPT ![u] = IF @ \in Terminal THEN @ ELSE st]
    /\ UNCHANGED <<created, node, session, origin>>

-----------------------------------------------------------------------------
(* The host                                                                *)

HostEnqueue(s) ==
    /\ Insert(s, 0)
    /\ UNCHANGED <<workers, operators, faults>>

-----------------------------------------------------------------------------
(* A worker daemon: claim, execute, complete                               *)

ClaimLock(w) ==
    /\ wpc[w] = "idle"
    /\ \E u \in Claimable(w) :
        /\ \A v \in Claimable(w) : u <= v
        /\ task' = [task EXCEPT ![w] = u]
    /\ wpc' = [wpc EXCEPT ![w] = "locked"]
    /\ UNCHANGED <<rows, operators, faults>>

\* Variant: an UPDATE that leaves node_id alone.
ClaimCommitAnonymously(w) ==
    /\ wpc[w] = "locked"
    /\ status' = [status EXCEPT ![task[w]] = "assigned"]
    /\ wpc' = [wpc EXCEPT ![w] = "claimed"]
    /\ UNCHANGED <<created, node, session, origin, task, operators, faults>>

ClaimCommit(w) ==
    /\ wpc[w] = "locked"
    /\ status' = [status EXCEPT ![task[w]] = "assigned"]
    /\ node' = [node EXCEPT ![task[w]] = w]
    /\ wpc' = [wpc EXCEPT ![w] = "claimed"]
    /\ UNCHANGED <<created, session, origin, task, operators, faults>>

ReceiveClaim(w) ==
    /\ wpc[w] = "claimed"
    /\ wpc' = [wpc EXCEPT ![w] = "executing"]
    /\ UNCHANGED <<rows, task, operators, faults>>

\* Variant: a status outside WORK_UNIT_STATUSES is stored as it came.
ReportAnything(w) ==
    /\ wpc[w] = "executing"
    /\ \E st \in {"ok", "error"} : CompleteRow(task[w], st)
    /\ wpc' = [wpc EXCEPT ![w] = "idle"]
    /\ task' = [task EXCEPT ![w] = 0]
    /\ UNCHANGED <<operators, faults>>

\* The daemon reports ok or failed, whatever became of the unit meanwhile.
ReportComplete(w) ==
    /\ wpc[w] = "executing"
    /\ \E st \in {"ok", "failed"} : CompleteRow(task[w], st)
    /\ wpc' = [wpc EXCEPT ![w] = "idle"]
    /\ task' = [task EXCEPT ![w] = 0]
    /\ UNCHANGED <<operators, faults>>

\* The claim's transaction is rolled back, its answer is lost, the stage
\* raises, the report is lost or the daemon dies: the daemon prints the error
\* (or is started again) and polls on; it never retries, nobody requeues.
WorkerFault(w) ==
    /\ wpc[w] # "idle"
    /\ faults < MaxFaults
    /\ faults' = faults + 1
    /\ wpc' = [wpc EXCEPT ![w] = "idle"]
    /\ task' = [task EXCEPT ![w] = 0]
    /\ UNCHANGED <<rows, operators>>

-----------------------------------------------------------------------------
(* terminate_restart: SELECT; complete("cancelled"); enqueue               *)

RestartSelect(o) ==
    /\ opc[o] = "idle"
    /\ \E u \in 1 .. created :
        /\ status[u] \notin Terminal
        /\ target' = [target EXCEPT ![o] = u]
    /\ opc' = [opc EXCEPT ![o] = "selected"]
    /\ UNCHANGED <<rows, workers, faults>>

\* Variant: only a unit nobody has claimed is cancelled.
RestartCancelQueued(o) ==
    /\ opc[o] = "selected"
    /\ IF status[target[o]] = "queued"
       THEN CompleteRow(target[o], "cancelled")
       ELSE UNCHANGED rows
    /\ opc' = [opc EXCEPT ![o] = "cancelled"]
    /\ UNCHANGED <<workers, target, faults>>

RestartCancel(o) ==
    /\ opc[o] = "selected"
    /\ CompleteRow(target[o], "cancelled")
    /\ opc' = [opc EXCEPT ![o] = "cancelled"]
    /\ UNCHANGED <<workers, target, faults>>

RestartEnqueue(o) ==
    /\ opc[o] = "cancelled"
    /\ Insert(session[target[o]], target[o])
    /\ opc' = [opc EXCEPT ![o] = "idle"]
    /\ target' = [target EXCEPT ![o] = 0]
    /\ UNCHANGED <<workers, faults>>

\* The API process dies, or its connection fails, between two transactions.
RestartFault(o) ==
    /\ opc[o] # "idle"
    /\ faults < MaxFaults
    /\ faults' = faults + 1
    /\ opc' = [opc EXCEPT ![o] = "idle"]
    /\ target' = [target EXCEPT ![o] = 0]
    /\ UNCHANGED <<rows, workers>>

-----------------------------------------------------------------------------
WorkerStep(w) == ClaimLock(w) \/ ClaimCommit(w) \/ ReceiveClaim(w) \/ ReportComplete(w)

Next ==
    \/ \E s \in Session : HostEnqueue(s)
    \/ \E w \in Worker : \/ ClaimLock(w)
                         \/ ClaimCommit(w)
                         \/ ReceiveClaim(w)
                         \/ ReportComplete(w)
                         \/ WorkerFault(w)
    \/ \E o \in Operator : \/ RestartSelect(o)
                           \/ RestartCancel(o)
                           \/ RestartEnqueue(o)
                           \/ RestartFault(o)

Spec == Init /\ [][Next]_vars

\* A daemon that is up keeps polling, and its stage and its SQL end.
Fairness == \A w \in Worker : WF_vars(WorkerStep(w))

FairSpec == Spec /\ Fairness

-----------------------------------------------------------------------------
(* Properties                                                              *)

Holds(w, u) == wpc[w] \in {"claimed", "executing"} /\ task[w] = u

\* No unit is handed to two workers, however their claims interleave: the
\* stage of a unit is never executed twice at once.
ClaimedOnce ==
    \A v, w \in Worker, u \in Unit : Holds(v, u) /\ Holds(w, u) => v = w

\* The node recorded on a unit is the worker that is executing it, so a node
\* is never blamed for, or credited with, another worker's unit.
HolderIsRecorded ==
    \A w \in Worker, u \in Unit : Holds(w, u) => node[u] = w

\* A restart never leaves the restarted unit live beside its replacement: by
\* the time the replacement can be claimed, nobody can claim the original.
ReplacedUnitIsOver ==
    \A u \in Unit : origin[u] # 0 => status[origin[u]] \in Terminal

\* A finished unit keeps its status, whatever late reports and concurrent
\* restarts arrive: complete()'s "status NOT IN (...)" guard.
FinishedIsFinal ==
    [][\A u \in Unit : status[u] \in Terminal => status'[u] = status[u]]_vars

\* The queue implements the abstract ledger: however its transactions
\* interleave, each row goes through enqueue, claim, completion in order.
Ledger == INSTANCE WorkUnitLedger WITH status <- status, node <- node
ImplementsLedger == Ledger!Spec

\* No queued unit of a session some worker polls stays queued: as the units
\* are bounded, there is a state again and again in which none is.
QueuedIsServed ==
    []<>(\A u \in Unit :
             status[u] = "queued" =>
                 \A w \in Worker : WorkerSession[w] \notin {session[u], AnySession})
=============================================================================

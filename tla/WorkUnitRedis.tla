---------------------------- MODULE WorkUnitRedis ----------------------------
(***************************************************************************)
(* The Redis work-unit queue: a hash of records and a list of pending ids, *)
(* with the same callers as WorkUnitPostgres.  Every Redis command is an   *)
(* action of its own.  dequeue(), complete() and terminate_restart() read  *)
(* a record and later write the whole record back (HGET ... HSET) with     *)
(* nothing that ties the two together, and a unit popped by BRPOP is       *)
(* nowhere but in its popper's hands until it is saved or pushed back.     *)
(*                                                                         *)
(* A record is the part of it that ever changes: its status and node.      *)
(***************************************************************************)
EXTENDS Naturals, Sequences, FiniteSets

CONSTANTS MaxUnits,       \* bound on the units ever enqueued
          Worker,         \* worker daemons, one node each
          Operator,       \* concurrent callers of terminate-restart
          Host,           \* host threads that enqueue
          Session,        \* chat sessions
          WorkerSession,  \* WorkerSession[w]: the session a worker polls
          AnySession,     \* the session_id of a claim that names none
          NoNode,         \* node_id of an unclaimed unit
          MaxFaults       \* bound on lost calls and crashes

ASSUME UnitsAssumption   == MaxUnits \in Nat \ {0}
ASSUME FaultsAssumption  == MaxFaults \in Nat
ASSUME SessionAssumption == /\ WorkerSession \in [Worker -> Session \cup {AnySession}]
                            /\ AnySession \notin Session
ASSUME ActorAssumption   == /\ Host \cap Operator = {}
                            /\ Worker \cap (Host \cup Operator) = {}

VARIABLES created,   \* how many records were ever saved by enqueue()
          record,    \* the hash nimbusware:compute:work_units:records
          pending,   \* the list ...:queue; LPUSH at the left, BRPOP at the right
          session,   \* session[u]
          origin,    \* origin[u]: the unit whose restart enqueued u, or 0
          wpc,       \* what each worker is doing
          task,      \* task[w]: the unit a worker has in hand, or 0
          attempts,  \* attempts[w]: how many more pops its dequeue() may make
          apc,       \* what each host thread and operator is doing
          target,    \* target[a]: the unit its call is about, or 0
          read,      \* read[x]: the record a worker or operator is about to write back
          faults

store == <<created, record, pending, session, origin>>
workers == <<wpc, task, attempts>>
callers == <<apc, target>>
vars == <<store, workers, callers, read, faults>>

Unit     == 1 .. MaxUnits
Caller   == Host \cup Operator
Terminal == {"ok", "failed", "timeout", "cancelled"}
Record   == [status : {"absent", "queued", "assigned"} \cup Terminal,
             node : Worker \cup {NoNode}]
Absent   == [status |-> "absent", node |-> NoNode]

TypeOK ==
    /\ created \in 0 .. MaxUnits
    /\ record \in [Unit -> Record]
    /\ pending \in Seq(Unit)
    /\ session \in [Unit -> Session \cup {AnySession}]
    /\ origin \in [Unit -> Unit \cup {0}]
    /\ wpc \in [Worker -> {"idle", "popping", "popped", "mismatch", "saving",
                           "executing", "reporting"}]
    /\ task \in [Worker -> Unit \cup {0}]
    /\ attempts \in [Worker -> 0 .. MaxUnits]
    /\ apc \in [Caller -> {"idle", "selected", "cancelling", "cancelled", "pushing"}]
    /\ target \in [Caller -> Unit \cup {0}]
    /\ read \in [Worker \cup Operator -> Record]
    /\ faults \in 0 .. MaxFaults

Init ==
    /\ created = 0
    /\ record = [u \in Unit |-> Absent]
    /\ pending = <<>>
    /\ session = [u \in Unit |-> AnySession]
    /\ origin = [u \in Unit |-> 0]
    /\ wpc = [w \in Worker |-> "idle"]
    /\ task = [w \in Worker |-> 0]
    /\ attempts = [w \in Worker |-> 0]
    /\ apc = [a \in Caller |-> "idle"]
    /\ target = [a \in Caller |-> 0]
    /\ read = [x \in Worker \cup Operator |-> Absent]
    /\ faults = 0

Finished(rec) == rec.status \in Terminal

-----------------------------------------------------------------------------
(* enqueue(): save the record, then push its id                            *)

\* HSET of a fresh record by caller a, which still has to push its id.
SaveNew(a, s, from) ==
    /\ created < MaxUnits
    /\ created' = created + 1
    /\ record' = [record EXCEPT ![created + 1].status = "queued"]
    /\ session' = [session EXCEPT ![created + 1] = s]
    /\ origin' = [origin EXCEPT ![created + 1] = from]
    /\ apc' = [apc EXCEPT ![a] = "pushing"]
    /\ target' = [target EXCEPT ![a] = created + 1]
    /\ UNCHANGED <<pending, workers, read, faults>>

HostSave(a, s) == apc[a] = "idle" /\ SaveNew(a, s, 0)

PushNew(a) ==
    /\ apc[a] = "pushing"
    /\ pending' = <<target[a]>> \o pending
    /\ apc' = [apc EXCEPT ![a] = "idle"]
    /\ target' = [target EXCEPT ![a] = 0]
    /\ UNCHANGED <<created, record, session, origin, workers, read, faults>>

-----------------------------------------------------------------------------
(* dequeue(): up to max(LLEN, 1) pops                                      *)

StartDequeue(w) ==
    /\ wpc[w] = "idle"
    /\ attempts' = [attempts EXCEPT ![w] = IF pending = <<>> THEN 1 ELSE Len(pending)]
    /\ wpc' = [wpc EXCEPT ![w] = "popping"]
    /\ UNCHANGED <<store, task, callers, read, faults>>

\* Variant: the id is read (LRANGE) but not removed.
PopPeek(w) ==
    /\ wpc[w] = "popping"
    /\ pending # <<>>
    /\ task' = [task EXCEPT ![w] = pending[Len(pending)]]
    /\ wpc' = [wpc EXCEPT ![w] = "popped"]
    /\ UNCHANGED <<store, attempts, callers, read, faults>>

Pop(w) ==
    /\ wpc[w] = "popping"
    /\ pending # <<>>
    /\ task' = [task EXCEPT ![w] = pending[Len(pending)]]
    /\ pending' = SubSeq(pending, 1, Len(pending) - 1)
    /\ wpc' = [wpc EXCEPT ![w] = "popped"]
    /\ UNCHANGED <<created, record, session, origin, attempts, callers, read, faults>>

\* BRPOP finds the list empty for its timeout of one second.
PopTimeout(w) ==
    /\ wpc[w] = "popping"
    /\ pending = <<>>
    /\ wpc' = [wpc EXCEPT ![w] = "idle"]
    /\ attempts' = [attempts EXCEPT ![w] = 0]
    /\ UNCHANGED <<store, task, callers, read, faults>>

\* The popped unit is not for this call: pop again, if attempts are left.
Continue(w) ==
    /\ task' = [task EXCEPT ![w] = 0]
    /\ attempts' = [attempts EXCEPT ![w] = @ - 1]
    /\ wpc' = [wpc EXCEPT ![w] = IF attempts[w] > 1 THEN "popping" ELSE "idle"]

\* HGET of the popped unit's record, and what the loop decides from it.
LoadPopped(w) ==
    /\ wpc[w] = "popped"
    /\ CASE record[task[w]].status # "queued" -> Continue(w)
         [] /\ record[task[w]].status = "queued"
            /\ WorkerSession[w] \notin {AnySession, session[task[w]]} ->
               wpc' = [wpc EXCEPT ![w] = "mismatch"] /\ UNCHANGED <<task, attempts>>
         [] OTHER ->
               wpc' = [wpc EXCEPT ![w] = "saving"] /\ UNCHANGED <<task, attempts>>
    /\ UNCHANGED <<store, callers, read, faults>>

\* Variant: another session's unit is skipped without being pushed back.
PushBackForgotten(w) ==
    /\ wpc[w] = "mismatch"
    /\ Continue(w)
    /\ UNCHANGED <<store, callers, read, faults>>

PushBack(w) ==
    /\ wpc[w] = "mismatch"
    /\ pending' = <<task[w]>> \o pending
    /\ Continue(w)
    /\ UNCHANGED <<created, record, session, origin, callers, read, faults>>

\* Variant: the record is saved without the claimer's node_id.
SaveAssignedAnonymously(w) ==
    /\ wpc[w] = "saving"
    /\ record' = [record EXCEPT ![task[w]].status = "assigned"]
    /\ wpc' = [wpc EXCEPT ![w] = "executing"]
    /\ attempts' = [attempts EXCEPT ![w] = 0]
    /\ UNCHANGED <<created, pending, session, origin, task, callers, read, faults>>

\* HSET of the record as claimed, over whatever the record has become.
SaveAssigned(w) ==
    /\ wpc[w] = "saving"
    /\ record' = [record EXCEPT ![task[w]] = [status |-> "assigned", node |-> w]]
    /\ wpc' = [wpc EXCEPT ![w] = "executing"]
    /\ attempts' = [attempts EXCEPT ![w] = 0]
    /\ UNCHANGED <<created, pending, session, origin, task, callers, read, faults>>

-----------------------------------------------------------------------------
(* complete(), called by the worker daemon                                 *)

\* HGET of the unit; a finished one is returned as it is.
ReportLoad(w) ==
    /\ wpc[w] = "executing"
    /\ IF Finished(record[task[w]])
       THEN /\ wpc' = [wpc EXCEPT ![w] = "idle"]
            /\ task' = [task EXCEPT ![w] = 0]
            /\ UNCHANGED read
       ELSE /\ wpc' = [wpc EXCEPT ![w] = "reporting"]
            /\ read' = [read EXCEPT ![w] = record[task[w]]]
            /\ UNCHANGED task
    /\ UNCHANGED <<store, attempts, callers, faults>>

\* Variant: a status outside WORK_UNIT_STATUSES is stored as it came.
ReportSaveAnything(w) ==
    /\ wpc[w] = "reporting"
    /\ record' = [record EXCEPT ![task[w]] = [read[w] EXCEPT !.status = "error"]]
    /\ wpc' = [wpc EXCEPT ![w] = "idle"]
    /\ task' = [task EXCEPT ![w] = 0]
    /\ read' = [read EXCEPT ![w] = Absent]
    /\ UNCHANGED <<created, pending, session, origin, attempts, callers, faults>>

ReportSave(w) ==
    /\ wpc[w] = "reporting"
    /\ \E st \in {"ok", "failed"} :
        record' = [record EXCEPT ![task[w]] = [read[w] EXCEPT !.status = st]]
    /\ wpc' = [wpc EXCEPT ![w] = "idle"]
    /\ task' = [task EXCEPT ![w] = 0]
    /\ read' = [read EXCEPT ![w] = Absent]
    /\ UNCHANGED <<created, pending, session, origin, attempts, callers, faults>>

-----------------------------------------------------------------------------
(* terminate_restart(): load; complete("cancelled"); enqueue               *)

RestartLoad(o) ==
    /\ apc[o] = "idle"
    /\ \E u \in 1 .. created :
        /\ ~Finished(record[u])
        /\ target' = [target EXCEPT ![o] = u]
    /\ apc' = [apc EXCEPT ![o] = "selected"]
    /\ UNCHANGED <<store, workers, read, faults>>

CancelLoad(o) ==
    /\ apc[o] = "selected"
    /\ IF Finished(record[target[o]])
       THEN /\ apc' = [apc EXCEPT ![o] = "cancelled"]
            /\ UNCHANGED read
       ELSE /\ apc' = [apc EXCEPT ![o] = "cancelling"]
            /\ read' = [read EXCEPT ![o] = record[target[o]]]
    /\ UNCHANGED <<store, workers, target, faults>>

CancelSave(o) ==
    /\ apc[o] = "cancelling"
    /\ record' = [record EXCEPT ![target[o]] = [read[o] EXCEPT !.status = "cancelled"]]
    /\ apc' = [apc EXCEPT ![o] = "cancelled"]
    /\ read' = [read EXCEPT ![o] = Absent]
    /\ UNCHANGED <<created, pending, session, origin, workers, target, faults>>

RestartSave(o) ==
    /\ apc[o] = "cancelled"
    /\ SaveNew(o, session[target[o]], target[o])

-----------------------------------------------------------------------------
(* Faults: a call is lost or its process dies between two commands         *)

WorkerFault(w) ==
    /\ wpc[w] # "idle"
    /\ faults < MaxFaults
    /\ faults' = faults + 1
    /\ wpc' = [wpc EXCEPT ![w] = "idle"]
    /\ task' = [task EXCEPT ![w] = 0]
    /\ attempts' = [attempts EXCEPT ![w] = 0]
    /\ read' = [read EXCEPT ![w] = Absent]
    /\ UNCHANGED <<store, callers>>

CallerFault(a) ==
    /\ apc[a] # "idle"
    /\ faults < MaxFaults
    /\ faults' = faults + 1
    /\ apc' = [apc EXCEPT ![a] = "idle"]
    /\ target' = [target EXCEPT ![a] = 0]
    /\ read' = [x \in DOMAIN read |-> IF x = a THEN Absent ELSE read[x]]
    /\ UNCHANGED <<store, workers>>

-----------------------------------------------------------------------------
Next ==
    \/ \E a \in Host, s \in Session : HostSave(a, s)
    \/ \E a \in Caller : PushNew(a) \/ CallerFault(a)
    \/ \E w \in Worker : \/ StartDequeue(w)
                         \/ Pop(w)
                         \/ PopTimeout(w)
                         \/ LoadPopped(w)
                         \/ PushBack(w)
                         \/ SaveAssigned(w)
                         \/ ReportLoad(w)
                         \/ ReportSave(w)
                         \/ WorkerFault(w)
    \/ \E o \in Operator : \/ RestartLoad(o)
                           \/ CancelLoad(o)
                           \/ CancelSave(o)
                           \/ RestartSave(o)

Spec == Init /\ [][Next]_vars

-----------------------------------------------------------------------------
(* Properties                                                              *)

\* The hands and list positions a unit's id is in.
InHand(u) == {w \in Worker : task[w] = u}
InList(u) == {i \in 1 .. Len(pending) : pending[i] = u}
BeingPushed(u) == {a \in Caller : apc[a] = "pushing" /\ target[a] = u}

\* The id of a unit is in one place at most, from its enqueue() to the report
\* of its worker: BRPOP, the push-back of another session's unit and crashes
\* never duplicate it, so no two workers execute it.
DeliveredOnce ==
    \A u \in Unit :
        Cardinality(InHand(u)) + Cardinality(InList(u)) + Cardinality(BeingPushed(u)) <= 1

\* Only a fault makes the queue forget a unit: while none has happened, every
\* queued record's id is in the list or on its way to or from it.
QueuedIsReachable ==
    faults = 0 => \A u \in Unit : record[u].status = "queued"
                                    => InHand(u) \cup InList(u) \cup BeingPushed(u) # {}

\* A report is credited to the worker that makes it, although the record it
\* writes back is the one it loaded, which others may have written since.
ReportCreditsReporter ==
    [][\A w \in Worker : wpc[w] = "reporting" /\ faults' = faults /\ wpc'[w] = "idle"
                            => record'[task[w]].node = w]_vars

\* terminate-restart cancels the in-flight unit and requeues it: the original
\* is never live again once its replacement exists.
ReplacedUnitIsOver ==
    \A u \in Unit : origin[u] # 0 => Finished(record[origin[u]])
=============================================================================

----------------------- MODULE WorkUnitPostgresProofs -----------------------
(***************************************************************************)
(* The Postgres work-unit queue, for any number of units, workers,         *)
(* operators, sessions and faults: type correctness, exclusive claims,     *)
(* finality, restart lineage, and refinement of WorkUnitLedger.            *)
(***************************************************************************)
EXTENDS WorkUnitPostgres, TLAPS

-----------------------------------------------------------------------------
(* The inductive invariant                                                 *)

\* The rows are numbered without gaps, in the order of their INSERTs.
RowsInOrder ==
    /\ \A u \in Unit : status[u] = "absent" <=> u > created
    /\ \A u \in Unit : origin[u] # 0 => origin[u] <= created

\* A worker that is not idle is at work on an existing row.
TaskExists == \A w \in Worker : wpc[w] # "idle" => task[w] \in 1 .. created

\* A locked row is still queued, and only one transaction holds its lock.
LocksExclusive ==
    /\ \A w \in Worker : wpc[w] = "locked" => status[task[w]] = "queued"
    /\ \A v, w \in Worker : (/\ wpc[v] = "locked"
                             /\ wpc[w] = "locked"
                             /\ task[v] = task[w]) => v = w

\* A row some worker holds has left the queue, in that worker's name.
ClaimsRecorded ==
    \A w \in Worker : wpc[w] \in {"claimed", "executing"}
        => /\ node[task[w]] = w
           /\ status[task[w]] # "queued"

\* An operator works on an existing row, which its second transaction ends.
TargetEnded ==
    \A o \in Operator :
        /\ opc[o] # "idle" => target[o] \in 1 .. created
        /\ opc[o] = "cancelled" => status[target[o]] \in Terminal

IInv == /\ TypeOK
        /\ RowsInOrder
        /\ TaskExists
        /\ LocksExclusive
        /\ ClaimsRecorded
        /\ TargetEnded
        /\ ReplacedUnitIsOver

-----------------------------------------------------------------------------

\* The invariant holds of an empty queue with idle callers.
LEMMA InitIInv == Init => IInv
  BY UnitsAssumption, FaultsAssumption, SessionAssumption, NodeAssumption
     DEF Init, IInv, TypeOK, RowsInOrder, TaskExists, LocksExclusive, ClaimsRecorded,
         TargetEnded, ReplacedUnitIsOver, Unit, Status, Terminal, WorkerState, OperatorState

\* What enqueue()'s INSERT changes: one new row, which no one refers to yet.
LEMMA InsertRow ==
  ASSUME TypeOK, RowsInOrder,
         NEW s \in Session \cup {AnySession}, NEW from \in Unit \cup {0}, Insert(s, from)
  PROVE  /\ created \in Nat /\ created' = created + 1 /\ created + 1 \in Unit
         /\ created' \in 0 .. MaxUnits
         /\ status' \in [Unit -> Status]
         /\ session' \in [Unit -> Session \cup {AnySession}]
         /\ origin' \in [Unit -> Unit \cup {0}]
         /\ node' = node
         /\ status[created + 1] = "absent"
         /\ status'[created + 1] = "queued" /\ origin'[created + 1] = from
         /\ \A u \in Unit : u # created + 1 => status'[u] = status[u] /\ origin'[u] = origin[u]
  BY UnitsAssumption DEF Insert, TypeOK, RowsInOrder, Unit, Status

\* A new row keeps the rows in created_at order and older than their restarts.
LEMMA InsertInOrder ==
  ASSUME TypeOK, RowsInOrder,
         NEW s \in Session \cup {AnySession}, NEW from \in 0 .. created, Insert(s, from)
  PROVE  /\ RowsInOrder'
         /\ \A u \in 1 .. created : u \in Unit /\ status'[u] = status[u] /\ node'[u] = node[u]
<1>1. from \in Unit \cup {0} /\ created \in 0 .. MaxUnits /\ created \in Nat
  BY UnitsAssumption DEF TypeOK, Unit
<1>2. /\ created' = created + 1 /\ node' = node
      /\ status'[created + 1] = "queued" /\ origin'[created + 1] = from
      /\ \A u \in Unit : u # created + 1 => status'[u] = status[u] /\ origin'[u] = origin[u]
  BY <1>1, InsertRow
<1>3. \A u \in Unit : status'[u] = "absent" <=> u > created'
  BY <1>1, <1>2 DEF RowsInOrder, Unit
<1>4. \A u \in Unit : origin'[u] # 0 => origin'[u] <= created'
  <2> SUFFICES ASSUME NEW u \in Unit, origin'[u] # 0 PROVE origin'[u] <= created + 1
    BY <1>2
  <2>1. CASE u = created + 1
    BY <1>1, <1>2, <2>1 DEF Unit
  <2>2. CASE u # created + 1
    <3>1. origin[u] \in Unit /\ origin[u] <= created
      BY <1>2, <2>2 DEF RowsInOrder, TypeOK
    <3> QED
      BY <1>1, <1>2, <2>2, <3>1 DEF Unit
  <2> QED
    BY <2>1, <2>2
<1>5. \A u \in 1 .. created : u \in Unit /\ u # created + 1
  BY <1>1, UnitsAssumption DEF Unit
<1> QED
  BY <1>2, <1>3, <1>4, <1>5 DEF RowsInOrder

\* complete() ends a live row and leaves every other column and row alone.
LEMMA CompleteRowEffect ==
  ASSUME TypeOK, NEW u \in Unit, NEW st \in Terminal, CompleteRow(u, st)
  PROVE  /\ status' \in [Unit -> Status]
         /\ status'[u] \in Terminal
         /\ status[u] \in Terminal => status'[u] = status[u]
         /\ \A v \in Unit : v # u => status'[v] = status[v]
         /\ created' = created /\ node' = node /\ session' = session /\ origin' = origin
         /\ \A w \in Worker : wpc[w] = "locked" => task[w] # u
  BY DEF CompleteRow, RowLocked, TypeOK, Status

\* The host's enqueue() preserves the invariant.
LEMMA HostEnqueueIInv ==
  ASSUME IInv, NEW s \in Session, HostEnqueue(s)
  PROVE  IInv'
<1>1. /\ Insert(s, 0) /\ UNCHANGED <<wpc, task, opc, target, faults>>
      /\ s \in Session \cup {AnySession} /\ 0 \in 0 .. created
  BY DEF HostEnqueue, workers, operators, IInv, TypeOK
<1>2. TypeOK'
  BY <1>1, InsertRow DEF IInv, TypeOK
<1>3. RowsInOrder'
  BY <1>1, InsertInOrder DEF IInv
<1>4. TaskExists'
  BY <1>1, InsertRow DEF IInv, TaskExists
<1>5. \A w \in Worker : wpc[w] # "idle" => status'[task[w]] = status[task[w]]
  BY <1>1, InsertInOrder DEF IInv, TaskExists
<1>6. LocksExclusive'
  BY <1>1, <1>5 DEF IInv, LocksExclusive
<1>7. ClaimsRecorded'
  BY <1>1, <1>5, InsertRow DEF IInv, ClaimsRecorded
<1>8. TargetEnded'
  BY <1>1, InsertRow DEF IInv, TypeOK, TargetEnded, Unit
<1>9. ReplacedUnitIsOver'
  BY <1>1, InsertRow DEF IInv, TypeOK, RowsInOrder, ReplacedUnitIsOver, Unit
<1> QED
  BY <1>2, <1>3, <1>4, <1>6, <1>7, <1>8, <1>9 DEF IInv

\* The claim's SELECT ... SKIP LOCKED preserves it: no row is locked twice.
LEMMA ClaimLockIInv ==
  ASSUME IInv, NEW w \in Worker, ClaimLock(w)
  PROVE  IInv'
<1>1. PICK u \in Claimable(w) : task' = [task EXCEPT ![w] = u]
  BY DEF ClaimLock
<1>2. /\ u \in Unit /\ status[u] = "queued" /\ ~RowLocked(u)
      /\ wpc[w] = "idle" /\ wpc' = [wpc EXCEPT ![w] = "locked"]
      /\ UNCHANGED <<created, status, node, session, origin, opc, target, faults>>
  BY <1>1 DEF ClaimLock, Claimable, rows, operators
<1>3. TypeOK'
  BY <1>1, <1>2 DEF IInv, TypeOK, WorkerState
<1>4. u \in 1 .. created
  BY <1>2 DEF IInv, RowsInOrder, TypeOK, Unit
<1>5. TaskExists'
  BY <1>1, <1>2, <1>4 DEF IInv, TaskExists, TypeOK
<1>6. LocksExclusive'
  BY <1>1, <1>2 DEF IInv, LocksExclusive, RowLocked, TypeOK
<1>7. ClaimsRecorded'
  BY <1>1, <1>2 DEF IInv, ClaimsRecorded, TypeOK
<1>8. RowsInOrder' /\ TargetEnded' /\ ReplacedUnitIsOver'
  BY <1>2 DEF IInv, RowsInOrder, TargetEnded, ReplacedUnitIsOver
<1> QED
  BY <1>3, <1>5, <1>6, <1>7, <1>8 DEF IInv

\* The claim's UPDATE preserves it: the node is recorded with the status.
LEMMA ClaimCommitIInv ==
  ASSUME IInv, NEW w \in Worker, ClaimCommit(w)
  PROVE  IInv'
<1>1. /\ wpc[w] = "locked" /\ wpc' = [wpc EXCEPT ![w] = "claimed"]
      /\ task[w] \in Unit /\ task[w] \in 1 .. created /\ status[task[w]] = "queued"
      /\ status' = [status EXCEPT ![task[w]] = "assigned"]
      /\ node' = [node EXCEPT ![task[w]] = w]
      /\ UNCHANGED <<created, session, origin, task, opc, target, faults>>
  BY DEF ClaimCommit, IInv, TaskExists, LocksExclusive, TypeOK, Unit, operators
<1>2. TypeOK'
  BY <1>1 DEF IInv, TypeOK, WorkerState, Status
<1>3. RowsInOrder'
  BY <1>1 DEF IInv, RowsInOrder, TypeOK, Unit
<1>4. TaskExists'
  BY <1>1 DEF IInv, TaskExists, TypeOK
<1>5. \A v \in Worker : v # w /\ wpc[v] # "idle" => task[v] # task[w] \/ wpc[v] # "locked"
  BY <1>1 DEF IInv, LocksExclusive
<1>6. LocksExclusive'
  BY <1>1, <1>5 DEF IInv, LocksExclusive, TypeOK, TaskExists, Unit
<1>7. \A v \in Worker : wpc[v] \in {"claimed", "executing"} => task[v] # task[w]
  BY <1>1 DEF IInv, ClaimsRecorded
<1>8. ClaimsRecorded'
  BY <1>1, <1>7 DEF IInv, ClaimsRecorded, TypeOK, TaskExists, Unit
<1>9. TargetEnded'
  BY <1>1 DEF IInv, TargetEnded, TypeOK, Terminal
<1>10. ReplacedUnitIsOver'
  BY <1>1 DEF IInv, ReplacedUnitIsOver, TypeOK, Terminal
<1> QED
  BY <1>2, <1>3, <1>4, <1>6, <1>8, <1>9, <1>10 DEF IInv

\* The claim's answer preserves it.
LEMMA ReceiveClaimIInv ==
  ASSUME IInv, NEW w \in Worker, ReceiveClaim(w)
  PROVE  IInv'
<1>1. /\ wpc[w] = "claimed" /\ wpc' = [wpc EXCEPT ![w] = "executing"]
      /\ UNCHANGED <<created, status, node, session, origin, task, opc, target, faults>>
  BY DEF ReceiveClaim, rows, operators
<1>2. TypeOK'
  BY <1>1 DEF IInv, TypeOK, WorkerState
<1>3. TaskExists' /\ LocksExclusive' /\ ClaimsRecorded'
  BY <1>1 DEF IInv, TypeOK, TaskExists, LocksExclusive, ClaimsRecorded
<1>4. RowsInOrder' /\ TargetEnded' /\ ReplacedUnitIsOver'
  BY <1>1 DEF IInv, RowsInOrder, TargetEnded, ReplacedUnitIsOver
<1> QED
  BY <1>2, <1>3, <1>4 DEF IInv

\* Ending a row disturbs no lock, no record of a claim and no restart.
LEMMA CompleteRowIInv ==
  ASSUME IInv, NEW u \in 1 .. created, NEW st \in Terminal, CompleteRow(u, st)
  PROVE  /\ RowsInOrder'
         /\ \A w \in Worker : /\ wpc[w] = "locked" => status'[task[w]] = "queued"
                              /\ wpc[w] \in {"claimed", "executing"} =>
                                    node'[task[w]] = w /\ status'[task[w]] # "queued"
         /\ \A o \in Operator : opc[o] = "cancelled" => status'[target[o]] \in Terminal
         /\ ReplacedUnitIsOver'
<1>1. u \in Unit
  BY UnitsAssumption DEF IInv, TypeOK, Unit
<1>0. /\ status'[u] \in Terminal
      /\ status[u] \in Terminal => status'[u] = status[u]
      /\ \A v \in Unit : v # u => status'[v] = status[v]
      /\ created' = created /\ node' = node /\ origin' = origin
      /\ \A w \in Worker : wpc[w] = "locked" => task[w] # u
  BY <1>1, CompleteRowEffect DEF IInv
<1>2. RowsInOrder'
  <2>1. u <= created
    BY DEF IInv, TypeOK
  <2>2. \A v \in Unit : status'[v] = "absent" <=> status[v] = "absent"
    BY <1>0, <1>1, <2>1 DEF IInv, RowsInOrder, TypeOK, Terminal, Unit
  <2> QED
    BY <1>0, <2>2 DEF IInv, RowsInOrder
<1>3. \A w \in Worker : wpc[w] = "locked" => status'[task[w]] = "queued"
  BY <1>0, <1>1 DEF IInv, LocksExclusive, TaskExists, TypeOK, Unit
<1>4. \A w \in Worker : wpc[w] \in {"claimed", "executing"} =>
                                    node'[task[w]] = w /\ status'[task[w]] # "queued"
  <2> SUFFICES ASSUME NEW w \in Worker, wpc[w] \in {"claimed", "executing"}
               PROVE  node'[task[w]] = w /\ status'[task[w]] # "queued"
    OBVIOUS
  <2>1. task[w] \in Unit /\ node[task[w]] = w /\ status[task[w]] # "queued"
    BY UnitsAssumption DEF IInv, ClaimsRecorded, TaskExists, TypeOK, Unit
  <2> QED
    BY <1>0, <2>1 DEF Terminal
<1>5. \A o \in Operator : opc[o] = "cancelled" => status'[target[o]] \in Terminal
  BY <1>0, <1>1 DEF IInv, TargetEnded, TypeOK
<1>6. ReplacedUnitIsOver'
  BY <1>0, <1>1 DEF IInv, ReplacedUnitIsOver, TypeOK
<1> QED
  BY <1>2, <1>3, <1>4, <1>5, <1>6

\* A worker's report, late or not, preserves it.
LEMMA ReportCompleteIInv ==
  ASSUME IInv, NEW w \in Worker, ReportComplete(w)
  PROVE  IInv'
<1>1. PICK st \in Terminal : CompleteRow(task[w], st)
  BY DEF ReportComplete, Terminal
<1>2. /\ wpc[w] = "executing" /\ task[w] \in 1 .. created /\ task[w] \in Unit
      /\ wpc' = [wpc EXCEPT ![w] = "idle"] /\ task' = [task EXCEPT ![w] = 0]
      /\ UNCHANGED <<opc, target, faults>>
  BY DEF ReportComplete, IInv, TaskExists, TypeOK, Unit, operators
<1>3. TypeOK'
  BY <1>1, <1>2, CompleteRowEffect DEF IInv, TypeOK, WorkerState
<1>4. created' = created
  BY <1>1, <1>2, CompleteRowEffect DEF IInv
<1>5. TaskExists'
  BY <1>2, <1>4 DEF IInv, TaskExists, TypeOK
<1>6. LocksExclusive'
  BY <1>1, <1>2, CompleteRowIInv DEF IInv, LocksExclusive, TypeOK
<1>7. ClaimsRecorded'
  BY <1>1, <1>2, CompleteRowIInv DEF IInv, ClaimsRecorded, TypeOK
<1>8. TargetEnded'
  BY <1>1, <1>2, <1>4, CompleteRowIInv DEF IInv, TargetEnded
<1>9. RowsInOrder' /\ ReplacedUnitIsOver'
  BY <1>1, <1>2, CompleteRowIInv
<1> QED
  BY <1>3, <1>5, <1>6, <1>7, <1>8, <1>9 DEF IInv

\* A lost call or a dead worker preserves it.
LEMMA WorkerFaultIInv ==
  ASSUME IInv, NEW w \in Worker, WorkerFault(w)
  PROVE  IInv'
<1>1. /\ wpc' = [wpc EXCEPT ![w] = "idle"] /\ task' = [task EXCEPT ![w] = 0]
      /\ faults < MaxFaults /\ faults' = faults + 1
      /\ UNCHANGED <<created, status, node, session, origin, opc, target>>
  BY DEF WorkerFault, rows, operators
<1>2. TypeOK'
  BY <1>1, FaultsAssumption DEF IInv, TypeOK, WorkerState
<1>3. TaskExists' /\ LocksExclusive' /\ ClaimsRecorded'
  BY <1>1 DEF IInv, TypeOK, TaskExists, LocksExclusive, ClaimsRecorded
<1>4. RowsInOrder' /\ TargetEnded' /\ ReplacedUnitIsOver'
  BY <1>1 DEF IInv, RowsInOrder, TargetEnded, ReplacedUnitIsOver
<1> QED
  BY <1>2, <1>3, <1>4 DEF IInv

\* terminate_restart's SELECT preserves it.
LEMMA RestartSelectIInv ==
  ASSUME IInv, NEW o \in Operator, RestartSelect(o)
  PROVE  IInv'
<1>1. PICK u \in 1 .. created : target' = [target EXCEPT ![o] = u]
  BY DEF RestartSelect
<1>2. /\ opc' = [opc EXCEPT ![o] = "selected"]
      /\ UNCHANGED <<created, status, node, session, origin, wpc, task, faults>>
  BY DEF RestartSelect, rows, workers
<1>3. TypeOK'
  BY <1>1, <1>2, UnitsAssumption DEF IInv, TypeOK, OperatorState, Unit
<1>4. TargetEnded'
  BY <1>1, <1>2 DEF IInv, TypeOK, TargetEnded
<1>5. RowsInOrder' /\ TaskExists' /\ LocksExclusive' /\ ClaimsRecorded' /\ ReplacedUnitIsOver'
  BY <1>2 DEF IInv, RowsInOrder, TaskExists, LocksExclusive, ClaimsRecorded, ReplacedUnitIsOver
<1> QED
  BY <1>3, <1>4, <1>5 DEF IInv

\* terminate_restart's complete("cancelled") preserves it.
LEMMA RestartCancelIInv ==
  ASSUME IInv, NEW o \in Operator, RestartCancel(o)
  PROVE  IInv'
<1>1. /\ opc[o] = "selected" /\ opc' = [opc EXCEPT ![o] = "cancelled"]
      /\ target[o] \in 1 .. created /\ target[o] \in Unit
      /\ CompleteRow(target[o], "cancelled") /\ "cancelled" \in Terminal
      /\ UNCHANGED <<wpc, task, target, faults>>
  BY DEF RestartCancel, IInv, TargetEnded, TypeOK, Unit, Terminal, workers
<1>2. TypeOK'
  BY <1>1, CompleteRowEffect DEF IInv, TypeOK, OperatorState
<1>3. created' = created /\ status'[target[o]] \in Terminal
  BY <1>1, CompleteRowEffect DEF IInv
<1>4. TaskExists'
  BY <1>1, <1>3 DEF IInv, TaskExists
<1>5. LocksExclusive' /\ ClaimsRecorded'
  BY <1>1, CompleteRowIInv DEF IInv, LocksExclusive, ClaimsRecorded
<1>6. TargetEnded'
  BY <1>1, <1>3, CompleteRowIInv DEF IInv, TargetEnded, TypeOK
<1>7. RowsInOrder' /\ ReplacedUnitIsOver'
  BY <1>1, CompleteRowIInv
<1> QED
  BY <1>2, <1>4, <1>5, <1>6, <1>7 DEF IInv

\* terminate_restart's enqueue() preserves it.
LEMMA RestartEnqueueIInv ==
  ASSUME IInv, NEW o \in Operator, RestartEnqueue(o)
  PROVE  IInv'
<1> DEFINE from == target[o]
<1>1. /\ opc[o] = "cancelled" /\ opc' = [opc EXCEPT ![o] = "idle"]
      /\ target' = [target EXCEPT ![o] = 0]
      /\ from \in 1 .. created /\ from \in Unit /\ status[from] \in Terminal
      /\ session[from] \in Session \cup {AnySession}
      /\ Insert(session[from], from)
      /\ UNCHANGED <<wpc, task, faults>>
  BY DEF RestartEnqueue, IInv, TargetEnded, TypeOK, Unit, workers
<1> HIDE DEF from
<1>2. TypeOK'
  BY <1>1, InsertRow DEF IInv, TypeOK, OperatorState
<1>3. RowsInOrder'
  BY <1>1, InsertInOrder DEF IInv
<1>4. TaskExists'
  BY <1>1, InsertRow DEF IInv, TaskExists
<1>5. \A w \in Worker : wpc[w] # "idle" => status'[task[w]] = status[task[w]]
  BY <1>1, InsertInOrder DEF IInv, TaskExists
<1>6. LocksExclusive'
  BY <1>1, <1>5 DEF IInv, LocksExclusive
<1>7. node' = node
  BY <1>1, InsertRow DEF IInv
<1>8. ClaimsRecorded'
  BY <1>1, <1>5, <1>7 DEF IInv, ClaimsRecorded
<1>9. TargetEnded'
  <2> SUFFICES ASSUME NEW p \in Operator, opc'[p] # "idle"
               PROVE  /\ target'[p] \in 1 .. created'
                      /\ opc'[p] = "cancelled" => status'[target'[p]] \in Terminal
    BY DEF TargetEnded
  <2>1. opc'[p] = opc[p] /\ target'[p] = target[p] /\ opc[p] # "idle"
    BY <1>1 DEF IInv, TypeOK
  <2>2. target[p] \in 1 .. created /\ (opc[p] = "cancelled" => status[target[p]] \in Terminal)
    BY <2>1 DEF IInv, TargetEnded
  <2>3. status'[target[p]] = status[target[p]] /\ target[p] \in 1 .. created'
    BY <1>1, <2>2, InsertRow, InsertInOrder DEF IInv
  <2> QED
    BY <2>1, <2>2, <2>3
<1>10. ReplacedUnitIsOver'
  <2>1. /\ created \in Nat /\ created + 1 \in Unit
        /\ status[created + 1] = "absent" /\ origin'[created + 1] = from
        /\ \A u \in Unit : u # created + 1 => status'[u] = status[u] /\ origin'[u] = origin[u]
    BY <1>1, InsertRow DEF IInv
  <2>2. \A v \in Unit : status[v] \in Terminal => status'[v] \in Terminal
    BY <2>1 DEF Terminal
  <2>3. \A u \in Unit : origin[u] # 0 => origin[u] \in Unit
    BY DEF IInv, TypeOK
  <2>4. ASSUME NEW u \in Unit, origin'[u] # 0
        PROVE  status'[origin'[u]] \in Terminal
    <3>1. CASE u = created + 1
      BY <1>1, <2>1, <2>2, <3>1
    <3>2. CASE u # created + 1
      BY <2>1, <2>2, <2>3, <2>4, <3>2 DEF IInv, ReplacedUnitIsOver
    <3> QED
      BY <3>1, <3>2
  <2> QED
    BY <2>4 DEF ReplacedUnitIsOver
<1> QED
  BY <1>2, <1>3, <1>4, <1>6, <1>8, <1>9, <1>10 DEF IInv

\* An API process that dies inside terminate_restart preserves it.
LEMMA RestartFaultIInv ==
  ASSUME IInv, NEW o \in Operator, RestartFault(o)
  PROVE  IInv'
<1>1. /\ opc' = [opc EXCEPT ![o] = "idle"] /\ target' = [target EXCEPT ![o] = 0]
      /\ faults < MaxFaults /\ faults' = faults + 1
      /\ UNCHANGED <<created, status, node, session, origin, wpc, task>>
  BY DEF RestartFault, rows, workers
<1>2. TypeOK'
  BY <1>1, FaultsAssumption DEF IInv, TypeOK, OperatorState
<1>3. TargetEnded'
  BY <1>1 DEF IInv, TypeOK, TargetEnded
<1>4. RowsInOrder' /\ TaskExists' /\ LocksExclusive' /\ ClaimsRecorded' /\ ReplacedUnitIsOver'
  BY <1>1 DEF IInv, RowsInOrder, TaskExists, LocksExclusive, ClaimsRecorded, ReplacedUnitIsOver
<1> QED
  BY <1>2, <1>3, <1>4 DEF IInv

\* Every step preserves the invariant.
LEMMA NextIInv == IInv /\ [Next]_vars => IInv'
<1> SUFFICES ASSUME IInv, [Next]_vars PROVE IInv'
  OBVIOUS
<1>1. CASE UNCHANGED vars
  BY <1>1 DEF vars, rows, workers, operators, IInv, TypeOK, RowsInOrder, TaskExists,
     LocksExclusive, ClaimsRecorded, TargetEnded, ReplacedUnitIsOver
<1>2. CASE Next
  BY <1>2, HostEnqueueIInv, ClaimLockIInv, ClaimCommitIInv, ReceiveClaimIInv,
     ReportCompleteIInv, WorkerFaultIInv, RestartSelectIInv, RestartCancelIInv,
     RestartEnqueueIInv, RestartFaultIInv DEF Next
<1> QED
  BY <1>1, <1>2

\* The inductive invariant holds in every reachable state.
THEOREM Invariance == Spec => []IInv
  BY InitIInv, NextIInv, PTL DEF Spec

-----------------------------------------------------------------------------
(* What the invariant gives                                                *)

\* Every reachable state of the queue and its callers is type correct.
THEOREM TypeCorrect == Spec => []TypeOK
  BY Invariance, PTL DEF IInv

\* No interleaving of claims, however many workers poll, hands one unit to two.
THEOREM ExclusiveClaims == Spec => []ClaimedOnce
<1>1. IInv => ClaimedOnce
  BY DEF IInv, ClaimsRecorded, ClaimedOnce, Holds
<1> QED
  BY <1>1, Invariance, PTL

\* Who executes a unit is the node its row names: a report, a
\* restart or a later claim never leaves a worker with somebody else's row.
THEOREM RecordedHolder == Spec => []HolderIsRecorded
<1>1. IInv => HolderIsRecorded
  BY DEF IInv, ClaimsRecorded, HolderIsRecorded, Holds
<1> QED
  BY <1>1, Invariance, PTL

\* A restarted unit is over before its replacement exists.
THEOREM RestartsAreSerial == Spec => []ReplacedUnitIsOver
  BY Invariance, PTL DEF IInv

-----------------------------------------------------------------------------
(* Refinement of the abstract ledger                                       *)

\* An empty table is an empty ledger.
LEMMA InitLedger == Init => Ledger!Init
  BY DEF Init, Ledger!Init

\* An INSERT is the ledger's Enqueue of the next unit.
LEMMA InsertLedger ==
  ASSUME IInv, NEW s \in Session \cup {AnySession}, NEW from \in Unit \cup {0}, Insert(s, from)
  PROVE  \E u \in Unit : Ledger!Enqueue(u)
<1>1. created + 1 \in Unit /\ status[created + 1] = "absent" /\ node' = node
  BY InsertRow DEF IInv
<1>2. status' = [status EXCEPT ![created + 1] = "queued"]
  BY DEF Insert
<1> QED
  BY <1>1, <1>2 DEF Ledger!Enqueue

\* complete() is the ledger's Complete, or changes nothing the ledger sees.
LEMMA CompleteRowLedger ==
  ASSUME IInv, NEW u \in 1 .. created, NEW st \in Terminal, CompleteRow(u, st)
  PROVE  [Ledger!Next]_(Ledger!ledgerVars)
<1>1. u \in Unit /\ status \in [Unit -> Status] /\ node' = node
  BY UnitsAssumption DEF IInv, TypeOK, Unit, CompleteRow
<1>2. status[u] # "absent"
  BY <1>1 DEF IInv, TypeOK, RowsInOrder
<1>3. CASE status[u] \in Terminal
  <2>1. status' = status
    BY <1>1, <1>3 DEF CompleteRow
  <2> QED
    BY <1>1, <2>1 DEF Ledger!ledgerVars
<1>4. CASE status[u] \notin Terminal
  <2>1. status' = [status EXCEPT ![u] = st]
    BY <1>1, <1>4 DEF CompleteRow
  <2>2. status[u] \in Ledger!Live
    BY <1>1, <1>2, <1>4 DEF Status, Ledger!Live
  <2>3. Ledger!Complete(u, st) /\ st \in Ledger!Terminal
    BY <1>1, <2>1, <2>2 DEF Ledger!Complete, Ledger!Terminal, Terminal
  <2> QED
    BY <1>1, <2>3 DEF Ledger!Next
<1> QED
  BY <1>3, <1>4

\* Every step of the queue is a step of the ledger, or invisible to it.
LEMMA NextLedger == IInv /\ [Next]_vars => [Ledger!Next]_(Ledger!ledgerVars)
<1> SUFFICES ASSUME IInv, [Next]_vars PROVE [Ledger!Next]_(Ledger!ledgerVars)
  OBVIOUS
<1>1. CASE UNCHANGED vars
  BY <1>1 DEF vars, rows, Ledger!ledgerVars
<1>2. ASSUME NEW s \in Session, HostEnqueue(s) PROVE \E u \in Unit : Ledger!Enqueue(u)
  BY <1>2, InsertLedger DEF HostEnqueue
<1>3. ASSUME NEW w \in Worker, ClaimCommit(w) PROVE \E u \in Unit : Ledger!Dequeue(u, w)
  <2>1. task[w] \in Unit /\ status[task[w]] = "queued"
    BY <1>3 DEF ClaimCommit, IInv, TypeOK, TaskExists, LocksExclusive, Unit
  <2> QED
    BY <1>3, <2>1 DEF ClaimCommit, Ledger!Dequeue
<1>4. ASSUME NEW w \in Worker, ReportComplete(w) PROVE [Ledger!Next]_(Ledger!ledgerVars)
  <2>1. PICK st \in Terminal : CompleteRow(task[w], st)
    BY <1>4 DEF ReportComplete, Terminal
  <2>2. task[w] \in 1 .. created
    BY <1>4 DEF ReportComplete, IInv, TaskExists
  <2> QED
    BY <2>1, <2>2, CompleteRowLedger
<1>5. ASSUME NEW w \in Worker, ClaimLock(w) \/ ReceiveClaim(w) \/ WorkerFault(w)
      PROVE  UNCHANGED Ledger!ledgerVars
  BY <1>5 DEF ClaimLock, ReceiveClaim, WorkerFault, rows, Ledger!ledgerVars
<1>6. ASSUME NEW o \in Operator, RestartSelect(o) \/ RestartFault(o)
      PROVE  UNCHANGED Ledger!ledgerVars
  BY <1>6 DEF RestartSelect, RestartFault, rows, Ledger!ledgerVars
<1>7. ASSUME NEW o \in Operator, RestartCancel(o) PROVE [Ledger!Next]_(Ledger!ledgerVars)
  <2>1. target[o] \in 1 .. created /\ CompleteRow(target[o], "cancelled") /\ "cancelled" \in Terminal
    BY <1>7 DEF RestartCancel, IInv, TargetEnded, Terminal
  <2> QED
    BY <2>1, CompleteRowLedger
<1>8. ASSUME NEW o \in Operator, RestartEnqueue(o) PROVE \E u \in Unit : Ledger!Enqueue(u)
  <2>1. /\ target[o] \in Unit /\ session[target[o]] \in Session \cup {AnySession}
        /\ Insert(session[target[o]], target[o])
    BY <1>8, UnitsAssumption DEF RestartEnqueue, IInv, TargetEnded, TypeOK, Unit
  <2> QED
    BY <2>1, InsertLedger
<1> QED
  BY <1>1, <1>2, <1>3, <1>4, <1>5, <1>6, <1>7, <1>8 DEF Next, Ledger!Next

\* Every behaviour of the Postgres queue and its callers, seen through status
\* and node_id alone, is one of the ledger: enqueue, claim, finish, in order.
THEOREM PostgresImplementsLedger == Spec => ImplementsLedger
  BY InitLedger, NextLedger, Invariance, PTL DEF Spec, ImplementsLedger, Ledger!Spec

\* No late report and no racing restart changes the status of a finished unit.
THEOREM Finality == Spec => FinishedIsFinal
<1>1. IInv /\ [Next]_vars => [\A u \in Unit : status[u] \in Terminal => status'[u] = status[u]]_vars
  <2> SUFFICES ASSUME IInv, [Next]_vars, NEW u \in Unit, status[u] \in Terminal
               PROVE  status'[u] = status[u]
    OBVIOUS
  <2>1. [Ledger!Next]_(Ledger!ledgerVars)
    BY NextLedger
  <2>2. CASE UNCHANGED Ledger!ledgerVars
    BY <2>2 DEF Ledger!ledgerVars
  <2>3. ASSUME NEW v \in Unit, Ledger!Enqueue(v) \/ (\E w \in Worker : Ledger!Dequeue(v, w))
                                 \/ (\E st \in Ledger!Terminal : Ledger!Complete(v, st))
        PROVE  status'[u] = status[u]
    BY <2>3 DEF Ledger!Enqueue, Ledger!Dequeue, Ledger!Complete, Ledger!Live, Terminal, IInv, TypeOK
  <2> QED
    BY <2>1, <2>2, <2>3 DEF Ledger!Next
<1> QED
  BY <1>1, Invariance, PTL DEF Spec, FinishedIsFinal
=============================================================================

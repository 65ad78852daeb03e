--------------------------- MODULE WorkUnitLedger ---------------------------
(***************************************************************************)
(* What every work-unit queue of the compute mesh promises: the lifecycle  *)
(* of a unit as the WorkUnitQueuePort protocol states it and as the        *)
(* in-memory queue, called by one thread at a time, carries it out.  A     *)
(* unit is enqueued once, claimed by at most one node, and finished once;  *)
(* nothing happens to it afterwards.                                       *)
(***************************************************************************)
CONSTANTS Unit,     \* identities of the work units that may ever be enqueued
          Worker,   \* identities of the nodes that claim units
          NoNode    \* the node_id of a unit nobody has claimed

VARIABLES status,   \* status[u]: WorkUnitRecord.status, or "absent"
          node      \* node[u]: WorkUnitRecord.node_id

ledgerVars == <<status, node>>

\* The statuses complete() may leave a unit in, and the ones it starts from.
\* ("running" is in WORK_UNIT_STATUSES but nothing ever sets it.)
Terminal == {"ok", "failed", "timeout", "cancelled"}
Live     == {"queued", "assigned"}
Status   == {"absent"} \cup Live \cup Terminal

Init == /\ status = [u \in Unit |-> "absent"]
        /\ node = [u \in Unit |-> NoNode]

\* enqueue(): a fresh record, queued, without a node.
Enqueue(u) ==
    /\ status[u] = "absent"
    /\ status' = [status EXCEPT ![u] = "queued"]
    /\ UNCHANGED node

\* dequeue(): a queued unit becomes the claimer's.
Dequeue(u, w) ==
    /\ status[u] = "queued"
    /\ status' = [status EXCEPT ![u] = "assigned"]
    /\ node' = [node EXCEPT ![u] = w]

\* complete(): a live unit takes its final status; the node stays.
Complete(u, st) ==
    /\ status[u] \in Live
    /\ status' = [status EXCEPT ![u] = st]
    /\ UNCHANGED node

Next == \E u \in Unit :
            \/ Enqueue(u)
            \/ \E w \in Worker : Dequeue(u, w)
            \/ \E st \in Terminal : Complete(u, st)

Spec == Init /\ [][Next]_ledgerVars
=============================================================================

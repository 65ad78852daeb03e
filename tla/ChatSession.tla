----------------------------- MODULE ChatSession ----------------------------
(***************************************************************************)
(* One collaborative chat session under concurrent requests: its tree of   *)
(* turns, the transfer of its host, and the flags its metadata holds.      *)
(*   maker/chat/postgres.py               turns, active leaf, session row  *)
(*   maker/host_transfer_store_postgres.py, host_transfer_bundle.py        *)
(*   maker/session_scope.py               the scope that waits for approval*)
(*   api/routes/chat.py, chat_session.py, chat_collab.py    the handlers   *)
(* A handler is a sequence of store calls, each a transaction of its own;  *)
(* between two of them every other handler may run.  The metadata column   *)
(* is read by one call and written back whole by a later one.  The session *)
(* has no run attached, so no message is routed to one.                    *)
(***************************************************************************)
EXTENDS Integers, Sequences, FiniteSets

CONSTANTS User,        \* users of the session
          Creator,     \* the user who created it and is its first host
          Request,     \* requests the API serves at a time
          Manifest,    \* manifests clients have from elsewhere
          MaxCalls,    \* bound: requests that are ever made
          MaxTransfers,\* bound: host transfers that are ever requested
          MaxFaults    \* bound: handlers that fail between two store calls

Transfer == 1..MaxTransfers
Flag == {"folder", "transfer_frozen", "scope_pending", "scope_approved"}
Status == {"none", "pending", "declined", "frozen", "completed"}
Bundle == [host : User, meta : SUBSET Flag]

ASSUME SessionAssumption ==
    /\ Creator \in User
    /\ Manifest \subseteq Bundle
    /\ MaxCalls \in Nat /\ MaxTransfers \in Nat /\ MaxFaults \in Nat

VARIABLES
    parent,      \* parent[k]: the turn that turn k answers, 0 for a root
    leaf,        \* active_leaf_turn_id, 0 before the first turn
    host,        \* host_user_id
    meta,        \* flags of the session's metadata
    status, to,  \* status[t] and nominee to[t] of transfer t
    bundle,      \* manifests that were handed out
    call,        \* call[r]: the handler that serves request r
    calls, faults,
    \* history
    asked,       \* turns the user made the active leaf
    finished,    \* transfers that were ever completed
    lost         \* a write undid another one that it had not seen

treeVars == <<parent, leaf, asked>>
hostVars == <<host, status, to, bundle, finished>>
metaVars == <<meta, lost>>
vars == <<treeVars, hostVars, metaVars, call, calls, faults>>

\* The store calls of each handler, in their order.
Program ==
    [message  |-> <<"append", "append">>,
     fork     |-> <<"fork">>,
     select   |-> <<"look", "select">>,
     switch   |-> <<"fork", "append">>,
     request  |-> <<"create", "append">>,
     accept   |-> <<"snapshot", "freeze", "read", "write", "append">>,
     export   |-> <<"export">>,
     import   |-> <<"restore", "finish", "seat", "read", "write", "append">>,
     complete |-> <<"check", "finish", "seat", "read", "write">>,
     decline  |-> <<"check", "decline", "append">>,
     publish  |-> <<"read", "write">>,
     approve  |-> <<"read", "write">>]

Op == DOMAIN Program
TreeOp == {"fork", "select", "switch"}
TransferOp == {"accept", "export", "import", "complete", "decline"}

Turn == DOMAIN parent
Children(k) == {c \in Turn : parent[c] = k}

\* What a handler keeps between its store calls: its target (a turn, a
\* transfer or nothing), the nominee, and what it has read or was sent.
Idle == [op |-> "none", at |-> 1, target |-> 0, user |-> Creator, host |-> Creator, meta |-> {}]

Init == /\ parent = <<>>
        /\ leaf = 0
        /\ host = Creator
        /\ meta \in {{}, {"folder"}}
        /\ status = [t \in Transfer |-> "none"]
        /\ to = [t \in Transfer |-> Creator]
        /\ bundle = {}
        /\ call = [r \in Request |-> Idle]
        /\ calls = 0
        /\ faults = 0
        /\ asked = {}
        /\ finished = {}
        /\ lost = FALSE

-----------------------------------------------------------------------------
(* Requests arrive, with arguments their client can know                   *)

Arrive(r, c) ==
    /\ call[r] = Idle
    /\ calls < MaxCalls
    /\ calls' = calls + 1
    /\ call' = [call EXCEPT ![r] = c]
    /\ UNCHANGED <<treeVars, hostVars, metaVars, faults>>

Call(op, target) == [Idle EXCEPT !.op = op, !.target = target]

\* A message, or the scope's publication or approval.
ArrivePlain(r) ==
    \E op \in {"message", "publish", "approve"} : Arrive(r, Call(op, 0))

ArriveTree(r) == \E op \in TreeOp, k \in Turn : Arrive(r, Call(op, k))

ArriveNomination(r) ==
    /\ Cardinality({t \in Transfer : status[t] = "none"})
           > Cardinality({q \in Request : call[q].op = "request" /\ call[q].at = 1})
    /\ \E u \in User : Arrive(r, [Call("request", 0) EXCEPT !.user = u])

\* An import may name any transfer of the session, in whatever state, and the
\* manifest it sends may be another transfer's.
ArriveTransfer(r) ==
    \E t \in Transfer :
        /\ status[t] # "none"
        /\ \/ \E op \in TransferOp \ {"import"} : Arrive(r, Call(op, t))
           \/ \E b \in bundle \cup Manifest :
                  Arrive(r, [Call("import", t) EXCEPT !.host = b.host, !.meta = b.meta])

-----------------------------------------------------------------------------
(* Store calls                                                             *)

At(r, step) == call[r].op \in Op /\ Program[call[r].op][call[r].at] = step

End(r) == call' = [call EXCEPT ![r] = Idle]

\* The handler goes on to its next store call with c, or answers.
Proceed(r, c) ==
    IF c.at = Len(Program[c.op]) THEN End(r)
    ELSE call' = [call EXCEPT ![r] = [c EXCEPT !.at = @ + 1]]

Step(r) == /\ Proceed(r, call[r])
           /\ UNCHANGED <<calls, faults>>

\* Variant: append_turn() reads the leaf without the lock, so that it may be
\* the one that the latest turn has replaced.
AppendTurnUnlocked(r) ==
    /\ At(r, "append")
    /\ \E k \in {leaf} \cup {parent[j] : j \in Turn \cap {leaf}} :
           parent' = Append(parent, k)
    /\ leaf' = Len(parent) + 1
    /\ Step(r)
    /\ UNCHANGED <<asked, hostVars, metaVars>>

\* append_turn(): the session's row is locked, so that the new turn gets the
\* next ordinal and answers the leaf it replaces.
AppendTurn(r) ==
    /\ At(r, "append")
    /\ parent' = Append(parent, leaf)
    /\ leaf' = Len(parent) + 1
    /\ Step(r)
    /\ UNCHANGED <<asked, hostVars, metaVars>>

\* Variant: the turn is not looked up.
ForkAtNextTurn(r) ==
    /\ At(r, "fork")
    /\ leaf' = call[r].target + 1
    /\ asked' = asked \cup {call[r].target + 1}
    /\ Step(r)
    /\ UNCHANGED <<parent, hostVars, metaVars>>

ForkAtTurn(r) ==
    /\ At(r, "fork")
    /\ leaf' = call[r].target
    /\ asked' = asked \cup {call[r].target}
    /\ Step(r)
    /\ UNCHANGED <<parent, hostVars, metaVars>>

\* set_active_leaf() reads the turns and wants a branch tip ...
LookAtLeaf(r) ==
    /\ At(r, "look")
    /\ IF Children(call[r].target) = {} THEN Step(r)
       ELSE End(r) /\ UNCHANGED <<calls, faults>>
    /\ UNCHANGED <<treeVars, hostVars, metaVars>>

\* ... and updates the row, without a lock from one to the other.
SetActiveLeaf(r) ==
    /\ At(r, "select")
    /\ leaf' = call[r].target
    /\ asked' = asked \cup {call[r].target}
    /\ Step(r)
    /\ UNCHANGED <<parent, hostVars, metaVars>>

\* create(): a new row of the transfer table.
CreateTransfer(r) ==
    /\ At(r, "create")
    /\ \E t \in Transfer :
           /\ status[t] = "none"
           /\ \A s \in Transfer : s < t => status[s] # "none"
           /\ status' = [status EXCEPT ![t] = "pending"]
           /\ to' = [to EXCEPT ![t] = call[r].user]
    /\ Step(r)
    /\ UNCHANGED <<treeVars, host, bundle, finished, metaVars>>

\* build_transfer_manifest() in the nominee's accept.
Snapshot(r) ==
    /\ At(r, "snapshot")
    /\ Proceed(r, [call[r] EXCEPT !.host = host, !.meta = meta])
    /\ UNCHANGED <<calls, faults, treeVars, hostVars, metaVars>>

\* accept_and_freeze(): whatever the status is, also after a decline.
Freeze(r) ==
    /\ At(r, "freeze")
    /\ status' = [status EXCEPT ![call[r].target] = "frozen"]
    /\ bundle' = bundle \cup {[host |-> call[r].host, meta |-> call[r].meta]}
    /\ Step(r)
    /\ UNCHANGED <<treeVars, host, to, finished, metaVars>>

\* The bundle of a transfer that was accepted.  The status it is checked for
\* never goes back, so the check and the read that follows it are one step.
Export(r) ==
    /\ At(r, "export")
    /\ bundle' = IF status[call[r].target] \in {"frozen", "completed"}
                 THEN bundle \cup {[host |-> host, meta |-> meta]}
                 ELSE bundle
    /\ Step(r)
    /\ UNCHANGED <<treeVars, host, status, to, finished, metaVars>>

\* import_transfer_bundle() writes back the manifest's host and metadata.
Restore(r) ==
    /\ At(r, "restore")
    /\ host' = call[r].host
    /\ meta' = IF call[r].meta = {} THEN meta ELSE call[r].meta
    /\ Step(r)
    /\ UNCHANGED <<treeVars, status, to, bundle, finished, lost>>

\* complete_host_transfer() wants a frozen transfer, decline a pending one.
CheckStatus(r) ==
    /\ At(r, "check")
    /\ IF status[call[r].target] = (IF call[r].op = "complete" THEN "frozen" ELSE "pending")
       THEN Step(r)
       ELSE End(r) /\ UNCHANGED <<calls, faults>>
    /\ UNCHANGED <<treeVars, hostVars, metaVars>>

\* complete(): whatever the status is by now.
Finish(r) ==
    /\ At(r, "finish")
    /\ status' = [status EXCEPT ![call[r].target] = "completed"]
    /\ finished' = finished \cup {call[r].target}
    /\ Step(r)
    /\ UNCHANGED <<treeVars, host, to, bundle, metaVars>>

\* Variant: an import keeps the host of its manifest.
SeatButImport(r) ==
    /\ At(r, "seat")
    /\ host' = IF call[r].op = "import" THEN host ELSE to[call[r].target]
    /\ Step(r)
    /\ UNCHANGED <<treeVars, status, to, bundle, finished, metaVars>>

Seat(r) ==
    /\ At(r, "seat")
    /\ host' = to[call[r].target]
    /\ Step(r)
    /\ UNCHANGED <<treeVars, status, to, bundle, finished, metaVars>>

\* decline() updates a pending row; there is none if an accept came first.
Decline(r) ==
    /\ At(r, "decline")
    /\ IF status[call[r].target] = "pending"
       THEN /\ status' = [status EXCEPT ![call[r].target] = "declined"]
            /\ Step(r)
       ELSE End(r) /\ UNCHANGED <<status, calls, faults>>
    /\ UNCHANGED <<treeVars, host, to, bundle, finished, metaVars>>

\* get_session() before a write; approve_scope_pending() wants a scope there.
ReadMeta(r) ==
    /\ At(r, "read")
    /\ IF call[r].op = "approve" /\ "scope_pending" \notin meta
       THEN End(r)
       ELSE Proceed(r, [call[r] EXCEPT !.meta = meta])
    /\ UNCHANGED <<calls, faults, treeVars, hostVars, metaVars>>

\* Variant: the end of a transfer leaves its flag.
ChangedKeepsFlag(op, m) ==
    CASE op = "accept"  -> m \cup {"transfer_frozen"}
      [] op = "publish" -> m \cup {"scope_pending"}
      [] op = "approve" -> (m \ {"scope_pending"}) \cup {"scope_approved"}
      [] OTHER -> m

\* What each handler makes of the metadata it has read.
Changed(op, m) ==
    CASE op = "accept"  -> m \cup {"transfer_frozen"}
      [] op \in {"import", "complete"} -> m \ {"transfer_frozen"}
      [] op = "publish" -> m \cup {"scope_pending"}
      [] op = "approve" -> (m \ {"scope_pending"}) \cup {"scope_approved"}

\* update_session(metadata=...) writes the whole column.  An update is lost
\* when it has changed since the read, or the accepted transfer is over.
WriteMeta(r) ==
    /\ At(r, "write")
    /\ meta' = Changed(call[r].op, call[r].meta)
    /\ lost' = \/ lost
               \/ meta # call[r].meta
               \/ call[r].op = "accept" /\ status[call[r].target] # "frozen"
    /\ Step(r)
    /\ UNCHANGED <<treeVars, hostVars>>

\* The process ends, or a store call raises, between two store calls.
HandlerFails(r) ==
    /\ call[r] # Idle
    /\ faults < MaxFaults
    /\ faults' = faults + 1
    /\ End(r)
    /\ UNCHANGED <<treeVars, hostVars, metaVars, calls>>

-----------------------------------------------------------------------------
Next == \E r \in Request :
    \/ ArrivePlain(r) \/ ArriveTree(r) \/ ArriveNomination(r) \/ ArriveTransfer(r)
    \/ AppendTurn(r) \/ ForkAtTurn(r) \/ LookAtLeaf(r) \/ SetActiveLeaf(r)
    \/ CreateTransfer(r) \/ Snapshot(r) \/ Freeze(r) \/ Export(r) \/ Restore(r)
    \/ CheckStatus(r) \/ Finish(r) \/ Seat(r) \/ Decline(r)
    \/ ReadMeta(r) \/ WriteMeta(r)
    \/ HandlerFails(r)

Spec == Init /\ [][Next]_vars

-----------------------------------------------------------------------------
(* Properties                                                              *)

TypeOK ==
    /\ \A k \in Turn : parent[k] \in 0..(k - 1)
    /\ leaf \in 0..Len(parent)
    /\ asked \subseteq Turn
    /\ host \in User /\ finished \subseteq Transfer
    /\ meta \subseteq Flag /\ lost \in BOOLEAN
    /\ status \in [Transfer -> Status] /\ to \in [Transfer -> User]
    /\ bundle \subseteq Bundle
    /\ \A r \in Request : call[r] = Idle \/ call[r].op \in Op
    /\ calls \in 0..MaxCalls /\ faults \in 0..MaxFaults

\* Requests that run at once never branch the conversation: two turns answer
\* the same one only if a user went back to that one.  (A turn that opens the
\* session answers 0: there is only one of them.)
BranchesAreAsked ==
    \A j, k \in Turn : j # k /\ parent[j] = parent[k] => parent[j] \in asked

Quiet == \A r \in Request : call[r] = Idle

With(s) == {t \in Transfer : status[t] = s}

\* Whom the transfers that were completed make the host.
Rightful == IF finished = {} THEN {Creator} ELSE {to[t] : t \in finished}

\* Completions and imports that run at once, of any transfers and with any
\* manifests, leave a host they agree on: when all have come to their end he is
\* the nominee of a transfer that was completed, and the creator before the
\* first.  No manifest decides who he is.
HostIsRightful == Quiet /\ faults = 0 => host \in Rightful

\* The flag that says a transfer froze the session does not outlive it, but
\* for an update that was lost or a handler that failed half way.
FreezeEnds ==
    Quiet /\ faults = 0 /\ ~lost /\ "transfer_frozen" \in meta => With("frozen") # {}
=============================================================================
